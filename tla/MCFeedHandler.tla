--------------------------- MODULE MCFeedHandler ----------------------------
\* Publisher, two lossy lines, handler and arbitrator, for small streams.
EXTENDS FeedHandler
=============================================================================
