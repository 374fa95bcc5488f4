-------------------------- MODULE MCFeedArbitrator --------------------------
(* Small instances of the arbitrator for TLC.                              *)
EXTENDS FeedArbitrator
=============================================================================
