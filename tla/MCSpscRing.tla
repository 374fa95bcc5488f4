----------------------------- MODULE MCSpscRing -----------------------------
\* The ring of two slots with cursors that wrap at four.
EXTENDS SpscRing
=============================================================================
