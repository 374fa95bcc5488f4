---------------------------- MODULE MCVenueBook -----------------------------
(* Small instances of the book next to the venue's for TLC.                              *)
EXTENDS VenueBook
=============================================================================
