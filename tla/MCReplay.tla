------------------------------ MODULE MCReplay -------------------------------
(***************************************************************************)
(* Three symbols for a table of two slots, in windows of two trades, two   *)
(* quotes and a bar: the prices and the equal sizes make every vwap a      *)
(* point of the grid.                                                      *)
(***************************************************************************)
EXTENDS Replay

MCSymbols == <<"A", "B", "C">>
MCSweep == <<1, 3>>
\* The ends of the range of the moves.
MCJitters == {-(Dollar \div 2), Dollar \div 2}
MCUsualJitter == -(Dollar \div 2)
\* One thread has all; of three, the second has nothing to do.
MCOwner(k, T) == IF k = "B" THEN T ELSE 1
=============================================================================
