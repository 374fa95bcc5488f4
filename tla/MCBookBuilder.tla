--------------------------- MODULE MCBookBuilder ----------------------------
(***************************************************************************)
(* BookBuilder over the fixed-depth OrderBook, on a venue whose book fits  *)
(* the array.                                                              *)
(***************************************************************************)
EXTENDS BookBuilder

OB == INSTANCE OrderBook WITH MaxLevels <- 2, Prices <- {1, 2}, MaxSize <- 1

MCChange == {[side |-> "bid", price |-> 2, size |-> s] : s \in {0, 1}}
MCApply(b, c) == OB!ApplyUpdate(b, c)

MCLevels == {<<>>} \cup {<<[price |-> p, size |-> 1]>> : p \in {1, 2}}
              \cup {<<[price |-> 2, size |-> 1], [price |-> 1, size |-> 1]>>}
MCInitialBook == OB!EmptyBook
MCBook == {[bid |-> lv, ask |-> <<>>] : lv \in MCLevels}

MCLevelLists(b) == OB!Listings(b)
MCFromLevels(lv) == OB!Rebuilt(lv)
=============================================================================
