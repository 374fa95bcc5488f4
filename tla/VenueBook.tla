----------------------------- MODULE VenueBook ------------------------------
(***************************************************************************)
(* The fixed-depth book driven by every sequence of updates, next to the   *)
(* book the venue holds, of which it keeps a part.                         *)
(***************************************************************************)
EXTENDS OrderBook

VARIABLES
  book,      \* bid_, n_bid_, ask_, n_ask_
  resting,   \* history: the venue's size at each side and price
  crowded    \* history: sides on which the venue ever had more than MaxLevels

vars == <<book, resting, crowded>>

VenueLevels(r, side) == {p \in Prices : r[side][p] > 0}

Init ==
  /\ book = EmptyBook
  /\ resting = [s \in Sides |-> [p \in Prices |-> 0]]
  /\ crowded = {}

Apply(side, price, new_size) ==
  /\ book' = ApplyLevel(book, side, price, new_size)
  /\ resting' = [resting EXCEPT ![side][price] = new_size]
  /\ crowded' = crowded \cup
       {s \in Sides : Cardinality(VenueLevels(resting', s)) > MaxLevels}

\* clear(), at the start of a rebuild.
Clear ==
  /\ book' = EmptyBook
  /\ resting' = [s \in Sides |-> [p \in Prices |-> 0]]
  /\ crowded' = {}

Next ==
  \/ \E side \in Sides, price \in Prices, new_size \in Sizes :
       Apply(side, price, new_size)
  \/ Clear

Spec == Init /\ [][Next]_vars

-----------------------------------------------------------------------------
(* Properties                                                              *)

\* A side is a short array of levels.
TypeOK ==
  /\ \A s \in Sides : book[s] \in Seq(Level) /\ Len(book[s]) <= MaxLevels
  /\ resting \in [Sides -> [Prices -> Sizes]]
  /\ crowded \subseteq Sides

\* Best level at index 0, every later one strictly worse: no price twice
\* (lines 14-15).
BestFirst ==
  \A s \in Sides : \A i, j \in DOMAIN book[s] :
    i < j => Betters(s, book[s][i].price, book[s][j].price)

\* A level that is kept shows the venue's resting size at its price, whatever
\* was evicted or dropped before (line 12).
KeptLevelsExact ==
  \A s \in Sides : \A i \in DOMAIN book[s] :
    /\ book[s][i].size > 0
    /\ book[s][i].size = resting[s][book[s][i].price]

\* While the venue's side fits the array, the book is the venue's book.
ExactWithinDepth ==
  \A s \in Sides \ crowded :
    {book[s][i].price : i \in DOMAIN book[s]} = VenueLevels(resting, s)

\* "the best `MaxLevels` price levels per side" (line 11): no level of the
\* venue that is missing here betters one that is kept, and none is missing
\* while there is room.
BestLevels ==
  \A s \in Sides :
    LET kept == {book[s][i].price : i \in DOMAIN book[s]} IN
    \A p \in VenueLevels(resting, s) \ kept :
      /\ Len(book[s]) = MaxLevels
      /\ \A q \in kept : Betters(s, q, p)
=============================================================================
