----------------------------- MODULE OrderBook ------------------------------
(***************************************************************************)
(* The fixed-depth L2 book (src/book/order_book.h): per side, at most      *)
(* MaxLevels price levels kept best first in an array.  A side is the      *)
(* sequence of its live array entries.                                     *)
(***************************************************************************)
EXTENDS Integers, SequencesExt

CONSTANTS
  MaxLevels,   \* capacity of a side (template parameter)
  Prices,      \* prices on the tick grid
  MaxSize      \* bound: largest resting size

ASSUME OrderBookAssumption ==
  MaxLevels \in Nat \ {0} /\ Prices \subseteq Int /\ MaxSize \in Nat \ {0}

Sides == {"bid", "ask"}
Sizes == 0..MaxSize
Level == [price : Prices, size : Sizes]

\* descending ? lv[pos].price > price : lv[pos].price < price
Betters(side, p, q) == IF side = "bid" THEN p > q ELSE p < q

EmptyBook == [s \in Sides |-> <<>>]

\* Fault: a new level goes to the end.
InsertionPointEnd(lv, side, price) == Len(lv) + 1

\* The first index at which price does not rank behind the level kept there.
InsertionPoint(lv, side, price) ==
  Min({i \in DOMAIN lv : ~Betters(side, lv[i].price, price)} \cup {Len(lv) + 1})

\* Faults: an update leaves the size; the last slot is not used.
ApplySideKeepsSize(lv, side, price, new_size) ==
  LET i == SelectInSeq(lv, LAMBDA l : l.price = price)
      wider == InsertAt(lv, InsertionPoint(lv, side, price),
                        [price |-> price, size |-> new_size])
  IN  IF i # 0
      THEN IF new_size = 0 THEN RemoveAt(lv, i) ELSE lv
      ELSE IF new_size = 0 THEN lv ELSE SubSeq(wider, 1, Min({Len(wider), MaxLevels}))
ApplySideDropsNew(lv, side, price, new_size) ==
  LET i == SelectInSeq(lv, LAMBDA l : l.price = price) IN
  IF i # 0
  THEN IF new_size = 0 THEN RemoveAt(lv, i) ELSE [lv EXCEPT ![i].size = new_size]
  ELSE IF new_size = 0 \/ Len(lv) >= MaxLevels - 1 THEN lv
       ELSE InsertAt(lv, InsertionPoint(lv, side, price), [price |-> price, size |-> new_size])

\* apply_side(): set, remove or insert one level; a full side loses its worst.
ApplySide(lv, side, price, new_size) ==
  LET i == SelectInSeq(lv, LAMBDA l : l.price = price)
      wider == InsertAt(lv, InsertionPoint(lv, side, price),
                        [price |-> price, size |-> new_size])
  IN  IF i # 0
      THEN IF new_size = 0 THEN RemoveAt(lv, i) ELSE [lv EXCEPT ![i].size = new_size]
      ELSE IF new_size = 0 THEN lv ELSE SubSeq(wider, 1, Min({Len(wider), MaxLevels}))

\* apply()
ApplyLevel(b, side, price, new_size) ==
  [b EXCEPT ![side] = ApplySide(@, side, price, new_size)]

\* What a BookDelta or a SnapshotLevel says of the book, and apply() of it.
Update == [side : Sides, price : Prices, size : Sizes]
ApplyUpdate(b, u) == ApplyLevel(b, u.side, u.price, u.size)

\* A snapshot of a book lists its levels in any order.
Listed(b) ==
  UNION {{[side |-> s, price |-> b[s][i].price, size |-> b[s][i].size] : i \in DOMAIN b[s]} :
           s \in Sides}
Listings(b) == SetToSeqs(Listed(b))

\* clear(), then apply() of each level of a snapshot.
Rebuilt(levels) ==
  LET after[k \in 0..Len(levels)] ==
        IF k = 0 THEN EmptyBook ELSE ApplyUpdate(after[k - 1], levels[k])
  IN  after[Len(levels)]
=============================================================================
