--------------------------- MODULE VenueBookProofs ---------------------------
(***************************************************************************)
(* For every depth, set of prices and sequence of updates the fixed-depth  *)
(* book keeps its levels best first and at the venue's sizes; a removal    *)
(* that uncovers a level is all that makes it miss one of the best; and it *)
(* is a book as BookBuilder assumes it.                                    *)
(***************************************************************************)
EXTENDS VenueBook, FiniteSetTheorems, TLAPS

\* A set of numbers has a least one.
LEMMA LeastNumber ==
  ASSUME NEW S \in SUBSET Nat, S # {}
  PROVE  Min(S) \in S /\ \A y \in S : Min(S) <= y
<1> DEFINE upto == {0..x : x \in S}
<1>1. upto \subseteq FiniteSubsetsOf(Nat) /\ upto # {}
  <2>1. ASSUME NEW x \in S PROVE 0..x \in SUBSET Nat /\ IsFiniteSet(0..x)
    BY FS_Interval
  <2> QED
    BY <2>1, Zenon DEF FiniteSubsetsOf
<1> HIDE DEF upto
<1>2. PICK X \in upto : \A Y \in upto : <<Y, X>> \notin StrictSubsetOrdering(Nat)
  BY <1>1, FS_StrictSubsetOrderingWellFounded, WFMin
<1>3. PICK x \in S : X = 0..x
  BY DEF upto
<1>4. ASSUME NEW y \in S, y < x PROVE FALSE
  <2>1. 0..y \in SUBSET Nat /\ X \in SUBSET Nat /\ 0..y \subseteq X /\ 0..y # X
    BY <1>3, <1>4
  <2>2. 0..y \in upto
    BY DEF upto
  <2> QED
    BY <1>2, <2>1, <2>2, Zenon DEF StrictSubsetOrdering
<1>5. \A y \in S : x <= y
  BY <1>4
<1> QED
  BY <1>5, Zenon DEF Min

\* Two sequences, one after the other.
LEMMA Joined ==
  ASSUME NEW S, NEW p \in Seq(S), NEW q \in Seq(S)
  PROVE  /\ p \o q \in Seq(S) /\ Len(p \o q) = Len(p) + Len(q)
         /\ \A j \in 1..Len(p)+Len(q) : (p \o q)[j] = IF j <= Len(p) THEN p[j] ELSE q[j - Len(p)]
<1>1. p \o q \in Seq(S) /\ Len(p \o q) = Len(p) + Len(q)
  OBVIOUS
<1>2. \A j \in 1..Len(p)+Len(q) : (p \o q)[j] = IF j <= Len(p) THEN p[j] ELSE q[j - Len(p)]
  OBVIOUS
<1> QED
  BY <1>1, <1>2, Zenon

\* What InsertAt() and RemoveAt() hold at each place.
LEMMA InsertAtElements ==
  ASSUME NEW S, NEW s \in Seq(S), NEW e \in S, NEW i \in 1..Len(s)+1
  PROVE  /\ InsertAt(s, i, e) \in Seq(S)
         /\ Len(InsertAt(s, i, e)) = Len(s) + 1
         /\ \A j \in 1..Len(s)+1 :
              InsertAt(s, i, e)[j] = IF j < i THEN s[j] ELSE IF j = i THEN e ELSE s[j - 1]
<1>1. Len(s) \in Nat /\ i \in Nat
  OBVIOUS
<1> DEFINE a == SubSeq(s, 1, i - 1)
           b == SubSeq(s, i, Len(s))
<1>2. a \in Seq(S) /\ Len(a) = i - 1 /\ \A j \in 1..i-1 : a[j] = s[j]
  BY <1>1
<1>3. /\ b \in Seq(S) /\ Len(b) = (Len(s) - i) + 1
      /\ \A j \in 1..(Len(s) - i) + 1 : b[j] = s[(i + j) - 1]
  BY <1>1
<1> HIDE DEF a, b
<1>4. /\ a \o <<e>> \in Seq(S) /\ Len(a \o <<e>>) = i
      /\ \A j \in 1..i-1 : (a \o <<e>>)[j] = s[j]
      /\ (a \o <<e>>)[i] = e
  BY <1>1, <1>2
<1> DEFINE c == a \o <<e>>
<1> HIDE DEF c
<1>5. /\ c \o b \in Seq(S) /\ Len(c \o b) = Len(s) + 1
      /\ \A j \in 1..Len(s)+1 : (c \o b)[j] = IF j <= i THEN c[j] ELSE b[j - i]
  <2>1. c \in Seq(S) /\ Len(c) = i /\ b \in Seq(S) /\ Len(b) = (Len(s) - i) + 1
    BY <1>3, <1>4 DEF c
  <2>2. i + ((Len(s) - i) + 1) = Len(s) + 1
    BY <1>1
  <2>3. /\ c \o b \in Seq(S) /\ Len(c \o b) = Len(c) + Len(b)
        /\ \A j \in 1..Len(c)+Len(b) : (c \o b)[j] = IF j <= Len(c) THEN c[j] ELSE b[j - Len(c)]
    BY <2>1, Joined, Zenon
  <2>4. Len(c) + Len(b) = Len(s) + 1
    BY <2>1, <2>2, Zenon
  <2>5. ASSUME NEW j \in 1..Len(s)+1 PROVE (c \o b)[j] = IF j <= i THEN c[j] ELSE b[j - i]
    <3>1. j \in 1..Len(c)+Len(b)
      BY <2>4, Zenon
    <3>2. (c \o b)[j] = IF j <= Len(c) THEN c[j] ELSE b[j - Len(c)]
      BY <2>3, <3>1, Zenon
    <3> QED
      BY <2>1, <3>2, Zenon
  <2> QED
    BY <2>3, <2>4, <2>5, Zenon
<1>6. InsertAt(s, i, e) = c \o b
  BY DEF InsertAt, a, b, c
<1>7. (\A j \in 1..i-1 : c[j] = s[j]) /\ c[i] = e
  BY <1>4, Zenon DEF c
<1>8. ASSUME NEW j \in 1..Len(s)+1
      PROVE  (c \o b)[j] = IF j < i THEN s[j] ELSE IF j = i THEN e ELSE s[j - 1]
  <2>1. (c \o b)[j] = IF j <= i THEN c[j] ELSE b[j - i]
    BY <1>5, Zenon
  <2>2. j \in Nat /\ j >= 1 /\ j <= Len(s) + 1
    BY <1>1
  <2>3. CASE j < i
    <3>1. j \in 1..i-1 /\ j <= i
      BY <1>1, <2>2, <2>3
    <3> QED
      BY <1>7, <2>1, <2>3, <3>1, Zenon
  <2>4. CASE j = i
    <3>1. j <= i /\ ~(j < i)
      BY <1>1, <2>4
    <3> QED
      BY <1>7, <2>1, <2>4, <3>1, Zenon
  <2>5. CASE j > i
    <3>1. ~(j <= i) /\ ~(j < i) /\ j # i /\ j - i \in 1..(Len(s) - i) + 1 /\ (i + (j - i)) - 1 = j - 1
      BY <1>1, <2>2, <2>5
    <3>2. b[j - i] = s[(i + (j - i)) - 1]
      BY <1>3, <3>1, Zenon
    <3> QED
      BY <2>1, <3>1, <3>2, Zenon
  <2>6. j < i \/ j = i \/ j > i
    BY <1>1, <2>2
  <2> QED
    BY <2>3, <2>4, <2>5, <2>6, Zenon
<1> QED
  BY <1>5, <1>6, <1>8, Zenon

\* What is left of a sequence without its i-th element.
LEMMA RemoveAtElements ==
  ASSUME NEW S, NEW s \in Seq(S), NEW i \in 1..Len(s)
  PROVE  /\ RemoveAt(s, i) \in Seq(S)
         /\ Len(RemoveAt(s, i)) = Len(s) - 1
         /\ \A j \in 1..Len(s)-1 : RemoveAt(s, i)[j] = IF j < i THEN s[j] ELSE s[j + 1]
<1>1. Len(s) \in Nat /\ i \in Nat
  OBVIOUS
<1> DEFINE a == SubSeq(s, 1, i - 1)
           b == SubSeq(s, i + 1, Len(s))
<1>2. a \in Seq(S) /\ Len(a) = i - 1 /\ \A j \in 1..i-1 : a[j] = s[j]
  BY <1>1
<1>3. /\ b \in Seq(S) /\ Len(b) = Len(s) - i
      /\ \A j \in 1..Len(s)-i : b[j] = s[i + j]
  BY <1>1
<1> HIDE DEF a, b
<1>4. (i - 1) + (Len(s) - i) = Len(s) - 1
  BY <1>1
<1>5. /\ a \o b \in Seq(S) /\ Len(a \o b) = Len(s) - 1
      /\ \A j \in 1..Len(s)-1 : (a \o b)[j] = IF j < i THEN a[j] ELSE b[(j - i) + 1]
  <2>1. a \in Seq(S) /\ Len(a) = i - 1 /\ b \in Seq(S) /\ Len(b) = Len(s) - i
    BY <1>2, <1>3
  <2>2. a \o b \in Seq(S) /\ Len(a \o b) = Len(s) - 1
    <3>1. a \o b \in Seq(S) /\ Len(a \o b) = Len(a) + Len(b)
      BY <2>1, Joined, Zenon
    <3> QED
      BY <1>4, <2>1, <3>1, Zenon
  <2>3. ASSUME NEW j \in 1..Len(s)-1
        PROVE  (a \o b)[j] = IF j < i THEN a[j] ELSE b[(j - i) + 1]
    <3>1. j \in 1..Len(a)+Len(b) /\ (j <= Len(a) <=> j < i) /\ j - Len(a) = (j - i) + 1
      BY <1>1, <2>1
    <3>2. (a \o b)[j] = IF j <= Len(a) THEN a[j] ELSE b[j - Len(a)]
      BY <2>1, <3>1, Joined, Zenon
    <3> QED
      BY <3>1, <3>2
  <2> QED
    BY <2>2, <2>3
<1>6. RemoveAt(s, i) = a \o b
  BY DEF RemoveAt, a, b
<1>7. ASSUME NEW j \in 1..Len(s)-1
      PROVE  (a \o b)[j] = IF j < i THEN s[j] ELSE s[j + 1]
  <2>1. (a \o b)[j] = IF j < i THEN a[j] ELSE b[(j - i) + 1]
    BY <1>5, Zenon
  <2>2. j \in Nat /\ j >= 1 /\ j <= Len(s) - 1
    BY <1>1
  <2>3. CASE j < i
    <3>1. j \in 1..i-1
      BY <1>1, <2>2, <2>3
    <3> QED
      BY <1>2, <2>1, <2>3, <3>1, Zenon
  <2>4. CASE ~(j < i)
    <3>1. (j - i) + 1 \in 1..Len(s)-i /\ i + ((j - i) + 1) = j + 1
      BY <1>1, <2>2, <2>4
    <3>2. b[(j - i) + 1] = s[i + ((j - i) + 1)]
      BY <1>3, <3>1, Zenon
    <3> QED
      BY <2>1, <2>4, <3>1, <3>2, Zenon
  <2> QED
    BY <2>3, <2>4, Zenon
<1> QED
  BY <1>5, <1>6, <1>7, Zenon

-----------------------------------------------------------------------------
(* One side                                                                *)

\* Best first, with room for MaxLevels.
SideOK(lv, side) ==
  /\ lv \in Seq(Level) /\ Len(lv) <= MaxLevels
  /\ \A i, j \in 1..Len(lv) : i < j => Betters(side, lv[i].price, lv[j].price)

Kept(lv) == {lv[i].price : i \in 1..Len(lv)}

\* The search for a level: the place of its price, or 0.
FindLevel(lv, price) == SelectInSeq(lv, LAMBDA l : l.price = price)

\* The search of apply_side() finds the level at a price if there is one.
LEMMA Found ==
  ASSUME NEW lv \in Seq(Level), NEW price
  PROVE  \/ /\ FindLevel(lv, price) \in 1..Len(lv)
            /\ lv[FindLevel(lv, price)].price = price
         \/ FindLevel(lv, price) = 0 /\ price \notin Kept(lv)
<1> DEFINE I == {i \in 1..Len(lv) : lv[i].price = price}
<1>1. FindLevel(lv, price) = IF I # {} THEN Min(I) ELSE 0
  BY DEF FindLevel, SelectInSeq
<1>2. CASE I # {}
  <2>1. I \in SUBSET Nat
    OBVIOUS
  <2>2. Min(I) \in I
    BY <1>2, <2>1, LeastNumber, Zenon
  <2> QED
    BY <1>1, <1>2, <2>2
<1>3. CASE I = {}
  BY <1>1, <1>3 DEF Kept
<1> QED
  BY <1>2, <1>3

\* The insertion point separates the better levels from the worse ones.
LEMMA InsertionPointSplits ==
  ASSUME NEW side \in Sides, NEW lv, SideOK(lv, side), NEW price \in Prices, price \notin Kept(lv)
  PROVE  /\ InsertionPoint(lv, side, price) \in 1..Len(lv)+1
         /\ \A j \in 1..Len(lv) :
              IF j < InsertionPoint(lv, side, price)
              THEN Betters(side, lv[j].price, price) ELSE Betters(side, price, lv[j].price)
<1> DEFINE I == {i \in DOMAIN lv : ~Betters(side, lv[i].price, price)} \cup {Len(lv) + 1}
           p == InsertionPoint(lv, side, price)
<1>1. lv \in Seq(Level) /\ Len(lv) \in Nat /\ DOMAIN lv = 1..Len(lv)
  BY DEF SideOK
<1>2. p \in I /\ \A y \in I : p <= y
  <2>1. I \in SUBSET Nat /\ I # {} /\ p = Min(I)
    BY <1>1 DEF InsertionPoint
  <2> HIDE DEF I, p
  <2> QED
    BY <2>1, LeastNumber, Zenon
<1>3. p \in 1..Len(lv)+1
  BY <1>1, <1>2
<1>4. ASSUME NEW j \in 1..Len(lv), j < p PROVE Betters(side, lv[j].price, price)
  BY <1>1, <1>2, <1>3, <1>4
<1>5. ASSUME NEW j \in 1..Len(lv), ~(j < p) PROVE Betters(side, price, lv[j].price)
  <2>1. p \in 1..Len(lv) /\ ~Betters(side, lv[p].price, price)
    BY <1>1, <1>2, <1>3, <1>5
  <2>2. /\ lv[p].price \in Int /\ lv[j].price \in Int /\ price \in Int
        /\ lv[p].price # price
    <3>1. lv[p] \in Level /\ lv[j] \in Level
      BY <1>1, <2>1
    <3>2. lv[p].price \in Kept(lv)
      BY <2>1 DEF Kept
    <3> HIDE DEF p
    <3> QED
      BY <3>1, <3>2, OrderBookAssumption, Zenon DEF Level
  <2>3. Betters(side, price, lv[p].price)
    BY <2>1, <2>2 DEF Betters
  <2>4. p = j \/ Betters(side, lv[p].price, lv[j].price)
    BY <1>1, <1>3, <1>5, <2>1 DEF SideOK
  <2> QED
    BY <2>2, <2>3, <2>4 DEF Betters
<1> QED
  BY <1>3, <1>4, <1>5

-----------------------------------------------------------------------------
(* apply_side()                                                            *)

\* w is lv with another size in level i; w is lv without level i.
Updates(w, lv, i, size) ==
  /\ Len(w) = Len(lv)
  /\ \A j \in 1..Len(lv) :
       w[j].price = lv[j].price /\ w[j].size = IF j = i THEN size ELSE lv[j].size
Removes(w, lv, i) ==
  /\ \A j \in 1..Len(w) : \E l \in 1..Len(lv) : l # i /\ w[j] = lv[l]
  /\ \A l \in 1..Len(lv) : l # i => \E j \in 1..Len(w) : w[j] = lv[l]

\* Setting the size of a level leaves the order as it is.
LEMMA UpdateSide ==
  ASSUME NEW side \in Sides, NEW lv, SideOK(lv, side), NEW i \in 1..Len(lv),
         NEW size \in Sizes, NEW w, w = [lv EXCEPT ![i].size = size]
  PROVE  SideOK(w, side) /\ Updates(w, lv, i, size)
<1>1. lv \in Seq(Level) /\ Len(lv) \in Nat
  BY DEF SideOK
<1>2. lv[i] \in Level
  BY <1>1
<1>3. [lv[i] EXCEPT !.size = size] = [price |-> lv[i].price, size |-> size]
  BY <1>2 DEF Level
<1>4. w = [lv EXCEPT ![i] = [price |-> lv[i].price, size |-> size]]
  BY <1>3, Zenon
<1>5. w \in Seq(Level) /\ Len(w) = Len(lv)
  BY <1>1, <1>2, <1>4 DEF Level
<1>6. \A j \in 1..Len(lv) :
        /\ w[j].price = lv[j].price
        /\ w[j].size = IF j = i THEN size ELSE lv[j].size
  BY <1>1, <1>4
<1>7. SideOK(w, side)
  BY <1>5, <1>6 DEF SideOK
<1> QED
  BY <1>5, <1>6, <1>7 DEF Updates

\* Removing a level leaves the others in their order.
LEMMA RemoveSide ==
  ASSUME NEW side \in Sides, NEW lv, SideOK(lv, side), NEW i \in 1..Len(lv),
         NEW w, w = RemoveAt(lv, i)
  PROVE  SideOK(w, side) /\ Removes(w, lv, i)
<1>1. lv \in Seq(Level) /\ Len(lv) \in Nat /\ Len(lv) <= MaxLevels
  BY DEF SideOK
<1>2. /\ w \in Seq(Level) /\ Len(w) = Len(lv) - 1
      /\ \A j \in 1..Len(lv)-1 : w[j] = IF j < i THEN lv[j] ELSE lv[j + 1]
  BY <1>1, RemoveAtElements, Zenon
<1> DEFINE From(j) == IF j < i THEN j ELSE j + 1
<1>3. \A j \in 1..Len(w) : From(j) \in 1..Len(lv) /\ From(j) # i /\ w[j] = lv[From(j)]
  BY <1>1, <1>2
<1>4. \A j, m \in 1..Len(w) : j < m => From(j) < From(m)
  BY <1>1, <1>2
<1>5. SideOK(w, side)
  <2>1. Len(w) <= MaxLevels
    BY <1>1, <1>2, OrderBookAssumption
  <2>2. ASSUME NEW j \in 1..Len(w), NEW m \in 1..Len(w), j < m
        PROVE  Betters(side, w[j].price, w[m].price)
    <3> HIDE DEF From
    <3> QED
      BY <1>3, <1>4, <2>2 DEF SideOK
  <2> QED
    BY <1>2, <2>1, <2>2 DEF SideOK
<1>6. ASSUME NEW l \in 1..Len(lv), l # i PROVE \E j \in 1..Len(w) : w[j] = lv[l]
  <2>1. CASE l < i
    BY <1>1, <1>2, <2>1
  <2>2. CASE l > i
    <3>1. l - 1 \in 1..Len(w) /\ ~(l - 1 < i) /\ (l - 1) + 1 = l
      BY <1>1, <1>2, <2>2
    <3> QED
      BY <1>2, <3>1, Zenon
  <2> QED
    BY <1>1, <1>6, <2>1, <2>2
<1> HIDE DEF From
<1> QED
  BY <1>3, <1>5, <1>6, Zenon DEF Removes

\* Inserting a level at its place and cutting the side at MaxLevels.
Inserted(lv, side, level) ==
  LET wider == InsertAt(lv, InsertionPoint(lv, side, level.price), level)
  IN  SubSeq(wider, 1, Min({Len(wider), MaxLevels}))

\* A level is in the side, or the side is full of better ones.
InOrBehind(w, side, e) ==
  \/ \E j \in 1..Len(w) : w[j] = e
  \/ Len(w) = MaxLevels /\ \A j \in 1..Len(w) : Betters(side, w[j].price, e.price)

\* What an insertion leaves: nothing else comes in, nothing goes while there is room, and
\* what goes is worse than what stays.
Inserts(w, lv, side, level) ==
  /\ \A j \in 1..Len(w) : w[j] = level \/ \E l \in 1..Len(lv) : w[j] = lv[l]
  /\ Len(lv) < MaxLevels =>
       /\ \E j \in 1..Len(w) : w[j] = level
       /\ \A l \in 1..Len(lv) : \E j \in 1..Len(w) : w[j] = lv[l]
  /\ InOrBehind(w, side, level)
  /\ \A l \in 1..Len(lv) : InOrBehind(w, side, lv[l])

\* A new level leaves the side in order (the insertion branch of apply_side()).
LEMMA InsertSide ==
  ASSUME NEW side \in Sides, NEW lv, SideOK(lv, side), NEW level \in Level,
         level.price \notin Kept(lv), NEW w, w = Inserted(lv, side, level)
  PROVE  SideOK(w, side) /\ Inserts(w, lv, side, level)
<1> DEFINE p == InsertionPoint(lv, side, level.price)
           wider == InsertAt(lv, p, level)
           m == Min({Len(wider), MaxLevels})
<1>1. lv \in Seq(Level) /\ Len(lv) \in Nat /\ Len(lv) <= MaxLevels /\ MaxLevels \in Nat
  BY OrderBookAssumption DEF SideOK
<1>2. level.price \in Prices
  BY DEF Level
<1>3. /\ p \in 1..Len(lv)+1
      /\ \A j \in 1..Len(lv) : IF j < p THEN Betters(side, lv[j].price, level.price)
                               ELSE Betters(side, level.price, lv[j].price)
  BY <1>2, InsertionPointSplits
<1> HIDE DEF p
<1>4. /\ wider \in Seq(Level) /\ Len(wider) = Len(lv) + 1
      /\ \A j \in 1..Len(lv)+1 :
           wider[j] = IF j < p THEN lv[j] ELSE IF j = p THEN level ELSE lv[j - 1]
  BY <1>1, <1>3, InsertAtElements
<1> HIDE DEF wider
<1>5. /\ m \in 1..Len(lv)+1 /\ m <= MaxLevels /\ (Len(lv) < MaxLevels => m = Len(lv) + 1)
      /\ m = Len(lv) + 1 \/ m = MaxLevels
  <2>1. {Len(wider), MaxLevels} \in SUBSET Nat
    BY <1>1, <1>4
  <2>2. m \in {Len(wider), MaxLevels} /\ m <= Len(wider) /\ m <= MaxLevels
    BY <2>1, LeastNumber, Zenon
  <2> HIDE DEF m
  <2> QED
    BY <1>1, <1>4, <2>2, OrderBookAssumption
<1> HIDE DEF m
<1>6. w = SubSeq(wider, 1, m)
  BY DEF Inserted, p, wider, m
<1>7. w \in Seq(Level) /\ Len(w) = m /\ \A j \in 1..m : w[j] = wider[j]
  BY <1>1, <1>4, <1>5, <1>6
<1>8. ASSUME NEW i \in 1..Len(lv)+1, NEW j \in 1..Len(lv)+1, i < j
      PROVE  Betters(side, wider[i].price, wider[j].price)
  <2>1. CASE i # p /\ j # p
    <3> DEFINE From(x) == IF x < p THEN x ELSE x - 1
    <3>1. /\ From(i) \in 1..Len(lv) /\ From(j) \in 1..Len(lv) /\ From(i) < From(j)
          /\ wider[i] = lv[From(i)] /\ wider[j] = lv[From(j)]
      BY <1>1, <1>3, <1>4, <1>8, <2>1
    <3> HIDE DEF From
    <3> QED
      BY <3>1 DEF SideOK
  <2>2. CASE i = p
    <3>1. j - 1 \in 1..Len(lv) /\ ~(j - 1 < p) /\ wider[i] = level /\ wider[j] = lv[j - 1]
      BY <1>1, <1>3, <1>4, <1>8, <2>2
    <3> QED
      BY <1>3, <3>1
  <2>3. CASE j = p
    <3>1. i \in 1..Len(lv) /\ i < p /\ wider[i] = lv[i] /\ wider[j] = level
      BY <1>1, <1>3, <1>4, <1>8, <2>3
    <3> QED
      BY <1>3, <3>1
  <2> QED
    BY <2>1, <2>2, <2>3
<1>9. SideOK(w, side)
  <2>1. \A j \in 1..m : j \in 1..Len(lv)+1
    BY <1>1, <1>5
  <2> QED
    BY <1>5, <1>7, <1>8, <2>1 DEF SideOK
<1>10. ASSUME NEW j \in 1..Len(w) PROVE w[j] = level \/ \E l \in 1..Len(lv) : w[j] = lv[l]
  <2>1. j \in 1..Len(lv)+1 /\ w[j] = wider[j]
    BY <1>1, <1>5, <1>7
  <2>2. CASE j < p
    BY <1>1, <1>3, <1>4, <2>1, <2>2
  <2>3. CASE j = p
    BY <1>3, <1>4, <2>1, <2>3
  <2>4. CASE j > p
    <3>1. j - 1 \in 1..Len(lv) /\ wider[j] = lv[j - 1]
      BY <1>1, <1>3, <1>4, <2>1, <2>4
    <3> QED
      BY <2>1, <3>1
  <2> QED
    BY <1>3, <2>1, <2>2, <2>3, <2>4
<1>11. ASSUME Len(lv) < MaxLevels
       PROVE  /\ \E j \in 1..Len(w) : w[j] = level
              /\ \A l \in 1..Len(lv) : \E j \in 1..Len(w) : w[j] = lv[l]
  <2>1. Len(w) = Len(lv) + 1 /\ \A j \in 1..Len(lv)+1 : w[j] = wider[j]
    BY <1>5, <1>7, <1>11
  <2>2. w[p] = level
    BY <1>3, <1>4, <2>1
  <2>3. ASSUME NEW l \in 1..Len(lv) PROVE \E j \in 1..Len(w) : w[j] = lv[l]
    <3>1. CASE l < p
      BY <1>1, <1>4, <2>1, <3>1
    <3>2. CASE ~(l < p)
      <4>1. l + 1 \in 1..Len(w) /\ wider[l + 1] = lv[l]
        BY <1>1, <1>3, <1>4, <2>1, <3>2
      <4> QED
        BY <2>1, <4>1
    <3> QED
      BY <3>1, <3>2
  <2> QED
    BY <1>3, <2>1, <2>2, <2>3
<1>12. ASSUME NEW k \in 1..Len(lv)+1 PROVE InOrBehind(w, side, wider[k])
  <2>1. CASE k <= m
    BY <1>5, <1>7, <2>1 DEF InOrBehind
  <2>2. CASE k > m
    <3>1. m = MaxLevels
      BY <1>1, <1>5, <2>2
    <3>2. ASSUME NEW j \in 1..Len(w) PROVE Betters(side, w[j].price, wider[k].price)
      <4>1. j \in 1..Len(lv)+1 /\ j < k /\ w[j] = wider[j]
        BY <1>1, <1>5, <1>7, <2>2
      <4> QED
        BY <1>8, <4>1
    <3> QED
      BY <1>7, <3>1, <3>2 DEF InOrBehind
  <2> QED
    BY <1>5, <2>1, <2>2
<1>13. InOrBehind(w, side, level)
  <2>1. wider[p] = level
    BY <1>3, <1>4
  <2> QED
    BY <1>3, <1>12, <2>1
<1>14. ASSUME NEW l \in 1..Len(lv) PROVE InOrBehind(w, side, lv[l])
  <2>1. \E k \in 1..Len(lv)+1 : wider[k] = lv[l]
    <3>1. CASE l < p
      BY <1>1, <1>4, <3>1
    <3>2. CASE ~(l < p)
      <4>1. l + 1 \in 1..Len(lv)+1 /\ wider[l + 1] = lv[l]
        BY <1>1, <1>3, <1>4, <3>2
      <4> QED
        BY <4>1
    <3> QED
      BY <3>1, <3>2
  <2> QED
    BY <1>12, <2>1
<1> QED
  BY <1>9, <1>10, <1>11, <1>13, <1>14 DEF Inserts

\* The prices of a side are numbers, and no two are the same.
LEMMA PricesDistinct ==
  ASSUME NEW side \in Sides, NEW lv, SideOK(lv, side)
  PROVE  \A j, l \in 1..Len(lv) : lv[j].price = lv[l].price => j = l
<1>1. lv \in Seq(Level) /\ Len(lv) \in Nat
  BY DEF SideOK
<1>2. ASSUME NEW j \in 1..Len(lv) PROVE lv[j].price \in Int
  <2>1. lv[j] \in Level
    BY <1>1
  <2> QED
    BY <2>1, OrderBookAssumption, Zenon DEF Level
<1>3. ASSUME NEW j \in 1..Len(lv), NEW l \in 1..Len(lv), j < l
      PROVE  lv[j].price # lv[l].price
  <2>1. Betters(side, lv[j].price, lv[l].price)
    BY <1>3 DEF SideOK
  <2> QED
    BY <1>2, <2>1 DEF Betters
<1> QED
  BY <1>1, <1>3

\* w is what apply_side() makes of a side lv: in order, with the level at the price set, gone
\* or, if there is room for it, added, and with no other level that lv does not have.
Applied(w, lv, side, price, size) ==
  /\ SideOK(w, side)
  /\ \A j \in 1..Len(w) :
       \/ w[j].price = price /\ w[j].size = size /\ size > 0
       \/ \E l \in 1..Len(lv) : w[j].price = lv[l].price /\ w[j].size = lv[l].size
                                  /\ lv[l].price # price
  /\ size = 0 => Kept(w) = Kept(lv) \ {price}
  /\ size > 0 /\ (price \in Kept(lv) \/ Len(lv) < MaxLevels) =>
       Kept(w) = Kept(lv) \cup {price}

\* What apply_side() does to a side: the order stays, the level is set, added or gone,
\* the others are kept except for one that falls off the end of a full side.
LEMMA ApplySideEffect ==
  ASSUME NEW side \in Sides, NEW lv, SideOK(lv, side), NEW price \in Prices,
         NEW size \in Sizes, NEW w, w = ApplySide(lv, side, price, size)
  PROVE  Applied(w, lv, side, price, size)
<1> SUFFICES /\ SideOK(w, side)
             /\ \A j \in 1..Len(w) :
                  \/ w[j].price = price /\ w[j].size = size /\ size > 0
                  \/ \E l \in 1..Len(lv) : w[j].price = lv[l].price /\ w[j].size = lv[l].size
                                             /\ lv[l].price # price
             /\ size = 0 => Kept(w) = Kept(lv) \ {price}
             /\ size > 0 /\ (price \in Kept(lv) \/ Len(lv) < MaxLevels) =>
                  Kept(w) = Kept(lv) \cup {price}
  BY Zenon DEF Applied
<1> DEFINE level == [price |-> price, size |-> size]
<1>0. PICK i : i = FindLevel(lv, price)
  OBVIOUS
<1>1. w = IF i # 0
          THEN IF size = 0 THEN RemoveAt(lv, i) ELSE [lv EXCEPT ![i].size = size]
          ELSE IF size = 0 THEN lv ELSE Inserted(lv, side, level)
  BY <1>0 DEF ApplySide, FindLevel, Inserted
<1>2. lv \in Seq(Level) /\ Len(lv) \in Nat /\ size \in Nat /\ level \in Level
  BY OrderBookAssumption DEF SideOK, Sizes, Level
<1>3. \/ i \in 1..Len(lv) /\ lv[i].price = price
      \/ i = 0 /\ price \notin Kept(lv)
  BY <1>0, <1>2, Found
<1>4. \A j, l \in 1..Len(lv) : lv[j].price = lv[l].price => j = l
  BY PricesDistinct
<1>5. CASE i # 0 /\ size = 0
  <2>1. PICK m \in 1..Len(lv) : lv[m].price = price /\ w = RemoveAt(lv, m)
    BY <1>1, <1>3, <1>5
  <2>2. SideOK(w, side) /\ Removes(w, lv, m)
    BY <2>1, RemoveSide
  <2>3. ASSUME NEW j \in 1..Len(w)
        PROVE  \E l \in 1..Len(lv) : w[j].price = lv[l].price /\ w[j].size = lv[l].size
                                        /\ lv[l].price # price
    <3>1. PICK l \in 1..Len(lv) : l # m /\ w[j] = lv[l]
      BY <2>2 DEF Removes
    <3>2. lv[l].price # price
      BY <1>4, <2>1, <3>1
    <3> QED
      BY <3>1, <3>2
  <2>4. Kept(w) = Kept(lv) \ {price}
    <3>1. ASSUME NEW p \in Kept(w) PROVE p \in Kept(lv) \ {price}
      <4>1. PICK j \in 1..Len(w) : p = w[j].price
        BY Zenon DEF Kept
      <4>2. PICK l \in 1..Len(lv) : w[j].price = lv[l].price /\ lv[l].price # price
        BY <2>3, Zenon
      <4>3. lv[l].price \in Kept(lv)
        BY Zenon DEF Kept
      <4> QED
        BY <4>1, <4>2, <4>3, Zenon
    <3>2. ASSUME NEW p \in Kept(lv) \ {price} PROVE p \in Kept(w)
      <4>1. PICK l \in 1..Len(lv) : p = lv[l].price
        BY Zenon DEF Kept
      <4>2. l # m
        BY <2>1, <4>1
      <4>3. PICK j \in 1..Len(w) : w[j] = lv[l]
        BY <2>2, <4>2, Zenon DEF Removes
      <4> QED
        BY <4>1, <4>3, Zenon DEF Kept
    <3> QED
      BY <3>1, <3>2
  <2> QED
    BY <1>2, <1>5, <2>2, <2>3, <2>4
<1>6. CASE i # 0 /\ size # 0
  <2>1. PICK m \in 1..Len(lv) : lv[m].price = price /\ w = [lv EXCEPT ![m].size = size]
    BY <1>1, <1>3, <1>6, Zenon
  <2>2. SideOK(w, side) /\ Updates(w, lv, m, size)
    BY <2>1, UpdateSide, Zenon
  <2>3. Kept(w) = Kept(lv) \cup {price}
    BY <2>1, <2>2 DEF Kept, Updates
  <2>4. ASSUME NEW j \in 1..Len(w)
        PROVE  \/ w[j].price = price /\ w[j].size = size /\ size > 0
               \/ \E l \in 1..Len(lv) : w[j].price = lv[l].price /\ w[j].size = lv[l].size
                                          /\ lv[l].price # price
    BY <1>2, <1>4, <1>6, <2>1, <2>2 DEF Updates
  <2> QED
    BY <1>6, <2>2, <2>3, <2>4
<1>7. CASE i = 0 /\ size = 0
  <2>1. w = lv /\ price \notin Kept(lv)
    BY <1>1, <1>3, <1>7
  <2> QED
    BY <1>7, <2>1 DEF Kept
<1>8. CASE i = 0 /\ size # 0
  <2>1. w = Inserted(lv, side, level) /\ price \notin Kept(lv)
    BY <1>1, <1>3, <1>8
  <2>2. level.price = price /\ level.size = size
    OBVIOUS
  <2> HIDE DEF level
  <2>3. /\ SideOK(w, side)
        /\ \A j \in 1..Len(w) : w[j] = level \/ \E l \in 1..Len(lv) : w[j] = lv[l]
        /\ Len(lv) < MaxLevels =>
             /\ \E j \in 1..Len(w) : w[j] = level
             /\ \A l \in 1..Len(lv) : \E j \in 1..Len(w) : w[j] = lv[l]
    <3>1. level \in Level /\ level.price \notin Kept(lv)
      BY <1>2, <2>1, <2>2
    <3>2. SideOK(w, side) /\ Inserts(w, lv, side, level)
      BY <2>1, <3>1, InsertSide
    <3> QED
      BY <3>2 DEF Inserts
  <2>4. \A l \in 1..Len(lv) : lv[l].price # price
    BY <2>1 DEF Kept
  <2>5. ASSUME Len(lv) < MaxLevels PROVE Kept(w) = Kept(lv) \cup {price}
    <3>1. Kept(w) \subseteq Kept(lv) \cup {price}
      BY <2>2, <2>3 DEF Kept
    <3>2. price \in Kept(w)
      BY <2>2, <2>3, <2>5 DEF Kept
    <3>3. Kept(lv) \subseteq Kept(w)
      BY <2>3, <2>5 DEF Kept
    <3> QED
      BY <3>1, <3>2, <3>3
  <2> QED
    BY <1>2, <1>8, <2>1, <2>2, <2>3, <2>4, <2>5
<1> QED
  BY <1>5, <1>6, <1>7, <1>8

\* A side has as many prices as levels.
LEMMA KeptCount ==
  ASSUME NEW side \in Sides, NEW lv, SideOK(lv, side)
  PROVE  IsFiniteSet(Kept(lv)) /\ Cardinality(Kept(lv)) = Len(lv)
<1>1. lv \in Seq(Level) /\ Len(lv) \in Nat
  BY DEF SideOK
<1>3. \A j, l \in 1..Len(lv) : lv[j].price = lv[l].price => j = l
  BY PricesDistinct
<1> DEFINE f == [j \in 1..Len(lv) |-> lv[j].price]
<1>4. f \in Bijection(1..Len(lv), Kept(lv))
  <2>1. f \in [1..Len(lv) -> Kept(lv)] /\ \A p \in Kept(lv) : \E j \in 1..Len(lv) : f[j] = p
    BY <1>1 DEF Kept
  <2>2. DOMAIN f = 1..Len(lv) /\ \A j, l \in 1..Len(lv) : f[j] = f[l] => j = l
    BY <1>3
  <2> HIDE DEF f
  <2>3. f \in Injection(1..Len(lv), Kept(lv))
    BY <2>1, <2>2, Zenon DEF Injection, IsInjective
  <2>4. f \in Surjection(1..Len(lv), Kept(lv))
    BY <2>1, Zenon DEF Surjection
  <2> QED
    BY <2>3, <2>4, Zenon DEF Bijection
<1>5. IsFiniteSet(1..Len(lv)) /\ Cardinality(1..Len(lv)) = Len(lv)
  <2>1. PICK n \in Nat : n = Len(lv)
    BY <1>1, Zenon
  <2>2. 1 \in Int /\ n \in Int
    OBVIOUS
  <2>3. IsFiniteSet(1..n) /\ Cardinality(1..n) = IF 1 > n THEN 0 ELSE n - 1 + 1
    BY <2>2, FS_Interval, Zenon
  <2>4. (IF 1 > n THEN 0 ELSE n - 1 + 1) = n
    OBVIOUS
  <2> QED
    BY <2>1, <2>3, <2>4, Zenon
<1> QED
  BY <1>4, <1>5, FS_Bijection DEF ExistsBijection

-----------------------------------------------------------------------------
(* The book next to the venue's                                            *)

BookInv ==
  /\ DOMAIN book = Sides
  /\ \A s \in Sides : SideOK(book[s], s)
  /\ resting \in [Sides -> [Prices -> Sizes]]
  /\ crowded \subseteq Sides
  /\ KeptLevelsExact
  /\ ExactWithinDepth

\* clear() and the constructor: two empty sides and a venue without levels agree.
LEMMA EmptyKeeps ==
  ASSUME book' = EmptyBook, resting' = [s \in Sides |-> [p \in Prices |-> 0]], crowded' = {}
  PROVE  BookInv'
<1>1. DOMAIN book' = Sides /\ \A s \in Sides : book'[s] = <<>>
  BY DEF EmptyBook
<1>2. \A s \in Sides : SideOK(book'[s], s)
  <2>1. <<>> \in Seq(Level) /\ Len(<<>>) = 0 /\ 1..0 = {} /\ 0 <= MaxLevels
    BY OrderBookAssumption
  <2>2. \A s \in Sides : SideOK(<<>>, s)
    BY <2>1 DEF SideOK
  <2> QED
    BY <1>1, <2>2
<1>3. resting' \in [Sides -> [Prices -> Sizes]]
  BY OrderBookAssumption DEF Sizes
<1>4. KeptLevelsExact'
  BY <1>1 DEF KeptLevelsExact, Sides
<1>5. ExactWithinDepth'
  <2>1. \A s \in Sides : VenueLevels(resting', s) = {}
    BY DEF VenueLevels
  <2> QED
    BY <1>1, <2>1 DEF ExactWithinDepth, VenueLevels, Sides
<1> QED
  BY <1>1, <1>2, <1>3, <1>4, <1>5 DEF BookInv, SideOK, Sides, Level, Sizes, Betters

\* apply() keeps the book in order, at the venue's sizes and, while the venue's side
\* fits, complete.
LEMMA ApplyKeeps ==
  ASSUME BookInv, NEW side \in Sides, NEW price \in Prices, NEW size \in Sizes,
         Apply(side, price, size)
  PROVE  BookInv'
<1> DEFINE lv == book[side]
           w == ApplySide(lv, side, price, size)
<1>1. /\ book' = [book EXCEPT ![side] = w]
      /\ resting' = [resting EXCEPT ![side][price] = size]
      /\ crowded' = crowded \cup
           {s \in Sides : Cardinality(VenueLevels(resting', s)) > MaxLevels}
  BY DEF Apply, ApplyLevel
<1>2. SideOK(lv, side)
  BY DEF BookInv
<1>3. /\ SideOK(w, side)
      /\ \A j \in 1..Len(w) :
           \/ w[j].price = price /\ w[j].size = size /\ size > 0
           \/ \E l \in 1..Len(lv) : w[j].price = lv[l].price /\ w[j].size = lv[l].size
                                      /\ lv[l].price # price
      /\ size = 0 => Kept(w) = Kept(lv) \ {price}
      /\ size > 0 /\ (price \in Kept(lv) \/ Len(lv) < MaxLevels) =>
           Kept(w) = Kept(lv) \cup {price}
  <2>1. Applied(w, lv, side, price, size)
    BY <1>2, ApplySideEffect
  <2> QED
    BY <2>1, Zenon DEF Applied
<1>4. /\ DOMAIN book' = Sides /\ book'[side] = w
      /\ \A s \in Sides : s # side => book'[s] = book[s]
  BY <1>1 DEF BookInv
<1>5. /\ resting' \in [Sides -> [Prices -> Sizes]]
      /\ resting'[side][price] = size
      /\ \A p \in Prices : p # price => resting'[side][p] = resting[side][p]
      /\ \A s \in Sides : s # side => resting'[s] = resting[s]
  BY <1>1 DEF BookInv
<1> HIDE DEF w
<1>6. \A s \in Sides : SideOK(book'[s], s)
  BY <1>3, <1>4 DEF BookInv
<1>7. \A s \in Sides : DOMAIN book'[s] = 1..Len(book'[s]) /\ DOMAIN book[s] = 1..Len(book[s])
  BY <1>6 DEF BookInv, SideOK
<1>8. ASSUME NEW l \in 1..Len(lv)
      PROVE  /\ lv[l].price \in Prices
             /\ lv[l].size > 0 /\ lv[l].size = resting[side][lv[l].price]
  <2>1. lv[l] \in Level
    BY <1>2 DEF SideOK
  <2>2. lv[l].price \in Prices
    BY <2>1 DEF Level
  <2>3. l \in DOMAIN book[side]
    BY <1>7
  <2> QED
    BY <2>2, <2>3 DEF BookInv, KeptLevelsExact
<1>9. ASSUME NEW s \in Sides, NEW j \in 1..Len(book'[s])
      PROVE  book'[s][j].size > 0 /\ book'[s][j].size = resting'[s][book'[s][j].price]
  <2>1. CASE s = side
    <3>1. book'[s] = w /\ j \in 1..Len(w)
      BY <1>4, <1>9, <2>1
    <3>2. CASE w[j].price = price /\ w[j].size = size /\ size > 0
      BY <1>5, <2>1, <3>1, <3>2
    <3>3. CASE \E l \in 1..Len(lv) : w[j].price = lv[l].price /\ w[j].size = lv[l].size
                                        /\ lv[l].price # price
      <4>1. PICK l \in 1..Len(lv) : w[j].price = lv[l].price /\ w[j].size = lv[l].size
                                       /\ lv[l].price # price
        BY <3>3
      <4>2. resting'[side][lv[l].price] = resting[side][lv[l].price]
        BY <1>5, <1>8, <4>1
      <4> QED
        BY <1>8, <2>1, <3>1, <4>1, <4>2
    <3> QED
      BY <1>3, <3>1, <3>2, <3>3
  <2>2. CASE s # side
    BY <1>4, <1>5, <1>7, <1>9, <2>2 DEF BookInv, KeptLevelsExact
  <2> QED
    BY <2>1, <2>2
<1>10. KeptLevelsExact'
  BY <1>7, <1>9 DEF KeptLevelsExact
<1>11. ASSUME NEW s \in Sides, s \notin crowded'
       PROVE  Kept(book'[s]) = VenueLevels(resting', s)
  <2>1. s \notin crowded /\ ~(Cardinality(VenueLevels(resting', s)) > MaxLevels)
    BY <1>1, <1>11
  <2>2. Kept(book[s]) = VenueLevels(resting, s)
    BY <1>7, <2>1 DEF BookInv, ExactWithinDepth, Kept
  <2>3. CASE s # side
    BY <1>4, <1>5, <2>2, <2>3 DEF VenueLevels
  <2>4. CASE s = side
    <3>1. size \in Nat
      BY OrderBookAssumption DEF Sizes
    <3>2. CASE size = 0
      BY <1>3, <1>4, <1>5, <2>2, <2>4, <3>2 DEF VenueLevels
    <3>3. CASE size > 0
      <4>1. VenueLevels(resting', side) = Kept(lv) \cup {price}
        BY <1>5, <2>2, <2>4, <3>3 DEF VenueLevels
      <4>2. IsFiniteSet(Kept(lv)) /\ Cardinality(Kept(lv)) = Len(lv)
        BY <1>2, KeptCount
      <4>3. price \notin Kept(lv) => Cardinality(Kept(lv) \cup {price}) = Len(lv) + 1
        BY <4>2, FS_AddElement, Zenon
      <4>4. price \in Kept(lv) \/ Len(lv) < MaxLevels
        <5>1. Len(lv) \in Nat /\ Len(lv) <= MaxLevels
          BY <1>2 DEF SideOK
        <5> QED
          BY <2>1, <2>4, <4>1, <4>3, <5>1, OrderBookAssumption
      <4> QED
        BY <1>3, <1>4, <2>4, <3>3, <4>1, <4>4
    <3> QED
      BY <3>1, <3>2, <3>3
  <2> QED
    BY <2>3, <2>4
<1>12. ExactWithinDepth'
  BY <1>7, <1>11 DEF ExactWithinDepth, Kept, VenueLevels, Sides
<1>13. crowded' \subseteq Sides
  BY <1>1 DEF BookInv
<1> QED
  BY <1>4, <1>5, <1>6, <1>10, <1>12, <1>13 DEF BookInv, SideOK, Level, Sizes, Sides, Betters

\* The book starts out as clear() leaves it.
LEMMA BookInit == Init => BookInv
<1> SUFFICES ASSUME Init PROVE BookInv
  OBVIOUS
<1>1. DOMAIN book = Sides /\ \A s \in Sides : book[s] = <<>>
  BY DEF Init, EmptyBook
<1>2. <<>> \in Seq(Level) /\ Len(<<>>) = 0 /\ 1..0 = {} /\ 0 <= MaxLevels
  BY OrderBookAssumption
<1>3. \A s \in Sides : SideOK(<<>>, s)
  BY <1>2 DEF SideOK
<1>4. resting \in [Sides -> [Prices -> Sizes]] /\ crowded = {}
      /\ \A s \in Sides : VenueLevels(resting, s) = {}
  BY OrderBookAssumption DEF Init, Sizes, VenueLevels
<1> QED
  BY <1>1, <1>3, <1>4 DEF BookInv, KeptLevelsExact, ExactWithinDepth

\* Every update keeps the book's invariant.
LEMMA BookStep == BookInv /\ [Next]_vars => BookInv'
<1> SUFFICES ASSUME BookInv, [Next]_vars PROVE BookInv'
  OBVIOUS
<1>1. CASE Clear
  BY <1>1, EmptyKeeps DEF Clear
<1>2. CASE \E side \in Sides, price \in Prices, size \in Sizes : Apply(side, price, size)
  BY <1>2, ApplyKeeps
<1>3. CASE UNCHANGED vars
  <2>1. book' = book /\ resting' = resting /\ crowded' = crowded
    BY <1>3 DEF vars
  <2>2. KeptLevelsExact' /\ ExactWithinDepth'
    BY <2>1 DEF BookInv, KeptLevelsExact, ExactWithinDepth
  <2> QED
    BY <2>1, <2>2 DEF BookInv
<1> QED
  BY <1>1, <1>2, <1>3 DEF Next

\* For every depth and every sequence of updates the book is best first without a price
\* twice (order_book.h, the class invariant of lines 14-15).
THEOREM AlwaysBestFirst == Spec => []BestFirst
<1>1. BookInv => BestFirst
  <2> SUFFICES ASSUME BookInv, NEW s \in Sides PROVE
        \A i, j \in DOMAIN book[s] : i < j => Betters(s, book[s][i].price, book[s][j].price)
    BY DEF BestFirst
  <2>1. SideOK(book[s], s)
    BY DEF BookInv
  <2>2. DOMAIN book[s] = 1..Len(book[s])
    BY <2>1 DEF SideOK
  <2> QED
    BY <2>1, <2>2 DEF SideOK
<1> QED
  BY <1>1, BookInit, BookStep, PTL DEF Spec

\* Every level shown has the size that rests at the venue, after any evictions
\* (OrderBook::apply_side()).
THEOREM ShownSizesExact == Spec => []KeptLevelsExact
<1>1. BookInv => KeptLevelsExact
  BY DEF BookInv
<1> QED
  BY <1>1, BookInit, BookStep, PTL DEF Spec

\* A side the venue never filled beyond MaxLevels is complete: an update is dropped or
\* a level evicted only when there are more (OrderBook::apply_side()).
THEOREM CompleteWithinDepth == Spec => []ExactWithinDepth
<1>1. BookInv => ExactWithinDepth
  BY DEF BookInv
<1> QED
  BY <1>1, BookInit, BookStep, PTL DEF Spec

-----------------------------------------------------------------------------
(* The best levels                                                         *)

\* A side shows the best of the prices in V: what is missing is worse than everything kept,
\* and nothing is missing while there is room.
BestOf(lv, side, V) ==
  \A p \in V \ Kept(lv) : Len(lv) = MaxLevels /\ \A q \in Kept(lv) : Betters(side, q, p)

\* A side that shows the best prices goes on doing so when a level comes or changes its size.
LEMMA ArrivalKeepsBest ==
  ASSUME NEW side \in Sides, NEW lv, SideOK(lv, side), NEW price \in Prices,
         NEW size \in Sizes, size > 0, NEW V \in SUBSET Prices, BestOf(lv, side, V)
  PROVE  BestOf(ApplySide(lv, side, price, size), side, V \cup {price})
<1> DEFINE w == ApplySide(lv, side, price, size)
<1>1. /\ SideOK(w, side)
      /\ size > 0 /\ (price \in Kept(lv) \/ Len(lv) < MaxLevels) =>
           Kept(w) = Kept(lv) \cup {price}
  <2>1. Applied(w, lv, side, price, size)
    BY ApplySideEffect
  <2> QED
    BY <2>1, Zenon DEF Applied
<1>2. lv \in Seq(Level) /\ Len(lv) \in Nat /\ Len(lv) <= MaxLevels /\ MaxLevels \in Nat
  BY OrderBookAssumption DEF SideOK
<1>3. CASE price \in Kept(lv)
  <2>1. Kept(w) = Kept(lv)
    BY <1>1, <1>3
  <2>2. Len(w) = Len(lv)
    BY <1>1, <2>1, KeptCount
  <2> HIDE DEF w
  <2> QED
    BY <1>3, <2>1, <2>2 DEF BestOf, w
<1>4. CASE price \notin Kept(lv)
  <2> DEFINE level == [price |-> price, size |-> size]
  <2>1. PICK i : i = FindLevel(lv, price)
    OBVIOUS
  <2>2. i = 0
    BY <1>2, <1>4, <2>1, Found DEF Kept
  <2>3. w = Inserted(lv, side, level)
    <3>1. w = IF i # 0
              THEN IF size = 0 THEN RemoveAt(lv, i) ELSE [lv EXCEPT ![i].size = size]
              ELSE IF size = 0 THEN lv ELSE Inserted(lv, side, level)
      BY <2>1 DEF ApplySide, FindLevel, Inserted
    <3>2. size # 0
      BY OrderBookAssumption DEF Sizes
    <3> QED
      BY <2>2, <3>1, <3>2, Zenon
  <2>4. level \in Level /\ level.price = price
    BY DEF Level
  <2> HIDE DEF level, w
  <2>5. Inserts(w, lv, side, level)
    BY <1>4, <2>3, <2>4, InsertSide
  <2>6. ASSUME NEW e, InOrBehind(w, side, e), e.price \notin Kept(w)
        PROVE  Len(w) = MaxLevels /\ \A q \in Kept(w) : Betters(side, q, e.price)
    BY <2>6 DEF InOrBehind, Kept
  <2>7. ASSUME NEW p \in (V \cup {price}) \ Kept(w)
        PROVE  Len(w) = MaxLevels /\ \A q \in Kept(w) : Betters(side, q, p)
    <3>1. CASE p = price
      BY <2>4, <2>5, <2>6, <2>7, <3>1 DEF Inserts
    <3>2. CASE p \in Kept(lv)
      <4>1. PICK l \in 1..Len(lv) : lv[l].price = p
        BY <3>2 DEF Kept
      <4> QED
        BY <2>5, <2>6, <2>7, <4>1 DEF Inserts
    <3>3. CASE p # price /\ p \notin Kept(lv)
      <4>1. p \in V /\ Len(lv) = MaxLevels /\ \A q \in Kept(lv) : Betters(side, q, p)
        BY <2>7, <3>3 DEF BestOf
      <4>2. PICK e \in Kept(lv) \cup {price} : e \notin Kept(w)
        <5>1. /\ IsFiniteSet(Kept(lv)) /\ Cardinality(Kept(lv)) = MaxLevels
              /\ IsFiniteSet(Kept(w)) /\ Cardinality(Kept(w)) = Len(w)
          BY <1>1, <4>1, KeptCount DEF w
        <5>2. Cardinality(Kept(lv) \cup {price}) = MaxLevels + 1
          BY <1>4, <5>1, FS_AddElement, Zenon
        <5>3. Kept(lv) \cup {price} \subseteq Kept(w) =>
                Cardinality(Kept(lv) \cup {price}) <= Cardinality(Kept(w))
          BY <5>1, FS_Subset, Zenon
        <5>4. Len(w) \in Nat /\ Len(w) <= MaxLevels
          BY <1>1 DEF SideOK, w
        <5> QED
          BY <1>2, <5>1, <5>2, <5>3, <5>4
      <4>3. Len(w) = MaxLevels /\ \A q \in Kept(w) : Betters(side, q, e)
        <5>1. CASE e = price
          BY <2>4, <2>5, <2>6, <4>2, <5>1 DEF Inserts
        <5>2. CASE e \in Kept(lv)
          <6>1. PICK l \in 1..Len(lv) : lv[l].price = e
            BY <5>2 DEF Kept
          <6> QED
            BY <2>5, <2>6, <4>2, <6>1 DEF Inserts
        <5> QED
          BY <4>2, <5>1, <5>2
      <4>4. \A q \in Kept(lv) \cup {price, p} : q \in Int
        <5>1. ASSUME NEW l \in 1..Len(lv) PROVE lv[l].price \in Prices
          <6>1. lv[l] \in Level
            BY <1>2
          <6> QED
            BY <6>1 DEF Level
        <5> QED
          BY <4>1, <5>1, OrderBookAssumption, Zenon DEF Kept
      <4>5. ASSUME NEW q \in Kept(w) PROVE Betters(side, q, p)
        <5>1. q = price \/ q \in Kept(lv)
          BY <2>4, <2>5 DEF Inserts, Kept
        <5>2. CASE q = price
          <6>1. e \in Kept(lv) /\ Betters(side, q, e) /\ Betters(side, e, p)
            BY <4>1, <4>2, <4>3, <5>2
          <6> QED
            BY <4>4, <5>2, <6>1 DEF Betters
        <5> QED
          BY <4>1, <5>1, <5>2
      <4> QED
        BY <4>3, <4>5
    <3> QED
      BY <3>1, <3>2, <3>3
  <2> QED
    BY <2>7 DEF BestOf, w
<1> QED
  BY <1>3, <1>4

\* An update takes away a level that is shown while the venue has one that is not.
Uncovers ==
  \E s \in Sides : \E p \in Kept(book[s]), q \in VenueLevels(resting, s) \ Kept(book[s]) :
    resting'[s][p] = 0 /\ resting'[s][q] > 0

\* The book stops showing the best levels exactly when such an update arrives: the
\* level that should move up was never stored or was evicted (apply_side()).
BestUntilUncovered == [][BestLevels => (BestLevels' <=> ~Uncovers)]_vars

\* What BestLevels says of each side.
LEMMA BestBySide ==
  ASSUME BookInv
  PROVE  BestLevels <=> \A s \in Sides : BestOf(book[s], s, VenueLevels(resting, s))
<1>1. \A s \in Sides : {book[s][i].price : i \in DOMAIN book[s]} = Kept(book[s])
  <2>1. \A s \in Sides : DOMAIN book[s] = 1..Len(book[s])
    BY DEF BookInv, SideOK
  <2> QED
    BY <2>1 DEF Kept
<1> QED
  BY <1>1, Zenon DEF BestLevels, BestOf

\* A step of the book and the best levels.
LEMMA BestStep ==
  ASSUME BookInv, BookInv', BestLevels, Next
  PROVE  BestLevels' <=> ~Uncovers
<1>0. \A s \in Sides : BestOf(book[s], s, VenueLevels(resting, s))
  BY BestBySide
<1>1. BestLevels' <=> \A s \in Sides : BestOf(book'[s], s, VenueLevels(resting', s))
  <2>1. \A s \in Sides : {book'[s][i].price : i \in DOMAIN book'[s]} = Kept(book'[s])
    <3>1. \A s \in Sides : DOMAIN book'[s] = 1..Len(book'[s])
      BY DEF BookInv, SideOK
    <3> QED
      BY <3>1 DEF Kept
  <2> QED
    BY <2>1, Zenon DEF BestLevels, BestOf, VenueLevels
<1>2. CASE Clear
  <2>1. \A s \in Sides : VenueLevels(resting', s) = {}
    BY <1>2 DEF Clear, VenueLevels
  <2>2. BestLevels'
    BY <1>1, <2>1 DEF BestOf
  <2>3. ~Uncovers
    BY <1>2 DEF Clear, Uncovers, VenueLevels
  <2> QED
    BY <2>2, <2>3
<1>3. ASSUME NEW side \in Sides, NEW price \in Prices, NEW size \in Sizes,
             Apply(side, price, size)
      PROVE  BestLevels' <=> ~Uncovers
  <2> DEFINE lv == book[side]
             V == VenueLevels(resting, side)
             w == ApplySide(lv, side, price, size)
  <2>1. /\ book'[side] = w /\ \A s \in Sides : s # side => book'[s] = book[s]
        /\ SideOK(lv, side) /\ V \in SUBSET Prices
    BY <1>3 DEF Apply, ApplyLevel, BookInv, VenueLevels
  <2>2. /\ resting \in [Sides -> [Prices -> Sizes]]
        /\ resting' = [resting EXCEPT ![side][price] = size]
    BY <1>3 DEF Apply, BookInv
  <2>3. /\ resting'[side][price] = size
        /\ \A p \in Prices : p # price => resting'[side][p] = resting[side][p]
        /\ \A s \in Sides : s # side => resting'[s] = resting[s]
    BY <2>2
  <2>4. \A s \in Sides : s # side => BestOf(book'[s], s, VenueLevels(resting', s))
    BY <1>0, <2>1, <2>3 DEF VenueLevels
  <2>5. size \in Nat
    BY OrderBookAssumption DEF Sizes
  <2>6. ASSUME NEW s \in Sides, NEW p \in Kept(book[s]) PROVE p \in Prices /\ resting[s][p] > 0
    <3>1. PICK l \in 1..Len(book[s]) : p = book[s][l].price
      BY <2>6 DEF Kept
    <3>2. l \in DOMAIN book[s] /\ book[s][l] \in Level
      BY DEF BookInv, SideOK
    <3> QED
      BY <3>1, <3>2 DEF BookInv, KeptLevelsExact, Level
  <2>7. Uncovers <=> size = 0 /\ price \in Kept(lv) /\ V \ Kept(lv) # {}
    <3>1. ASSUME Uncovers PROVE size = 0 /\ price \in Kept(lv) /\ V \ Kept(lv) # {}
      <4>0. PICK s \in Sides : \E p \in Kept(book[s]) :
              \E q \in VenueLevels(resting, s) \ Kept(book[s]) :
                resting'[s][p] = 0 /\ resting'[s][q] > 0
        BY <3>1 DEF Uncovers
      <4>1. PICK p \in Kept(book[s]) : \E q \in VenueLevels(resting, s) \ Kept(book[s]) :
              resting'[s][p] = 0 /\ resting'[s][q] > 0
        BY <4>0
      <4>2. p \in Prices /\ resting[s][p] > 0
        BY <2>6
      <4>3. s = side /\ p = price
        BY <2>3, <4>1, <4>2
      <4> QED
        BY <2>3, <4>1, <4>3
    <3>2. ASSUME size = 0, price \in Kept(lv), NEW q \in V \ Kept(lv) PROVE Uncovers
      <4>1. q \in Prices /\ resting[side][q] > 0 /\ q # price
        BY <3>2 DEF VenueLevels
      <4>2. resting'[side][price] = 0 /\ resting'[side][q] > 0
        BY <2>3, <3>2, <4>1
      <4> QED
        BY <3>2, <4>2 DEF Uncovers
    <3> QED
      BY <3>1, <3>2
  <2> HIDE DEF w
  <2>8. CASE size > 0
    <3>1. VenueLevels(resting', side) = V \cup {price}
      BY <2>3, <2>8 DEF VenueLevels
    <3>2. BestOf(w, side, V \cup {price})
      BY <1>0, <2>1, <2>8, ArrivalKeepsBest DEF w
    <3>3. BestLevels'
      BY <1>1, <2>1, <2>4, <3>1, <3>2
    <3> QED
      BY <2>5, <2>7, <2>8, <3>3
  <2>9. CASE size = 0
    <3>1. VenueLevels(resting', side) = V \ {price}
      BY <2>3, <2>9 DEF VenueLevels
    <3>2. SideOK(w, side) /\ Kept(w) = Kept(lv) \ {price}
      <4>1. Applied(w, lv, side, price, size)
        BY <2>1, ApplySideEffect DEF w
      <4> QED
        BY <2>9, <4>1, Zenon DEF Applied
    <3>3. (V \ {price}) \ (Kept(lv) \ {price}) = (V \ Kept(lv)) \ {price}
      OBVIOUS
    <3>4. CASE price \in Kept(lv)
      <4>1. Len(w) # MaxLevels
        <5>1. Cardinality(Kept(lv)) = Len(lv) /\ IsFiniteSet(Kept(lv)) /\ Cardinality(Kept(w)) = Len(w)
          BY <2>1, <3>2, KeptCount, Zenon
        <5>2. Cardinality(Kept(lv) \ {price}) = Cardinality(Kept(lv)) - 1
          BY <3>4, <5>1, FS_RemoveElement, Zenon
        <5>3. Len(lv) \in Nat /\ Len(lv) <= MaxLevels /\ MaxLevels \in Nat
          BY <2>1, OrderBookAssumption DEF SideOK
        <5> QED
          BY <3>2, <5>1, <5>2, <5>3
      <4>2. BestOf(w, side, V \ {price}) <=> V \ Kept(lv) = {}
        BY <3>2, <3>3, <3>4, <4>1 DEF BestOf
      <4> QED
        BY <1>1, <2>1, <2>4, <2>7, <2>9, <3>1, <3>4, <4>2
    <3>5. CASE price \notin Kept(lv)
      <4>1. Kept(w) = Kept(lv)
        BY <3>2, <3>5
      <4>2. Len(w) = Len(lv)
        BY <2>1, <3>2, <4>1, KeptCount
      <4>3. BestOf(w, side, V \ {price})
        BY <1>0, <4>1, <4>2 DEF BestOf
      <4> QED
        BY <1>1, <2>1, <2>4, <2>7, <3>1, <3>5, <4>3
    <3> QED
      BY <3>4, <3>5
  <2> QED
    BY <2>5, <2>8, <2>9
<1> QED
  BY <1>2, <1>3 DEF Next

\* A book that shows the venue's best levels goes on doing so until a shown level is taken
\* away while another is not shown, and then it does not (order_book.h, line 11).
THEOREM BestUntilRemoval == Spec => BestUntilUncovered
<1>1. BookInv /\ BookInv' /\ [Next]_vars => [BestLevels => (BestLevels' <=> ~Uncovers)]_vars
  BY BestStep
<1> QED
  BY <1>1, BookInit, BookStep, PTL DEF Spec, BestUntilUncovered

-----------------------------------------------------------------------------
(* A book rebuilt from a snapshot                                          *)

\* Induction.
LEMMA NumbersByInduction ==
  ASSUME NEW S \in SUBSET Nat, 0 \in S, \A m \in S : m + 1 \in S
  PROVE  S = Nat
<1> SUFFICES ASSUME Nat \ S # {} PROVE FALSE
  BY Zenon
<1> DEFINE x == Min(Nat \ S)
<1>1. x \in Nat \ S /\ \A y \in Nat \ S : x <= y
  BY LeastNumber
<1> HIDE DEF x
<1>2. x - 1 \in Nat /\ (x - 1) + 1 = x /\ ~(x <= x - 1)
  BY <1>1
<1>3. x - 1 \in S
  BY <1>1, <1>2
<1> QED
  BY <1>1, <1>2, <1>3

\* f is the book after each of the first m levels, as the recursion of Rebuilt() says.
RebuildsTo(levels, m, f) ==
  f = [k \in 0..m |-> IF k = 0 THEN EmptyBook ELSE ApplyUpdate(f[k - 1], levels[k])]

\* One equation of it.
LEMMA RebuildsToFields ==
  ASSUME NEW levels, NEW m \in Nat, NEW f, RebuildsTo(levels, m, f)
  PROVE  /\ DOMAIN f = 0..m /\ f[0] = EmptyBook
         /\ \A k \in 0..m : k # 0 => f[k] = ApplyUpdate(f[k - 1], levels[k])
BY DEF RebuildsTo

\* The recursion has a solution.
LEMMA RebuildsToExists ==
  ASSUME NEW levels
  PROVE  \A m \in Nat : \E f : RebuildsTo(levels, m, f)
<1> DEFINE S == {m \in Nat : \E f : RebuildsTo(levels, m, f)}
<1>1. 0 \in S
  <2> DEFINE f == [k \in 0..0 |-> EmptyBook]
  <2>1. f = [k \in 0..0 |-> IF k = 0 THEN EmptyBook ELSE ApplyUpdate(f[k - 1], levels[k])]
    OBVIOUS
  <2> HIDE DEF f
  <2> QED
    BY <2>1 DEF RebuildsTo
<1>2. ASSUME NEW m \in S PROVE m + 1 \in S
  <2>1. PICK f : RebuildsTo(levels, m, f)
    BY <1>2
  <2>2. m \in Nat
    OBVIOUS
  <2> DEFINE g == [k \in 0..(m + 1) |->
                     IF k = m + 1 THEN ApplyUpdate(f[m], levels[m + 1]) ELSE f[k]]
  <2>3. ASSUME NEW k \in 0..(m + 1)
        PROVE  g[k] = IF k = 0 THEN EmptyBook ELSE ApplyUpdate(g[k - 1], levels[k])
    <3>1. CASE k = m + 1
      <4>1. k - 1 = m /\ m \in 0..(m + 1) /\ m # m + 1 /\ k # 0
        BY <2>2, <3>1
      <4>2. g[m] = f[m] /\ g[k] = ApplyUpdate(f[m], levels[m + 1])
        BY <3>1, <4>1
      <4> QED
        BY <3>1, <4>1, <4>2
    <3>2. CASE k # m + 1 /\ k # 0
      <4>1. k \in 0..m /\ k - 1 \in 0..(m + 1) /\ k - 1 # m + 1
        BY <2>2, <3>2
      <4>2. g[k] = f[k] /\ g[k - 1] = f[k - 1] /\ f[k] = ApplyUpdate(f[k - 1], levels[k])
        BY <2>1, <2>2, <3>2, <4>1, RebuildsToFields
      <4> QED
        BY <3>2, <4>2
    <3>3. CASE k = 0
      <4>1. g[k] = f[0]
        BY <2>2, <3>3
      <4> QED
        BY <2>1, <2>2, <3>3, <4>1, RebuildsToFields, Zenon
    <3> QED
      BY <3>1, <3>2, <3>3
  <2>4. g = [k \in 0..(m + 1) |-> g[k]]
    OBVIOUS
  <2> HIDE DEF g
  <2>5. RebuildsTo(levels, m + 1, g)
    BY <2>3, <2>4, Zenon DEF RebuildsTo
  <2> QED
    BY <2>2, <2>5
<1> HIDE DEF S
<1>3. S \in SUBSET Nat
  BY DEF S
<1>4. S = Nat
  BY <1>1, <1>2, <1>3, NumbersByInduction
<1> QED
  BY <1>4 DEF S

\* Rebuilt() is what the recursion computes.
LEMMA RebuiltValue ==
  ASSUME NEW levels, Len(levels) \in Nat
  PROVE  \E f : RebuildsTo(levels, Len(levels), f) /\ Rebuilt(levels) = f[Len(levels)]
<1> DEFINE f == CHOOSE x : RebuildsTo(levels, Len(levels), x)
<1>1. RebuildsTo(levels, Len(levels), f)
  BY RebuildsToExists
<1>2. Rebuilt(levels) = f[Len(levels)]
  BY DEF Rebuilt, RebuildsTo
<1> HIDE DEF f
<1> QED
  BY <1>1, <1>2

\* Levels with a size.
IsSnapshot(levels) == levels \in Seq(Update) /\ \A k \in 1..Len(levels) : levels[k].size > 0

\* The prices of a side among the first m levels.
ListedPrices(levels, m, s) == {levels[k].price : k \in {l \in 1..m : levels[l].side = s}}

\* Level j of side s of book b is level k of the snapshot.
Shows(levels, k, b, s, j) ==
  levels[k].side = s /\ levels[k].price = b[s][j].price /\ levels[k].size = b[s][j].size

\* The book shows the best of the first m levels, as they are listed.
BestListed(levels, m, b) ==
  /\ b = [s \in Sides |-> b[s]]
  /\ \A s \in Sides :
       /\ SideOK(b[s], s)
       /\ BestOf(b[s], s, ListedPrices(levels, m, s))
       /\ \A j \in 1..Len(b[s]) : \E k \in 1..m : Shows(levels, k, b, s, j)

\* One level more.
LEMMA LevelKeepsBest ==
  ASSUME NEW levels, IsSnapshot(levels), NEW m \in Nat, m + 1 \in 1..Len(levels),
         NEW b, BestListed(levels, m, b)
  PROVE  BestListed(levels, m + 1, ApplyUpdate(b, levels[m + 1]))
<1>1. PICK side \in Sides, price \in Prices, size \in Sizes :
        /\ levels[m + 1].side = side /\ levels[m + 1].price = price /\ levels[m + 1].size = size
        /\ size > 0
  <2>1. levels[m + 1] \in Update
    BY DEF IsSnapshot
  <2> QED
    BY <2>1 DEF IsSnapshot, Update
<1> DEFINE c == ApplyUpdate(b, levels[m + 1])
           lv == b[side]
           w == ApplySide(lv, side, price, size)
<1>2. c = [b EXCEPT ![side] = w]
  BY <1>1 DEF ApplyUpdate, ApplyLevel
<1>3. c = [s \in Sides |-> c[s]] /\ c[side] = w /\ \A s \in Sides : s # side => c[s] = b[s]
  <2>1. DOMAIN b = Sides
    <3>1. b = [s \in Sides |-> b[s]]
      BY DEF BestListed
    <3> QED
      BY <3>1
  <2>2. DOMAIN c = Sides /\ c[side] = w /\ \A s \in Sides : s # side => c[s] = b[s]
    BY <1>2, <2>1
  <2>3. c = [s \in Sides |-> c[s]]
    BY <1>2, <2>1, Zenon
  <2> QED
    BY <2>2, <2>3
<1>4. SideOK(lv, side) /\ BestOf(lv, side, ListedPrices(levels, m, side))
  BY DEF BestListed
<1> HIDE DEF c, lv, w
<1>5. /\ ListedPrices(levels, m + 1, side) = ListedPrices(levels, m, side) \cup {price}
      /\ \A s \in Sides : s # side => ListedPrices(levels, m + 1, s) = ListedPrices(levels, m, s)
  <2>1. {l \in 1..m + 1 : levels[l].side = side} = {l \in 1..m : levels[l].side = side} \cup {m + 1}
    BY <1>1
  <2>2. ASSUME NEW s \in Sides, s # side
        PROVE  {l \in 1..m + 1 : levels[l].side = s} = {l \in 1..m : levels[l].side = s}
    BY <1>1, <2>2
  <2>3. ListedPrices(levels, m + 1, side) = ListedPrices(levels, m, side) \cup {price}
    <3>1. PICK A : A = {l \in 1..m : levels[l].side = side}
      BY Zenon
    <3>2. {levels[k].price : k \in A \cup {m + 1}} = {levels[k].price : k \in A} \cup {price}
      BY <1>1
    <3> QED
      BY <2>1, <3>1, <3>2, Zenon DEF ListedPrices
  <2> QED
    BY <2>2, <2>3, Zenon DEF ListedPrices
<1>6. ListedPrices(levels, m, side) \in SUBSET Prices
  <2>1. ASSUME NEW l \in 1..m PROVE levels[l].price \in Prices
    <3>1. levels[l] \in Update
      BY DEF IsSnapshot
    <3> QED
      BY <3>1 DEF Update
  <2> QED
    BY <2>1 DEF ListedPrices
<1>7. BestOf(w, side, ListedPrices(levels, m + 1, side))
  BY <1>1, <1>4, <1>5, <1>6, ArrivalKeepsBest DEF w
<1>8. /\ SideOK(w, side)
      /\ \A j \in 1..Len(w) :
           \/ w[j].price = price /\ w[j].size = size /\ size > 0
           \/ \E l \in 1..Len(lv) : w[j].price = lv[l].price /\ w[j].size = lv[l].size
                                      /\ lv[l].price # price
  <2>1. Applied(w, lv, side, price, size)
    BY <1>4, ApplySideEffect DEF w
  <2> QED
    BY <2>1, Zenon DEF Applied
<1>9. ASSUME NEW s \in Sides, NEW j \in 1..Len(c[s])
      PROVE  \E k \in 1..m + 1 : Shows(levels, k, c, s, j)
  <2>1. m + 1 \in 1..m + 1 /\ \A k \in 1..m : k \in 1..m + 1
    OBVIOUS
  <2>2. CASE s # side
    <3>1. PICK k \in 1..m : Shows(levels, k, b, s, j)
      BY <1>3, <1>9, <2>2 DEF BestListed
    <3> QED
      BY <1>3, <2>1, <2>2, <3>1 DEF Shows
  <2>3. CASE s = side /\ c[s][j].price = price /\ c[s][j].size = size
    BY <1>1, <2>1, <2>3 DEF Shows
  <2>4. CASE s = side /\ \E l \in 1..Len(lv) : c[s][j].price = lv[l].price /\ c[s][j].size = lv[l].size
    <3>1. PICK l \in 1..Len(lv) : c[s][j].price = lv[l].price /\ c[s][j].size = lv[l].size
      BY <2>4
    <3>2. PICK k \in 1..m : Shows(levels, k, b, side, l)
      BY DEF BestListed, lv
    <3> QED
      BY <2>1, <2>4, <3>1, <3>2 DEF Shows, lv
  <2>5. s = side => c[s] = w /\ j \in 1..Len(w)
    BY <1>3, <1>9
  <2> QED
    BY <1>8, <2>2, <2>3, <2>4, <2>5, Zenon
<1>10. \A s \in Sides : SideOK(c[s], s) /\ BestOf(c[s], s, ListedPrices(levels, m + 1, s))
  BY <1>3, <1>5, <1>7, <1>8 DEF BestListed
<1> QED
  BY <1>3, <1>9, <1>10 DEF BestListed, c

\* A recovery leaves the best MaxLevels levels of the snapshot on each side, in order and
\* with their sizes, however deep the snapshot is and whatever order it lists them in
\* (BookBuilder::on_snapshot(), clear() and the apply() loop).
THEOREM RebuildShowsBest ==
  \A levels : IsSnapshot(levels) => BestListed(levels, Len(levels), Rebuilt(levels))
<1> SUFFICES ASSUME NEW levels, IsSnapshot(levels)
             PROVE  BestListed(levels, Len(levels), Rebuilt(levels))
  BY Zenon
<1>1. Len(levels) \in Nat
  BY DEF IsSnapshot
<1>2. PICK f : RebuildsTo(levels, Len(levels), f) /\ Rebuilt(levels) = f[Len(levels)]
  BY <1>1, RebuiltValue
<1> DEFINE S == {m \in Nat : m <= Len(levels) => BestListed(levels, m, f[m])}
<1>3. 0 \in S
  <2>1. f[0] = EmptyBook
    BY <1>1, <1>2, RebuildsToFields
  <2>2. EmptyBook = [s \in Sides |-> EmptyBook[s]] /\ \A s \in Sides : EmptyBook[s] = <<>>
    BY DEF EmptyBook
  <2>3. <<>> \in Seq(Level) /\ Len(<<>>) = 0 /\ 1..0 = {} /\ 0 <= MaxLevels
    BY OrderBookAssumption
  <2>4. \A s \in Sides : SideOK(<<>>, s) /\ ListedPrices(levels, 0, s) = {}
    BY <2>3 DEF SideOK, ListedPrices
  <2>5. BestListed(levels, 0, EmptyBook)
    BY <2>2, <2>3, <2>4 DEF BestListed, BestOf
  <2> QED
    BY <2>1, <2>5
<1>4. ASSUME NEW m \in S PROVE m + 1 \in S
  <2> SUFFICES ASSUME m + 1 <= Len(levels) PROVE BestListed(levels, m + 1, f[m + 1])
    OBVIOUS
  <2>1. /\ m \in Nat /\ m + 1 \in 1..Len(levels) /\ m + 1 \in 0..Len(levels) /\ m + 1 # 0
        /\ (m + 1) - 1 = m /\ BestListed(levels, m, f[m])
    BY <1>1, <1>4
  <2>2. f[m + 1] = ApplyUpdate(f[m], levels[m + 1])
    BY <1>1, <1>2, <2>1, RebuildsToFields
  <2> QED
    BY <2>1, <2>2, LevelKeepsBest
<1> HIDE DEF S
<1>5. S \in SUBSET Nat
  BY DEF S
<1>6. S = Nat
  BY <1>3, <1>4, <1>5, NumbersByInduction
<1> QED
  BY <1>1, <1>2, <1>6 DEF S

-----------------------------------------------------------------------------
(* The book as BookBuilder uses it                                         *)

\* The books apply() can leave.
Books ==
  {b \in [Sides -> Seq(Level)] :
     \A s \in Sides : SideOK(b[s], s) /\ \A j \in 1..Len(b[s]) : b[s][j].size > 0}

Within(u, v) == \A j \in 1..Len(u) : \E l \in 1..Len(v) : u[j] = v[l]

\* There is one way to keep a set of levels best first.
LEMMA OneOrder ==
  ASSUME NEW side \in Sides, NEW u, SideOK(u, side), NEW v, SideOK(v, side), Len(u) = Len(v),
         Within(u, v), Within(v, u)
  PROVE  u = v
<1>1. u \in Seq(Level) /\ v \in Seq(Level) /\ Len(u) \in Nat
  BY DEF SideOK
<1> DEFINE D == {j \in 1..Len(u) : u[j] # v[j]}
<1>2. CASE D = {}
  <2>1. \A j \in 1..Len(u) : u[j] = v[j]
    BY <1>2
  <2>2. u = [j \in 1..Len(u) |-> u[j]] /\ v = [j \in 1..Len(u) |-> v[j]]
    BY <1>1
  <2> QED
    BY <2>1, <2>2, Zenon
<1>3. CASE D # {}
  <2>0. /\ \A i, j \in 1..Len(u) : i < j => Betters(side, u[i].price, u[j].price)
        /\ \A i, j \in 1..Len(u) : i < j => Betters(side, v[i].price, v[j].price)
        /\ \A i, j \in 1..Len(u) : u[i].price = u[j].price => i = j
        /\ \A i, j \in 1..Len(u) : v[i].price = v[j].price => i = j
    <3>1. \A i, j \in 1..Len(u) : i < j => Betters(side, u[i].price, u[j].price)
      BY Zenon DEF SideOK
    <3>2. \A i, j \in 1..Len(u) : i < j => Betters(side, v[i].price, v[j].price)
      BY Zenon DEF SideOK
    <3>3. \A i, j \in 1..Len(u) : u[i].price = u[j].price => i = j
      BY PricesDistinct, Zenon
    <3>4. \A i, j \in 1..Len(v) : v[i].price = v[j].price => i = j
      BY PricesDistinct, Zenon
    <3> QED
      BY <3>1, <3>2, <3>3, <3>4, Zenon
  <2>1. PICK j \in 1..Len(u) : u[j] # v[j] /\ \A i \in 1..Len(u) : i < j => u[i] = v[i]
    <3>1. D \in SUBSET Nat
      BY <1>1
    <3>2. Min(D) \in D /\ \A y \in D : Min(D) <= y
      BY <1>3, <3>1, LeastNumber, Zenon
    <3>3. PICK d \in D : \A y \in D : d <= y
      BY <3>2, Zenon
    <3>4. d \in 1..Len(u) /\ u[d] # v[d] /\ \A i \in 1..Len(u) : u[i] # v[i] => d <= i
      BY <3>3, Zenon
    <3> QED
      BY <1>1, <3>4
  <2>2. PICK l \in 1..Len(u) : u[j] = v[l]
    BY DEF Within
  <2>3. PICK k \in 1..Len(u) : v[j] = u[k]
    BY DEF Within
  <2>4. u[j].price \in Int /\ v[j].price \in Int
    <3>1. u[j] \in Level /\ v[j] \in Level
      BY <1>1
    <3> QED
      BY <3>1, OrderBookAssumption, Zenon DEF Level
  <2>5. l > j
    <3>1. l # j
      BY <2>1, <2>2
    <3>2. ASSUME l < j PROVE FALSE
      <4>1. u[l] = u[j]
        BY <2>1, <2>2, <3>2
      <4> QED
        BY <1>1, <2>0, <3>2, <4>1
    <3> QED
      BY <1>1, <3>1, <3>2
  <2>6. k > j
    <3>1. k # j
      BY <2>1, <2>3
    <3>2. ASSUME k < j PROVE FALSE
      <4>1. v[k] = v[j]
        BY <2>1, <2>3, <3>2
      <4> QED
        BY <1>1, <2>0, <3>2, <4>1
    <3> QED
      BY <1>1, <3>1, <3>2
  <2>7. Betters(side, v[j].price, u[j].price)
    BY <2>0, <2>2, <2>5
  <2>8. Betters(side, u[j].price, v[j].price)
    BY <2>0, <2>3, <2>6
  <2>9. FALSE
    BY <2>4, <2>7, <2>8 DEF Betters
  <2> QED
    BY <2>9
<1> QED
  BY <1>2, <1>3

\* Level j of side s, as a snapshot lists it.
Item(b, s, j) == [side |-> s, price |-> b[s][j].price, size |-> b[s][j].size]

\* A list of a book's levels is a snapshot that has each of them.
LEMMA ListsAreSnapshots ==
  ASSUME NEW b \in Books, NEW levels \in Listings(b)
  PROVE  /\ IsSnapshot(levels)
         /\ \A k \in 1..Len(levels) :
              \E s \in Sides : \E j \in 1..Len(b[s]) : levels[k] = Item(b, s, j)
         /\ \A s \in Sides : \A j \in 1..Len(b[s]) :
              \E k \in 1..Len(levels) : levels[k] = Item(b, s, j)
<1> DEFINE L == Listed(b)
           n == Cardinality(L)
           Of(s) == {Item(b, s, j) : j \in 1..Len(b[s])}
<1>1. \A s \in Sides : /\ b[s] \in Seq(Level) /\ Len(b[s]) \in Nat /\ DOMAIN b[s] = 1..Len(b[s])
                       /\ \A j \in 1..Len(b[s]) : b[s][j] \in Level /\ b[s][j].size > 0
  BY DEF Books
<1>2. L = Of("bid") \cup Of("ask")
  BY <1>1 DEF Listed, Item, Sides
<1>3. IsFiniteSet(L)
  <2>1. ASSUME NEW s \in Sides PROVE IsFiniteSet(Of(s))
    <3>1. IsFiniteSet(1..Len(b[s]))
      <4>1. 1 \in Int /\ Len(b[s]) \in Int
        BY <1>1
      <4> QED
        BY <4>1, FS_Interval, Zenon
    <3> DEFINE g == [j \in 1..Len(b[s]) |-> Item(b, s, j)]
    <3>2. g \in Surjection(1..Len(b[s]), Of(s))
      <4>1. g \in [1..Len(b[s]) -> Of(s)] /\ \A x \in Of(s) : \E j \in 1..Len(b[s]) : g[j] = x
        OBVIOUS
      <4> HIDE DEF g
      <4> QED
        BY <4>1, Zenon DEF Surjection
    <3> QED
      BY <3>1, <3>2, FS_Surjection
  <2>2. IsFiniteSet(Of("bid")) /\ IsFiniteSet(Of("ask"))
    BY <2>1 DEF Sides
  <2> HIDE DEF Of
  <2> QED
    BY <1>2, <2>2, FS_Union, Zenon
<1>4. \A x \in L : x \in Update /\ x.size > 0
  <2>1. ASSUME NEW s \in Sides, NEW j \in 1..Len(b[s])
        PROVE  Item(b, s, j) \in Update /\ Item(b, s, j).size > 0
    <3>1. b[s][j] \in Level /\ b[s][j].size > 0
      BY <1>1
    <3> QED
      BY <3>1 DEF Item, Level, Update
  <2> QED
    BY <1>2, <2>1 DEF Sides
<1>5. n \in Nat
  BY <1>3, FS_CardinalityType
<1>6. levels \in [1..n -> L] /\ \A k, l \in 1..n : k # l => levels[k] # levels[l]
  BY DEF Listings, SetToSeqs
<1> HIDE DEF L, n
<1>7. levels \in Seq(L) /\ Len(levels) = n
  BY <1>5, <1>6
<1>8. levels \in Surjection(1..n, L)
  <2>1. levels \in Injection(1..n, L)
    BY <1>6 DEF Injection, IsInjective
  <2>2. Cardinality(1..n) = Cardinality(L)
    BY <1>5, FS_Interval DEF n
  <2> QED
    BY <1>3, <2>1, <2>2, FS_Injection
<1>9. IsSnapshot(levels)
  <2>1. L \subseteq Update
    BY <1>4, Zenon
  <2>2. levels \in Seq(Update)
    BY <1>7, <2>1
  <2>3. ASSUME NEW k \in 1..n PROVE levels[k].size > 0
    <3>1. levels[k] \in L
      BY <1>6, Zenon
    <3> QED
      BY <1>4, <3>1, Zenon
  <2> QED
    BY <1>7, <2>2, <2>3, Zenon DEF IsSnapshot
<1>10. ASSUME NEW k \in 1..Len(levels)
       PROVE  \E s \in Sides : \E j \in 1..Len(b[s]) : levels[k] = Item(b, s, j)
  <2>1. levels[k] \in Of("bid") \cup Of("ask")
    BY <1>2, <1>6, <1>7
  <2> QED
    BY <2>1 DEF Sides
<1>11. ASSUME NEW s \in Sides, NEW j \in 1..Len(b[s])
       PROVE  \E k \in 1..Len(levels) : levels[k] = Item(b, s, j)
  <2>1. Item(b, s, j) \in L
    BY <1>2 DEF Sides
  <2> QED
    BY <1>7, <1>8, <2>1 DEF Surjection
<1> QED
  BY <1>9, <1>10, <1>11

\* The list of a book's levels rebuilds the book.
LEMMA RebuiltAsListed ==
  ASSUME NEW b \in Books, NEW levels \in Listings(b)
  PROVE  Rebuilt(levels) = b
<1> DEFINE c == Rebuilt(levels)
           n == Len(levels)
<1>1. BestListed(levels, n, c)
  BY ListsAreSnapshots, RebuildShowsBest
<1>2. b \in [Sides -> Seq(Level)] /\ c = [s \in Sides |-> c[s]]
      /\ \A s \in Sides : SideOK(b[s], s) /\ SideOK(c[s], s)
  BY <1>1 DEF Books, BestListed
<1> HIDE DEF c, n
<1>3. ASSUME NEW s \in Sides PROVE c[s] = b[s]
  <2>1. ASSUME NEW j \in 1..Len(c[s]) PROVE \E l \in 1..Len(b[s]) : c[s][j] = b[s][l]
    <3>1. PICK k \in 1..n : Shows(levels, k, c, s, j)
      BY <1>1 DEF BestListed
    <3>2. PICK r \in Sides : \E l \in 1..Len(b[r]) : levels[k] = Item(b, r, l)
      BY <3>1, ListsAreSnapshots DEF n
    <3>3. PICK l \in 1..Len(b[r]) : levels[k] = Item(b, r, l)
      BY <3>2
    <3>4. r = s /\ c[s][j].price = b[s][l].price /\ c[s][j].size = b[s][l].size
      BY <3>1, <3>3 DEF Shows, Item
    <3>5. c[s][j] \in Level /\ b[s][l] \in Level
      BY <1>2, <3>3, <3>4 DEF SideOK
    <3>6. c[s][j] = b[s][l]
      BY <3>4, <3>5 DEF Level
    <3> QED
      BY <3>3, <3>4, <3>6
  <2>2. Within(c[s], b[s])
    BY <2>1, Zenon DEF Within
  <2>3. Kept(c[s]) \subseteq Kept(b[s])
    BY <2>1, Zenon DEF Kept
  <2>4. Kept(b[s]) \subseteq ListedPrices(levels, n, s)
    <3>1. ASSUME NEW l \in 1..Len(b[s]) PROVE b[s][l].price \in ListedPrices(levels, n, s)
      <4>1. PICK k \in 1..n : levels[k] = Item(b, s, l)
        BY ListsAreSnapshots DEF n
      <4>2. levels[k].side = s /\ levels[k].price = b[s][l].price
        BY <4>1 DEF Item
      <4> QED
        BY <4>2 DEF ListedPrices
    <3> QED
      BY <3>1 DEF Kept
  <2>5. /\ IsFiniteSet(Kept(b[s])) /\ Cardinality(Kept(b[s])) = Len(b[s])
        /\ Cardinality(Kept(c[s])) = Len(c[s])
    BY <1>2, KeptCount
  <2>6. /\ Len(b[s]) \in Nat /\ Len(c[s]) \in Nat /\ MaxLevels \in Nat
        /\ Len(b[s]) <= MaxLevels
    BY <1>2, OrderBookAssumption DEF SideOK
  <2>7. Kept(c[s]) = Kept(b[s])
    <3>1. SUFFICES ASSUME Kept(c[s]) # Kept(b[s]) PROVE FALSE
      BY Zenon
    <3>2. PICK p \in Kept(b[s]) : p \notin Kept(c[s])
      BY <2>3, <3>1, Zenon
    <3>3. Len(c[s]) = MaxLevels
      BY <1>1, <2>4, <3>2 DEF BestListed, BestOf
    <3>4. /\ Cardinality(Kept(c[s])) <= Cardinality(Kept(b[s]))
          /\ Cardinality(Kept(b[s])) = Cardinality(Kept(c[s])) => Kept(b[s]) = Kept(c[s])
      BY <2>3, <2>5, FS_Subset
    <3>5. Cardinality(Kept(b[s])) = Cardinality(Kept(c[s]))
      BY <2>5, <2>6, <3>3, <3>4
    <3> QED
      BY <3>1, <3>4, <3>5
  <2>8. Len(c[s]) = Len(b[s])
    BY <2>5, <2>7
  <2>9. ASSUME NEW l \in 1..Len(b[s]) PROVE \E j \in 1..Len(c[s]) : b[s][l] = c[s][j]
    <3>1. PICK j \in 1..Len(c[s]) : c[s][j].price = b[s][l].price
      BY <2>7, Zenon DEF Kept
    <3>2. PICK m \in 1..Len(b[s]) : c[s][j] = b[s][m]
      BY <2>1
    <3>3. m = l
      BY <1>2, <3>1, <3>2, PricesDistinct
    <3> QED
      BY <3>2, <3>3
  <2>10. Within(b[s], c[s])
    BY <2>9, Zenon DEF Within
  <2> QED
    BY <1>2, <2>2, <2>8, <2>10, OneOrder
<1>4. b = [s \in Sides |-> b[s]] /\ c = [s \in Sides |-> c[s]]
  BY <1>2
<1> QED
  BY <1>3, <1>4, Zenon DEF c

\* An update leaves a book a book.
LEMMA UpdatedBook ==
  ASSUME NEW b \in Books, NEW u \in Update
  PROVE  ApplyUpdate(b, u) \in Books
<1>1. PICK side \in Sides, price \in Prices, size \in Sizes :
        u.side = side /\ u.price = price /\ u.size = size
  BY DEF Update
<1> DEFINE lv == b[side]
           w == ApplySide(lv, side, price, size)
<1>2. ApplyUpdate(b, u) = [b EXCEPT ![side] = w]
  BY <1>1 DEF ApplyUpdate, ApplyLevel
<1>3. /\ b \in [Sides -> Seq(Level)]
      /\ \A s \in Sides : SideOK(b[s], s) /\ \A j \in 1..Len(b[s]) : b[s][j].size > 0
  BY DEF Books
<1>4. /\ SideOK(w, side)
      /\ \A j \in 1..Len(w) :
           \/ w[j].price = price /\ w[j].size = size /\ size > 0
           \/ \E l \in 1..Len(lv) : w[j].price = lv[l].price /\ w[j].size = lv[l].size
                                      /\ lv[l].price # price
  <2>1. Applied(w, lv, side, price, size)
    BY <1>3, ApplySideEffect
  <2> QED
    BY <2>1, Zenon DEF Applied
<1> HIDE DEF w
<1>5. w \in Seq(Level) /\ \A j \in 1..Len(w) : w[j].size > 0
  BY <1>3, <1>4 DEF SideOK
<1> DEFINE c == [b EXCEPT ![side] = w]
<1>6. c \in [Sides -> Seq(Level)] /\ c[side] = w /\ \A s \in Sides : s # side => c[s] = b[s]
  BY <1>3, <1>5
<1> HIDE DEF c
<1>7. c \in Books
  BY <1>3, <1>4, <1>5, <1>6, Zenon DEF Books
<1> QED
  BY <1>2, <1>7 DEF c

\* The book of order_book.h is one that BookBuilder's theorems are about: what it assumes of
\* apply() and of a rebuild from a snapshot holds for every depth, grid and size.
THEOREM OrderBookFitsBuilder ==
  /\ EmptyBook \in Books
  /\ \A b \in Books, u \in Update : ApplyUpdate(b, u) \in Books
  /\ \A b \in Books : \A levels \in Listings(b) : Rebuilt(levels) = b
<1>1. EmptyBook \in Books
  <2>1. \A s \in Sides : EmptyBook[s] = <<>>
    BY DEF EmptyBook
  <2>2. <<>> \in Seq(Level) /\ Len(<<>>) = 0 /\ 1..0 = {} /\ 0 <= MaxLevels
    BY OrderBookAssumption
  <2>3. \A s \in Sides : SideOK(<<>>, s)
    BY <2>2 DEF SideOK
  <2>4. EmptyBook \in [Sides -> Seq(Level)]
    BY <2>2 DEF EmptyBook
  <2> QED
    BY <2>1, <2>2, <2>3, <2>4 DEF Books
<1> QED
  BY <1>1, UpdatedBook, RebuiltAsListed
=============================================================================
