--------------------------- MODULE SpscRingProofs ---------------------------
(***************************************************************************)
(* Proofs, for every capacity, cursor width and number of items and for    *)
(* both variants, that the ring is race free and implements a bounded      *)
(* FIFO.  The cursors are tied to the unbounded numbers of pushed and      *)
(* popped items, of which they are the remainders.                         *)
(***************************************************************************)
EXTENDS SpscRing, SequenceTheorems, TLAPS

-----------------------------------------------------------------------------
(* Wrapped cursors                                                         *)

\* Quotient and remainder.
LEMMA DivMod ==
  ASSUME NEW a \in Nat, NEW n \in Nat \ {0}
  PROVE  a = n * (a \div n) + (a % n) /\ (a % n) \in 0..n-1 /\ (a \div n) \in Nat
OBVIOUS

\* They are unique.
LEMMA ModUnique ==
  ASSUME NEW n \in Nat \ {0}, NEW q \in Int, NEW r \in 0..n-1, NEW q2 \in Int, NEW r2 \in 0..n-1,
    n * q + r = n * q2 + r2
  PROVE r = r2 /\ q = q2
<1>1. n * (q - q2) = r2 - r
 OBVIOUS
<1> DEFINE d == q - q2
<1>2. n * d = r2 - r /\ d \in Int
  BY <1>1
<1>3. CASE d = 0
  BY <1>2, <1>3
<1>4. CASE d >= 1
  <2>1. n * d >= n
    BY <1>4, <1>2
  <2> QED BY <2>1, <1>2
<1>5. CASE d <= -1
  <2>1. n * d <= -n
    BY <1>5, <1>2
  <2> QED BY <2>1, <1>2
<1> QED BY <1>2, <1>3,<1>4,<1>5

\* The remainder from any decomposition.
LEMMA ModOf ==
  ASSUME NEW n \in Nat \ {0}, NEW q \in Nat, NEW r \in 0..n-1, NEW a \in Nat, a = n * q + r
  PROVE (a % n) = r
<1> DEFINE d == a \div n  m == a % n
<1>2. a = n * d + m /\ m \in 0..n-1 /\ d \in Nat
  BY DivMod, Zenon
<1> HIDE DEF d, m
<1>3. n * d + m = n * q + r /\ d \in Int /\ q \in Int
  BY <1>2
<1>4. m = r
  <2> USE <1>2, <1>3
  <2> DEFINE x == n * d  y == n * q
  <2> QED BY ModUnique, Zenon
<1> QED BY <1>4 DEF m

\* buf_[t & kMask] depends only on the item number, not on the cursor having wrapped.
LEMMA SlotMod == ASSUME NEW a \in Nat PROVE Slot(a % W) = Slot(a)
<1>1. PICK m \in 1..W : W = m * Capacity
  BY WidthAssumption
<1>w. W \in Nat \ {0} /\ Capacity \in Nat \ {0} /\ m \in Nat
  BY WidthAssumption, CapacityAssumption
<1> DEFINE q == a \div W  r == a % W  q2 == r \div Capacity s == r % Capacity
<1>2. a = W * q + r /\ q \in Nat /\ r \in Nat
  BY <1>w, DivMod
<1> HIDE DEF r, q
<1>3. r = Capacity * q2 + s /\ q2 \in Nat /\ s \in 0..Capacity-1
  BY <1>2, <1>w, DivMod, Zenon
<1> HIDE DEF q2, s
<1>4. W * q = Capacity * (m * q)
  BY <1>1, <1>2, <1>w
<1>5. a = Capacity * (m * q + q2) + s /\ m * q + q2 \in Nat
  <2>1. m * q \in Nat
    BY <1>w, <1>2
  <2> DEFINE mq == m * q
  <2> HIDE DEF mq
  <2>2. Capacity * (mq + q2) = Capacity * mq + Capacity * q2
     BY <2>1, <1>3, <1>w DEF mq
  <2> QED BY <2>1, <2>2, <1>4, <1>2, <1>3, <1>w DEF mq
<1> DEFINE k == m * q + q2
<1> HIDE DEF k
<1>6. a = Capacity * k + s /\ k \in Nat
  BY <1>5 DEF k
<1>7. (a % Capacity) = s
  BY <1>6, <1>3, <1>w, ModOf
<1> QED BY <1>7 DEF s, r, Slot

\* The difference of wrapped cursors is the number of items between them.
LEMMA ModDiff ==
  ASSUME NEW a \in Nat, NEW b \in Nat, b <= a, a - b < W
  PROVE  Minus(a % W, b % W) = a - b
<1> DEFINE qa == a \div W  ra == a % W  qb == b \div W  rb == b % W
<1>w. W \in Nat \ {0}
  BY WidthAssumption, CapacityAssumption
<1>1. a = W * qa + ra /\ qa \in Nat /\ ra \in 0..W-1
  BY <1>w, DivMod, Zenon
<1>2. b = W * qb + rb /\ qb \in Nat /\ rb \in 0..W-1
  BY <1>w, DivMod, Zenon
<1> HIDE DEF qa, ra, qb, rb
<1> DEFINE d == qa - qb
<1>3. a - b = W * d + (ra - rb) /\ d \in Int
  <2>1. W * (qa - qb) = W * qa - W * qb
    BY <1>1, <1>2, <1>w
  <2> QED BY <2>1, <1>1, <1>2, <1>w
<1> HIDE DEF d
<1>4. d = 0 \/ d = 1
  <2>1. CASE d <= -1
    <3>1. W * d <= -W
      BY <2>1, <1>3, <1>w
    <3> QED BY <3>1, <1>1, <1>2, <1>3, <1>w
  <2>2. CASE d >= 2
    <3>1. W * d >= W * 2
      BY <2>2, <1>3, <1>w
    <3> QED BY <3>1, <1>1, <1>2, <1>3, <1>w
  <2> QED BY <2>1, <2>2, <1>3
<1>5. ra - rb + W = W * (1 - d) + (a - b) /\ 1 - d \in Nat /\ ra - rb + W \in Nat
  <2>1. CASE d = 0
    BY <2>1, <1>1, <1>2, <1>3, <1>w
  <2>2. CASE d = 1
    BY <2>2, <1>1, <1>2, <1>3, <1>w
  <2> QED BY <2>1, <2>2, <1>4
<1> DEFINE e == 1 - d  c == ra - rb + W  f == a - b
<1>6. c = W * e + f /\ e \in Nat /\ c \in Nat /\ f \in 0..W-1
  BY <1>5, <1>w
<1> HIDE DEF e, c, f
<1>7. (c % W) = f
  BY <1>6, <1>w, ModOf
<1> QED BY <1>7 DEF c, f, ra, rb, Minus

\* The next cursor value.
LEMMA ModSucc == ASSUME NEW a \in Nat PROVE (((a % W) + 1) % W) = ((a + 1) % W)
<1> DEFINE q == a \div W  r == a % W
<1>w. W \in Nat \ {0} /\ W > 1
  BY WidthAssumption, CapacityAssumption
<1>1. a = W * q + r /\ q \in Nat /\ r \in 0..W-1
  BY <1>w, DivMod, Zenon
<1> HIDE DEF q, r
<1>2. CASE r < W - 1
  <2>1. a + 1 = W * q + (r + 1) /\ r + 1 \in 0..W-1 /\ r + 1 \in Nat /\ a + 1 \in Nat
    BY <1>1, <1>2, <1>w
  <2>2. ((a + 1) % W) = r + 1
    BY <2>1, <1>1, <1>w, ModOf
  <2>3. ((r + 1) % W) = r + 1
    <3>1. r + 1 = W * 0 + (r + 1)
      BY <2>1, <1>w
    <3> QED BY <3>1, <2>1, <1>w, ModOf
  <2> QED BY <2>2, <2>3 DEF r
<1>3. CASE r = W - 1
  <2> DEFINE b == a + 1  k == q + 1  z == 0
  <2>1. b = W * k + z /\ k \in Nat /\ b \in Nat /\ z \in 0..W-1
    <3>1. W * (q + 1) = W * q + W
      BY <1>1, <1>w
    <3> QED BY <3>1, <1>1, <1>3, <1>w
  <2>2. (b % W) = 0
    <3> HIDE DEF b, k, z
    <3>1. (b % W) = z
      BY <2>1, <1>w, ModOf
    <3> QED BY <3>1 DEF z
  <2>3. ((r + 1) % W) = 0
    <3>1. r + 1 = W * 1 + 0 /\ r + 1 \in Nat
      BY <1>1, <1>3, <1>w
    <3> QED BY <3>1, <1>w, ModOf
  <2> QED BY <2>2, <2>3 DEF r
<1> QED BY <1>1, <1>2, <1>3, <1>w

\* Two items less than the capacity apart never share a slot.
LEMMA SlotInjective ==
  ASSUME NEW a \in Nat, NEW b \in Nat, a <= b, b - a < Capacity, Slot(a) = Slot(b)
  PROVE  a = b
<1> DEFINE qa == a \div Capacity  qb == b \div Capacity  r == a % Capacity
<1>c. Capacity \in Nat \ {0}
  BY CapacityAssumption
<1>1. a = Capacity * qa + r /\ qa \in Nat /\ r \in 0..Capacity-1
  BY <1>c, DivMod, Zenon
<1>2. b = Capacity * qb + r /\ qb \in Nat
  BY <1>c, DivMod, Zenon DEF Slot
<1> HIDE DEF qa, qb, r
<1> DEFINE d == qb - qa
<1>3. b - a = Capacity * d /\ d \in Int
  <2>1. Capacity * (qb - qa) = Capacity * qb - Capacity * qa
    BY <1>1, <1>2, <1>c
  <2> QED BY <2>1, <1>1, <1>2, <1>c
<1> HIDE DEF d
<1>4. CASE d >= 1
  <2>1. Capacity * d >= Capacity
    BY <1>4, <1>3, <1>c
  <2> QED BY <2>1, <1>3, <1>c
<1>5. CASE d <= -1
  <2>1. Capacity * d <= -Capacity
    BY <1>5, <1>3, <1>c
  <2> QED BY <2>1, <1>3, <1>c
<1>6. CASE d = 0
  BY <1>6, <1>3, <1>c
<1> QED BY <1>3, <1>4, <1>5, <1>6

-----------------------------------------------------------------------------
(* The inductive invariant                                                 *)

P == Len(pushed)
C == Len(popped)

\* The cursors are the item counts, wrapped; a running call's local is current.
Cursors ==
  /\ tail = P % W /\ head = C % W
  /\ pp # "idle" => t = tail
  /\ cp # "idle" => h = head
  /\ CacheFarCursor => cached_head = acq_head % W /\ cached_tail = acq_tail % W

\* What each side knows of the other is true, and enough for where it is.
Views ==
  /\ acq_head <= coh_head /\ coh_head <= C /\ P - acq_head <= Capacity
  /\ pp \in {"write", "publish"} => P - acq_head < Capacity
  /\ acq_tail <= coh_tail /\ coh_tail <= P /\ C <= acq_tail
  /\ cp \in {"read", "free"} => C < acq_tail

\* The slots hold the items between the cursors.
Slots ==
  /\ \A k \in C+1..P : buf[Slot(k - 1)] = pushed[k]
  /\ pp = "publish" => buf[Slot(P)] = item
  /\ cp = "free" => out = pushed[C + 1]

IInv == TypeOK /\ Cursors /\ Views /\ Slots /\ SizeBounded

\* The counts are numbers.
LEMMA Counts ==
  ASSUME TypeOK
  PROVE  P \in Nat /\ C \in Nat /\ coh_head \in Nat /\ acq_head \in Nat
         /\ coh_tail \in Nat /\ acq_tail \in Nat
BY DEF TypeOK, P, C

\* Wrapped counts are cursors.
LEMMA CursorType == \A a \in Nat : (a % W) \in Cursor
BY WidthAssumption, CapacityAssumption DEF Cursor

\* Cursor differences are cursors.
LEMMA MinusType == \A a, b \in Cursor : Minus(a, b) \in Cursor
BY WidthAssumption, CapacityAssumption DEF Cursor, Minus

\* Slot numbers are indices of buf_.
LEMMA SlotType == \A a \in Nat : Slot(a) \in 0..Capacity-1
BY CapacityAssumption DEF Slot

\* The empty ring satisfies the invariant.
LEMMA InitInv == Init => IInv
<1> SUFFICES ASSUME Init PROVE IInv
  OBVIOUS
<1>1. AnyItem \in Items
  BY ItemsAssumption DEF AnyItem
<1>2. 0 \in Cursor /\ (0 % W) = 0
  BY WidthAssumption, CapacityAssumption DEF Cursor
<1>3. P = 0 /\ C = 0
  BY DEF Init, P, C
<1>4. TypeOK
  BY <1>1, <1>2 DEF Init, TypeOK
<1>5. Cursors
  BY <1>2, <1>3 DEF Init, Cursors
<1>6. Views /\ Slots /\ SizeBounded
  BY <1>3, CapacityAssumption DEF Init, Views, Slots, SizeBounded
<1> QED BY <1>4, <1>5, <1>6 DEF IInv

\* try_push() up to its check against the cached head.
LEMMA PushStartInv ==
  ASSUME IInv, NEW v \in Items, PushStart(v)
  PROVE  IInv'
<1>1. /\ pp = "idle" /\ item' = v /\ t' = tail
      /\ pp' = IF CacheFarCursor /\ ~Full(tail, cached_head) THEN "write" ELSE "load"
      /\ UNCHANGED <<tail, cached_head, coh_head, acq_head, pushed, head, cached_tail, cp, h,
                     out, coh_tail, acq_tail, popped, buf, depth>>
  BY DEF PushStart, cons
<1>2. P' = P /\ C' = C
  BY <1>1 DEF P, C
<1>3. TypeOK'
  BY <1>1 DEF IInv, TypeOK
<1>4. Cursors'
  BY <1>1, <1>2 DEF IInv, Cursors
<1>5. pp' = "write" => P - acq_head < Capacity
  <2> SUFFICES ASSUME pp' = "write" PROVE P - acq_head < Capacity
    OBVIOUS
  <2>1. ~Full(P % W, acq_head % W)
    BY <1>1 DEF IInv, Cursors
  <2>2. acq_head <= P /\ P - acq_head < W
    BY Counts, WidthAssumption, CapacityAssumption DEF IInv, Views
  <2>3. Minus(P % W, acq_head % W) = P - acq_head
    BY <2>2, ModDiff, Counts DEF IInv
  <2> QED BY <2>1, <2>3, Counts, CapacityAssumption DEF IInv, Full
<1>6. Views'
  BY <1>1, <1>2, <1>5 DEF IInv, Views
<1>7. Slots' /\ SizeBounded'
  BY <1>1, <1>2 DEF IInv, Slots, SizeBounded
<1> QED BY <1>3, <1>4, <1>6, <1>7 DEF IInv

\* The acquire load of head lets the push through only if a slot is free.
LEMMA LoadHeadInv ==
  ASSUME IInv, NEW k \in Seen, LoadHead(k)
  PROVE  IInv' /\ (pp' = "idle" => P - k = Capacity)
<1>1. /\ pp = "load" /\ k \in coh_head..C /\ coh_head' = k /\ acq_head' = k
      /\ cached_head' = IF CacheFarCursor THEN k % W ELSE cached_head
      /\ pp' = IF Minus(t, k % W) >= Capacity THEN "idle" ELSE "write"
      /\ UNCHANGED <<tail, t, item, pushed, head, cached_tail, cp, h, out, coh_tail,
                     acq_tail, popped, buf, depth>>
  BY DEF LoadHead, cons, C, Full
<1>2. P' = P /\ C' = C /\ k \in Nat
  BY <1>1, ItemsAssumption DEF P, C, Seen
<1>3. k <= P /\ P - k <= Capacity /\ k <= C
  BY <1>1, <1>2, Counts, CapacityAssumption DEF IInv, Views
<1>4. Minus(t, k % W) = P - k
  <2>1. t = P % W
    BY <1>1 DEF IInv, Cursors
  <2>2. P - k < W
    BY <1>2, <1>3, Counts, WidthAssumption, CapacityAssumption DEF IInv
  <2> QED BY <2>1, <2>2, <1>2, <1>3, ModDiff, Counts DEF IInv
<1>5. pp' = "write" => P - k < Capacity
  BY <1>1, <1>2, <1>4, Counts, CapacityAssumption DEF IInv
<1>6. pp' = "idle" => P - k = Capacity
  BY <1>1, <1>2, <1>3, <1>4, Counts, CapacityAssumption DEF IInv
<1>7. TypeOK'
  BY <1>1, <1>2, CursorType DEF IInv, TypeOK
<1>8. Cursors'
  BY <1>1, <1>2 DEF IInv, Cursors
<1>9. Views'
  BY <1>1, <1>2, <1>3, <1>5 DEF IInv, Views
<1>10. Slots' /\ SizeBounded'
  BY <1>1, <1>2 DEF IInv, Slots, SizeBounded
<1> QED BY <1>6, <1>7, <1>8, <1>9, <1>10 DEF IInv

\* The slot written is none of those that hold an item.
LEMMA WriteSlotInv ==
  ASSUME IInv, WriteSlot
  PROVE  IInv'
<1>1. /\ pp = "write" /\ buf' = [buf EXCEPT ![Slot(t)] = item] /\ pp' = "publish"
      /\ UNCHANGED <<tail, cached_head, t, item, coh_head, acq_head, pushed, head, cached_tail,
                     cp, h, out, coh_tail, acq_tail, popped, depth>>
  BY DEF WriteSlot, cons
<1>2. P' = P /\ C' = C
  BY <1>1 DEF P, C
<1>3. Slot(t) = Slot(P) /\ Slot(P) \in 0..Capacity-1
  BY <1>1, SlotMod, SlotType, Counts DEF IInv, Cursors
<1>4. buf \in [0..Capacity-1 -> Items] /\ item \in Items
  BY DEF IInv, TypeOK
<1>5. TypeOK'
  BY <1>1, <1>3, <1>4 DEF IInv, TypeOK
<1>6. Cursors'
  BY <1>1, <1>2 DEF IInv, Cursors
<1>7. Views'
  BY <1>1, <1>2 DEF IInv, Views
<1>8. ASSUME NEW k \in C+1..P PROVE buf'[Slot(k - 1)] = pushed[k]
  <2>1. k - 1 \in Nat /\ k - 1 <= P /\ P - (k - 1) < Capacity /\ k - 1 # P
    BY <1>1, Counts, CapacityAssumption DEF IInv, Views
  <2>2. Slot(k - 1) # Slot(P)
    BY <2>1, Counts, SlotInjective DEF IInv
  <2>3. Slot(k - 1) \in 0..Capacity-1
    BY <2>1, SlotType
  <2>4. buf[Slot(k - 1)] = pushed[k]
    BY DEF IInv, Slots
  <2> QED BY <2>2, <2>3, <2>4, <1>1, <1>3, <1>4
<1>9. buf'[Slot(P)] = item
  BY <1>1, <1>3, <1>4
<1>10. Slots'
  BY <1>1, <1>2, <1>8, <1>9 DEF IInv, Slots
<1>11. SizeBounded'
  BY <1>1 DEF IInv, SizeBounded
<1> QED BY <1>5, <1>6, <1>7, <1>10, <1>11 DEF IInv

\* The release store of tail publishes the item just written.
LEMMA PublishInv ==
  ASSUME IInv, PublishTail
  PROVE  IInv'
<1>1. /\ pp = "publish" /\ tail' = (t + 1) % W /\ pushed' = Append(pushed, item) /\ pp' = "idle"
      /\ UNCHANGED <<cached_head, t, item, coh_head, acq_head, head, cached_tail, cp, h, out,
                     coh_tail, acq_tail, popped, buf, depth>>
  BY DEF PublishTail, cons, Advance
<1>2. pushed \in Seq(Items) /\ item \in Items /\ P \in Nat /\ C \in Nat
  BY Counts DEF IInv, TypeOK
<1>3. /\ pushed' \in Seq(Items) /\ P' = P + 1 /\ C' = C
      /\ \A k \in 1..P : pushed'[k] = pushed[k]
      /\ pushed'[P + 1] = item
  BY <1>1, <1>2 DEF P, C
<1>4. tail' = (P + 1) % W
  BY <1>1, <1>2, ModSucc DEF IInv, Cursors
<1>5. TypeOK'
  BY <1>1, <1>2, <1>3, <1>4, CursorType DEF IInv, TypeOK
<1>6. Cursors'
  BY <1>1, <1>3, <1>4 DEF IInv, Cursors
<1>7. Views'
  BY <1>1, <1>2, <1>3, Counts, CapacityAssumption DEF IInv, Views
<1>8. C < P + 1
  BY <1>2, Counts DEF IInv, Views
<1>9. ASSUME NEW k \in C+1..P+1 PROVE buf[Slot(k - 1)] = pushed'[k]
  <2>1. CASE k \in C+1..P
    BY <2>1, <1>2, <1>3 DEF IInv, Slots
  <2>2. CASE k = P + 1
    <3>1. k - 1 = P
      BY <2>2, <1>2
    <3> QED BY <3>1, <2>2, <1>1, <1>3 DEF IInv, Slots
  <2> QED BY <2>1, <2>2, <1>2
<1>10. cp = "free" => out = pushed'[C + 1]
  <2> SUFFICES ASSUME cp = "free" PROVE out = pushed'[C + 1]
    OBVIOUS
  <2>1. C + 1 \in 1..P
    BY <1>2, Counts DEF IInv, Views
  <2> QED BY <2>1, <1>3 DEF IInv, Slots
<1>11. Slots'
  BY <1>1, <1>3, <1>9, <1>10, Zenon DEF Slots
<1>12. SizeBounded'
  BY <1>1 DEF IInv, SizeBounded
<1> QED BY <1>5, <1>6, <1>7, <1>11, <1>12 DEF IInv

\* try_pop() up to its check against the cached tail.
LEMMA PopStartInv ==
  ASSUME IInv, PopStart
  PROVE  IInv'
<1>1. /\ cp = "idle" /\ h' = head
      /\ cp' = IF CacheFarCursor /\ head # cached_tail THEN "read" ELSE "load"
      /\ UNCHANGED <<head, cached_tail, out, coh_tail, acq_tail, popped, tail, cached_head, pp, t,
                     item, coh_head, acq_head, pushed, buf, depth>>
  BY DEF PopStart, prod
<1>2. P' = P /\ C' = C
  BY <1>1 DEF P, C
<1>3. TypeOK'
  BY <1>1 DEF IInv, TypeOK
<1>4. Cursors'
  BY <1>1, <1>2 DEF IInv, Cursors
<1>5. cp' = "read" => C < acq_tail
  <2>1. cp' = "read" => C # acq_tail
    BY <1>1 DEF IInv, Cursors
  <2> QED BY <2>1, Counts DEF IInv, Views
<1>6. Views'
  BY <1>1, <1>2, <1>5 DEF IInv, Views
<1>7. Slots' /\ SizeBounded'
  BY <1>1, <1>2 DEF IInv, Slots, SizeBounded
<1> QED BY <1>3, <1>4, <1>6, <1>7 DEF IInv

\* The acquire load of tail lets the pop through only if an item is there.
LEMMA LoadTailInv ==
  ASSUME IInv, NEW k \in Seen, LoadTail(k)
  PROVE  IInv'
<1>1. /\ cp = "load" /\ k \in coh_tail..P /\ coh_tail' = k /\ acq_tail' = k
      /\ cached_tail' = IF CacheFarCursor THEN k % W ELSE cached_tail
      /\ cp' = IF h = k % W THEN "idle" ELSE "read"
      /\ UNCHANGED <<head, h, out, popped, tail, cached_head, pp, t, item, coh_head, acq_head,
                     pushed, buf, depth>>
  BY DEF LoadTail, prod, P
<1>2. P' = P /\ C' = C /\ k \in Nat
  BY <1>1, ItemsAssumption DEF P, C, Seen
<1>3. C <= k /\ k <= P
  BY <1>1, <1>2, Counts DEF IInv, Views
<1>4. cp' = "read" => C < k
  <2>1. h = C % W
    BY <1>1 DEF IInv, Cursors
  <2>2. cp' = "read" => C # k
    BY <2>1, <1>1
  <2> QED BY <2>2, <1>2, <1>3, Counts DEF IInv
<1>5. TypeOK'
  BY <1>1, <1>2, CursorType DEF IInv, TypeOK
<1>6. Cursors'
  BY <1>1, <1>2 DEF IInv, Cursors
<1>7. Views'
  BY <1>1, <1>2, <1>3, <1>4 DEF IInv, Views
<1>8. Slots' /\ SizeBounded'
  BY <1>1, <1>2 DEF IInv, Slots, SizeBounded
<1> QED BY <1>5, <1>6, <1>7, <1>8 DEF IInv

\* The slot read holds the oldest item.
LEMMA ReadSlotInv ==
  ASSUME IInv, ReadSlot
  PROVE  IInv'
<1>1. /\ cp = "read" /\ out' = buf[Slot(h)] /\ cp' = "free"
      /\ UNCHANGED <<head, cached_tail, h, coh_tail, acq_tail, popped, tail, cached_head, pp, t,
                     item, coh_head, acq_head, pushed, buf, depth>>
  BY DEF ReadSlot, prod
<1>2. P' = P /\ C' = C
  BY <1>1 DEF P, C
<1>3. Slot(h) = Slot(C) /\ Slot(C) \in 0..Capacity-1
  BY <1>1, SlotMod, SlotType, Counts DEF IInv, Cursors
<1>4. out' = pushed[C + 1]
  <2>1. C + 1 \in C+1..P /\ (C + 1) - 1 = C
    BY <1>1, Counts DEF IInv, Views
  <2>2. buf[Slot((C + 1) - 1)] = pushed[C + 1]
    BY <2>1 DEF IInv, Slots
  <2> QED BY <2>1, <2>2, <1>1, <1>3
<1>5. TypeOK'
  BY <1>1, <1>3 DEF IInv, TypeOK
<1>6. Cursors'
  BY <1>1, <1>2 DEF IInv, Cursors
<1>7. Views'
  BY <1>1, <1>2 DEF IInv, Views
<1>8. Slots' /\ SizeBounded'
  BY <1>1, <1>2, <1>4 DEF IInv, Slots, SizeBounded
<1> QED BY <1>5, <1>6, <1>7, <1>8 DEF IInv

\* The release store of head gives the slot back.
LEMMA FreeSlotInv ==
  ASSUME IInv, FreeSlot
  PROVE  IInv'
<1>1. /\ cp = "free" /\ head' = (h + 1) % W /\ popped' = Append(popped, out) /\ cp' = "idle"
      /\ UNCHANGED <<cached_tail, h, out, coh_tail, acq_tail, tail, cached_head, pp, t, item,
                     coh_head, acq_head, pushed, buf, depth>>
  BY DEF FreeSlot, prod, Advance
<1>2. popped \in Seq(Items) /\ out \in Items /\ P \in Nat /\ C \in Nat
  BY Counts DEF IInv, TypeOK
<1>3. popped' \in Seq(Items) /\ C' = C + 1 /\ P' = P
  BY <1>1, <1>2 DEF P, C
<1>4. head' = (C + 1) % W
  BY <1>1, <1>2, ModSucc DEF IInv, Cursors
<1>5. TypeOK'
  BY <1>1, <1>2, <1>3, <1>4, CursorType DEF IInv, TypeOK
<1>6. Cursors'
  BY <1>1, <1>3, <1>4 DEF IInv, Cursors
<1>7. Views'
  BY <1>1, <1>2, <1>3, Counts DEF IInv, Views
<1>8. \A k \in C+2..P : k \in C+1..P
  BY <1>2
<1>9. Slots'
  BY <1>1, <1>2, <1>3, <1>8 DEF IInv, Slots
<1>10. SizeBounded'
  BY <1>1 DEF IInv, SizeBounded
<1> QED BY <1>5, <1>6, <1>7, <1>9, <1>10 DEF IInv

\* size_approx() on the producer's side.
LEMMA SizeByProducerInv ==
  ASSUME IInv, NEW k \in Seen, SizeByProducer(k)
  PROVE  IInv'
<1>1. /\ k \in coh_head..C /\ coh_head' = k /\ depth' = Minus(tail, k % W)
      /\ UNCHANGED <<tail, cached_head, pp, t, item, acq_head, pushed, head, cached_tail, cp, h,
                     out, coh_tail, acq_tail, popped, buf>>
  BY DEF SizeByProducer, cons, C
<1>2. P' = P /\ C' = C /\ k \in Nat
  BY <1>1, ItemsAssumption DEF P, C, Seen
<1>3. acq_head <= k /\ k <= C /\ k <= P /\ P - k <= Capacity
  BY <1>1, <1>2, Counts, CapacityAssumption DEF IInv, Views
<1>4. depth' = P - k
  <2>1. P - k < W
    BY <1>2, <1>3, Counts, WidthAssumption, CapacityAssumption DEF IInv
  <2> QED BY <2>1, <1>1, <1>2, <1>3, ModDiff, Counts DEF IInv, Cursors
<1>5. depth' \in Cursor
  BY <1>1, <1>2, CursorType, MinusType DEF IInv, TypeOK
<1>6. TypeOK'
  BY <1>1, <1>2, <1>5 DEF IInv, TypeOK
<1>7. Cursors' /\ Slots'
  BY <1>1, <1>2 DEF IInv, Cursors, Slots
<1>8. Views'
  BY <1>1, <1>2, <1>3 DEF IInv, Views
<1>9. SizeBounded'
  BY <1>3, <1>4 DEF SizeBounded
<1> QED BY <1>6, <1>7, <1>8, <1>9 DEF IInv

\* size_approx() on the consumer's side.
LEMMA SizeByConsumerInv ==
  ASSUME IInv, NEW k \in Seen, SizeByConsumer(k)
  PROVE  IInv'
<1>1. /\ k \in coh_tail..P /\ coh_tail' = k /\ depth' = Minus(k % W, head)
      /\ UNCHANGED <<head, cached_tail, cp, h, out, acq_tail, popped, tail, cached_head, pp, t,
                     item, coh_head, acq_head, pushed, buf>>
  BY DEF SizeByConsumer, prod, P
<1>2. P' = P /\ C' = C /\ k \in Nat
  BY <1>1, ItemsAssumption DEF P, C, Seen
<1>3. acq_tail <= k /\ C <= k /\ k <= P /\ k - C <= Capacity
  BY <1>1, <1>2, Counts, CapacityAssumption DEF IInv, Views
<1>4. depth' = k - C
  <2>1. k - C < W
    BY <1>2, <1>3, Counts, WidthAssumption, CapacityAssumption DEF IInv
  <2> QED BY <2>1, <1>1, <1>2, <1>3, ModDiff, Counts DEF IInv, Cursors
<1>5. depth' \in Cursor
  BY <1>1, <1>2, CursorType, MinusType DEF IInv, TypeOK
<1>6. TypeOK'
  BY <1>1, <1>2, <1>5 DEF IInv, TypeOK
<1>7. Cursors' /\ Slots'
  BY <1>1, <1>2 DEF IInv, Cursors, Slots
<1>8. Views'
  BY <1>1, <1>2, <1>3 DEF IInv, Views
<1>9. SizeBounded'
  BY <1>3, <1>4 DEF SizeBounded
<1> QED BY <1>6, <1>7, <1>8, <1>9 DEF IInv

\* Every step keeps the invariant.
LEMMA NextInv == IInv /\ [Next]_vars => IInv'
<1> SUFFICES ASSUME IInv, [Next]_vars PROVE IInv'
  OBVIOUS
<1>1. CASE UNCHANGED vars
  BY <1>1 DEF vars, prod, cons, IInv, TypeOK, Cursors, Views, Slots, SizeBounded, P, C
<1>2. CASE Next
  BY <1>2, PushStartInv, LoadHeadInv, WriteSlotInv, PublishInv, PopStartInv, LoadTailInv,
     ReadSlotInv, FreeSlotInv, SizeByProducerInv, SizeByConsumerInv DEF Next
<1> QED BY <1>1, <1>2

\* IInv holds throughout.
THEOREM RingInvariant == Spec => []IInv
BY InitInv, NextInv, PTL DEF Spec

\* Every variable of SpscRing keeps its type; cursors stay within their width.
THEOREM TypeCorrect == Spec => []TypeOK
<1>1. IInv => TypeOK
  BY DEF IInv
<1> QED BY <1>1, RingInvariant, PTL

\* try_push() and try_pop() are free of data races on the slots, for the naive and for
\* the caching ring.
THEOREM RaceFree == Spec => []NoRace
<1>1. IInv => NoRace
  BY DEF IInv, Views, NoRace, P, C
<1> QED BY <1>1, RingInvariant, PTL

\* size_approx() stays within the capacity, whichever thread calls it and however old
\* the cursor it loads.
THEOREM SizeWithinCapacity == Spec => []SizeBounded
<1>1. IInv => SizeBounded
  BY DEF IInv
<1> QED BY <1>1, RingInvariant, PTL

\* try_push() returns false only when all Capacity slots are taken.
THEOREM AllSlotsUsable == Spec => NoSacrificedSlot
<1>1. IInv /\ [Next]_vars => [pp = "load" /\ pp' = "idle" => Len(pushed) - coh_head' = Capacity]_vars
  <2> SUFFICES ASSUME IInv, Next, pp = "load", pp' = "idle"
               PROVE  Len(pushed) - coh_head' = Capacity
    OBVIOUS
  <2>1. PICK k \in Seen : LoadHead(k)
    BY DEF Next, PushStart, WriteSlot, PublishTail, PopStart, LoadTail, ReadSlot, FreeSlot,
           SizeByProducer, SizeByConsumer, prod
  <2> QED BY <2>1, LoadHeadInv DEF LoadHead, P
<1> QED BY <1>1, RingInvariant, PTL DEF Spec, NoSacrificedSlot

-----------------------------------------------------------------------------
(* Refinement                                                              *)

\* Storing tail appends to the queue between the cursors.
LEMMA QueueAppend ==
  ASSUME NEW s \in Seq(Items), NEW v \in Items, NEW n \in 0..Len(s)
  PROVE  SubSeq(Append(s, v), n + 1, Len(s) + 1) = Append(SubSeq(s, n + 1, Len(s)), v)
<1> DEFINE a == Append(s, v)
<1>1. a \in Seq(Items) /\ Len(a) = Len(s) + 1 /\ Len(s) \in Nat /\ a[Len(s) + 1] = v
      /\ \A i \in 1..Len(s) : a[i] = s[i]
  BY AppendProperties
<1> HIDE DEF a
<1>2. SubSeq(a, n + 1, Len(s) + 1) \in Seq(Items)
      /\ Len(SubSeq(a, n + 1, Len(s) + 1)) = Len(s) - n + 1
      /\ \A i \in 1..Len(s) - n + 1 : SubSeq(a, n + 1, Len(s) + 1)[i] = a[n + i]
  BY <1>1
<1>3. SubSeq(s, n + 1, Len(s)) \in Seq(Items)
      /\ Len(SubSeq(s, n + 1, Len(s))) = Len(s) - n
      /\ \A i \in 1..Len(s) - n : SubSeq(s, n + 1, Len(s))[i] = s[n + i]
  BY <1>1
<1> DEFINE x == SubSeq(a, n + 1, Len(s) + 1)
           z == SubSeq(s, n + 1, Len(s))
           y == Append(z, v)
<1>z. z \in Seq(Items) /\ Len(z) = Len(s) - n /\ \A i \in 1..Len(s) - n : z[i] = s[n + i]
  BY <1>3
<1> HIDE DEF x, z
<1>4. y \in Seq(Items) /\ Len(y) = Len(s) - n + 1 /\ y[Len(s) - n + 1] = v
      /\ \A i \in 1..Len(s) - n : y[i] = s[n + i]
  <2>0. z \in Seq(Items)
    BY <1>z
  <2>1. /\ y \in Seq(Items) /\ Len(y) = Len(z) + 1
        /\ y[Len(z) + 1] = v /\ \A i \in 1..Len(z) : y[i] = z[i]
    BY <2>0, AppendProperties
  <2> HIDE DEF y
  <2> QED BY <1>z, <2>1
<1> HIDE DEF y
<1>5. ASSUME NEW i \in 1..Len(x) PROVE x[i] = y[i]
  <2>1. CASE i \in 1..Len(s) - n
    <3>1. n + i \in 1..Len(s)
      BY <2>1, <1>1
    <3> QED BY <3>1, <2>1, <1>1, <1>2, <1>4, Zenon DEF x
  <2>2. CASE i = Len(s) - n + 1
    <3>1. n + i = Len(s) + 1
      BY <2>2, <1>1
    <3> QED BY <3>1, <2>2, <1>1, <1>2, <1>4 DEF x
  <2>3. Len(x) = Len(s) - n + 1
    BY <1>2 DEF x
  <2>4. i \in 1..Len(s) - n \/ i = Len(s) - n + 1
    BY <2>3, <1>1
  <2> QED BY <2>1, <2>2, <2>4
<1>6. x = y
  BY <1>2, <1>4, <1>5, SeqEqual, Zenon DEF x
<1> QED BY <1>6, Zenon DEF x, y, z, a

\* The ring implements BoundedFifo: a push takes effect at the store of tail, a pop
\* at the store of head, every other step leaves the queue alone.
THEOREM ImplementsFifo == Spec => IsFifo
<1> DEFINE q == SubSeq(pushed, Len(popped) + 1, Len(pushed))
<1>1. Init => Fifo!Init
  BY DEF Init, Fifo!Init
<1>2. IInv /\ [Next]_vars => [Fifo!Next]_<<q, popped>>
  <2> SUFFICES ASSUME IInv, [Next]_vars, ~(UNCHANGED <<pushed, popped>>)
               PROVE  Fifo!Next
    OBVIOUS
  <2>1. pushed \in Seq(Items) /\ popped \in Seq(Items) /\ P \in Nat /\ C \in Nat
        /\ item \in Items /\ out \in Items
    BY Counts DEF IInv, TypeOK
  <2>2. C <= P /\ P - C <= Capacity
    BY Counts, CapacityAssumption DEF IInv, Views
  <2>3. CASE PublishTail
    <3>1. pp = "publish" /\ pushed' = Append(pushed, item) /\ popped' = popped
      BY <2>3 DEF PublishTail, cons
    <3>2. P - C < Capacity
      BY <3>1, Counts, CapacityAssumption DEF IInv, Views
    <3>3. Len(q) = P - C
      BY <2>1, <2>2 DEF P, C
    <3>4. q' = SubSeq(Append(pushed, item), C + 1, P + 1)
      <4>1. Len(pushed') = P + 1 /\ Len(popped') = C
        BY <3>1, <2>1 DEF P, C
      <4> QED BY <4>1, <3>1, Zenon
    <3>5. q' = Append(q, item)
      <4>1. C \in 0..Len(pushed)
        BY <2>1, <2>2 DEF P
      <4>2. SubSeq(Append(pushed, item), C + 1, P + 1) = Append(SubSeq(pushed, C + 1, P), item)
        BY <4>1, <2>1, QueueAppend, Zenon DEF P
      <4> QED BY <4>2, <3>4, Zenon DEF P, C
    <3>6. Fifo!Put(item)
      BY <3>1, <3>2, <3>3, <3>5, Zenon DEF Fifo!Put
    <3> QED BY <3>6, <2>1 DEF Fifo!Next
  <2>4. CASE FreeSlot
    <3>1. cp = "free" /\ popped' = Append(popped, out) /\ pushed' = pushed
      BY <2>4 DEF FreeSlot, prod
    <3>2. C < P /\ out = pushed[C + 1]
      BY <3>1, Counts DEF IInv, Views, Slots
    <3>3. C + 1 \in 1..Len(pushed) /\ Len(pushed) \in C + 1..Len(pushed)
      BY <3>2, <2>1 DEF P
    <3>4. Head(q) = pushed[C + 1] /\ Tail(q) = SubSeq(pushed, C + 2, Len(pushed))
      BY <3>3, <2>1, HeadTailOfSubSeq DEF C
    <3>5. q' = SubSeq(pushed, C + 2, Len(pushed))
      BY <3>1, <2>1 DEF C
    <3>6. q # <<>>
      <4>1. Len(q) = P - C
        BY <2>1, <2>2 DEF P, C
      <4>2. Len(q) # 0
        BY <4>1, <3>2, <2>1
      <4>3. Len(<<>>) = 0
        OBVIOUS
      <4> QED BY <4>2, <4>3, Zenon
    <3>7. Fifo!Get
      BY <3>1, <3>2, <3>4, <3>5, <3>6, Zenon DEF Fifo!Get
    <3> QED BY <3>7 DEF Fifo!Next
  <2> QED BY <2>3, <2>4 DEF Next, vars, prod, cons, PushStart, LoadHead, WriteSlot, PopStart,
             LoadTail, ReadSlot, SizeByProducer, SizeByConsumer
<1> QED BY <1>1, <1>2, RingInvariant, PTL DEF Spec, IsFifo, Fifo!Spec
=============================================================================
