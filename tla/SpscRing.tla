------------------------------ MODULE SpscRing ------------------------------
(***************************************************************************)
(* The single-producer single-consumer ring (src/concurrent/spsc_ring.h).  *)
(* One step per access to a shared cell: a cursor load, a slot access, a   *)
(* cursor store.                                                           *)
(*                                                                         *)
(* Memory model.  Each cursor has one writer, so its n-th value is n % W   *)
(* and a load by the other side returns some value no older than the last  *)
(* one that side read (coherence), not necessarily the newest.  An acquire *)
(* load also makes everything the other side did before its release store  *)
(* visible: the acq_ variables say how far that knowledge goes, and a slot *)
(* may be touched only where it covers the other side's last access.  A    *)
(* relaxed load, as in size_approx(), moves only the coh_ variables.       *)
(***************************************************************************)
EXTENDS Integers, Sequences

CONSTANTS
  Capacity,         \* template parameter
  CacheFarCursor,   \* template parameter
  W,                \* number of cursor values (2^64 in the code)
  Items,            \* what is pushed
  MaxItems          \* bound: items the producer pushes

ASSUME CapacityAssumption == Capacity \in Nat /\ Capacity >= 2
ASSUME WidthAssumption == W \in Nat /\ W > Capacity /\ \E m \in 1..W : W = m * Capacity
ASSUME VariantAssumption == CacheFarCursor \in BOOLEAN
ASSUME ItemsAssumption == Items # {} /\ MaxItems \in Nat

VARIABLES
  tail, cached_head,   \* prod_
  head, cached_tail,   \* cons_
  buf,                 \* buf_
  pp, t, item,         \* the producer: where try_push is, its local, its argument
  cp, h, out,          \* the consumer: where try_pop is, its local, its result
  coh_head, acq_head,  \* head values the producer has read, and acquired
  coh_tail, acq_tail,  \* tail values the consumer has read, and acquired
  depth,               \* what size_approx() last returned
  pushed, popped       \* history: the items in the order of the cursor stores

prod == <<tail, cached_head, pp, t, item, coh_head, acq_head, pushed>>
cons == <<head, cached_tail, cp, h, out, coh_tail, acq_tail, popped>>
vars == <<prod, cons, buf, depth>>

Minus(a, b) == (a - b + W) % W
Slot(c) == c % Capacity

Advance(c) == (c + 1) % W

\* Faults: one item too many is let in; one slot is never used.
FullLate(c, far) == Minus(c, far) > Capacity
FullEarly(c, far) == Minus(c, far) >= Capacity - 1

Full(c, far) == Minus(c, far) >= Capacity

AnyItem == CHOOSE v \in Items : TRUE

Init ==
  /\ tail = 0 /\ cached_head = 0 /\ head = 0 /\ cached_tail = 0
  /\ buf = [s \in 0..Capacity-1 |-> AnyItem]
  /\ pp = "idle" /\ t = 0 /\ item = AnyItem
  /\ cp = "idle" /\ h = 0 /\ out = AnyItem
  /\ coh_head = 0 /\ acq_head = 0 /\ coh_tail = 0 /\ acq_tail = 0
  /\ depth = 0
  /\ pushed = <<>> /\ popped = <<>>

-----------------------------------------------------------------------------
(* try_push()                                                              *)

\* The cached head is trusted unless it makes the ring look full.
PushStart(v) ==
  /\ pp = "idle" /\ Len(pushed) < MaxItems
  /\ item' = v
  /\ t' = tail
  /\ pp' = IF CacheFarCursor /\ ~Full(tail, cached_head) THEN "write" ELSE "load"
  /\ UNCHANGED <<tail, cached_head, coh_head, acq_head, pushed, cons, buf, depth>>

\* The acquire load returns the k-th value of head; full means return false.
LoadHead(k) ==
  /\ pp = "load" /\ k \in coh_head..Len(popped)
  /\ coh_head' = k /\ acq_head' = k
  /\ cached_head' = IF CacheFarCursor THEN k % W ELSE cached_head
  /\ pp' = IF Full(t, k % W) THEN "idle" ELSE "write"
  /\ UNCHANGED <<tail, t, item, pushed, cons, buf, depth>>

WriteSlot ==
  /\ pp = "write"
  /\ buf' = [buf EXCEPT ![Slot(t)] = item]
  /\ pp' = "publish"
  /\ UNCHANGED <<tail, cached_head, t, item, coh_head, acq_head, pushed, cons, depth>>

PublishTail ==
  /\ pp = "publish"
  /\ tail' = Advance(t)
  /\ pushed' = Append(pushed, item)
  /\ pp' = "idle"
  /\ UNCHANGED <<cached_head, t, item, coh_head, acq_head, cons, buf, depth>>

-----------------------------------------------------------------------------
(* try_pop()                                                               *)

\* Fault: the cached tail is never refreshed.
PopStartCacheOnly ==
  /\ cp = "idle" /\ Len(popped) < MaxItems
  /\ h' = head
  /\ cp' = IF head # cached_tail THEN "read" ELSE "idle"
  /\ UNCHANGED <<head, cached_tail, out, coh_tail, acq_tail, popped, prod, buf, depth>>

PopStart ==
  /\ cp = "idle" /\ Len(popped) < MaxItems
  /\ h' = head
  /\ cp' = IF CacheFarCursor /\ head # cached_tail THEN "read" ELSE "load"
  /\ UNCHANGED <<head, cached_tail, out, coh_tail, acq_tail, popped, prod, buf, depth>>

\* Fault: a relaxed load of tail.
LoadTailRelaxed(k) ==
  /\ cp = "load" /\ k \in coh_tail..Len(pushed)
  /\ coh_tail' = k
  /\ cached_tail' = IF CacheFarCursor THEN k % W ELSE cached_tail
  /\ cp' = IF h = k % W THEN "idle" ELSE "read"
  /\ UNCHANGED <<head, h, out, acq_tail, popped, prod, buf, depth>>

LoadTail(k) ==
  /\ cp = "load" /\ k \in coh_tail..Len(pushed)
  /\ coh_tail' = k /\ acq_tail' = k
  /\ cached_tail' = IF CacheFarCursor THEN k % W ELSE cached_tail
  /\ cp' = IF h = k % W THEN "idle" ELSE "read"
  /\ UNCHANGED <<head, h, out, popped, prod, buf, depth>>

ReadSlot ==
  /\ cp = "read"
  /\ out' = buf[Slot(h)]
  /\ cp' = "free"
  /\ UNCHANGED <<head, cached_tail, h, coh_tail, acq_tail, popped, prod, buf, depth>>

FreeSlot ==
  /\ cp = "free"
  /\ head' = Advance(h)
  /\ popped' = Append(popped, out)
  /\ cp' = "idle"
  /\ UNCHANGED <<cached_tail, h, out, coh_tail, acq_tail, prod, buf, depth>>

-----------------------------------------------------------------------------
(* size_approx(), called by either side: its own cursor is exact, the      *)
(* other one a relaxed load.                                               *)

SizeByProducer(k) ==
  /\ pp = "idle" /\ k \in coh_head..Len(popped)
  /\ coh_head' = k
  /\ depth' = Minus(tail, k % W)
  /\ UNCHANGED <<tail, cached_head, pp, t, item, acq_head, pushed, cons, buf>>

SizeByConsumer(k) ==
  /\ cp = "idle" /\ k \in coh_tail..Len(pushed)
  /\ coh_tail' = k
  /\ depth' = Minus(k % W, head)
  /\ UNCHANGED <<head, cached_tail, cp, h, out, acq_tail, popped, prod, buf>>

-----------------------------------------------------------------------------
Seen == 0..MaxItems

Next ==
  \/ \E v \in Items : PushStart(v)
  \/ \E k \in Seen : LoadHead(k)
  \/ WriteSlot
  \/ PublishTail
  \/ PopStart
  \/ \E k \in Seen : LoadTail(k)
  \/ ReadSlot
  \/ FreeSlot
  \/ \E k \in Seen : SizeByProducer(k)
  \/ \E k \in Seen : SizeByConsumer(k)

Spec == Init /\ [][Next]_vars

\* Both threads run and spin until every item is through, as in
\* src/bin/replay_bench_spsc.cpp; a store is seen by the other side's loads
\* eventually, so a load repeated for ever returns the newest value some time.
FairSpec ==
  /\ Spec
  /\ WF_vars(\E v \in Items : PushStart(v)) /\ WF_vars(\E k \in Seen : LoadHead(k))
  /\ WF_vars(WriteSlot) /\ WF_vars(PublishTail) /\ SF_vars(LoadHead(Len(popped)))
  /\ WF_vars(PopStart) /\ WF_vars(\E k \in Seen : LoadTail(k))
  /\ WF_vars(ReadSlot) /\ WF_vars(FreeSlot) /\ SF_vars(LoadTail(Len(pushed)))

-----------------------------------------------------------------------------
(* Properties                                                              *)

Cursor == 0..W-1

\* Every variable stays within its type.
TypeOK ==
  /\ tail \in Cursor /\ cached_head \in Cursor /\ head \in Cursor /\ cached_tail \in Cursor
  /\ buf \in [0..Capacity-1 -> Items]
  /\ pp \in {"idle", "load", "write", "publish"} /\ t \in Cursor /\ item \in Items
  /\ cp \in {"idle", "load", "read", "free"} /\ h \in Cursor /\ out \in Items
  /\ coh_head \in Nat /\ acq_head \in Nat /\ coh_tail \in Nat /\ acq_tail \in Nat
  /\ depth \in Cursor
  /\ pushed \in Seq(Items) /\ popped \in Seq(Items)

\* Race freedom (lines 13-21): before it writes a slot the producer has acquired
\* the consumer's release of the item that was in it, and before it reads a slot
\* the consumer has acquired the producer's release of the item in it.
NoRace ==
  /\ pp = "write" => Len(pushed) - acq_head < Capacity
  /\ cp = "read" => Len(popped) < acq_tail

\* size_approx() may be stale, yet for the two threads that may call it the
\* difference of its unsynchronised loads neither wraps below zero nor exceeds
\* the capacity (lines 85-92).
SizeBounded == depth <= Capacity

\* All slots are usable and fullness is told by the counters (lines 23-25): a push
\* is refused only when exactly Capacity items are not known to be consumed.
NoSacrificedSlot ==
  [][pp = "load" /\ pp' = "idle" => Len(pushed) - coh_head' = Capacity]_vars

\* The ring is a bounded FIFO: nothing lost, repeated or reordered, at most
\* Capacity items held, through wrap-around of indices and of cursors.
Fifo == INSTANCE BoundedFifo WITH
  queue <- SubSeq(pushed, Len(popped) + 1, Len(pushed)), delivered <- popped
IsFifo == Fifo!Spec

\* Neither thread is stuck on a stale view of the other's cursor: every item gets
\* through.
AllDelivered == <>(Len(popped) = MaxItems)
=============================================================================
