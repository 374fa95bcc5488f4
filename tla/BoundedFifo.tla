---------------------------- MODULE BoundedFifo -----------------------------
(***************************************************************************)
(* What a bounded queue promises: every accepted item is handed over once, *)
(* in the order it was accepted, and at most Capacity are held.            *)
(***************************************************************************)
EXTENDS Integers, Sequences

CONSTANTS Items, Capacity

VARIABLES queue, delivered

Init == queue = <<>> /\ delivered = <<>>

Put(v) ==
  /\ Len(queue) < Capacity
  /\ queue' = Append(queue, v)
  /\ UNCHANGED delivered

Get ==
  /\ queue # <<>>
  /\ delivered' = Append(delivered, Head(queue))
  /\ queue' = Tail(queue)

Next == Get \/ \E v \in Items : Put(v)

Spec == Init /\ [][Next]_<<queue, delivered>>
=============================================================================
