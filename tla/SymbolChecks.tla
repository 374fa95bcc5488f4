---------------------------- MODULE SymbolChecks -----------------------------
(***************************************************************************)
(* What the validator promises: every symbol has a state of its own, and   *)
(* a record is judged by its symbol's state alone.  At most Limit symbols  *)
(* are tracked; a record of another one gets the stateless checks only.    *)
(***************************************************************************)
EXTENDS Integers, FiniteSets

CONSTANTS
  Records, Limit,
  EmptySlot,           \* the state of a symbol before its first record
  Checked(_, _),       \* the state after a record
  Verdict(_, _),       \* what the record is judged to be in that state
  StatelessFlags(_)    \* ... and without a state

VARIABLES
  states,   \* the state of each tracked symbol
  result    \* what the last check returned

Init == states = [k \in {} |-> EmptySlot] /\ result = [flags |-> {}, gap |-> 0]

StateOf(k) == IF k \in DOMAIN states THEN states[k] ELSE EmptySlot

Track(r) ==
  /\ r.symbol \in DOMAIN states \/ Cardinality(DOMAIN states) < Limit
  /\ states' = [k \in DOMAIN states \cup {r.symbol} |->
                  IF k = r.symbol THEN Checked(StateOf(k), r) ELSE states[k]]
  /\ result' = Verdict(StateOf(r.symbol), r)

Refuse(r) ==
  /\ r.symbol \notin DOMAIN states /\ Cardinality(DOMAIN states) = Limit
  /\ result' = [flags |-> StatelessFlags(r), gap |-> 0]
  /\ UNCHANGED states

Next == \E r \in Records : Track(r) \/ Refuse(r)

Spec == Init /\ [][Next]_<<states, result>>
=============================================================================
