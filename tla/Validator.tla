------------------------------ MODULE Validator ------------------------------
(***************************************************************************)
(* The validator (src/validate/validator.h, validator.cpp): the states of  *)
(* all symbols in one open-addressing table with linear probing, from      *)
(* which nothing is ever removed.                                          *)
(***************************************************************************)
EXTENDS RecordChecks

CONSTANTS
  kCapacity,   \* slots of the table
  Symbols,     \* 8-byte keys
  NoKey,       \* 0, the key of an unclaimed slot, and of the empty symbol
  Hash(_),     \* the top bits of key * 2^64/phi
  Records,     \* records that are checked
  MaxWindow    \* bound: valid trades of a symbol between two bars

ASSUME TableAssumption ==
  /\ kCapacity \in Nat \ {0}
  /\ \A k \in Symbols : Hash(k) \in 0..kCapacity-1
  /\ \A r \in Records : r.symbol \in Symbols /\ r.type \in Streams
  /\ MaxWindow \in Nat

VARIABLES
  key,      \* the keys of table_
  table,    \* the rest of its slots
  result    \* what the last check() returned

vars == <<key, table, result>>

Indices == 0..kCapacity-1

Init ==
  /\ key = [i \in Indices |-> NoKey]
  /\ table = [i \in Indices |-> EmptySlot]
  /\ result = [flags |-> {}, gap |-> 0]

Probe(k, n) == (Hash(k) + n) % kCapacity

\* Fault: a taken slot is never recognised, so that a symbol's history is split.
HitsFreeOnly(k) == {n \in Indices : ~table[Probe(k, n)].seen}

\* The probes of slot_for(k) that end its search.
Hits(k) ==
  {n \in Indices : LET i == Probe(k, n) IN (key[i] = k /\ table[i].seen) \/ ~table[i].seen}

\* check() on slot i, which is the record's symbol's or becomes it.
CheckAt(i, r) ==
  /\ r.type = "trade" => table[i].acc_count < MaxWindow
  /\ key' = [key EXCEPT ![i] = r.symbol]
  /\ table' = [table EXCEPT ![i] = Checked(@, r)]
  /\ result' = Verdict(table[i], r)

\* The search ends at its first hit.
CheckTracked(r) ==
  \E n \in Hits(r.symbol) :
    /\ \A m \in Hits(r.symbol) : n <= m
    /\ CheckAt(Probe(r.symbol, n), r)

\* slot_for() returned nullptr: the table is full.
CheckUntracked(r) ==
  /\ Hits(r.symbol) = {}
  /\ result' = [flags |-> StatelessFlags(r), gap |-> 0]
  /\ UNCHANGED <<key, table>>

Next == \E r \in Records : CheckTracked(r) \/ CheckUntracked(r)

Spec == Init /\ [][Next]_vars

-----------------------------------------------------------------------------
(* Properties                                                              *)

Used == {i \in Indices : table[i].seen}

SlotOf(k) == CHOOSE i \in Used : key[i] = k
Tracked == {key[i] : i \in Used}

\* The table is an implementation detail: the validator judges every record as if
\* each symbol had a validator to itself, and only a table with kCapacity other
\* symbols in it turns a symbol away.
PerSymbol == INSTANCE SymbolChecks WITH
  states <- [k \in Tracked |-> table[SlotOf(k)]], Limit <- kCapacity
IsPerSymbol == PerSymbol!Spec
=============================================================================
