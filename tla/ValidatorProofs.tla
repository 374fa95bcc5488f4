--------------------------- MODULE ValidatorProofs ---------------------------
(***************************************************************************)
(* The hash table implements one state per symbol, for every capacity,     *)
(* every hash and every set of symbols.                                    *)
(***************************************************************************)
EXTENDS Validator, FiniteSetTheorems, TLAPS

\* A slot is a record with a claimed bit; an unclaimed one has no history.
SlotsOK ==
  /\ key \in [Indices -> Symbols \cup {NoKey}]
  /\ table = [i \in Indices |-> table[i]]
  /\ \A i \in Indices : "seen" \in DOMAIN table[i] /\ table[i].seen \in BOOLEAN
  /\ \A i \in Indices : ~table[i].seen => table[i] = EmptySlot

\* No symbol has two slots.
OneSlotEach == \A i, j \in Used : key[i] = key[j] => i = j

\* The search for a symbol that has a slot passes only taken slots on the way to it.
Reachable(i) ==
  \E n \in Indices : Probe(key[i], n) = i /\ \A m \in 0..n-1 : Probe(key[i], m) \in Used
AllReachable == \A i \in Used : key[i] \in Symbols /\ Reachable(i)

TableInv == SlotsOK /\ OneSlotEach /\ AllReachable

-----------------------------------------------------------------------------
(* Slots and probes                                                        *)

\* A check claims the slot.
LEMMA CheckClaims ==
  ASSUME NEW s, "seen" \in DOMAIN s, NEW r, r.type \in Streams
  PROVE  "seen" \in DOMAIN Checked(s, r) /\ Checked(s, r).seen = TRUE
<1> DEFINE Claimed(q) == "seen" \in DOMAIN q /\ q.seen = TRUE
<1>1. ASSUME NEW stream \in Streams PROVE Claimed(Sequenced(s, stream, r.ts, r.seq))
  BY DEF Sequenced
<1>2. ASSUME NEW q, Claimed(q) PROVE Claimed(Reconciled(q))
  BY <1>2 DEF Reconciled
<1>3. ASSUME NEW q, Claimed(q), NEW p, NEW size PROVE Claimed(Accumulated(q, p, size))
  BY <1>3 DEF Accumulated
<1>4. ASSUME NEW q, Claimed(q), NEW p PROVE Claimed(Banded(q, p))
  BY <1>4 DEF Banded, Rebased
<1> HIDE DEF Claimed
<1>5. Claimed(CheckedTrade(s, r))
  BY <1>1, <1>3, <1>4 DEF CheckedTrade, Streams
<1>6. Claimed(CheckedBar(s, r))
  BY <1>1, <1>2 DEF CheckedBar, Streams
<1>7. Claimed(CheckedQuote(s, r))
  BY <1>1 DEF CheckedQuote, Streams
<1>8. Claimed(Checked(s, r))
  BY <1>5, <1>6, <1>7 DEF Checked, Streams
<1> QED
  BY <1>8 DEF Claimed

\* A probe is a slot.
LEMMA ProbeType == ASSUME NEW k \in Symbols, NEW n \in Indices PROVE Probe(k, n) \in Indices
<1>1. Hash(k) + n \in Nat /\ kCapacity \in Nat \ {0}
  BY TableAssumption DEF Indices
<1>2. ASSUME NEW a \in Nat, NEW b \in Nat \ {0} PROVE (a % b) \in 0..b-1
  OBVIOUS
<1> QED
  BY <1>1, <1>2, Zenon DEF Probe, Indices

\* kCapacity probes visit the whole table.
LEMMA ProbesCover ==
  ASSUME NEW k \in Symbols, NEW i \in Indices PROVE \E n \in Indices : Probe(k, n) = i
<1> DEFINE h == Hash(k)
           n == IF h <= i THEN i - h ELSE (i - h) + kCapacity
<1>1. h \in 0..kCapacity-1 /\ i \in 0..kCapacity-1 /\ kCapacity \in Nat \ {0}
  BY TableAssumption DEF Indices
<1>2. n \in Indices /\ (h + n = i \/ h + n = i + kCapacity)
  BY <1>1 DEF Indices
<1>3. ASSUME NEW a \in Nat, NEW b \in Nat \ {0}, a < b PROVE (a % b) = a /\ ((a + b) % b) = a
  BY <1>3
<1>4. (h + n) % kCapacity = i
  BY <1>1, <1>2, <1>3
<1> QED
  BY <1>2, <1>4 DEF Probe

\* The first hit of the search for k: everything before it is taken, and it is k's slot
\* or a free one, and then k has no slot.
LEMMA FirstHit ==
  ASSUME TableInv, NEW k \in Symbols, NEW n \in Hits(k), \A m \in Hits(k) : n <= m
  PROVE  /\ n \in Indices /\ Probe(k, n) \in Indices
         /\ \A m \in 0..n-1 : Probe(k, m) \in Used
         /\ Probe(k, n) \in Used => key[Probe(k, n)] = k
         /\ Probe(k, n) \notin Used => k \notin Tracked
<1>1. n \in Indices /\ Probe(k, n) \in Indices
  BY ProbeType DEF Hits
<1>2. ASSUME NEW m \in 0..n-1 PROVE Probe(k, m) \in Used /\ key[Probe(k, m)] # k
  <2>1. m \in Indices /\ ~(n <= m)
    BY <1>1, TableAssumption DEF Indices
  <2>2. m \notin Hits(k)
    BY <2>1
  <2> QED
    BY <2>1, <2>2, ProbeType DEF Hits, Used
<1>3. Probe(k, n) \in Used => key[Probe(k, n)] = k
  BY DEF Hits, Used
<1>4. ASSUME Probe(k, n) \notin Used, k \in Tracked PROVE FALSE
  <2>1. PICK j \in Used : key[j] = k
    BY <1>4 DEF Tracked
  <2>2. PICK m \in Indices : Probe(k, m) = j /\ \A l \in 0..m-1 : Probe(k, l) \in Used
    BY <2>1 DEF TableInv, AllReachable, Reachable
  <2>3. CASE m < n
    BY <1>2, <2>1, <2>2, <2>3, <1>1 DEF Indices
  <2>4. CASE n < m
    BY <1>1, <1>4, <2>2, <2>4 DEF Indices
  <2>5. CASE m = n
    BY <1>4, <2>1, <2>2, <2>5
  <2> QED
    BY <1>1, <2>3, <2>4, <2>5 DEF Indices
<1> QED
  BY <1>1, <1>2, <1>3, <1>4

\* A search without a hit: the table is full of other symbols.
LEMMA NoHit ==
  ASSUME TableInv, NEW k \in Symbols, Hits(k) = {}
  PROVE  k \notin Tracked /\ Used = Indices
<1>1. ASSUME NEW n \in Indices PROVE Probe(k, n) \in Used /\ key[Probe(k, n)] # k
  BY ProbeType DEF Hits, Used
<1>2. ASSUME NEW i \in Indices PROVE i \in Used /\ key[i] # k
  BY <1>1, ProbesCover
<1> QED
  BY <1>2 DEF Used, Tracked

\* The slot of a symbol that has one is found by its key.
LEMMA SlotFound ==
  ASSUME OneSlotEach, NEW i \in Used PROVE SlotOf(key[i]) = i
BY DEF SlotOf, OneSlotEach

\* As many symbols are tracked as slots are taken.
LEMMA TrackedCount ==
  ASSUME OneSlotEach
  PROVE  /\ IsFiniteSet(Used) /\ Cardinality(Used) \in Nat
         /\ Cardinality(Tracked) = Cardinality(Used)
         /\ Used = Indices => Cardinality(Used) = kCapacity
         /\ Used # Indices => Cardinality(Used) < kCapacity
<1>1. IsFiniteSet(Indices) /\ Cardinality(Indices) = kCapacity
  <2>1. 0 \in Int /\ kCapacity - 1 \in Int /\ ~(0 > kCapacity - 1)
        /\ (kCapacity - 1) - 0 + 1 = kCapacity
    BY TableAssumption
  <2> QED
    BY <2>1, FS_Interval DEF Indices
<1>2. Used \in SUBSET Indices
  BY DEF Used
<1>3. IsFiniteSet(Used) /\ Cardinality(Used) <= kCapacity
      /\ (kCapacity = Cardinality(Used) => Used = Indices)
  BY <1>1, <1>2, FS_Subset
<1>4. Cardinality(Used) \in Nat
  BY <1>3, FS_CardinalityType
<1> DEFINE f == [i \in Used |-> key[i]]
<1>5. f \in Bijection(Used, Tracked)
  BY DEF OneSlotEach, Tracked, Bijection, Injection, Surjection, IsInjective
<1>6. Cardinality(Tracked) = Cardinality(Used)
  BY <1>3, <1>5, FS_Bijection DEF ExistsBijection
<1> QED
  BY <1>1, <1>3, <1>4, <1>6, TableAssumption

-----------------------------------------------------------------------------
(* The invariant                                                           *)

\* check() on the slot its search ended at keeps the table in order.
LEMMA CheckKeepsTable ==
  ASSUME TableInv, NEW r \in Records, NEW n \in Hits(r.symbol),
         \A m \in Hits(r.symbol) : n <= m,
         CheckAt(Probe(r.symbol, n), r)
  PROVE  /\ TableInv'
         /\ Used' = Used \cup {Probe(r.symbol, n)}
<1> DEFINE k == r.symbol
           i == Probe(k, n)
<1>1. k \in Symbols /\ r.type \in Streams
  BY TableAssumption
<1>2. /\ n \in Indices /\ i \in Indices
      /\ \A m \in 0..n-1 : Probe(k, m) \in Used
      /\ i \in Used => key[i] = k
      /\ i \notin Used => k \notin Tracked
  BY <1>1, FirstHit
<1>3. /\ key' = [key EXCEPT ![i] = k]
      /\ table' = [table EXCEPT ![i] = Checked(table[i], r)]
  BY DEF CheckAt
<1> HIDE DEF i
<1>4. /\ "seen" \in DOMAIN table'[i] /\ table'[i].seen = TRUE
  BY <1>1, <1>2, <1>3, CheckClaims, Zenon DEF TableInv, SlotsOK
<1>5. \A j \in Indices : j # i => table'[j] = table[j] /\ key'[j] = key[j]
  BY <1>2, <1>3 DEF TableInv, SlotsOK
<1>6. key'[i] = k
  BY <1>2, <1>3 DEF TableInv, SlotsOK
<1>7. Used' = Used \cup {i}
  BY <1>2, <1>4, <1>5 DEF Used
<1>8. SlotsOK'
  <2>1. key' \in [Indices -> Symbols \cup {NoKey}]
    BY <1>1, <1>2, <1>3 DEF TableInv, SlotsOK
  <2>2. table' = [j \in Indices |-> table'[j]]
    BY <1>3 DEF TableInv, SlotsOK
  <2>3. \A j \in Indices : "seen" \in DOMAIN table'[j] /\ table'[j].seen \in BOOLEAN
    BY <1>4, <1>5, Zenon DEF TableInv, SlotsOK
  <2>4. \A j \in Indices : ~table'[j].seen => table'[j] = EmptySlot
    BY <1>4, <1>5 DEF TableInv, SlotsOK
  <2> QED
    BY <2>1, <2>2, <2>3, <2>4 DEF SlotsOK, Indices, EmptySlot
<1>9. \A j \in Used \ {i} : key[j] # k
  BY <1>2 DEF TableInv, OneSlotEach, Tracked
<1>10. OneSlotEach'
  BY <1>5, <1>6, <1>7, <1>9 DEF TableInv, OneSlotEach, Used
<1>11. AllReachable'
  <2>1. ASSUME NEW j \in Used' PROVE key'[j] \in Symbols /\ Reachable(j)'
    <3>1. CASE j = i
      BY <1>1, <1>2, <1>6, <1>7, <3>1 DEF Reachable, Probe, Indices, i
    <3>2. CASE j # i
      <4>1. j \in Used /\ key'[j] = key[j]
        BY <1>5, <1>7, <3>2 DEF Used
      <4> QED
        BY <4>1, <1>7 DEF TableInv, AllReachable, Reachable, Probe, Indices
    <3> QED
      BY <3>1, <3>2
  <2> QED
    BY <2>1 DEF AllReachable
<1> QED
  BY <1>7, <1>8, <1>10, <1>11 DEF TableInv, i

\* The empty table tracks no symbol.
LEMMA TableInit == Init => TableInv /\ Tracked = {}
<1> SUFFICES ASSUME Init PROVE TableInv /\ Tracked = {}
  OBVIOUS
<1>1. /\ key = [i \in Indices |-> NoKey]
      /\ table = [i \in Indices |-> EmptySlot]
  BY DEF Init
<1>2. "seen" \in DOMAIN EmptySlot /\ EmptySlot.seen = FALSE
  BY DEF EmptySlot
<1>3. Used = {}
  BY <1>1, <1>2 DEF Used
<1>4. SlotsOK
  BY <1>1, <1>2, Zenon DEF SlotsOK
<1> QED
  BY <1>3, <1>4 DEF TableInv, OneSlotEach, AllReachable, Tracked

\* Every step keeps the table in order.
LEMMA TableStep == TableInv /\ [Next]_vars => TableInv'
<1> SUFFICES ASSUME TableInv, [Next]_vars PROVE TableInv'
  OBVIOUS
<1>1. CASE UNCHANGED <<key, table>>
  BY <1>1, Zenon DEF TableInv, SlotsOK, OneSlotEach, AllReachable, Reachable, Used, Indices, Probe,
    EmptySlot
<1>2. ASSUME NEW r \in Records, CheckTracked(r) PROVE TableInv'
  BY <1>2, CheckKeepsTable DEF CheckTracked
<1> QED
  BY <1>1, <1>2 DEF Next, CheckUntracked, vars

-----------------------------------------------------------------------------
(* The refinement                                                          *)

\* The instance's cardinality is the module's.
LEMMA SameCardinality == \A S : PerSymbol!Cardinality(S) = Cardinality(S)
BY DEF PerSymbol!Cardinality, Cardinality

\* check() on the slot the search ended at is the abstract check of the symbol.
LEMMA TrackedRefines ==
  ASSUME TableInv, NEW r \in Records, CheckTracked(r)
  PROVE  PerSymbol!Track(r)
<1> DEFINE k == r.symbol
<1>1. PICK n \in Hits(k) : (\A m \in Hits(k) : n <= m) /\ CheckAt(Probe(k, n), r)
  BY DEF CheckTracked
<1> DEFINE i == Probe(k, n)
<1>2. k \in Symbols
  BY TableAssumption
<1>3. /\ i \in Indices
      /\ i \in Used => key[i] = k
      /\ i \notin Used => k \notin Tracked
  BY <1>1, <1>2, FirstHit
<1>4. TableInv' /\ Used' = Used \cup {i}
  BY <1>1, CheckKeepsTable
<1>5. /\ key' = [key EXCEPT ![i] = k]
      /\ table' = [table EXCEPT ![i] = Checked(table[i], r)]
      /\ result' = Verdict(table[i], r)
  BY <1>1 DEF CheckAt
<1> HIDE DEF i
<1>6. /\ key'[i] = k /\ table'[i] = Checked(table[i], r)
      /\ \A j \in Indices : j # i => table'[j] = table[j] /\ key'[j] = key[j]
  BY <1>3, <1>5 DEF TableInv, SlotsOK
<1>7. table[i] = IF k \in Tracked THEN table[SlotOf(k)] ELSE EmptySlot
  <2>1. CASE i \in Used
    BY <1>3, <2>1, SlotFound DEF TableInv, Tracked
  <2>2. CASE i \notin Used
    BY <1>3, <2>2 DEF TableInv, SlotsOK, Used
  <2> QED
    BY <2>1, <2>2
<1>8. Tracked' = Tracked \cup {k}
  <2>1. \A j \in Used : key'[j] = key[j]
    BY <1>3, <1>6 DEF Used
  <2> QED
    BY <1>4, <1>6, <2>1 DEF Tracked
<1>9. OneSlotEach /\ OneSlotEach'
  BY <1>4 DEF TableInv
<1>10. ASSUME NEW x \in Tracked'
       PROVE  table'[SlotOf(x)'] = IF x = k THEN Checked(table[i], r) ELSE table[SlotOf(x)]
  <2>1. CASE x = k
    <3>1. SlotOf(k)' = i
      BY <1>4, <1>6, <1>9 DEF SlotOf, OneSlotEach
    <3> QED
      BY <1>6, <2>1, <3>1
  <2>2. CASE x # k
    <3>1. PICK j \in Used : key[j] = x
      BY <1>8, <2>2 DEF Tracked
    <3>2. j # i /\ j \in Indices
      BY <1>3, <2>2, <3>1 DEF Used
    <3>3. SlotOf(x) = j
      BY <1>9, <3>1, SlotFound
    <3>4. SlotOf(x)' = j
      BY <1>4, <1>6, <1>9, <3>1, <3>2 DEF SlotOf, OneSlotEach
    <3> QED
      BY <1>6, <2>2, <3>2, <3>3, <3>4
  <2> QED
    BY <2>1, <2>2
<1>11. k \in Tracked \/ Cardinality(Tracked) < kCapacity
  <2>1. CASE i \in Used
    BY <1>3, <2>1 DEF Tracked
  <2>2. CASE i \notin Used
    BY <1>3, <1>9, <2>2, TrackedCount
  <2> QED
    BY <2>1, <2>2
<1>12. PerSymbol!StateOf(k) = table[i]
  BY <1>7 DEF PerSymbol!StateOf
<1>13. [x \in Tracked |-> table[SlotOf(x)]]'
         = [x \in Tracked \cup {k} |->
              IF x = k THEN Checked(PerSymbol!StateOf(x), r)
              ELSE [y \in Tracked |-> table[SlotOf(y)]][x]]
  BY <1>8, <1>10, <1>12
<1>14. result' = Verdict(PerSymbol!StateOf(k), r)
  BY <1>5, <1>12
<1> QED
  BY <1>11, <1>13, <1>14, SameCardinality DEF PerSymbol!Track

\* A search without a hit is the abstract refusal.
LEMMA UntrackedRefines ==
  ASSUME TableInv, NEW r \in Records, CheckUntracked(r)
  PROVE  PerSymbol!Refuse(r)
<1>1. r.symbol \in Symbols /\ Hits(r.symbol) = {}
  BY TableAssumption DEF CheckUntracked
<1>2. r.symbol \notin Tracked /\ Used = Indices
  BY <1>1, NoHit
<1>3. Cardinality(Tracked) = kCapacity
  BY <1>2, TrackedCount DEF TableInv
<1>4. Tracked' = Tracked /\ \A k : SlotOf(k)' = SlotOf(k)
  BY DEF CheckUntracked, Tracked, SlotOf, Used, Indices
<1>5. UNCHANGED [k \in Tracked |-> table[SlotOf(k)]]
  BY <1>4 DEF CheckUntracked
<1> QED
  BY <1>2, <1>3, <1>5, SameCardinality DEF PerSymbol!Refuse, CheckUntracked

\* For every capacity, hash and set of symbols the table of the validator implements
\* one state per symbol: probing never mixes two symbols, never splits one, and turns
\* a symbol away only when kCapacity others are tracked (Validator::slot_for()).
THEOREM TableIsPerSymbol == Spec => IsPerSymbol
<1>1. Init => PerSymbol!Init
  BY TableInit DEF Init, PerSymbol!Init
<1>2. TableInv /\ [Next]_vars
        => [PerSymbol!Next]_<<[k \in Tracked |-> table[SlotOf(k)]], result>>
  <2> SUFFICES ASSUME TableInv, [Next]_vars
               PROVE  \/ PerSymbol!Next
                      \/ UNCHANGED <<[k \in Tracked |-> table[SlotOf(k)]], result>>
    OBVIOUS
  <2>1. CASE Next
    BY <2>1, TrackedRefines, UntrackedRefines DEF Next, PerSymbol!Next
  <2>2. CASE UNCHANGED vars
    <3>1. Tracked' = Tracked /\ \A k : SlotOf(k)' = SlotOf(k)
      BY <2>2 DEF vars, Tracked, SlotOf, Used, Indices
    <3> QED
      BY <2>2, <3>1 DEF vars
  <2> QED
    BY <2>1, <2>2
<1> QED
  BY <1>1, <1>2, TableInit, TableStep, PTL DEF Spec, IsPerSymbol, PerSymbol!Spec
=============================================================================
