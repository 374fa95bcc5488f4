---------------------------- MODULE ReplayProofs -----------------------------
(***************************************************************************)
(* For every number of threads: the start gate of the sharded benchmark    *)
(* times the validation and nothing else, every record of a data set is    *)
(* judged, sharded by symbol or behind the ring, as by one validator over  *)
(* the whole of it, however many symbols its table holds, and no program   *)
(* gets stuck or works without coming nearer to its end.                   *)
(***************************************************************************)
EXTENDS Replay, FiniteSetTheorems, TLAPS

Arrived == {t \in DOMAIN at : at[t] # "spawned"}

\* Where the threads may be while main() is at each place, and that `ready` counts the
\* ones that have come to the gate.
GateInv ==
  /\ sweep \in Seq(Nat \ {0})
  /\ at \in Seq({"spawned", "gate", "passes", "ended"})
  /\ clock \in BOOLEAN /\ (clock <=> pc \in {"gate", "join"})
  /\ pc \in {"start", "replay", "failed", "done", "wait", "gate", "join"}
  /\ pc \in {"start", "replay", "failed", "done"} => \A t \in DOMAIN at : at[t] = "ended"
  /\ pc \in {"wait", "gate", "join"} => sweep # <<>>
  /\ pc = "wait" => /\ go = FALSE /\ ready = Cardinality(Arrived)
                    /\ \A t \in DOMAIN at : at[t] \in {"spawned", "gate"}
  /\ pc = "gate" => go = FALSE /\ \A t \in DOMAIN at : at[t] = "gate"
  /\ pc = "join" => \A t \in DOMAIN at : at[t] # "spawned"

\* No thread has been spawned.
LEMMA GateInit == Init => GateInv
<1> SUFFICES ASSUME Init PROVE GateInv
  OBVIOUS
<1>1. at = <<>> /\ sweep = Sweep /\ pc = "start" /\ clock = FALSE
  BY DEF Init
<1>2. <<>> \in Seq({"spawned", "gate", "passes", "ended"}) /\ DOMAIN <<>> = {}
  OBVIOUS
<1> QED
  BY <1>1, <1>2, ReplayAssumption, Zenon DEF GateInv

\* The threads that have arrived are a finite part of all.
LEMMA ArrivedFinite ==
  ASSUME GateInv
  PROVE  /\ DOMAIN at = 1..Len(at) /\ Len(at) \in Nat
         /\ IsFiniteSet(Arrived) /\ Cardinality(Arrived) \in Nat
         /\ Cardinality(Arrived) >= Len(at) => Arrived = DOMAIN at
<1>1. DOMAIN at = 1..Len(at) /\ Len(at) \in Nat
  BY DEF GateInv
<1>2. IsFiniteSet(1..Len(at)) /\ Cardinality(1..Len(at)) = Len(at)
  <2>1. \A m \in Nat : IsFiniteSet(1..m) /\ Cardinality(1..m) = m
    BY FS_Interval
  <2> QED
    BY <1>1, <2>1
<1>3. Arrived \in SUBSET (1..Len(at))
  BY <1>1 DEF Arrived
<1>4. /\ IsFiniteSet(Arrived) /\ Cardinality(Arrived) <= Len(at)
      /\ Len(at) = Cardinality(Arrived) => 1..Len(at) = Arrived
  BY <1>2, <1>3, FS_Subset, Zenon
<1>5. Cardinality(Arrived) \in Nat
  BY <1>4, FS_CardinalityType
<1> QED
  BY <1>1, <1>4, <1>5

\* Steps of no thread that leave main() outside run(), or start it, keep the invariant.
LEMMA QuietKeepsGate ==
  ASSUME GateInv, UNCHANGED <<sweep, ready, go, clock, at>>,
         \/ pc' = pc
         \/ /\ pc \in {"start", "replay", "failed", "done"}
            /\ pc' \in {"start", "replay", "failed", "done"}
  PROVE  GateInv'
<1>1. Arrived' = Arrived
  BY DEF Arrived
<1> QED
  BY <1>1 DEF GateInv

\* main(): spawn, wait, open, join.
LEMMA MainKeepsGate ==
  ASSUME GateInv, Spawn \/ TakeT0 \/ OpenGate \/ Join
  PROVE  GateInv'
<1>1. CASE Spawn
  <2>1. PICK T \in Nat \ {0} : at' = [t \in 1..T |-> "spawned"]
    BY <1>1 DEF Spawn, GateInv
  <2>2. at' \in Seq({"spawned", "gate", "passes", "ended"}) /\ DOMAIN at' = 1..T
        /\ \A t \in 1..T : at'[t] = "spawned"
    BY <2>1
  <2>3. Arrived' = {}
    BY <2>2 DEF Arrived
  <2>4. Cardinality(Arrived') = 0
    BY <2>3, FS_EmptySet
  <2> QED
    BY <1>1, <2>2, <2>4 DEF Spawn, GateInv
<1>2. CASE TakeT0
  <2>1. Arrived = DOMAIN at
    BY <1>2, ArrivedFinite, Zenon DEF TakeT0, GateInv
  <2>2. \A t \in DOMAIN at : at[t] = "gate"
    BY <1>2, <2>1 DEF TakeT0, GateInv, Arrived
  <2> QED
    BY <1>2, <2>2 DEF TakeT0, MainStep, GateInv
<1>3. CASE OpenGate
  BY <1>3 DEF OpenGate, MainStep, GateInv
<1>4. CASE Join
  <2>1. Tail(sweep) \in Seq(Nat \ {0})
    BY <1>4 DEF Join, GateInv
  <2> QED
    BY <1>4, <2>1, Zenon DEF Join, MainStep, GateInv
<1> QED
  BY <1>1, <1>2, <1>3, <1>4

\* A thread: up to the gate, through it, its passes, its end.
LEMMA ThreadKeepsGate ==
  ASSUME GateInv, NEW t \in DOMAIN at, Thread(t)
  PROVE  GateInv'
<1> DEFINE Places == {"spawned", "gate", "passes", "ended"}
<1>0. at \in Seq(Places) /\ UNCHANGED <<sweep, go, clock, pc>>
  BY DEF GateInv, Thread, Ready, PassGate, Pass, End, ThreadStep
<1>1. CASE Ready(t)
  <2>1. at[t] = "spawned" /\ at' = [at EXCEPT ![t] = "gate"] /\ ready' = ready + 1
    BY <1>1 DEF Ready
  <2>2. pc = "wait"
    BY <2>1 DEF GateInv
  <2>3. Arrived' = Arrived \cup {t} /\ t \notin Arrived
    BY <1>0, <2>1 DEF Arrived
  <2>4. Cardinality(Arrived') = Cardinality(Arrived) + 1
    BY <2>3, ArrivedFinite, FS_AddElement, Zenon
  <2>5. /\ at' \in Seq(Places) /\ DOMAIN at' = DOMAIN at
        /\ \A u \in DOMAIN at : at'[u] = IF u = t THEN "gate" ELSE at[u]
    BY <1>0, <2>1
  <2> QED
    BY <1>0, <2>1, <2>2, <2>4, <2>5 DEF GateInv
<1>2. CASE PassGate(t) \/ Pass(t) \/ End(t)
  <2>1. PICK x \in {"passes", "ended"} : at' = [at EXCEPT ![t] = x]
    <3>1. at = [at EXCEPT ![t] = at[t]]
      BY <1>0
    <3> QED
      BY <1>2, <3>1 DEF PassGate, Pass, End
  <2>2. pc = "join"
    BY <1>2, Zenon DEF PassGate, Pass, End, GateInv
  <2>3. /\ at' \in Seq(Places) /\ DOMAIN at' = DOMAIN at
        /\ \A u \in DOMAIN at : at'[u] = IF u = t THEN x ELSE at[u]
    BY <1>0, <2>1
  <2> QED
    BY <1>0, <2>2, <2>3 DEF GateInv
<1> QED
  BY <1>1, <1>2 DEF Thread

\* Every step keeps the gate's invariant.
LEMMA GateStep == GateInv /\ [Next]_vars => GateInv'
<1> SUFFICES ASSUME GateInv, [Next]_vars PROVE GateInv'
  OBVIOUS
<1>1. CASE Generator \/ UNCHANGED vars
  BY <1>1, QuietKeepsGate DEF Generator, vars, replay, threads
<1>2. CASE Starts
  BY <1>2, QuietKeepsGate DEF Starts, Start, threads
<1>3. CASE WarmPass \/ TimedPass \/ BenchDone
  BY <1>3, QuietKeepsGate DEF WarmPass, TimedPass, BenchDone, threads
<1>4. CASE Push \/ Pop \/ PipelineDone
  BY <1>4, QuietKeepsGate DEF Push, Pop, PipelineDone, threads
<1>5. CASE Spawn \/ TakeT0 \/ OpenGate \/ Join
  BY <1>5, MainKeepsGate
<1>6. CASE \E t \in DOMAIN at : Thread(t)
  BY <1>6, ThreadKeepsGate
<1> QED
  BY <1>1, <1>2, <1>3, <1>4, <1>5, <1>6 DEF Next, Main

\* For every number of threads in the sweep: no thread is still being started when the
\* clock runs, and none validates while it does not (run() in replay_bench_mt.cpp).
THEOREM GateTimesExactly == Spec => []TimedExactly
<1>1. GateInv => TimedExactly
  BY Zenon DEF GateInv, TimedExactly
<1> QED
  BY <1>1, GateInit, GateStep, PTL DEF Spec

-----------------------------------------------------------------------------
(* Sequences of whatever, and recursion on numbers                         *)

\* Induction, for a set of numbers: the finite subsets of Nat are well-founded.
LEMMA NumbersByInduction ==
  ASSUME NEW S \in SUBSET Nat, 0 \in S, \A m \in S : m + 1 \in S
  PROVE  S = Nat
<1> SUFFICES ASSUME NEW k \in Nat, k \notin S PROVE FALSE
  BY Zenon
<1> DEFINE below == {0..x : x \in Nat \ S}
<1>1. below \subseteq FiniteSubsetsOf(Nat) /\ below # {}
  <2>1. ASSUME NEW x \in Nat PROVE 0..x \in SUBSET Nat /\ IsFiniteSet(0..x)
    BY FS_Interval
  <2> QED
    BY <2>1 DEF FiniteSubsetsOf
<1> HIDE DEF below
<1>2. PICK X \in below : \A Y \in below : <<Y, X>> \notin StrictSubsetOrdering(Nat)
  BY <1>1, FS_StrictSubsetOrderingWellFounded, WFMin
<1>3. PICK x \in Nat \ S : X = 0..x
  BY DEF below
<1>4. x - 1 \in Nat /\ (x - 1) + 1 = x
  BY <1>3
<1>5. x - 1 \notin S
  BY <1>3, <1>4
<1>6. 0..(x - 1) \in SUBSET Nat /\ X \in SUBSET Nat /\ 0..(x - 1) \subseteq X /\ 0..(x - 1) # X
  <2>1. x \in X /\ x \notin 0..(x - 1)
    BY <1>3
  <2> QED
    BY <1>3, <2>1
<1>7. 0..(x - 1) \in below
  BY <1>4, <1>5 DEF below
<1> QED
  BY <1>2, <1>6, <1>7, Zenon DEF StrictSubsetOrdering

IsSeq(q) == \E S : q \in Seq(S)

\* What push_back does to a sequence of anything.
LEMMA AppendAny ==
  ASSUME NEW q, IsSeq(q), NEW e
  PROVE  /\ Len(q) \in Nat /\ DOMAIN q = 1..Len(q)
         /\ IsSeq(Append(q, e)) /\ Len(Append(q, e)) = Len(q) + 1
         /\ DOMAIN Append(q, e) = 1..(Len(q) + 1)
         /\ \A i \in 1..Len(q) : Append(q, e)[i] = q[i]
         /\ Append(q, e)[Len(q) + 1] = e
<1>1. PICK S : q \in Seq(S)
  BY DEF IsSeq
<1>2. q \in Seq(S \cup {e})
  BY <1>1
<1> DEFINE R == S \cup {e}
<1>3. q \in Seq(R) /\ e \in R
  BY <1>2
<1> HIDE DEF R
<1>4. Append(q, e) \in Seq(R) /\ Len(Append(q, e)) = Len(q) + 1 /\ Len(q) \in Nat
  BY <1>3
<1>5. DOMAIN q = 1..Len(q) /\ DOMAIN Append(q, e) = 1..(Len(q) + 1)
  BY <1>3, <1>4
<1>6. \A i \in 1..Len(q) : Append(q, e)[i] = q[i]
  BY <1>3
<1>7. Append(q, e)[Len(q) + 1] = e
  BY <1>3
<1> QED
  BY <1>4, <1>5, <1>6, <1>7 DEF IsSeq

\* Two sequences with the same elements are the same.
LEMMA SameSeq ==
  ASSUME NEW p, NEW q, IsSeq(p), IsSeq(q), Len(p) = Len(q), \A i \in 1..Len(p) : p[i] = q[i]
  PROVE  p = q
<1>1. PICK S : p \in Seq(S)
  BY DEF IsSeq
<1>2. PICK R : q \in Seq(R)
  BY DEF IsSeq
<1>3. \A Q, x : x \in Seq(Q) => x = [i \in 1..Len(x) |-> x[i]]
  OBVIOUS
<1>4. p = [i \in 1..Len(p) |-> p[i]] /\ q = [i \in 1..Len(q) |-> q[i]]
  BY <1>1, <1>2, <1>3
<1> QED
  BY <1>4

\* A function on 1..m is a sequence of m elements.
LEMMA FunctionSeq ==
  ASSUME NEW m \in Nat, NEW f, f = [i \in 1..m |-> f[i]]
  PROVE  IsSeq(f) /\ Len(f) = m
<1> DEFINE S == {f[i] : i \in 1..m}
<1>1. f \in [1..m -> S]
  OBVIOUS
<1> HIDE DEF S
<1>2. f \in Seq(S)
  BY <1>1
<1> QED
  BY <1>1, <1>2 DEF IsSeq

-----------------------------------------------------------------------------
(* A validator over a sequence of records                                  *)

\* f is what a fresh validator comes to over the first m records of rs, as the recursion says.
JudgesTo(rs, m, f) ==
  f = [i \in 0..m |-> IF i = 0 THEN [v |-> Fresh, flags |-> <<>>] ELSE JudgeOne(f[i-1], rs[i])]

\* One equation of it.
LEMMA JudgesToFields ==
  ASSUME NEW rs, NEW m \in Nat, NEW f, JudgesTo(rs, m, f)
  PROVE  /\ DOMAIN f = 0..m /\ f[0] = [v |-> Fresh, flags |-> <<>>]
         /\ \A i \in 0..m : i # 0 => f[i] = JudgeOne(f[i-1], rs[i])
BY DEF JudgesTo

\* The recursion has a solution.
LEMMA JudgesToExists ==
  ASSUME NEW rs
  PROVE  \A m \in Nat : \E f : JudgesTo(rs, m, f)
<1> DEFINE S == {m \in Nat : \E f : JudgesTo(rs, m, f)}
<1>1. 0 \in S
  <2> DEFINE f == [i \in 0..0 |-> [v |-> Fresh, flags |-> <<>>]]
  <2>1. f = [i \in 0..0 |-> IF i = 0 THEN [v |-> Fresh, flags |-> <<>>] ELSE JudgeOne(f[i-1], rs[i])]
    OBVIOUS
  <2> HIDE DEF f
  <2> QED
    BY <2>1 DEF JudgesTo
<1>2. ASSUME NEW m \in S PROVE m + 1 \in S
  <2>1. PICK f : JudgesTo(rs, m, f)
    BY <1>2
  <2>2. m \in Nat
    OBVIOUS
  <2> DEFINE g == [i \in 0..(m+1) |-> IF i = m + 1 THEN JudgeOne(f[m], rs[m+1]) ELSE f[i]]
  <2>3. ASSUME NEW i \in 0..(m+1)
        PROVE  g[i] = IF i = 0 THEN [v |-> Fresh, flags |-> <<>>] ELSE JudgeOne(g[i-1], rs[i])
    <3>1. CASE i = m + 1
      <4>1. i - 1 = m /\ m \in 0..(m+1) /\ m # m + 1 /\ i # 0
        BY <3>1, <2>2
      <4>2. g[m] = f[m] /\ g[i] = JudgeOne(f[m], rs[m+1])
        BY <4>1, <3>1
      <4> QED
        BY <4>1, <4>2, <3>1
    <3>2. CASE i # m + 1 /\ i # 0
      <4>1. i \in 0..m /\ i - 1 \in 0..(m+1) /\ i - 1 # m + 1
        BY <3>2, <2>2
      <4>2. g[i] = f[i] /\ g[i-1] = f[i-1] /\ f[i] = JudgeOne(f[i-1], rs[i])
        BY <4>1, <3>2, <2>1, <2>2, JudgesToFields
      <4> QED
        BY <4>2, <3>2
    <3>3. CASE i = 0
      <4>1. g[i] = f[0]
        BY <3>3, <2>2
      <4> QED
        BY <4>1, <3>3, <2>1, <2>2, JudgesToFields, Zenon
    <3> QED
      BY <3>1, <3>2, <3>3
  <2>4. g = [i \in 0..(m+1) |-> g[i]]
    OBVIOUS
  <2> HIDE DEF g
  <2>5. JudgesTo(rs, m + 1, g)
    BY <2>3, <2>4, Zenon DEF JudgesTo
  <2> QED
    BY <2>2, <2>5
<1> HIDE DEF S
<1>3. S = Nat
  <2>1. S \in SUBSET Nat
    BY DEF S
  <2> QED
    BY <1>1, <1>2, <2>1, NumbersByInduction
<1> QED
  BY <1>3 DEF S

SamePrefix(q, r, m) == \A i \in 1..m : q[i] = r[i]

\* What it computes depends on the first m records only.
LEMMA JudgesAgree ==
  ASSUME NEW q, NEW r, NEW m \in Nat, NEW l \in Nat, m <= l, NEW f, NEW g,
         JudgesTo(q, m, f), JudgesTo(r, l, g), SamePrefix(q, r, m)
  PROVE  \A i \in 0..m : f[i] = g[i]
<1> DEFINE S == {k \in Nat : k <= m => f[k] = g[k]}
<1>1. 0 \in S
  <2>1. f[0] = [v |-> Fresh, flags |-> <<>>] /\ g[0] = [v |-> Fresh, flags |-> <<>>]
    BY JudgesToFields, Zenon
  <2> QED
    BY <2>1
<1>2. ASSUME NEW k \in S PROVE k + 1 \in S
  <2> SUFFICES ASSUME k + 1 <= m PROVE f[k + 1] = g[k + 1]
    OBVIOUS
  <2>1. k \in Nat /\ f[k] = g[k] /\ k + 1 \in 0..m /\ k + 1 \in 0..l /\ k + 1 # 0
        /\ (k + 1) - 1 = k /\ q[k + 1] = r[k + 1]
    BY <1>2 DEF SamePrefix
  <2>2. f[k + 1] = JudgeOne(f[(k + 1) - 1], q[k + 1]) /\ g[k + 1] = JudgeOne(g[(k + 1) - 1], r[k + 1])
    BY <2>1, JudgesToFields
  <2> QED
    BY <2>1, <2>2
<1> HIDE DEF S
<1>3. S = Nat
  <2>1. S \in SUBSET Nat
    BY DEF S
  <2> QED
    BY <1>1, <1>2, <2>1, NumbersByInduction
<1> QED
  BY <1>3 DEF S

\* The recursion as Judging() writes it.
RawTo(v, rs, m, f) ==
  f = [i \in 0..m |-> IF i = 0 THEN [v |-> v, flags |-> <<>>]
                      ELSE CHOOSE x \in {JudgeOne(b, rs[i]) : b \in {f[i - 1]}} : TRUE]

\* Judging() is what the recursion computes.
LEMMA JudgingValue ==
  ASSUME NEW rs, Len(rs) \in Nat
  PROVE  \E f : JudgesTo(rs, Len(rs), f) /\ Judging(Fresh, rs) = f[Len(rs)]
<1>1. \A y, r : (CHOOSE x \in {JudgeOne(b, r) : b \in {y}} : TRUE) = JudgeOne(y, r)
  OBVIOUS
<1>2. \A f : RawTo(Fresh, rs, Len(rs), f) <=> JudgesTo(rs, Len(rs), f)
  BY <1>1 DEF RawTo, JudgesTo
<1> DEFINE f == CHOOSE x : RawTo(Fresh, rs, Len(rs), x)
<1>3. RawTo(Fresh, rs, Len(rs), f)
  BY <1>2, JudgesToExists, Zenon
<1>4. Judging(Fresh, rs) = f[Len(rs)]
  BY DEF Judging, RawTo
<1> HIDE DEF f
<1> QED
  BY <1>2, <1>3, <1>4

\* A validator starts fresh, and one more record is one more step of it.
LEMMA JudgingAppend ==
  /\ Judging(Fresh, <<>>) = [v |-> Fresh, flags |-> <<>>]
  /\ \A rs, r : IsSeq(rs) => Judging(Fresh, Append(rs, r)) = JudgeOne(Judging(Fresh, rs), r)
<1>1. Judging(Fresh, <<>>) = [v |-> Fresh, flags |-> <<>>]
  <2>1. Len(<<>>) = 0
    OBVIOUS
  <2>2. PICK f : JudgesTo(<<>>, Len(<<>>), f) /\ Judging(Fresh, <<>>) = f[Len(<<>>)]
    BY <2>1, JudgingValue
  <2>3. JudgesTo(<<>>, 0, f) /\ Judging(Fresh, <<>>) = f[0]
    BY <2>1, <2>2
  <2> QED
    BY <2>3, JudgesToFields
<1>2. ASSUME NEW rs, NEW r, IsSeq(rs)
      PROVE  Judging(Fresh, Append(rs, r)) = JudgeOne(Judging(Fresh, rs), r)
  <2>1. PICK q : q = Append(rs, r)
    BY Zenon
  <2>2. PICK m \in Nat : m = Len(rs)
    BY <1>2, AppendAny
  <2>3. PICK l \in Nat : l = m + 1
    OBVIOUS
  <2>4. Len(q) = l /\ q[l] = r /\ SamePrefix(rs, q, m)
    BY <1>2, <2>1, <2>2, <2>3, AppendAny DEF SamePrefix
  <2>5. PICK f : JudgesTo(rs, m, f) /\ Judging(Fresh, rs) = f[m]
    BY <2>2, JudgingValue
  <2>6. PICK g : JudgesTo(q, l, g) /\ Judging(Fresh, q) = g[l]
    BY <2>4, JudgingValue
  <2>7. f[m] = g[m]
    <3>1. m <= l /\ m \in 0..m
      BY <2>3
    <3> QED
      BY <3>1, <2>4, <2>5, <2>6, JudgesAgree
  <2>8. g[l] = JudgeOne(g[m], q[l])
    <3>1. l \in 0..l /\ l # 0 /\ l - 1 = m
      BY <2>3
    <3> QED
      BY <3>1, <2>6, JudgesToFields
  <2> QED
    BY <2>1, <2>4, <2>5, <2>6, <2>7, <2>8
<1> QED
  BY <1>1, <1>2

-----------------------------------------------------------------------------
(* The partition                                                           *)

\* Buffers with nothing in them; and one record, to the buffer of its symbol's thread.
Empty(T) == [t \in 1..T |-> <<>>]
Dealt(p, T, rs, i) == [p EXCEPT ![Owner(rs[i].symbol, T)] = Append(@, i)]

\* f is what the T buffers hold after the first m records of rs, as the recursion says.
DealsTo(T, rs, m, f) ==
  f = [i \in 0..m |-> IF i = 0 THEN Empty(T) ELSE Dealt(f[i-1], T, rs, i)]

\* One equation of it.
LEMMA DealsToFields ==
  ASSUME NEW T, NEW rs, NEW m \in Nat, NEW f, DealsTo(T, rs, m, f)
  PROVE  /\ DOMAIN f = 0..m /\ f[0] = Empty(T)
         /\ \A i \in 0..m : i # 0 => f[i] = Dealt(f[i-1], T, rs, i)
BY DEF DealsTo

\* The recursion has a solution.
LEMMA DealsToExists ==
  ASSUME NEW T, NEW rs
  PROVE  \A m \in Nat : \E f : DealsTo(T, rs, m, f)
<1> DEFINE S == {m \in Nat : \E f : DealsTo(T, rs, m, f)}
<1>1. 0 \in S
  <2> DEFINE f == [i \in 0..0 |-> Empty(T)]
  <2>1. f = [i \in 0..0 |-> IF i = 0 THEN Empty(T) ELSE Dealt(f[i-1], T, rs, i)]
    OBVIOUS
  <2> HIDE DEF f
  <2> QED
    BY <2>1 DEF DealsTo
<1>2. ASSUME NEW m \in S PROVE m + 1 \in S
  <2>1. PICK f : DealsTo(T, rs, m, f)
    BY <1>2
  <2>2. m \in Nat
    OBVIOUS
  <2> DEFINE g == [i \in 0..(m+1) |-> IF i = m + 1 THEN Dealt(f[m], T, rs, m + 1) ELSE f[i]]
  <2>3. ASSUME NEW i \in 0..(m+1)
        PROVE  g[i] = IF i = 0 THEN Empty(T) ELSE Dealt(g[i-1], T, rs, i)
    <3>1. CASE i = m + 1
      <4>1. i - 1 = m /\ m \in 0..(m+1) /\ m # m + 1 /\ i # 0
        BY <3>1, <2>2
      <4>2. g[m] = f[m] /\ g[i] = Dealt(f[m], T, rs, m + 1)
        BY <4>1, <3>1
      <4> QED
        BY <4>1, <4>2, <3>1
    <3>2. CASE i # m + 1 /\ i # 0
      <4>1. i \in 0..m /\ i - 1 \in 0..(m+1) /\ i - 1 # m + 1
        BY <3>2, <2>2
      <4>2. g[i] = f[i] /\ g[i-1] = f[i-1] /\ f[i] = Dealt(f[i-1], T, rs, i)
        BY <4>1, <3>2, <2>1, <2>2, DealsToFields
      <4> QED
        BY <4>2, <3>2
    <3>3. CASE i = 0
      <4>1. g[i] = f[0]
        BY <3>3, <2>2
      <4> QED
        BY <4>1, <3>3, <2>1, <2>2, DealsToFields
    <3> QED
      BY <3>1, <3>2, <3>3
  <2>4. g = [i \in 0..(m+1) |-> g[i]]
    OBVIOUS
  <2> HIDE DEF g
  <2>5. DealsTo(T, rs, m + 1, g)
    BY <2>3, <2>4, Zenon DEF DealsTo
  <2> QED
    BY <2>2, <2>5
<1> HIDE DEF S
<1>3. S = Nat
  <2>1. S \in SUBSET Nat
    BY DEF S
  <2> QED
    BY <1>1, <1>2, <2>1, NumbersByInduction
<1> QED
  BY <1>3 DEF S

\* Partition() is what the recursion computes.
LEMMA PartitionValue ==
  ASSUME count \in Nat, NEW T
  PROVE  \E f : DealsTo(T, records, count, f) /\ Partition(T) = f[count]
<1> DEFINE f == CHOOSE x : DealsTo(T, records, count, x)
<1>1. DealsTo(T, records, count, f)
  BY DealsToExists
<1>2. Partition(T) = f[count]
  BY DEF Partition, DealsTo, Dealt, Empty
<1> HIDE DEF f
<1> QED
  BY <1>1, <1>2

Of(rs, q) == [j \in DOMAIN q |-> rs[q[j]]]

\* A validator's table and flags after m records.
After(b, m) == IsFiniteSet(DOMAIN b.v) /\ IsSeq(b.flags) /\ Len(b.flags) = m

\* Its table is not full.
Spare(b) == Cardinality(DOMAIN b.v) < kCapacity

\* While it is not, every symbol so far has its slot.
AllSeen(rs, m, b) == Spare(b) => \A i \in 1..m : rs[i].symbol \in DOMAIN b.v

\* Thread t's buffer q, judged as a, agrees with all the first m records judged as b: on the
\* states of the thread's symbols with a slot in b, and on the flags of its records, where
\* a symbol without one in b may have gained some.
Agrees(T, t, rs, m, q, a, b) ==
  /\ q \in Seq(1..m) /\ After(a, Len(q))
  /\ \A k \in DOMAIN b.v : Owner(k, T) = t => k \in DOMAIN a.v /\ a.v[k] = b.v[k]
  /\ Spare(b) => DOMAIN a.v \subseteq DOMAIN b.v
  /\ \A j \in 1..Len(q) :
       /\ b.flags[q[j]] \subseteq a.flags[j]
       /\ rs[q[j]].symbol \in DOMAIN b.v => a.flags[j] = b.flags[q[j]]

\* c is b after one record more.
OneMore(b, r, m, c) ==
  /\ After(c, m + 1)
  /\ \A i \in 1..m : c.flags[i] = b.flags[i]
  /\ HasSlot(b.v, r.symbol) =>
       /\ DOMAIN c.v = DOMAIN b.v \cup {r.symbol}
       /\ \A k \in DOMAIN b.v : k # r.symbol => c.v[k] = b.v[k]
       /\ c.v[r.symbol] = Checked(SlotOf(b.v, r.symbol), r)
       /\ c.flags[m + 1] = Verdict(SlotOf(b.v, r.symbol), r).flags
  /\ ~HasSlot(b.v, r.symbol) => c.v = b.v /\ c.flags[m + 1] = StatelessFlags(r)

\* One record more through a validator.
LEMMA JudgeOneFields ==
  ASSUME NEW m \in Nat, NEW b, After(b, m), NEW r
  PROVE  OneMore(b, r, m, JudgeOne(b, r))
<1> DEFINE c == JudgeOne(b, r)
<1>1. PICK x : /\ c.flags = Append(b.flags, x)
               /\ HasSlot(b.v, r.symbol) => /\ c.v = Updated(b.v, r)
                                            /\ x = Verdict(SlotOf(b.v, r.symbol), r).flags
               /\ ~HasSlot(b.v, r.symbol) => c.v = b.v /\ x = StatelessFlags(r)
  BY DEF JudgeOne
<1> HIDE DEF c
<1>2. IsFiniteSet(DOMAIN b.v) /\ IsSeq(b.flags) /\ Len(b.flags) = m
  BY DEF After
<1>3. /\ IsSeq(c.flags) /\ Len(c.flags) = m + 1
      /\ \A i \in 1..m : c.flags[i] = b.flags[i]
      /\ c.flags[m + 1] = x
  BY <1>1, <1>2, AppendAny
<1>4. PICK u : u = Updated(b.v, r)
  BY Zenon
<1>5. /\ DOMAIN u = DOMAIN b.v \cup {r.symbol}
      /\ \A k \in DOMAIN b.v : k # r.symbol => u[k] = b.v[k]
      /\ u[r.symbol] = Checked(SlotOf(b.v, r.symbol), r)
  BY <1>4 DEF Updated
<1>6. IsFiniteSet(DOMAIN u)
  BY <1>2, <1>5, FS_AddElement
<1>7. IsFiniteSet(DOMAIN c.v)
  BY <1>1, <1>2, <1>4, <1>6, Zenon
<1>8. OneMore(b, r, m, c)
  BY <1>1, <1>3, <1>4, <1>5, <1>7, Zenon DEF After, OneMore
<1> QED
  BY <1>8 DEF c

\* The table only grows: by the record's symbol, and not when full.
LEMMA TableGrows ==
  ASSUME NEW m \in Nat, NEW b, After(b, m), NEW r, NEW c, OneMore(b, r, m, c)
  PROVE  /\ DOMAIN b.v \subseteq DOMAIN c.v
         /\ \A k \in DOMAIN c.v : k \in DOMAIN b.v \/ (k = r.symbol /\ Spare(b))
         /\ \A k \in DOMAIN b.v : k # r.symbol => c.v[k] = b.v[k]
         /\ Spare(c) => Spare(b)
         /\ ~HasSlot(b.v, r.symbol) => ~Spare(c)
<1>1. HasSlot(b.v, r.symbol) <=> r.symbol \in DOMAIN b.v \/ Spare(b)
  BY Zenon DEF HasSlot, Spare
<1>2. /\ HasSlot(b.v, r.symbol) => DOMAIN c.v = DOMAIN b.v \cup {r.symbol}
      /\ ~HasSlot(b.v, r.symbol) => c.v = b.v
      /\ HasSlot(b.v, r.symbol) => \A k \in DOMAIN b.v : k # r.symbol => c.v[k] = b.v[k]
  BY Zenon DEF OneMore
<1>3. DOMAIN b.v \subseteq DOMAIN c.v
  BY <1>2, Zenon
<1>4. \A k \in DOMAIN c.v : k \in DOMAIN b.v \/ (k = r.symbol /\ Spare(b))
  BY <1>1, <1>2, Zenon
<1>5. Spare(c) => Spare(b)
  <2>1. IsFiniteSet(DOMAIN c.v) /\ IsFiniteSet(DOMAIN b.v)
    BY Zenon DEF OneMore, After
  <2>2. PICK x, y : x = Cardinality(DOMAIN b.v) /\ y = Cardinality(DOMAIN c.v)
    BY Zenon
  <2>3. x \in Nat /\ y \in Nat /\ x <= y
    <3>1. DOMAIN b.v \in SUBSET DOMAIN c.v
      BY <1>3, Zenon
    <3> QED
      BY <2>1, <2>2, <3>1, FS_Subset, FS_CardinalityType, Zenon
  <2>4. kCapacity \in Nat
    BY ReplayAssumption
  <2> QED
    BY <2>2, <2>3, <2>4 DEF Spare
<1>6. ~HasSlot(b.v, r.symbol) => ~Spare(c)
  BY <1>1, <1>2, Zenon DEF Spare
<1> QED
  BY <1>2, <1>3, <1>4, <1>5, <1>6, Zenon

\* Every symbol so far still has its slot, or the table is full.
LEMMA AllSeenStep ==
  ASSUME NEW rs, NEW m \in Nat, NEW l \in Nat, l = m + 1, NEW b, After(b, m), AllSeen(rs, m, b),
         NEW c, OneMore(b, rs[l], m, c)
  PROVE  AllSeen(rs, l, c)
<1> SUFFICES ASSUME Spare(c), NEW i \in 1..l PROVE rs[i].symbol \in DOMAIN c.v
  BY Zenon DEF AllSeen
<1>1. DOMAIN b.v \subseteq DOMAIN c.v /\ Spare(b) /\ HasSlot(b.v, rs[l].symbol)
  BY TableGrows, Zenon
<1>2. rs[l].symbol \in DOMAIN c.v
  BY <1>1, Zenon DEF OneMore
<1>3. \A j \in 1..m : rs[j].symbol \in DOMAIN b.v
  BY <1>1, Zenon DEF AllSeen
<1>4. i \in 1..m \/ i = l
  OBVIOUS
<1> QED
  BY <1>1, <1>2, <1>3, <1>4, Zenon

\* A record of another thread's symbol.
LEMMA AgreesOther ==
  ASSUME NEW T, NEW t, NEW rs, NEW m \in Nat, NEW q, NEW a, NEW b,
         Agrees(T, t, rs, m, q, a, b), After(b, m), AllSeen(rs, m, b),
         NEW r, Owner(r.symbol, T) # t, NEW c, OneMore(b, r, m, c)
  PROVE  Agrees(T, t, rs, m + 1, q, a, c)
<1>1. q \in Seq(1..m) /\ After(a, Len(q))
  BY Zenon DEF Agrees
<1>2. q \in Seq(1..(m + 1))
  BY <1>1
<1>3. /\ DOMAIN b.v \subseteq DOMAIN c.v
      /\ \A k \in DOMAIN c.v : k \in DOMAIN b.v \/ (k = r.symbol /\ Spare(b))
      /\ \A k \in DOMAIN b.v : k # r.symbol => c.v[k] = b.v[k]
      /\ Spare(c) => Spare(b)
  BY TableGrows
<1>4. \A k \in DOMAIN c.v : Owner(k, T) = t => k \in DOMAIN a.v /\ a.v[k] = c.v[k]
  <2> SUFFICES ASSUME NEW k \in DOMAIN c.v, Owner(k, T) = t
               PROVE  k \in DOMAIN a.v /\ a.v[k] = c.v[k]
    BY Zenon
  <2>1. k # r.symbol
    BY Zenon
  <2>2. k \in DOMAIN b.v /\ c.v[k] = b.v[k]
    BY <1>3, <2>1, Zenon
  <2>3. k \in DOMAIN a.v /\ a.v[k] = b.v[k]
    BY <2>2, Zenon DEF Agrees
  <2> QED
    BY <2>2, <2>3, Zenon
<1>5. Spare(c) => DOMAIN a.v \subseteq DOMAIN c.v
  BY <1>3, Zenon DEF Agrees
<1>6. ASSUME NEW j \in 1..Len(q)
      PROVE  /\ c.flags[q[j]] \subseteq a.flags[j]
             /\ rs[q[j]].symbol \in DOMAIN c.v => a.flags[j] = c.flags[q[j]]
  <2>1. q[j] \in 1..m
    BY <1>1
  <2>2. c.flags[q[j]] = b.flags[q[j]]
    BY <2>1, Zenon DEF OneMore
  <2>3. rs[q[j]].symbol \in DOMAIN c.v => rs[q[j]].symbol \in DOMAIN b.v
    BY <1>3, <2>1, Zenon DEF AllSeen
  <2>4. /\ b.flags[q[j]] \subseteq a.flags[j]
        /\ rs[q[j]].symbol \in DOMAIN b.v => a.flags[j] = b.flags[q[j]]
    BY <1>6, Zenon DEF Agrees
  <2> QED
    BY <2>2, <2>3, <2>4, Zenon
<1> QED
  BY <1>1, <1>2, <1>4, <1>5, <1>6, Zenon DEF Agrees

\* The thread's validator has a slot for a symbol of its own whenever b has, and the same
\* state in it.
LEMMA SameSlot ==
  ASSUME NEW T, NEW t, NEW rs, NEW m \in Nat, NEW q, NEW a, NEW b,
         Agrees(T, t, rs, m, q, a, b), After(b, m),
         NEW k, Owner(k, T) = t, HasSlot(b.v, k)
  PROVE  HasSlot(a.v, k) /\ SlotOf(a.v, k) = SlotOf(b.v, k)
<1>1. CASE k \in DOMAIN b.v
  <2>1. k \in DOMAIN a.v /\ a.v[k] = b.v[k]
    BY <1>1, Zenon DEF Agrees
  <2> QED
    BY <1>1, <2>1, Zenon DEF HasSlot, SlotOf
<1>2. CASE k \notin DOMAIN b.v
  <2>1. Spare(b) /\ DOMAIN a.v \subseteq DOMAIN b.v
    BY <1>2, Zenon DEF HasSlot, Spare, Agrees
  <2>2. IsFiniteSet(DOMAIN b.v) /\ IsFiniteSet(DOMAIN a.v)
    BY Zenon DEF After, Agrees
  <2>3. PICK x, y : x = Cardinality(DOMAIN a.v) /\ y = Cardinality(DOMAIN b.v)
    BY Zenon
  <2>4. x \in Nat /\ y \in Nat /\ x <= y
    <3>1. DOMAIN a.v \in SUBSET DOMAIN b.v
      BY <2>1, Zenon
    <3> QED
      BY <2>2, <2>3, <3>1, FS_Subset, FS_CardinalityType, Zenon
  <2>5. kCapacity \in Nat
    BY ReplayAssumption
  <2>6. Cardinality(DOMAIN a.v) < kCapacity
    BY <2>1, <2>3, <2>4, <2>5 DEF Spare
  <2>7. k \notin DOMAIN a.v
    BY <1>2, <2>1, Zenon
  <2> QED
    BY <1>2, <2>6, <2>7, Zenon DEF HasSlot, SlotOf
<1> QED
  BY <1>1, <1>2, Zenon

\* A record of one of its own.
LEMMA AgreesOwner ==
  ASSUME NEW T, NEW t, NEW rs, NEW m \in Nat, NEW q, NEW a, NEW b,
         Agrees(T, t, rs, m, q, a, b), After(b, m), AllSeen(rs, m, b),
         NEW r, r = rs[m + 1], Owner(r.symbol, T) = t,
         NEW c, OneMore(b, r, m, c), NEW d, OneMore(a, r, Len(q), d)
  PROVE  Agrees(T, t, rs, m + 1, Append(q, m + 1), d, c)
<1>1. q \in Seq(1..m) /\ After(a, Len(q))
  BY Zenon DEF Agrees
<1>2. PICK l \in Nat : l = Len(q)
  BY <1>1
<1>3. /\ Append(q, m + 1) \in Seq(1..(m + 1)) /\ Len(Append(q, m + 1)) = l + 1
      /\ Append(q, m + 1)[l + 1] = m + 1
  <2>1. q \in Seq(1..(m + 1)) /\ m + 1 \in 1..(m + 1)
    BY <1>1
  <2> QED
    BY <1>2, <2>1
<1>4. \A j \in 1..l : Append(q, m + 1)[j] = q[j] /\ q[j] \in 1..m
  BY <1>1, <1>2
<1>5. After(a, l) /\ OneMore(a, r, l, d) /\ After(d, l + 1)
  <2>1. After(a, l) /\ OneMore(a, r, l, d)
    BY <1>1, <1>2, Zenon
  <2> QED
    BY <2>1, Zenon DEF OneMore
<1>6. /\ \A k \in DOMAIN c.v : k \in DOMAIN b.v \/ (k = r.symbol /\ Spare(b))
      /\ \A k \in DOMAIN b.v : k # r.symbol => c.v[k] = b.v[k]
      /\ Spare(c) => Spare(b) /\ HasSlot(b.v, r.symbol)
  <2>1. After(b, m) /\ OneMore(b, r, m, c)
    OBVIOUS
  <2> QED
    BY <2>1, TableGrows
<1>7. /\ DOMAIN a.v \subseteq DOMAIN d.v
      /\ \A k \in DOMAIN d.v : k \in DOMAIN a.v \/ k = r.symbol
      /\ \A k \in DOMAIN a.v : k # r.symbol => d.v[k] = a.v[k]
  <2>1. /\ DOMAIN a.v \subseteq DOMAIN d.v
        /\ \A k \in DOMAIN d.v : k \in DOMAIN a.v \/ (k = r.symbol /\ Spare(a))
        /\ \A k \in DOMAIN a.v : k # r.symbol => d.v[k] = a.v[k]
    BY <1>5, TableGrows
  <2> QED
    BY <2>1, Zenon
<1>8. r.symbol \in DOMAIN c.v => HasSlot(b.v, r.symbol)
  BY <1>6, Zenon DEF HasSlot, Spare
<1>9. HasSlot(b.v, r.symbol) =>
        HasSlot(a.v, r.symbol) /\ SlotOf(a.v, r.symbol) = SlotOf(b.v, r.symbol)
  BY SameSlot, Zenon
<1>10. ASSUME NEW k \in DOMAIN c.v, Owner(k, T) = t
       PROVE  k \in DOMAIN d.v /\ d.v[k] = c.v[k]
  <2>1. CASE k = r.symbol
    <3>1. HasSlot(b.v, k) /\ HasSlot(a.v, k) /\ SlotOf(a.v, k) = SlotOf(b.v, k)
      BY <1>8, <1>9, <1>10, <2>1, Zenon
    <3>2. k \in DOMAIN d.v /\ d.v[k] = Checked(SlotOf(a.v, k), r)
      BY <1>5, <2>1, <3>1, Zenon DEF OneMore
    <3>3. c.v[k] = Checked(SlotOf(b.v, k), r)
      BY <2>1, <3>1, Zenon DEF OneMore
    <3> QED
      BY <3>1, <3>2, <3>3, Zenon
  <2>2. CASE k # r.symbol
    <3>1. k \in DOMAIN b.v /\ c.v[k] = b.v[k]
      BY <1>6, <1>10, <2>2, Zenon
    <3>2. k \in DOMAIN a.v /\ a.v[k] = b.v[k]
      BY <1>10, <3>1, Zenon DEF Agrees
    <3> QED
      BY <1>7, <2>2, <3>1, <3>2, Zenon
  <2> QED
    BY <2>1, <2>2, Zenon
<1>11. ASSUME Spare(c) PROVE DOMAIN d.v \subseteq DOMAIN c.v
  <2>1. Spare(b) /\ DOMAIN c.v = DOMAIN b.v \cup {r.symbol}
    BY <1>6, <1>11, Zenon DEF OneMore
  <2>2. DOMAIN a.v \subseteq DOMAIN b.v
    BY <2>1, Zenon DEF Agrees
  <2> QED
    BY <1>7, <2>1, <2>2, Zenon
<1>12. ASSUME NEW j \in 1..l
       PROVE  /\ c.flags[q[j]] \subseteq d.flags[j]
              /\ rs[q[j]].symbol \in DOMAIN c.v => d.flags[j] = c.flags[q[j]]
  <2>1. d.flags[j] = a.flags[j]
    BY <1>5, <1>12, Zenon DEF OneMore
  <2>2. q[j] \in 1..m
    BY <1>4, <1>12, Zenon
  <2>3. c.flags[q[j]] = b.flags[q[j]]
    BY <2>2, Zenon DEF OneMore
  <2>4. rs[q[j]].symbol \in DOMAIN c.v => rs[q[j]].symbol \in DOMAIN b.v
    BY <1>6, <2>2, Zenon DEF AllSeen
  <2>5. /\ b.flags[q[j]] \subseteq a.flags[j]
        /\ rs[q[j]].symbol \in DOMAIN b.v => a.flags[j] = b.flags[q[j]]
    BY <1>2, <1>12, Zenon DEF Agrees
  <2> QED
    BY <2>1, <2>3, <2>4, <2>5, Zenon
<1>13. /\ c.flags[m + 1] \subseteq d.flags[l + 1]
       /\ r.symbol \in DOMAIN c.v => d.flags[l + 1] = c.flags[m + 1]
  <2>1. CASE HasSlot(b.v, r.symbol)
    <3>1. c.flags[m + 1] = Verdict(SlotOf(b.v, r.symbol), r).flags
      BY <2>1, Zenon DEF OneMore
    <3>2. d.flags[l + 1] = Verdict(SlotOf(a.v, r.symbol), r).flags
      BY <1>5, <1>9, <2>1, Zenon DEF OneMore
    <3> QED
      BY <1>9, <2>1, <3>1, <3>2, Zenon
  <2>2. CASE ~HasSlot(b.v, r.symbol)
    <3>1. c.flags[m + 1] = StatelessFlags(r) /\ r.symbol \notin DOMAIN c.v
      BY <1>8, <2>2, Zenon DEF OneMore
    <3>2. \/ d.flags[l + 1] = Verdict(SlotOf(a.v, r.symbol), r).flags
          \/ d.flags[l + 1] = StatelessFlags(r)
      BY <1>5, Zenon DEF OneMore
    <3>3. \A x : StatelessFlags(r) \subseteq Verdict(x, r).flags
      BY DEF Verdict
    <3> QED
      BY <3>1, <3>2, <3>3, Zenon
  <2> QED
    BY <2>1, <2>2, Zenon
<1>14. ASSUME NEW j \in 1..(l + 1)
       PROVE  /\ c.flags[Append(q, m + 1)[j]] \subseteq d.flags[j]
              /\ rs[Append(q, m + 1)[j]].symbol \in DOMAIN c.v =>
                   d.flags[j] = c.flags[Append(q, m + 1)[j]]
  <2>1. j \in 1..l \/ j = l + 1
    BY <1>2
  <2>2. CASE j \in 1..l
    BY <1>4, <1>12, <2>2, Zenon
  <2>3. CASE j = l + 1
    BY <1>3, <1>13, <2>3, Zenon
  <2> QED
    BY <2>1, <2>2, <2>3, Zenon
<1> QED
  BY <1>3, <1>5, <1>10, <1>11, <1>14, Zenon DEF Agrees

\* What the partition of the first m records is for.
Sharded(T, rs, m, p, b) ==
  /\ p = [t \in 1..T |-> p[t]] /\ After(b, m) /\ AllSeen(rs, m, b)
  /\ \A t \in 1..T : Agrees(T, t, rs, m, p[t], Judging(Fresh, Of(rs, p[t])), b)
  /\ \A i \in 1..m : \E t \in 1..T : i \in Range(p[t])

\* Nothing dealt yet.
LEMMA ShardedEmpty ==
  ASSUME NEW T \in Nat, NEW rs
  PROVE  Sharded(T, rs, 0, Empty(T), [v |-> Fresh, flags |-> <<>>])
<1> DEFINE b == [v |-> Fresh, flags |-> <<>>]
<1>1. IsSeq(<<>>) /\ Len(<<>>) = 0 /\ \A S : <<>> \in Seq(S)
  BY DEF IsSeq
<1>2. b.v = Fresh /\ b.flags = <<>> /\ DOMAIN Fresh = {}
  BY DEF Fresh
<1>3. After(b, 0) /\ AllSeen(rs, 0, b)
  <2>1. IsFiniteSet({}) /\ 1..0 = {}
    BY FS_EmptySet
  <2> QED
    BY <1>1, <1>2, <2>1 DEF After, AllSeen
<1>4. Of(rs, <<>>) = <<>>
  BY DEF Of
<1>5. Judging(Fresh, Of(rs, <<>>)) = b
  BY <1>4, JudgingAppend
<1> HIDE DEF b
<1>6. ASSUME NEW t PROVE Agrees(T, t, rs, 0, <<>>, b, b)
  <2>1. 1..Len(<<>>) = {} /\ DOMAIN b.v = {}
    BY <1>1, <1>2
  <2> QED
    BY <1>1, <1>3, <2>1, Zenon DEF Agrees
<1>7. Empty(T) = [t \in 1..T |-> Empty(T)[t]] /\ \A t \in 1..T : Empty(T)[t] = <<>>
  BY DEF Empty
<1>8. Sharded(T, rs, 0, Empty(T), b)
  BY <1>3, <1>5, <1>6, <1>7 DEF Sharded
<1> QED
  BY <1>8 DEF b

\* The next record, to its symbol's thread.
LEMMA ShardedStep ==
  ASSUME NEW T \in Nat, NEW rs, NEW m \in Nat, NEW p, NEW b, Sharded(T, rs, m, p, b),
         NEW l \in Nat, l = m + 1,
         Owner(rs[l].symbol, T) \in 1..T
  PROVE  Sharded(T, rs, l, Dealt(p, T, rs, l), JudgeOne(b, rs[l]))
<1> DEFINE r == rs[l]
           o == Owner(r.symbol, T)
           d == Dealt(p, T, rs, l)
           c == JudgeOne(b, r)
<1>1. p = [t \in 1..T |-> p[t]] /\ After(b, m) /\ AllSeen(rs, m, b) /\ o \in 1..T
  BY DEF Sharded
<1>2. /\ d = [t \in 1..T |-> d[t]] /\ d[o] = Append(p[o], l)
      /\ \A t \in 1..T : t # o => d[t] = p[t]
  <2>1. d = [p EXCEPT ![o] = Append(@, l)] /\ DOMAIN p = 1..T
    BY <1>1 DEF Dealt
  <2> HIDE DEF d, o
  <2> QED
    BY <1>1, <2>1, Zenon
<1>3. OneMore(b, r, m, c) /\ After(c, l) /\ AllSeen(rs, l, c)
  <2>1. OneMore(b, r, m, c)
    BY <1>1, JudgeOneFields
  <2> HIDE DEF c
  <2>2. AllSeen(rs, l, c)
    BY <1>1, <2>1, AllSeenStep
  <2> QED
    BY <2>1, <2>2, Zenon DEF OneMore
<1>4. ASSUME NEW t \in 1..T, t # o
      PROVE  Agrees(T, t, rs, l, d[t], Judging(Fresh, Of(rs, d[t])), c)
  <2>1. Agrees(T, t, rs, m, p[t], Judging(Fresh, Of(rs, p[t])), b)
    BY DEF Sharded
  <2> HIDE DEF d, c
  <2>2. Agrees(T, t, rs, m + 1, p[t], Judging(Fresh, Of(rs, p[t])), c)
    BY <1>1, <1>3, <1>4, <2>1, AgreesOther, Zenon
  <2> QED
    BY <1>2, <1>4, <2>2
<1>5. p[o] \in Seq(1..m)
  BY <1>1 DEF Sharded, Agrees
<1>6. Of(rs, Append(p[o], l)) = Append(Of(rs, p[o]), r) /\ IsSeq(Of(rs, p[o]))
  <2>1. PICK q \in Seq(1..m) : q = p[o]
    BY <1>5
  <2>2. IsSeq(q)
    BY DEF IsSeq
  <2>3. Len(q) \in Nat /\ DOMAIN q = 1..Len(q)
    BY <2>2, AppendAny
  <2>4. IsSeq(Of(rs, q)) /\ Len(Of(rs, q)) = Len(q) /\ \A i \in 1..Len(q) : Of(rs, q)[i] = rs[q[i]]
    <3>1. Of(rs, q) = [i \in 1..Len(q) |-> Of(rs, q)[i]] /\ \A i \in 1..Len(q) : Of(rs, q)[i] = rs[q[i]]
      BY <2>3 DEF Of
    <3> QED
      BY <3>1, <2>3, FunctionSeq, Zenon
  <2> DEFINE x == Of(rs, Append(q, l))
             y == Append(Of(rs, q), r)
  <2>5. /\ DOMAIN Append(q, l) = 1..(Len(q) + 1) /\ Append(q, l)[Len(q) + 1] = l
        /\ \A i \in 1..Len(q) : Append(q, l)[i] = q[i]
    BY <2>2, AppendAny
  <2>6. x = [i \in 1..(Len(q) + 1) |-> x[i]] /\ \A i \in 1..(Len(q) + 1) : x[i] = rs[Append(q, l)[i]]
    BY <2>5, Zenon DEF Of
  <2>7. IsSeq(x) /\ Len(x) = Len(q) + 1
    <3>1. Len(q) + 1 \in Nat
      BY <2>3
    <3> HIDE DEF x
    <3> QED
      BY <3>1, <2>6, FunctionSeq, Zenon
  <2>8. /\ IsSeq(y) /\ Len(y) = Len(q) + 1 /\ y[Len(q) + 1] = r
        /\ \A i \in 1..Len(q) : y[i] = rs[q[i]]
    <3>1. PICK z, e : z = Of(rs, q) /\ e = r
      BY Zenon
    <3>2. IsSeq(z) /\ Len(z) = Len(q) /\ \A i \in 1..Len(q) : z[i] = rs[q[i]]
      BY <2>4, <3>1, Zenon
    <3>3. IsSeq(z)
      BY <3>2, Zenon
    <3>4. /\ IsSeq(Append(z, e)) /\ Len(Append(z, e)) = Len(z) + 1
          /\ \A i \in 1..Len(z) : Append(z, e)[i] = z[i]
          /\ Append(z, e)[Len(z) + 1] = e
      BY <3>3, AppendAny
    <3>5. PICK w, g : w = Append(z, e) /\ g = Len(q)
      BY Zenon
    <3>6. IsSeq(w) /\ Len(w) = g + 1 /\ w[g + 1] = r
      BY <3>1, <3>2, <3>4, <3>5, Zenon
    <3>7. ASSUME NEW i \in 1..g PROVE w[i] = rs[q[i]]
      <4>1. i \in 1..Len(z) /\ i \in 1..Len(q)
        BY <3>2, <3>5, Zenon
      <4> QED
        BY <3>2, <3>4, <3>5, <4>1, Zenon
    <3> QED
      BY <3>1, <3>5, <3>6, <3>7, Zenon
  <2>9. \A i \in 1..(Len(q) + 1) : x[i] = y[i]
    <3>1. \A i \in 1..(Len(q) + 1) : i \in 1..Len(q) \/ i = Len(q) + 1
      BY <2>3
    <3>2. \A i \in 1..Len(q) : i \in 1..(Len(q) + 1)
      BY <2>3
    <3>3. Len(q) + 1 \in 1..(Len(q) + 1)
      BY <2>3
    <3> HIDE DEF x, y
    <3>4. ASSUME NEW i \in 1..Len(q) PROVE x[i] = y[i]
      <4>1. x[i] = rs[Append(q, l)[i]]
        BY <3>2, <2>6, Zenon
      <4> QED
        BY <4>1, <2>5, <2>8, Zenon
    <3>5. x[Len(q) + 1] = y[Len(q) + 1]
      <4>1. x[Len(q) + 1] = rs[Append(q, l)[Len(q) + 1]]
        BY <3>3, <2>6, Zenon
      <4> QED
        BY <4>1, <2>5, <2>8, Zenon
    <3> QED
      BY <3>1, <3>4, <3>5, Zenon
  <2> HIDE DEF x, y
  <2>10. x = y
    BY <2>7, <2>8, <2>9, SameSeq, Zenon
  <2> QED
    BY <2>1, <2>4, <2>10, Zenon DEF x, y
<1>7. Agrees(T, o, rs, l, d[o], Judging(Fresh, Of(rs, d[o])), c)
  <2>1. Agrees(T, o, rs, m, p[o], Judging(Fresh, Of(rs, p[o])), b)
    BY <1>1 DEF Sharded
  <2> HIDE DEF d, c
  <2>2. Agrees(T, o, rs, m + 1, Append(p[o], m + 1), JudgeOne(Judging(Fresh, Of(rs, p[o])), r), c)
    <3>1. PICK q, a : q = p[o] /\ a = Judging(Fresh, Of(rs, p[o]))
      OBVIOUS
    <3>2. Agrees(T, o, rs, m, q, a, b) /\ r = rs[m + 1] /\ Owner(r.symbol, T) = o
      BY <2>1, <3>1
    <3> HIDE DEF r, o
    <3>3. After(a, Len(q)) /\ Len(q) \in Nat
      <4>1. q \in Seq(1..m) /\ After(a, Len(q))
        BY <3>2, Zenon DEF Agrees
      <4>2. \A S, x : x \in Seq(S) => Len(x) \in Nat
        OBVIOUS
      <4> QED
        BY <4>1, <4>2, Zenon
    <3>4. OneMore(a, r, Len(q), JudgeOne(a, r))
      BY <3>3, JudgeOneFields, Zenon
    <3>5. Agrees(T, o, rs, m + 1, Append(q, m + 1), JudgeOne(a, r), c)
      BY <1>1, <1>3, <3>2, <3>4, AgreesOwner, Zenon
    <3> QED
      BY <3>1, <3>5
  <2>3. Judging(Fresh, Of(rs, d[o])) = JudgeOne(Judging(Fresh, Of(rs, p[o])), r)
    <3>1. d[o] = Append(p[o], l) /\ Of(rs, Append(p[o], l)) = Append(Of(rs, p[o]), r)
          /\ IsSeq(Of(rs, p[o]))
      BY <1>2, <1>6, Zenon
    <3> HIDE DEF o, r
    <3>2. Judging(Fresh, Append(Of(rs, p[o]), r)) = JudgeOne(Judging(Fresh, Of(rs, p[o])), r)
      BY <3>1, JudgingAppend
    <3> QED
      BY <3>1, <3>2, Zenon
  <2>4. d[o] = Append(p[o], m + 1) /\ l = m + 1
    BY <1>2
  <2> HIDE DEF o, r
  <2> QED
    BY <2>2, <2>3, <2>4, Zenon
<1>8. ASSUME NEW i \in 1..l PROVE \E t \in 1..T : i \in Range(d[t])
  <2>0. PICK q \in Seq(1..m) : q = p[o]
    BY <1>5
  <2>1. /\ IsSeq(q) /\ DOMAIN q = 1..Len(q) /\ Len(q) \in Nat
        /\ DOMAIN Append(q, l) = 1..(Len(q) + 1) /\ Append(q, l)[Len(q) + 1] = l
        /\ \A j \in 1..Len(q) : Append(q, l)[j] = q[j]
    BY AppendAny DEF IsSeq
  <2>2. Range(d[o]) = Range(p[o]) \cup {l}
    <3>1. \A j : j \in 1..(Len(q) + 1) <=> (j \in 1..Len(q) \/ j = Len(q) + 1)
      BY <2>1
    <3>2. Range(Append(q, l)) = Range(q) \cup {l}
      BY <2>1, <3>1 DEF Range
    <3> QED
      BY <1>2, <2>0, <3>2, Zenon
  <2> HIDE DEF d
  <2>3. CASE i = l
    BY <1>1, <2>2, <2>3
  <2>4. CASE i \in 1..m
    <3>1. PICK t \in 1..T : i \in Range(p[t])
      BY <2>4 DEF Sharded
    <3>2. i \in Range(d[t])
      BY <1>2, <2>2, <3>1, Zenon
    <3> QED
      BY <3>2
  <2> QED
    BY <2>3, <2>4
<1> HIDE DEF d, c, o, r
<1>9. Sharded(T, rs, l, d, c)
  BY <1>2, <1>3, <1>4, <1>7, <1>8, Zenon DEF Sharded
<1> QED
  BY <1>9 DEF d, c, r

\* The partition of a whole data set.
LEMMA PartitionSharded ==
  ASSUME NEW T \in Nat, count \in Nat, Len(records) = count,
         \A i \in 1..count : Owner(records[i].symbol, T) \in 1..T
  PROVE  Sharded(T, records, count, Partition(T), Judging(Fresh, records))
<1>1. PICK f : DealsTo(T, records, count, f) /\ Partition(T) = f[count]
  BY PartitionValue
<1>2. PICK g : JudgesTo(records, count, g) /\ Judging(Fresh, records) = g[count]
  BY JudgingValue
<1> DEFINE S == {m \in Nat : m <= count => Sharded(T, records, m, f[m], g[m])}
<1>3. 0 \in S
  <2>1. f[0] = Empty(T) /\ g[0] = [v |-> Fresh, flags |-> <<>>]
    BY <1>1, <1>2, DealsToFields, JudgesToFields, Zenon
  <2>2. Sharded(T, records, 0, f[0], g[0])
    BY <2>1, ShardedEmpty
  <2> QED
    BY <2>2
<1>4. ASSUME NEW m \in S PROVE m + 1 \in S
  <2> SUFFICES ASSUME m + 1 <= count PROVE Sharded(T, records, m + 1, f[m + 1], g[m + 1])
    OBVIOUS
  <2>1. m \in Nat /\ m + 1 \in 0..count /\ m + 1 # 0 /\ m + 1 \in 1..count /\ m <= count
    OBVIOUS
  <2>2. PICK l \in Nat : l = m + 1
    BY <2>1
  <2>3. l \in 0..count /\ l # 0 /\ l \in 1..count /\ l - 1 = m
    BY <2>1, <2>2
  <2>4. f[l] = Dealt(f[m], T, records, l)
    <3>1. \A i \in 0..count : i # 0 => f[i] = Dealt(f[i-1], T, records, i)
      BY <1>1, DealsToFields
    <3> QED
      BY <2>3, <3>1
  <2>5. g[l] = JudgeOne(g[m], records[l])
    BY <1>2, <2>3, JudgesToFields, Zenon
  <2>6. Sharded(T, records, m, f[m], g[m])
    BY <1>4, <2>1
  <2>7. Sharded(T, records, l, Dealt(f[m], T, records, l), JudgeOne(g[m], records[l]))
    <3>1. PICK p, b : p = f[m] /\ b = g[m]
      OBVIOUS
    <3>2. /\ m \in Nat /\ l \in Nat /\ l = m + 1 /\ Sharded(T, records, m, p, b)
          /\ Owner(records[l].symbol, T) \in 1..T
      BY <2>1, <2>2, <2>3, <2>6, <3>1
    <3>3. Sharded(T, records, l, Dealt(p, T, records, l), JudgeOne(b, records[l]))
      BY <3>2, ShardedStep, Zenon
    <3> QED
      BY <3>1, <3>3
  <2> QED
    BY <2>2, <2>4, <2>5, <2>7
<1> HIDE DEF S
<1>5. S = Nat
  <2>1. S \in SUBSET Nat
    BY DEF S
  <2> QED
    BY <1>3, <1>4, <2>1, NumbersByInduction, Zenon
<1>6. count \in S
  BY <1>5
<1> QED
  BY <1>1, <1>2, <1>6 DEF S

-----------------------------------------------------------------------------
(* What the programs replay                                                *)

\* The records are of the symbols; once there is a file there are n of them, and a
\* program that runs has the view of them all.
DataInv ==
  /\ s \in 1..Len(Symbols)
  /\ IsSeq(records) /\ Len(records) <= n
  /\ \A i \in 1..Len(records) : records[i].symbol \in Range(Symbols)
  /\ file # NoFile => Len(records) = n /\ file.header = Header(n)
  /\ pc # "start" => file # NoFile /\ one = Judging(Fresh, records)
  /\ pc \notin {"start", "failed"} => count = n

\* The shards of a run with so many threads.
ShardInv ==
  /\ sweep \in Seq({Sweep[i] : i \in DOMAIN Sweep})
  /\ pc \in {"wait", "gate", "join"} =>
       /\ prog = "mt" /\ sweep # <<>> /\ shards = Partition(Head(sweep))
       /\ DOMAIN at = 1..Head(sweep)

\* What is behind the ring and in it: the records round and round, and the validator
\* that has seen the ones taken.
Taken == [i \in 1..Len(popped) |-> records[popped[i]]]
PipeInv ==
  /\ queue \in Seq(1..n) /\ popped \in Seq(1..n)
  /\ pc = "start" => prog = "none" /\ queue = <<>> /\ popped = <<>>
  /\ \A i \in 1..Len(popped) : popped[i] = ((i - 1) % n) + 1
  /\ \A i \in 1..Len(queue) : queue[i] = ((Len(popped) + i - 1) % n) + 1
  /\ prog # "bench" => Judging(Fresh, Taken) = [v |-> lv, flags |-> verdicts]
  /\ prog = "spsc" /\ pc = "done" => Len(popped) = n * Passes

ReplayInv == DataInv /\ ShardInv /\ PipeInv

\* The symbols are what their sequence holds, and a thread of the sweep has each.
LEMMA SymbolFacts ==
  /\ n \in Nat \ {0} /\ Len(Symbols) \in Nat \ {0} /\ DOMAIN Symbols = 1..Len(Symbols)
  /\ \A i \in 1..Len(Symbols) : Symbols[i] \in Range(Symbols)
  /\ \A T \in {Sweep[i] : i \in DOMAIN Sweep} :
       T \in Nat /\ \A k \in Range(Symbols) : Owner(k, T) \in 1..T
<1>1. n \in Nat \ {0} /\ Len(Symbols) \in Nat \ {0} /\ DOMAIN Symbols = 1..Len(Symbols)
  BY DatasetAssumption, ReplayAssumption
<1>2. \A i \in 1..Len(Symbols) : Symbols[i] \in Range(Symbols)
  BY <1>1 DEF Range
<1>3. \A i \in DOMAIN Sweep : Sweep[i] \in Nat
  BY ReplayAssumption
<1> QED
  BY <1>1, <1>2, <1>3, ReplayAssumption DEF Range

\* No record, no file, no program.
LEMMA ReplayInvInit == Init => ReplayInv
<1> SUFFICES ASSUME Init PROVE ReplayInv
  OBVIOUS
<1>1. DataInv
  <2>1. IsSeq(<<>>) /\ Len(<<>>) = 0
    BY DEF IsSeq
  <2> QED
    BY <2>1, SymbolFacts DEF Init, DatasetInit, DataInv
<1>2. ShardInv
  <2>1. Sweep \in Seq({Sweep[i] : i \in DOMAIN Sweep})
    BY ReplayAssumption
  <2> QED
    BY <2>1 DEF Init, ShardInv
<1>3. PipeInv
  <2>1. Taken = <<>>
    BY DEF Init, Taken
  <2>2. Judging(Fresh, Taken) = [v |-> lv, flags |-> verdicts]
    BY <2>1, JudgingAppend DEF Init
  <2>3. queue = <<>> /\ popped = <<>> /\ pc = "start" /\ prog = "none"
    BY DEF Init
  <2> QED
    BY <2>2, <2>3 DEF PipeInv
<1> QED
  BY <1>1, <1>2, <1>3 DEF ReplayInv

\* A record goes out with the symbol whose turn it is.
LEMMA EmitData ==
  ASSUME DataInv, Room, file = NoFile, NEW r, NEW hit, r.symbol = Symbols[s], Emit(r, hit),
         UNCHANGED <<pc, count, one>>
  PROVE  DataInv'
<1>1. records' = Append(records, r) /\ UNCHANGED <<s, file>>
  BY DEF Emit
<1>2. IsSeq(records) /\ Len(records) \in Nat /\ Len(records) < n
  BY AppendAny DEF DataInv, Room
<1>3. /\ IsSeq(records') /\ Len(records') = Len(records) + 1
      /\ \A i \in 1..Len(records) : records'[i] = records[i]
      /\ records'[Len(records) + 1] = r
  BY <1>1, <1>2, AppendAny
<1>4. r.symbol \in Range(Symbols)
  BY SymbolFacts DEF DataInv
<1>5. Len(records') <= n
  <2>1. PICK a \in Nat, b \in Nat : a = Len(records) /\ b = n
    BY <1>2, SymbolFacts, Zenon
  <2>2. a < b => a + 1 <= b
    OBVIOUS
  <2> QED
    BY <1>2, <1>3, <2>1, <2>2, Zenon
<1>6. \A i \in 1..Len(records') : records'[i].symbol \in Range(Symbols)
  <2>1. \A i \in 1..(Len(records) + 1) : i \in 1..Len(records) \/ i = Len(records) + 1
    BY <1>2
  <2> QED
    BY <1>3, <1>4, <2>1 DEF DataInv
<1> QED
  BY <1>1, <1>3, <1>5, <1>6 DEF DataInv

\* The generator.
LEMMA GenerateData ==
  ASSUME DataInv, Generate, UNCHANGED <<pc, count, one>>
  PROVE  DataInv' /\ file = NoFile
<1>1. file = NoFile
  <2>1. Room => file = NoFile
    BY SymbolFacts DEF Room, DataInv
  <2> QED
    BY <2>1, Zenon DEF Generate, StartWindow, EmitTrade, EmitQuote, EmitBar, WriteFile
<1>2. CASE StartWindow
  <2>1. s' \in 1..Len(Symbols)
    <3>1. \A x, y \in Nat : y # 0 => (x % y) + 1 \in 1..y
      OBVIOUS
    <3>2. s \in Nat
      BY SymbolFacts DEF DataInv
    <3> QED
      BY <1>2, <3>1, <3>2, SymbolFacts DEF StartWindow
  <2>2. records' = records /\ file' = file /\ pc' = pc /\ count' = count /\ one' = one
    BY <1>2 DEF StartWindow
  <2> QED
    BY <1>1, <2>1, <2>2 DEF DataInv
<1>3. CASE \E j \in Jitters, z \in Sizes : EmitTrade(j, z)
  <2>1. \E r, hit : r.symbol = Symbols[s] /\ Emit(r, hit)
    BY <1>3 DEF EmitTrade
  <2>2. Room
    BY <1>3 DEF EmitTrade
  <2> QED
    BY <1>1, <2>1, <2>2, EmitData
<1>4. CASE EmitQuote
  <2>1. \E r, hit : r.symbol = Symbols[s] /\ Emit(r, hit)
    BY <1>4 DEF EmitQuote
  <2>2. Room
    BY <1>4 DEF EmitQuote
  <2> QED
    BY <1>1, <2>1, <2>2, EmitData
<1>5. CASE EmitBar
  <2>1. \E r, hit : r.symbol = Symbols[s] /\ Emit(r, hit)
    <3> DEFINE d == window.defect
               a == window.acc
               vwap == IF a.vol # 0 THEN a.pv \div a.vol ELSE a.open
               r == [type |-> "bar", symbol |-> Symbols[s], seq |-> seq[s] + 1, ts |-> ts[s] + 1,
                     open |-> a.open, close |-> a.close,
                     high |-> IF d = "recon_ohlc" THEN a.high + 5 * Dollar ELSE a.high,
                     low |-> IF d = "band" THEN a.high + 5 * Dollar ELSE a.low,
                     vwap |-> IF d = "recon_vwap" THEN vwap + vwap \div 1000 ELSE vwap,
                     volume |-> IF d = "recon_volume" THEN a.vol + 100 ELSE a.vol,
                     trade_count |-> IF d = "recon_count" THEN a.cnt + 1 ELSE a.cnt]
    <3>1. Emit(r, d \in BarDefects)
      BY <1>5, Zenon DEF EmitBar
    <3>2. r.symbol = Symbols[s]
      OBVIOUS
    <3> HIDE DEF r, d
    <3> QED
      BY <3>1, <3>2, Zenon
  <2>2. Room
    BY <1>5, Zenon DEF EmitBar
  <2> QED
    BY <1>1, <2>1, <2>2, EmitData
<1>6. CASE WriteFile
  <2>1. Len(records) = n
    <3>1. Len(records) \in Nat /\ Len(records) <= n
      BY AppendAny, Zenon DEF DataInv
    <3> QED
      BY <1>6, <3>1, SymbolFacts DEF WriteFile, Room
  <2>2. file'.header = Header(n) /\ UNCHANGED <<s, records>>
    BY <1>6, <2>1 DEF WriteFile, File
  <2> QED
    BY <1>1, <2>1, <2>2 DEF DataInv
<1> QED
  BY <1>1, <1>2, <1>3, <1>4, <1>5, <1>6 DEF Generate

\* Steps that leave the data set and what main() knows of it.
LEMMA QuietData ==
  ASSUME DataInv, UNCHANGED <<dataset, count, one>>,
         pc' = pc \/ (pc \notin {"start", "failed"} /\ pc' # "start")
  PROVE  DataInv'
<1>1. records' = records /\ file' = file /\ s' = s /\ count' = count /\ one' = one
  BY DEF dataset
<1> QED
  BY <1>1 DEF DataInv

\* main() maps the file.
LEMMA StartData ==
  ASSUME DataInv, NEW p, Start(p)
  PROVE  DataInv'
<1>1. /\ records' = records /\ file' = file /\ s' = s /\ file # NoFile
      /\ one' = Judging(Fresh, records) /\ count' = ViewReplay(file).count
      /\ pc' = IF ViewReplay(file).accepted THEN "replay" ELSE "failed"
  BY DEF Start, dataset
<1>2. file.header.count = n
  BY <1>1 DEF DataInv, Header
<1>3. ViewReplay(file).accepted => ViewReplay(file).count = n
  BY <1>2 DEF ViewReplay, Refused, Accepted
<1> QED
  BY <1>1, <1>3 DEF DataInv

\* Steps that leave the records, the file and the shards.
LEMMA QuietShards ==
  ASSUME ShardInv, UNCHANGED <<sweep, shards, at>>,
         \/ pc' \notin {"wait", "gate", "join"}
         \/ pc \in {"wait", "gate", "join"} /\ UNCHANGED <<records, count, prog>>
  PROVE  ShardInv'
<1>1. CASE pc' \notin {"wait", "gate", "join"}
  BY <1>1 DEF ShardInv
<1>2. CASE pc \in {"wait", "gate", "join"} /\ UNCHANGED <<records, count, prog>>
  <2>1. \A T : Partition(T)' = Partition(T)
    BY <1>2 DEF Partition
  <2>2. shards' = Partition(Head(sweep))'
    BY <1>2, <2>1 DEF ShardInv
  <2> QED
    BY <1>2, <2>2 DEF ShardInv
<1> QED
  BY <1>1, <1>2

\* main() of replay_bench_mt.
LEMMA MainShards ==
  ASSUME ShardInv, Spawn \/ TakeT0 \/ OpenGate \/ Join
  PROVE  ShardInv'
<1>1. CASE Spawn
  <2>1. UNCHANGED <<records, count, sweep>> /\ sweep # <<>> /\ shards' = Partition(Head(sweep))
        /\ prog' = "mt"
        /\ at' = [t \in 1..Head(sweep) |-> "spawned"]
    BY <1>1 DEF Spawn, dataset
  <2>2. \A T : Partition(T)' = Partition(T)
    <3>1. records' = records /\ count' = count
      BY <2>1
    <3> QED
      BY <3>1 DEF Partition
  <2>3. shards' = Partition(Head(sweep))'
    BY <2>1, <2>2
  <2>4. DOMAIN at' = 1..Head(sweep')
    BY <2>1
  <2> QED
    BY <2>1, <2>3, <2>4 DEF ShardInv
<1>2. CASE TakeT0 \/ OpenGate
  BY <1>2, QuietShards DEF TakeT0, OpenGate, MainStep, dataset
<1>3. CASE Join
  <2>1. sweep' = Tail(sweep) /\ sweep # <<>> /\ pc' \in {"replay", "done"}
    BY <1>3 DEF Join, ShardInv
  <2>2. sweep' \in Seq({Sweep[i] : i \in DOMAIN Sweep})
    BY <2>1 DEF ShardInv
  <2> QED
    BY <2>1, <2>2 DEF ShardInv
<1> QED
  BY <1>1, <1>2, <1>3

\* A thread.
LEMMA ThreadShards ==
  ASSUME ShardInv, NEW t \in DOMAIN at, Thread(t)
  PROVE  ShardInv'
<1>1. /\ UNCHANGED <<sweep, shards, pc, prog, records, count>> /\ DOMAIN at' = DOMAIN at
  BY DEF Thread, Ready, PassGate, Pass, End, ThreadStep, dataset
<1>2. \A T : Partition(T)' = Partition(T)
  BY <1>1 DEF Partition
<1>3. Partition(Head(sweep))' = Partition(Head(sweep))
  BY <1>1, <1>2
<1> QED
  BY <1>1, <1>3, Zenon DEF ShardInv

\* Steps that leave the ring and the validator behind it.
LEMMA QuietPipe ==
  ASSUME PipeInv, UNCHANGED <<pipeline, prog>>, popped = <<>> \/ UNCHANGED records,
         prog = "bench" \/ UNCHANGED verdicts,
         pc' # "start" \/ pc' = pc, prog = "spsc" => pc' = pc
  PROVE  PipeInv'
<1>1. queue' = queue /\ popped' = popped /\ lv' = lv /\ prog' = prog
  BY DEF pipeline
<1>2. Taken' = Taken
  BY <1>1 DEF Taken
<1>3. prog # "bench" => Judging(Fresh, Taken') = [v |-> lv', flags |-> verdicts']
  BY <1>1, <1>2 DEF PipeInv
<1> QED
  BY <1>1, <1>3 DEF PipeInv

\* main() maps the file.
LEMMA StartPipe ==
  ASSUME PipeInv, NEW p, Start(p)
  PROVE  PipeInv'
<1>1. /\ UNCHANGED <<queue, popped, lv, verdicts, records>> /\ pc = "start"
      /\ pc' \in {"replay", "failed"}
  BY DEF Start, pipeline, dataset
<1>2. Taken' = Taken
  BY <1>1 DEF Taken
<1>3. Judging(Fresh, Taken') = [v |-> lv', flags |-> verdicts']
  BY <1>1, <1>2 DEF PipeInv
<1> QED
  BY <1>1, <1>3 DEF PipeInv

\* The producer pushes the record whose turn it is.
LEMMA PushPipe ==
  ASSUME PipeInv, DataInv, Push
  PROVE  PipeInv'
<1>1. /\ UNCHANGED <<popped, lv, verdicts, records, pc, prog>> /\ pc = "replay"
      /\ queue' = Append(queue, (Pushed % n) + 1)
  BY DEF Push, Ring!Put, dataset, DataInv
<1>2. PICK l \in Nat, m \in Nat : l = Len(queue) /\ m = Len(popped)
  BY DEF PipeInv
<1>3. Pushed = m + l /\ ((m + l) % n) + 1 \in 1..n
  <2>1. \A x, y \in Nat : y # 0 => (x % y) + 1 \in 1..y
    OBVIOUS
  <2>2. m + l \in Nat
    OBVIOUS
  <2>3. l + m = m + l
    OBVIOUS
  <2> QED
    BY <1>2, <2>1, <2>2, <2>3, SymbolFacts, Zenon DEF Pushed
<1>4. queue \in Seq(1..n)
  BY DEF PipeInv
<1>5. PICK x \in 1..n : x = ((m + l) % n) + 1
  BY <1>3
<1>6. queue' = Append(queue, x)
  BY <1>1, <1>3, <1>5
<1>7. /\ queue' \in Seq(1..n) /\ Len(queue') = l + 1 /\ queue'[l + 1] = x
      /\ \A i \in 1..l : queue'[i] = queue[i]
  BY <1>2, <1>4, <1>6
<1>8. \A i \in 1..Len(queue') : queue'[i] = ((Len(popped') + i - 1) % n) + 1
  <2>1. ASSUME NEW i \in 1..l PROVE queue'[i] = ((Len(popped') + i - 1) % n) + 1
    BY <1>1, <1>2, <1>7 DEF PipeInv
  <2>2. queue'[l + 1] = ((Len(popped') + (l + 1) - 1) % n) + 1
    <3>1. m + (l + 1) - 1 = m + l
      OBVIOUS
    <3> QED
      BY <1>1, <1>2, <1>5, <1>7, <3>1
  <2>3. \A i \in 1..(l + 1) : i \in 1..l \/ i = l + 1
    OBVIOUS
  <2> QED
    BY <1>7, <2>1, <2>2, <2>3
<1>9. Judging(Fresh, Taken') = [v |-> lv', flags |-> verdicts']
  <2>1. Taken' = Taken
    BY <1>1 DEF Taken
  <2> QED
    BY <1>1, <2>1 DEF PipeInv, Push
<1> QED
  BY <1>1, <1>7, <1>8, <1>9 DEF PipeInv

\* The consumer takes the record whose turn it is and validates it.
LEMMA PopPipe ==
  ASSUME PipeInv, DataInv, Pop
  PROVE  PipeInv'
<1> DEFINE r == records[Head(queue)]
<1>1. /\ UNCHANGED <<records, pc, prog>> /\ pc = "replay" /\ prog = "spsc"
      /\ queue # <<>> /\ queue' = Tail(queue) /\ popped' = Append(popped, Head(queue))
      /\ lv' = JudgeOne([v |-> lv, flags |-> verdicts], r).v
      /\ verdicts' = JudgeOne([v |-> lv, flags |-> verdicts], r).flags
  BY DEF Pop, Ring!Get, dataset
<1>2. PICK l \in Nat, m \in Nat : l = Len(queue) /\ m = Len(popped)
  BY DEF PipeInv
<1>3. queue \in Seq(1..n) /\ popped \in Seq(1..n)
  BY DEF PipeInv
<1>4. PICK x \in 1..n : x = Head(queue)
  <2>1. \A S, q : q \in Seq(S) /\ q # <<>> => Head(q) \in S
    OBVIOUS
  <2>2. queue # <<>>
    BY <1>1
  <2> QED
    BY <1>3, <2>1, <2>2, Zenon
<1>5. /\ queue' \in Seq(1..n) /\ Len(queue') = l - 1 /\ l >= 1 /\ x = queue[1]
      /\ \A i \in 1..(l - 1) : queue'[i] = queue[i + 1]
  <2>1. \A S, q : q \in Seq(S) /\ q # <<>> =>
          /\ Tail(q) \in Seq(S) /\ Len(Tail(q)) = Len(q) - 1 /\ Len(q) >= 1 /\ Head(q) = q[1]
    OBVIOUS
  <2>2. \A S, q : q \in Seq(S) /\ q # <<>> => \A i \in 1..(Len(q) - 1) : Tail(q)[i] = q[i + 1]
    OBVIOUS
  <2>3. queue \in Seq(1..n) /\ queue # <<>> /\ queue' = Tail(queue) /\ x = Head(queue) /\ l = Len(queue)
    BY <1>1, <1>2, <1>3, <1>4
  <2> HIDE DEF r
  <2> QED
    BY <2>1, <2>2, <2>3
<1>6. /\ popped' \in Seq(1..n) /\ Len(popped') = m + 1 /\ popped'[m + 1] = x
      /\ \A i \in 1..m : popped'[i] = popped[i]
  BY <1>1, <1>2, <1>3, <1>4
<1>7. x = (m % n) + 1
  <2>1. 1 \in 1..l /\ m + 1 - 1 = m
    BY <1>5
  <2> QED
    BY <1>2, <1>5, <2>1 DEF PipeInv
<1>8. \A i \in 1..Len(popped') : popped'[i] = ((i - 1) % n) + 1
  <2>1. ASSUME NEW i \in 1..m PROVE popped'[i] = ((i - 1) % n) + 1
    BY <1>2, <1>6 DEF PipeInv
  <2>2. popped'[m + 1] = (((m + 1) - 1) % n) + 1
    <3>1. (m + 1) - 1 = m
      OBVIOUS
    <3> QED
      BY <1>6, <1>7, <3>1
  <2>3. \A i \in 1..(m + 1) : i \in 1..m \/ i = m + 1
    OBVIOUS
  <2> QED
    BY <1>6, <2>1, <2>2, <2>3
<1>9. \A i \in 1..Len(queue') : queue'[i] = ((Len(popped') + i - 1) % n) + 1
  <2>1. ASSUME NEW i \in 1..(l - 1) PROVE queue'[i] = ((Len(popped') + i - 1) % n) + 1
    <3>1. i + 1 \in 1..l /\ m + (i + 1) - 1 = (m + 1) + i - 1
      OBVIOUS
    <3>2. queue[i + 1] = ((m + (i + 1) - 1) % n) + 1
      BY <1>2, <3>1 DEF PipeInv
    <3> QED
      BY <1>5, <1>6, <3>1, <3>2
  <2> QED
    BY <1>5, <2>1
<1>10. Judging(Fresh, Taken') = [v |-> lv', flags |-> verdicts']
  <2>1. /\ Taken = [i \in 1..m |-> Taken[i]] /\ \A i \in 1..m : Taken[i] = records[popped[i]]
    BY <1>2 DEF Taken
  <2>2. IsSeq(Taken) /\ Len(Taken) = m
    BY <2>1, FunctionSeq
  <2>3. /\ Taken' = [i \in 1..(m + 1) |-> Taken'[i]]
        /\ \A i \in 1..(m + 1) : Taken'[i] = records[popped'[i]]
    BY <1>1, <1>6 DEF Taken
  <2>4. IsSeq(Taken') /\ Len(Taken') = m + 1
    BY <2>3, FunctionSeq
  <2>5. /\ IsSeq(Append(Taken, r)) /\ Len(Append(Taken, r)) = m + 1 /\ Append(Taken, r)[m + 1] = r
        /\ \A i \in 1..m : Append(Taken, r)[i] = Taken[i]
    BY <2>2, AppendAny
  <2>6. ASSUME NEW i \in 1..(m + 1) PROVE Taken'[i] = Append(Taken, r)[i]
    <3>1. CASE i = m + 1
      <4>1. Taken'[m + 1] = records[x]
        <5>1. m + 1 \in 1..(m + 1)
          OBVIOUS
        <5> QED
          BY <1>6, <2>3, <5>1
      <4>2. r = records[x]
        BY <1>4
      <4> HIDE DEF r
      <4> QED
        BY <2>5, <3>1, <4>1, <4>2
    <3>2. CASE i \in 1..m
      <4>1. i \in 1..(m + 1)
        OBVIOUS
      <4>2. Taken'[i] = records[popped[i]]
        BY <1>6, <2>3, <3>2, <4>1
      <4> HIDE DEF r
      <4> QED
        BY <2>1, <2>5, <3>2, <4>2
    <3>3. i \in 1..m \/ i = m + 1
      OBVIOUS
    <3> HIDE DEF r
    <3> QED
      BY <3>1, <3>2, <3>3, Zenon
  <2>7. Taken' = Append(Taken, r)
    <3>1. PICK p, q : p = Taken' /\ q = Append(Taken, r)
      BY Zenon
    <3>2. p = q
      BY <2>4, <2>5, <2>6, <3>1, SameSeq, Zenon
    <3> QED
      BY <3>1, <3>2
  <2>8. Judging(Fresh, Taken) = [v |-> lv, flags |-> verdicts]
    BY <1>1, Zenon DEF PipeInv
  <2>9. Judging(Fresh, Append(Taken, r)) = JudgeOne([v |-> lv, flags |-> verdicts], r)
    BY <2>2, <2>8, JudgingAppend, Zenon
  <2>10. JudgeOne([v |-> lv, flags |-> verdicts], r) = [v |-> lv', flags |-> verdicts']
    <3>1. \A b, e : \E y, z : JudgeOne(b, e) = [v |-> y, flags |-> z]
      BY Zenon DEF JudgeOne
    <3>2. PICK c : c = JudgeOne([v |-> lv, flags |-> verdicts], r)
      BY Zenon
    <3>3. PICK y, z : c = [v |-> y, flags |-> z]
      BY <3>1, <3>2, Zenon
    <3>4. lv' = c.v /\ verdicts' = c.flags
      BY <1>1, <3>2, Zenon
    <3>5. c = [v |-> lv', flags |-> verdicts']
      BY <3>3, <3>4
    <3> QED
      BY <3>2, <3>5, Zenon
  <2> QED
    BY <2>7, <2>9, <2>10
<1> QED
  BY <1>1, <1>5, <1>6, <1>8, <1>9, <1>10, Zenon DEF PipeInv

\* The consumer has had them all.
LEMMA DonePipe ==
  ASSUME PipeInv, DataInv, PipelineDone
  PROVE  PipeInv'
<1>1. /\ UNCHANGED <<queue, popped, lv, verdicts, records, prog>> /\ pc' = "done"
      /\ Len(popped) = n * Passes
  BY Zenon DEF PipelineDone, pipeline, dataset, Total, DataInv
<1>2. Taken' = Taken
  BY <1>1 DEF Taken
<1> QED
  BY <1>1, <1>2, Zenon DEF PipeInv

\* Every step keeps it.
LEMMA ReplayInvStep == ReplayInv /\ [Next]_vars => ReplayInv'
<1> SUFFICES ASSUME DataInv, ShardInv, PipeInv, [Next]_vars PROVE DataInv' /\ ShardInv' /\ PipeInv'
  BY DEF ReplayInv
<1>1. CASE UNCHANGED vars
  <2>1. /\ UNCHANGED <<dataset, records, count, one, pc, prog, sweep, shards, at, pipeline, verdicts>>
    BY <1>1 DEF vars, replay, threads, dataset
  <2>2. \/ pc' \notin {"wait", "gate", "join"}
        \/ pc \in {"wait", "gate", "join"} /\ UNCHANGED <<records, count, prog>>
    BY <2>1
  <2> QED
    <3>1. DataInv'
      BY <2>1, QuietData
    <3>2. ShardInv'
      BY <2>1, <2>2, QuietShards
    <3>3. PipeInv'
      BY <2>1, QuietPipe
    <3> QED
      BY <3>1, <3>2, <3>3
<1>2. CASE Generator
  <2>1. Generate /\ UNCHANGED <<count, one, pc, prog, sweep, shards, at, pipeline, verdicts>>
    BY <1>2, Zenon DEF Generator, replay, threads
  <2>2. DataInv' /\ file = NoFile
    BY <2>1, GenerateData
  <2>3. pc = "start"
    BY <2>2 DEF DataInv
  <2>4. popped = <<>> /\ pc' \notin {"wait", "gate", "join"}
    BY <2>1, <2>3 DEF PipeInv
  <2> QED
    BY <2>1, <2>2, <2>4, QuietShards, QuietPipe
<1>3. CASE Starts
  <2>1. PICK p : Start(p)
    BY <1>3 DEF Starts
  <2>2. UNCHANGED <<sweep, shards, at>> /\ pc' \notin {"wait", "gate", "join"}
    BY <2>1 DEF Start, threads
  <2> QED
    BY <2>1, <2>2, StartData, QuietShards, StartPipe
<1>4. CASE WarmPass \/ TimedPass \/ BenchDone
  <2>1. /\ UNCHANGED <<dataset, records, count, one, prog, sweep, shards, at, pipeline>>
        /\ pc = "replay" /\ prog = "bench" /\ pc' \in {"replay", "done"}
    BY <1>4, Zenon DEF WarmPass, TimedPass, BenchDone, threads, dataset
  <2> QED
    BY <2>1, QuietData, QuietShards, QuietPipe
<1>5. CASE Spawn \/ TakeT0 \/ OpenGate \/ Join
  <2>1. /\ UNCHANGED <<dataset, records, count, one, prog, pipeline, verdicts>>
        /\ pc \in {"replay", "wait", "gate", "join"}
        /\ pc' \in {"replay", "wait", "gate", "join", "done"}
    BY <1>5, Zenon DEF Spawn, TakeT0, OpenGate, Join, MainStep, dataset
  <2>2. prog = "mt"
    BY <1>5 DEF Spawn, TakeT0, OpenGate, Join, ShardInv
  <2> QED
    BY <1>5, <2>1, <2>2, QuietData, MainShards, QuietPipe
<1>6. CASE Push \/ Pop \/ PipelineDone
  <2>1. /\ UNCHANGED <<dataset, count, one, sweep, shards, at>>
        /\ pc = "replay" /\ pc' \in {"replay", "done"}
    BY <1>6, Zenon DEF Push, Pop, PipelineDone, threads
  <2> QED
    BY <1>6, <2>1, QuietData, QuietShards, PushPipe, PopPipe, DonePipe
<1>7. CASE \E t \in DOMAIN at : Thread(t)
  <2>1. /\ UNCHANGED <<dataset, records, count, one, pc, prog, pipeline, verdicts>>
    BY <1>7, Zenon DEF Thread, Ready, PassGate, Pass, End, ThreadStep, dataset
  <2> QED
    <3>1. DataInv'
      BY <2>1, QuietData
    <3>2. ShardInv'
      BY <1>7, ThreadShards
    <3>3. PipeInv'
      BY <2>1, QuietPipe
    <3> QED
      BY <3>1, <3>2, <3>3
<1> QED
  BY <1>1, <1>2, <1>3, <1>4, <1>5, <1>6, <1>7 DEF Next, Main

\* A pass over a shard, and what came out of the ring, as by one validator.
LEMMA InvAsSequential == ReplayInv => AsSequential
<1> SUFFICES ASSUME DataInv, ShardInv, PipeInv PROVE AsSequential
  BY DEF ReplayInv
<1>1. ASSUME pc = "join"
      PROVE  /\ \A t \in DOMAIN at : AsOne(shards[t], Sum(t))
             /\ \A i \in DOMAIN records : \E t \in DOMAIN at : i \in Range(shards[t])
  <2>1. count = n /\ Len(records) = n /\ n \in Nat /\ one = Judging(Fresh, records)
    BY <1>1, SymbolFacts DEF DataInv
  <2>2. PICK T \in {Sweep[i] : i \in DOMAIN Sweep} : T = Head(sweep)
    <3>1. \A S, q : q \in Seq(S) /\ q # <<>> => Head(q) \in S
      OBVIOUS
    <3> QED
      BY <1>1, <3>1 DEF ShardInv
  <2>3. shards = Partition(T) /\ DOMAIN at = 1..T
    BY <1>1, <2>2 DEF ShardInv
  <2>4. Sharded(T, records, n, shards, one)
    <3>1. T \in Nat /\ \A i \in 1..count : Owner(records[i].symbol, T) \in 1..T
      BY <2>1, <2>2, SymbolFacts, Zenon DEF DataInv
    <3> QED
      BY <2>1, <2>3, <3>1, PartitionSharded, Zenon
  <2>5. ASSUME NEW t \in 1..T PROVE AsOne(shards[t], Sum(t))
    <3>1. PICK q, a : q = shards[t] /\ a = Judging(Fresh, Of(records, q))
      OBVIOUS
    <3>2. Agrees(T, t, records, n, q, a, one)
      BY <2>4, <3>1 DEF Sharded
    <3>3. Sum(t) = a.flags
      BY <3>1, Zenon DEF Sum, Judge, Of
    <3>4. DOMAIN q = 1..Len(q) /\ DOMAIN a.flags = 1..Len(q)
      <4>1. q \in Seq(1..n) /\ After(a, Len(q))
        BY <3>2, Zenon DEF Agrees
      <4>2. DOMAIN a.flags = 1..Len(a.flags)
        BY <4>1, AppendAny, Zenon DEF After
      <4> QED
        BY <4>1, <4>2 DEF After
    <3>5. \A j \in 1..Len(q) :
            /\ one.flags[q[j]] \subseteq a.flags[j]
            /\ records[q[j]].symbol \in DOMAIN one.v => a.flags[j] = one.flags[q[j]]
      BY <3>2, Zenon DEF Agrees
    <3>6. AsOne(q, a.flags)
      BY <3>4, <3>5, Zenon DEF AsOne
    <3> QED
      BY <3>1, <3>3, <3>6, Zenon
  <2>6. DOMAIN records = 1..n
    BY <2>1, AppendAny, Zenon DEF DataInv
  <2> QED
    BY <2>3, <2>4, <2>5, <2>6, Zenon DEF Sharded
<1>2. ASSUME prog = "spsc", pc = "done"
      PROVE  verdicts = Judge([i \in 1..n * Passes |-> records[((i - 1) % n) + 1]])
  <2>1. Len(popped) = n * Passes /\ \A i \in 1..Len(popped) : popped[i] = ((i - 1) % n) + 1
    BY <1>2 DEF PipeInv
  <2>2. Taken = [i \in 1..n * Passes |-> records[((i - 1) % n) + 1]]
    BY <2>1 DEF Taken
  <2>3. Judging(Fresh, Taken) = [v |-> lv, flags |-> verdicts]
    BY <1>2 DEF PipeInv
  <2>4. Judge(Taken) = verdicts
    BY <2>3 DEF Judge
  <2> QED
    BY <2>2, <2>4
<1> QED
  BY <1>1, <1>2, Zenon DEF AsSequential

\* For every data set, every capacity of the table, every number of threads, every assignment
\* of symbols to threads and every interleaving of the producer with the consumer: no record
\* is left out; each of a symbol for which one validator over the whole file has a slot gets
\* the flags that one gives it, and each of another symbol gets those at least.
THEOREM ShardsAsSequential == Spec => []AsSequential
<1> QED
  BY ReplayInvInit, ReplayInvStep, InvAsSequential, PTL DEF Spec

-----------------------------------------------------------------------------
(* The programs come to their end                                          *)

Busy == {"replay", "wait", "gate", "join"}

\* What main(), the producer behind the ring and a thread wait for.
MainReady ==
  \/ prog = "bench" /\ pc = "replay" /\ (report = <<>> \/ passes < Passes \/ passes = Passes)
  \/ prog = "mt" /\ pc = "replay" /\ sweep # <<>>
  \/ pc = "wait" /\ ready >= Len(at)
  \/ pc = "gate"
  \/ pc = "join" /\ \A t \in DOMAIN at : at[t] = "ended"
  \/ /\ prog = "spsc" /\ pc = "replay"
     /\ Len(popped) = Total \/ (Len(popped) < Total /\ queue # <<>>)
PushReady == prog = "spsc" /\ pc = "replay" /\ Pushed < Total /\ Len(queue) < RingCapacity
ThreadReady(t) ==
  \/ at[t] = "spawned"
  \/ at[t] = "gate" /\ go
  \/ at[t] = "passes" /\ (done[t] < Passes \/ done[t] = Passes)

\* Whatever order the threads ran in, somebody's wait is over: the gate, the join and
\* the ring never have everyone waiting for everyone.
NeverStuck == pc \in Busy => MainReady \/ PushReady \/ \E t \in DOMAIN at : ThreadReady(t)

\* What is left: the passes of the benchmark; the records to be pushed and taken; the
\* steps of main() up to the join, and those of the threads up to their ends.
Stage(t) == IF at[t] = "spawned" THEN 0 ELSE IF at[t] = "gate" THEN 1
            ELSE IF at[t] = "passes" THEN 2 + done[t] ELSE Passes + 3
Todo == {x \in (DOMAIN at) \X (0..Passes + 2) : x[2] >= Stage(x[1])}
Phase == IF pc = "wait" THEN 2 ELSE IF pc = "gate" THEN 1 ELSE 0
Left == IF prog = "bench" THEN (Passes - passes) + (IF report = <<>> THEN 1 ELSE 0)
        ELSE IF prog = "spsc" THEN 2 * (Total - Len(popped)) - Len(queue)
        ELSE Phase + Cardinality(Todo)
LeftBounded == pc \in Busy => Left \in Nat

\* A step of a program that runs and does not end it: a number of threads is done with,
\* or its threads are started, or there is less left.
Advance ==
  /\ pc' \in Busy
  /\ \/ Len(sweep') < Len(sweep)
     \/ sweep' = sweep /\ pc = "replay" /\ pc' # "replay"
     \/ sweep' = sweep /\ (pc = "replay" <=> pc' = "replay") /\ Left' < Left
Advances == [][pc' # "done" /\ pc \in Busy => Advance]_vars

\* The records of all the passes.
Whole == n * Passes

\* The counters stay within the passes, the gate is open once main() joins, and there is
\* a number of threads to try.
RunInv ==
  /\ passes \in 0..Passes
  /\ pc # "start" => prog \in {"bench", "mt", "spsc"}
  /\ DOMAIN done = DOMAIN at /\ \A t \in DOMAIN at : done[t] \in 0..Passes
  /\ pc = "join" => go
  /\ pc = "start" \/ (prog = "mt" /\ pc = "replay") => sweep # <<>>
  /\ Len(queue) + Len(popped) <= Whole

EndInv == GateInv /\ ReplayInv /\ RunInv

\* While a program runs it has the view of all the records.
LEMMA WholeFacts ==
  /\ Whole \in Nat
  /\ DataInv /\ pc \in Busy => Total = Whole
<1>1. n \in Nat /\ Passes \in Nat
  BY SymbolFacts, ReplayAssumption
<1> QED
  BY <1>1 DEF Whole, Total, DataInv, Busy

\* No thread has been spawned, nothing counted.
LEMMA RunInit == Init => RunInv
<1> SUFFICES ASSUME Init PROVE RunInv
  OBVIOUS
<1>1. /\ passes = 0 /\ pc = "start" /\ done = <<>> /\ at = <<>> /\ sweep = Sweep
      /\ queue = <<>> /\ popped = <<>>
  BY DEF Init
<1>2. Len(queue) + Len(popped) <= Whole
  BY <1>1, WholeFacts
<1>3. DOMAIN at = {} /\ passes \in 0..Passes /\ sweep # <<>>
  BY <1>1, ReplayAssumption
<1> QED
  BY <1>1, <1>2, <1>3 DEF RunInv

\* A step of neither threads nor ring.
LEMMA QuietRun ==
  ASSUME RunInv, UNCHANGED <<prog, sweep, go, at, done, queue, popped>>,
         passes' \in 0..Passes, pc' = pc \/ (pc # "start" /\ pc' = "done")
  PROVE  RunInv'
  BY DEF RunInv

\* The program is chosen.
LEMMA StartRun ==
  ASSUME RunInv, Starts
  PROVE  RunInv'
<1>1. PICK p \in {"bench", "mt", "spsc"} : Start(p)
  BY DEF Starts
<1>2. pc = "start" /\ pc' \in {"replay", "failed"}
  BY <1>1 DEF Start
<1>3. prog' = p /\ UNCHANGED <<passes, sweep, go, at, done, queue, popped>>
  BY <1>1 DEF Start, threads, pipeline
<1> QED
  BY <1>2, <1>3 DEF RunInv

\* The benchmark counts no pass beyond the last.
LEMMA BenchRun ==
  ASSUME RunInv, WarmPass \/ TimedPass \/ BenchDone
  PROVE  RunInv'
<1>1. /\ UNCHANGED <<prog, sweep, go, at, done, queue, popped>>
      /\ pc' = pc \/ (pc # "start" /\ pc' = "done")
  BY Zenon DEF WarmPass, TimedPass, BenchDone, threads, pipeline
<1>2. passes' \in 0..Passes
  <2>1. passes \in 0..Passes /\ Passes \in Nat
    BY ReplayAssumption DEF RunInv
  <2> QED
    BY <2>1 DEF WarmPass, TimedPass, BenchDone
<1> QED
  BY <1>1, <1>2, QuietRun

\* main(): the threads begin with no pass made, the gate is opened before the join, and
\* there is a next number of threads or the end.
LEMMA MainRun ==
  ASSUME GateInv, RunInv, Spawn \/ TakeT0 \/ OpenGate \/ Join
  PROVE  RunInv'
<1>1. UNCHANGED <<prog, passes, queue, popped>> /\ pc \in Busy /\ pc' # "start"
  BY DEF Spawn, TakeT0, OpenGate, Join, MainStep, pipeline, Busy
<1>2. DOMAIN done' = DOMAIN at' /\ \A t \in DOMAIN at' : done'[t] \in 0..Passes
  <2>1. CASE Spawn
    <3>1. PICK T : at' = [t \in 1..T |-> "spawned"] /\ done' = [t \in 1..T |-> 0]
      BY <2>1 DEF Spawn
    <3> QED
      BY <3>1, ReplayAssumption
  <2>2. CASE TakeT0 \/ OpenGate \/ Join
    BY <2>2, Zenon DEF TakeT0, OpenGate, Join, MainStep, RunInv
  <2> QED
    BY <2>1, <2>2
<1>3. pc' = "join" => go'
  BY DEF Spawn, TakeT0, OpenGate, Join
<1>4. pc' = "replay" => sweep' # <<>>
  <2>1. \A q \in Seq(Nat \ {0}) : Len(q) > 1 => Tail(q) # <<>>
    <3> SUFFICES ASSUME NEW q \in Seq(Nat \ {0}), Len(q) > 1, Tail(q) = <<>> PROVE FALSE
      OBVIOUS
    <3>1. Len(Tail(q)) = Len(q) - 1 /\ Len(q) \in Nat
      OBVIOUS
    <3>2. Len(<<>>) = 0
      OBVIOUS
    <3>3. Len(Tail(q)) = 0
      BY <3>2, Zenon
    <3>4. PICK c \in Nat : c = Len(q)
      BY <3>1, Zenon
    <3>5. c - 1 = 0 /\ c > 1
      BY <3>1, <3>3, <3>4, Zenon
    <3> QED
      BY <3>5
  <2> QED
    BY <2>1 DEF Spawn, TakeT0, OpenGate, Join, GateInv
<1> QED
  BY <1>1, <1>2, <1>3, <1>4, Zenon DEF RunInv, Busy

\* A thread counts no pass beyond the last.
LEMMA ThreadRun ==
  ASSUME GateInv, RunInv, NEW t \in DOMAIN at, Thread(t)
  PROVE  RunInv'
<1>1. UNCHANGED <<prog, pc, passes, sweep, go, queue, popped>>
  BY Zenon DEF Thread, Ready, PassGate, Pass, End, ThreadStep, pipeline
<1>2. DOMAIN at' = DOMAIN at
  BY DEF Thread, Ready, PassGate, Pass, End, GateInv
<1>3. DOMAIN done' = DOMAIN done /\ \A u \in DOMAIN at : done'[u] \in 0..Passes
  <2>1. CASE Pass(t)
    <3>1. DOMAIN done' = DOMAIN done /\ \A u \in DOMAIN at : done'[u] = IF u = t THEN done[t] + 1 ELSE done[u]
      BY <2>1 DEF Pass, RunInv
    <3> QED
      BY <2>1, <3>1, ReplayAssumption DEF Pass, RunInv
  <2>2. CASE Ready(t) \/ PassGate(t) \/ End(t)
    BY <2>2 DEF Ready, PassGate, End, RunInv
  <2> QED
    BY <2>1, <2>2, Zenon DEF Thread
<1> QED
  BY <1>1, <1>2, <1>3, Zenon DEF RunInv

\* The producer pushes no record beyond the last pass.
LEMMA PipeRun ==
  ASSUME ReplayInv, RunInv, Push \/ Pop \/ PipelineDone
  PROVE  RunInv'
<1>1. /\ UNCHANGED <<prog, passes, sweep, go, at, done>>
      /\ pc = "replay" /\ prog = "spsc" /\ pc' \in {"replay", "done"}
  BY Zenon DEF Push, Pop, PipelineDone, threads
<1>2. Total = Whole /\ Whole \in Nat /\ queue \in Seq(1..n) /\ popped \in Seq(1..n)
  BY <1>1, WholeFacts DEF ReplayInv, PipeInv, Busy
<1>3. Len(queue') + Len(popped') <= Whole
  <2>1. CASE Push
    <3>1. PICK x : queue' = Append(queue, x) /\ popped' = popped
      BY <2>1 DEF Push, Ring!Put
    <3>2. Len(queue') = Len(queue) + 1
      BY <1>2, <3>1
    <3> QED
      BY <1>2, <2>1, <3>1, <3>2 DEF Push, Pushed
  <2>2. CASE Pop
    <3>1. queue # <<>> /\ queue' = Tail(queue) /\ popped' = Append(popped, Head(queue))
      BY <2>2 DEF Pop, Ring!Get
    <3> QED
      BY <1>2, <3>1 DEF RunInv
  <2>3. CASE PipelineDone
    BY <2>3 DEF PipelineDone, pipeline, RunInv
  <2> QED
    BY <2>1, <2>2, <2>3
<1> QED
  BY <1>1, <1>3 DEF RunInv

\* Every step keeps the three invariants.
LEMMA EndInvStep == EndInv /\ [Next]_vars => EndInv'
<1> SUFFICES ASSUME GateInv, ReplayInv, RunInv, [Next]_vars PROVE RunInv'
  BY GateStep, ReplayInvStep DEF EndInv
<1>1. CASE Generator \/ UNCHANGED vars
  <2>1. UNCHANGED <<prog, pc, passes, sweep, go, at, done, queue, popped>>
    BY <1>1 DEF Generator, vars, replay, threads, pipeline
  <2>2. passes \in 0..Passes
    BY DEF RunInv
  <2> QED
    BY <2>1, <2>2, QuietRun
<1>2. CASE Starts
  BY <1>2, StartRun
<1>3. CASE WarmPass \/ TimedPass \/ BenchDone
  BY <1>3, BenchRun
<1>4. CASE Spawn \/ TakeT0 \/ OpenGate \/ Join
  BY <1>4, MainRun
<1>5. CASE Push \/ Pop \/ PipelineDone
  BY <1>5, PipeRun
<1>6. CASE \E t \in DOMAIN at : Thread(t)
  BY <1>6, ThreadRun
<1> QED
  BY <1>1, <1>2, <1>3, <1>4, <1>5, <1>6 DEF Next, Main

\* Somebody can go on: at the gate a thread that has not come to it or main(), in the
\* join a thread or main(), on the ring the consumer or the producer.
LEMMA EndInvNeverStuck == EndInv => NeverStuck
<1> SUFFICES ASSUME GateInv, ReplayInv, RunInv, pc \in Busy
             PROVE  MainReady \/ PushReady \/ \E t \in DOMAIN at : ThreadReady(t)
  BY DEF EndInv, NeverStuck
<1>1. CASE pc = "replay" /\ prog = "bench"
  <2>1. passes \in 0..Passes /\ Passes \in Nat
    BY ReplayAssumption DEF RunInv
  <2>2. passes < Passes \/ passes = Passes
    BY <2>1
  <2> QED
    BY <1>1, <2>2 DEF MainReady
<1>2. CASE pc = "replay" /\ prog = "mt"
  BY <1>2 DEF RunInv, MainReady
<1>3. CASE pc = "replay" /\ prog = "spsc"
  <2>1. Total = Whole /\ Whole \in Nat /\ queue \in Seq(1..n) /\ popped \in Seq(1..n)
    BY <1>3, WholeFacts DEF ReplayInv, PipeInv, Busy
  <2>2. Len(queue) \in Nat /\ Len(popped) \in Nat /\ (queue = <<>> => Len(queue) = 0)
    BY <2>1
  <2>3. Len(popped) <= Total
    BY <2>1, <2>2 DEF RunInv
  <2>4. CASE queue = <<>> /\ Len(popped) # Total
    BY <1>3, <2>1, <2>2, <2>3, <2>4, ReplayAssumption DEF PushReady, Pushed
  <2>5. CASE queue # <<>> \/ Len(popped) = Total
    BY <1>3, <2>1, <2>2, <2>3, <2>5 DEF MainReady
  <2> QED
    BY <2>4, <2>5
<1>4. CASE pc = "wait"
  <2>1. CASE \E t \in DOMAIN at : at[t] = "spawned"
    BY <2>1 DEF ThreadReady
  <2>2. CASE \A t \in DOMAIN at : at[t] # "spawned"
    <3>1. Arrived = 1..Len(at) /\ Len(at) \in Nat
      BY <2>2, ArrivedFinite DEF Arrived
    <3>2. Cardinality(Arrived) = Len(at)
      <4>1. \A m \in Nat : Cardinality(1..m) = m
        BY FS_Interval
      <4> QED
        BY <3>1, <4>1
    <3> QED
      BY <1>4, <3>1, <3>2 DEF GateInv, MainReady
  <2> QED
    BY <2>1, <2>2
<1>5. CASE pc = "gate"
  BY <1>5 DEF MainReady
<1>6. CASE pc = "join"
  <2>1. CASE \A t \in DOMAIN at : at[t] = "ended"
    BY <1>6, <2>1 DEF MainReady
  <2>2. ASSUME NEW t \in DOMAIN at, at[t] # "ended" PROVE ThreadReady(t)
    <3>1. at[t] \in {"gate", "passes"} /\ go
      BY <1>6, <2>2 DEF GateInv, RunInv
    <3>2. done[t] < Passes \/ done[t] = Passes
      BY ReplayAssumption DEF RunInv
    <3> QED
      BY <3>1, <3>2 DEF ThreadReady
  <2> QED
    BY <2>1, <2>2
<1> QED
  BY <1>1, <1>2, <1>3, <1>4, <1>5, <1>6, Zenon DEF RunInv, Busy

\* The programs never wait for ever (replay_bench_mt.cpp's gate and join, the ring of
\* replay_bench_spsc.cpp), for every number of threads, of passes and size of ring: a
\* program that has opened its file and is not done can take a step.  With the next
\* theorem, the safety half of Finishes.
THEOREM ProgramsNeverStuck == Spec => []NeverStuck
<1>1. Init => EndInv
  BY GateInit, ReplayInvInit, RunInit DEF EndInv
<1> QED
  BY <1>1, EndInvStep, EndInvNeverStuck, PTL DEF Spec

\* The steps of the threads are counted one by one.
LEMMA TodoFinite ==
  ASSUME GateInv
  PROVE  IsFiniteSet(Todo) /\ Cardinality(Todo) \in Nat
<1>1. IsFiniteSet(DOMAIN at) /\ IsFiniteSet(0..Passes + 2)
  <2>1. \A a, b \in Int : IsFiniteSet(a..b)
    BY FS_Interval
  <2> QED
    BY <2>1, ArrivedFinite, ReplayAssumption
<1>2. IsFiniteSet((DOMAIN at) \X (0..Passes + 2))
  BY <1>1, FS_Product, Zenon
<1>3. Todo \subseteq ((DOMAIN at) \X (0..Passes + 2))
  BY DEF Todo
<1>4. IsFiniteSet(Todo)
  BY <1>2, <1>3, FS_Subset
<1> QED
  BY <1>4, FS_CardinalityType

\* Nothing left is less than nothing.
LEMMA LeftNumber ==
  ASSUME EndInv, pc \in Busy
  PROVE  Left \in Nat
<1>1. GateInv /\ ReplayInv /\ RunInv
  BY DEF EndInv
<1>2. CASE prog = "bench"
  BY <1>1, <1>2, ReplayAssumption DEF RunInv, Left
<1>3. CASE prog = "spsc"
  <2>1. Total = Whole /\ Whole \in Nat /\ queue \in Seq(1..n) /\ popped \in Seq(1..n)
    BY <1>1, WholeFacts DEF ReplayInv, PipeInv
  <2>2. Len(queue) \in Nat /\ Len(popped) \in Nat
    BY <2>1
  <2>3. Left = 2 * (Total - Len(popped)) - Len(queue)
    BY <1>3 DEF Left
  <2> QED
    BY <1>1, <2>1, <2>2, <2>3 DEF RunInv
<1>4. CASE prog # "bench" /\ prog # "spsc"
  BY <1>1, <1>4, TodoFinite DEF Left, Phase
<1> QED
  BY <1>2, <1>3, <1>4

\* A step of a thread is one less to do.
LEMMA ThreadAdvances ==
  ASSUME GateInv, RunInv, NEW t \in DOMAIN at, Thread(t)
  PROVE  /\ Cardinality(Todo') < Cardinality(Todo)
         /\ Cardinality(Todo') \in Nat /\ Cardinality(Todo) \in Nat
<1>1. /\ DOMAIN at' = DOMAIN at /\ Passes \in Nat
      /\ \A u \in DOMAIN at : at[u] \in {"spawned", "gate", "passes", "ended"} /\ done[u] \in 0..Passes
  BY ReplayAssumption DEF Thread, Ready, PassGate, Pass, End, GateInv, RunInv
<1>2. Stage(t) \in 0..Passes + 2 /\ Stage(t)' \in Nat /\ Stage(t)' > Stage(t)
  <2>1. CASE Ready(t)
    BY <1>1, <2>1 DEF Ready, Stage
  <2>2. CASE PassGate(t)
    BY <1>1, <2>2 DEF PassGate, Stage
  <2>3. CASE Pass(t)
    BY <1>1, <2>3 DEF Pass, Stage, RunInv
  <2>4. CASE End(t)
    BY <1>1, <2>4 DEF End, Stage
  <2> QED
    BY <2>1, <2>2, <2>3, <2>4 DEF Thread
<1>3. \A u \in DOMAIN at : u # t => Stage(u)' = Stage(u)
  BY <1>1 DEF Thread, Ready, PassGate, Pass, End, Stage, RunInv
<1>4. \A u \in DOMAIN at : Stage(u) \in Nat
  BY <1>1 DEF Stage
<1>5. Todo' \subseteq Todo
  BY <1>1, <1>2, <1>3, <1>4 DEF Todo
<1>6. <<t, Stage(t)>> \in Todo /\ <<t, Stage(t)>> \notin Todo'
  BY <1>1, <1>2 DEF Todo
<1>7. Todo' \in SUBSET Todo /\ Todo' # Todo
  BY <1>5, <1>6, Zenon
<1>8. IsFiniteSet(Todo) /\ Cardinality(Todo) \in Nat
  BY TodoFinite
<1>9. /\ Cardinality(Todo') <= Cardinality(Todo) /\ IsFiniteSet(Todo')
      /\ Cardinality(Todo) = Cardinality(Todo') => Todo = Todo'
  BY <1>7, <1>8, FS_Subset, Zenon
<1>10. Cardinality(Todo') \in Nat
  BY <1>9, FS_CardinalityType
<1>11. PICK a \in Nat, b \in Nat : a = Cardinality(Todo') /\ b = Cardinality(Todo)
  BY <1>8, <1>10, Zenon
<1>12. a <= b /\ a # b
  BY <1>7, <1>9, <1>11, Zenon
<1>13. a < b
  BY <1>12
<1> QED
  BY <1>8, <1>9, <1>10, <1>11, <1>13, Zenon

\* A step of the benchmark of one thread: the warm pass, a timed one, or the end.
LEMMA BenchAdvances ==
  ASSUME EndInv, WarmPass \/ TimedPass, pc \in Busy
  PROVE  Advance
<1>1. prog = "bench" /\ prog' = prog /\ pc = "replay" /\ pc' = pc /\ sweep' = sweep
  BY DEF WarmPass, TimedPass
<1>2. passes \in Nat /\ Passes \in Nat
  BY ReplayAssumption DEF EndInv, RunInv
<1>3. Left' < Left
  <2>1. CASE WarmPass
    <3>1. report' # <<>>
      <4>1. DOMAIN report' = DOMAIN Classes
        BY <2>1 DEF WarmPass, Breakdown
      <4>2. "bad_trades" \in DOMAIN Classes
        BY Zenon DEF Classes
      <4>3. DOMAIN <<>> = {}
        OBVIOUS
      <4> QED
        BY <4>1, <4>2, <4>3, Zenon
    <3> QED
      BY <1>1, <1>2, <2>1, <3>1 DEF WarmPass, Left
  <2>2. CASE TimedPass
    BY <1>1, <1>2, <2>2 DEF TimedPass, Left
  <2> QED
    BY <2>1, <2>2
<1> QED
  BY <1>1, <1>3 DEF Advance, Busy

\* A record into the ring or out of it.
LEMMA PipeAdvances ==
  ASSUME EndInv, Push \/ Pop
  PROVE  Advance
<1>1. prog = "spsc" /\ UNCHANGED <<prog, count, sweep>> /\ pc = "replay" /\ pc' = pc
  BY DEF Push, Pop
<1>2. /\ Total = Whole /\ Whole \in Nat /\ Total' = Total
      /\ queue \in Seq(1..n) /\ popped \in Seq(1..n)
  BY <1>1, WholeFacts DEF EndInv, ReplayInv, PipeInv, Busy, Total
<1>3. Left = 2 * (Total - Len(popped)) - Len(queue) /\ Left' = 2 * (Total' - Len(popped')) - Len(queue')
  BY <1>1 DEF Left
<1>4. Len(queue) \in Nat /\ Len(popped) \in Nat
  BY <1>2
<1>5. Left' < Left
  <2>0. PICK t \in Nat, a \in Nat, b \in Nat : t = Total /\ a = Len(queue) /\ b = Len(popped)
    BY <1>2, <1>4, Zenon
  <2>1. CASE Push
    <3>1. PICK x : queue' = Append(queue, x) /\ popped' = popped
      BY <2>1 DEF Push, Ring!Put
    <3>2. Len(queue') = Len(queue) + 1
      BY <1>2, <3>1
    <3>3. Left = 2 * (t - b) - a /\ Left' = 2 * (t - b) - (a + 1)
      BY <1>2, <1>3, <2>0, <3>1, <3>2, Zenon
    <3>4. 2 * (t - b) - (a + 1) < 2 * (t - b) - a
      OBVIOUS
    <3> QED
      BY <3>3, <3>4, Zenon
  <2>2. CASE Pop
    <3>1. queue # <<>> /\ queue' = Tail(queue) /\ popped' = Append(popped, Head(queue))
      BY <2>2 DEF Pop, Ring!Get
    <3>2. Len(queue') = Len(queue) - 1 /\ Len(popped') = Len(popped) + 1
      BY <1>2, <3>1
    <3>3. Left = 2 * (t - b) - a /\ Left' = 2 * (t - (b + 1)) - (a - 1)
      BY <1>2, <1>3, <2>0, <3>2, Zenon
    <3>4. 2 * (t - (b + 1)) - (a - 1) < 2 * (t - b) - a
      OBVIOUS
    <3> QED
      BY <3>3, <3>4, Zenon
  <2> QED
    BY <2>1, <2>2
<1> QED
  BY <1>1, <1>5 DEF Advance, Busy

\* A step of main() in run().
LEMMA MainAdvances ==
  ASSUME EndInv, Spawn \/ TakeT0 \/ OpenGate \/ Join, pc' # "done"
  PROVE  Advance
<1>1. CASE Spawn
  BY <1>1 DEF Spawn, Advance, Busy
<1>2. CASE Join
  <2>1. sweep \in Seq(Nat \ {0}) /\ sweep # <<>> /\ sweep' = Tail(sweep) /\ pc' = "replay"
    BY <1>2 DEF Join, EndInv, GateInv
  <2>2. Len(sweep') < Len(sweep)
    BY <2>1
  <2> QED
    BY <2>1, <2>2 DEF Advance, Busy
<1>3. CASE TakeT0 \/ OpenGate
  <2>1. prog = "mt" /\ prog' = prog
    BY <1>3, Zenon DEF TakeT0, OpenGate, MainStep, EndInv, ReplayInv, ShardInv
  <2>2. Todo' = Todo /\ Cardinality(Todo) \in Nat
    <3>1. at' = at /\ done' = done
      BY <1>3, Zenon DEF TakeT0, OpenGate, MainStep
    <3> QED
      BY <3>1, TodoFinite, Zenon DEF Todo, Stage, EndInv
  <2>3. sweep' = sweep /\ pc # "replay" /\ pc' # "replay" /\ pc' \in Busy
    BY <1>3 DEF TakeT0, OpenGate, Busy
  <2>4. Phase \in Nat /\ Phase' \in Nat /\ Phase' < Phase
    BY <1>3 DEF TakeT0, OpenGate, Phase
  <2>5. Left' < Left
    <3>1. Left = Phase + Cardinality(Todo) /\ Left' = Phase' + Cardinality(Todo')
      BY <2>1 DEF Left
    <3> QED
      BY <2>2, <2>4, <3>1
  <2> QED
    BY <2>3, <2>5, Zenon DEF Advance
<1> QED
  BY <1>1, <1>2, <1>3

\* Every step of a program that runs.
LEMMA EveryAdvance ==
  ASSUME EndInv, Next, pc \in Busy, pc' # "done"
  PROVE  Advance
<1>1. ~Generator /\ ~Starts
  <2>1. CASE Generator
    <3>1. file = NoFile
      BY <2>1, GenerateData DEF Generator, replay, EndInv, ReplayInv
    <3> QED
      BY <3>1 DEF EndInv, ReplayInv, DataInv, Busy
  <2>2. ~Starts
    BY DEF Starts, Start, Busy
  <2> QED
    BY <2>1, <2>2 DEF EndInv, ReplayInv, DataInv, Busy
<1>2. CASE WarmPass \/ TimedPass
  BY <1>2, BenchAdvances
<1>3. CASE Push \/ Pop
  BY <1>3, PipeAdvances
<1>4. CASE Spawn \/ TakeT0 \/ OpenGate \/ Join
  BY <1>4, MainAdvances
<1>5. ~BenchDone /\ ~PipelineDone
  BY DEF BenchDone, PipelineDone
<1>6. CASE \E t \in DOMAIN at : Thread(t)
  <2>1. PICK t \in DOMAIN at : Thread(t)
    BY <1>6
  <2>2. UNCHANGED <<prog, pc, sweep>>
    BY <2>1, Zenon DEF Thread, Ready, PassGate, Pass, End, ThreadStep
  <2>3. pc \in {"wait", "gate", "join"} /\ prog = "mt"
    <3>1. at[t] # "ended"
      BY <2>1 DEF Thread, Ready, PassGate, Pass, End
    <3> QED
      BY <3>1 DEF EndInv, GateInv, ReplayInv, ShardInv, Busy
  <2>4. /\ Cardinality(Todo') < Cardinality(Todo)
        /\ Cardinality(Todo') \in Nat /\ Cardinality(Todo) \in Nat
    BY <2>1, ThreadAdvances DEF EndInv
  <2>5. Left' < Left
    <3>1. /\ Left = Phase + Cardinality(Todo) /\ Left' = Phase' + Cardinality(Todo')
          /\ Phase' = Phase /\ Phase \in Nat
      BY <2>2, <2>3 DEF Left, Phase
    <3> QED
      BY <2>4, <3>1
  <2> QED
    BY <2>2, <2>3, <2>5 DEF Advance
<1> QED
  BY <1>1, <1>2, <1>3, <1>4, <1>5, <1>6 DEF Next, Main

\* Every step of a program that runs (replay_bench.cpp, replay_bench_mt.cpp's run(),
\* replay_bench_spsc.cpp) brings it nearer to its end, whoever takes it, and nearer is
\* measured by numbers that cannot fall below 0: no order of the threads makes a program
\* go round for ever.
THEOREM ProgramsAdvance == Spec => Advances /\ []LeftBounded
<1>1. Init => EndInv
  BY GateInit, ReplayInvInit, RunInit DEF EndInv
<1>2. EndInv => LeftBounded
  BY LeftNumber DEF LeftBounded
<1>3. EndInv /\ [Next]_vars => [pc' # "done" /\ pc \in Busy => Advance]_vars
  BY EveryAdvance
<1> QED
  BY <1>1, <1>2, <1>3, EndInvStep, PTL DEF Spec, Advances
=============================================================================
