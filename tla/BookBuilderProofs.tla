------------------------- MODULE BookBuilderProofs --------------------------
(***************************************************************************)
(* Proofs, for every book type and every buffer size, that a live book is  *)
(* the venue's book, that the sequence never rewinds, and that a snapshot  *)
(* is taken exactly if the deltas held back connect to it.  The check loop *)
(* of on_snapshot() leaves a trail of expect values; the replay loop walks *)
(* the same trail, which is what ties the two loops together.              *)
(***************************************************************************)
EXTENDS BookBuilder, FiniteSetTheorems, TLAPS

\* Every buffered delta is one the venue published.
Genuine ==
  \A j \in 1..Len(buf) : /\ buf[j].seq \in Deltas
                         /\ buf[j].change = published[buf[j].seq]

\* The venue's books follow from each other by its deltas.
TruthSteps ==
  /\ truth[0] = InitialBook
  /\ \A n \in Deltas : truth[n] = Apply(truth[n - 1], published[n])

\* A live book is exact except inside the replay loop.
BookExact ==
  mode = "Live" /\ pc # "replay" =>
    /\ expected \in 1..Len(published) + 1
    /\ book = truth[expected - 1]

\* After a gap the first buffered delta lies beyond the expected one.
GapHead ==
  mode = "Recovering" =>
    expected = 0 \/ (Len(buf) >= 1 /\ buf[1].seq > expected)

\* The running on_snapshot() works on a genuine snapshot, not behind a live book.
CallOK ==
  pc # "idle" =>
    /\ snap.as_of \in 0..Len(published)
    /\ snap.levels \in LevelLists(truth[snap.as_of])
    /\ expect \in snap.as_of + 1..Len(published) + 1
    /\ mode = "Live" => snap.as_of >= expected

\* Buffered delta j was skipped, or was the one expected.
Link(j) ==
  IF buf[j].seq <= snap.as_of THEN trail[j + 1] = trail[j]
  ELSE buf[j].seq = trail[j] /\ trail[j + 1] = trail[j] + 1

TrailOK ==
  /\ pc # "idle" =>
       /\ i <= Len(buf) + 1 /\ Len(trail) >= 1
       /\ \A j \in 1..Len(trail) : trail[j] \in snap.as_of + 1..Len(published) + 1
       /\ trail[1] = snap.as_of + 1
       /\ trail[Len(trail)] = expect
       /\ \A j \in 1..Len(trail) - 1 : Link(j)
  /\ pc = "check" => Len(trail) = i
  /\ pc = "replay" => /\ Len(trail) = Len(buf) + 1
                      /\ book = truth[trail[i] - 1]

IInv == /\ TypeOK /\ Genuine /\ TruthSteps /\ NoLeftovers
        /\ BookExact /\ GapHead /\ CallOK /\ TrailOK

\* The initial state satisfies the invariant.
LEMMA InitInv == Init => IInv
<1> SUFFICES ASSUME Init PROVE IInv
  OBVIOUS
<1> USE ApplyAssumption, BufAssumption DEF Init
<1>1. TypeOK
  BY DEF TypeOK, NoSnapshot
<1>2. Genuine /\ TruthSteps
  BY DEF Genuine, TruthSteps, Deltas
<1>3. NoLeftovers /\ BookExact /\ GapHead /\ CallOK /\ TrailOK
  BY DEF NoLeftovers, BookExact, GapHead, CallOK, TrailOK
<1> QED BY <1>1, <1>2, <1>3 DEF IInv

\* Counting keeps the counters natural numbers.
LEMMA BumpType ==
  ASSUME stats \in [Counters -> Nat], NEW c \in Counters, Bump(c)
  PROVE  stats' \in [Counters -> Nat]
BY BoundAssumption DEF Bump

\* The venue publishing a delta disturbs nothing the builder relies on.
LEMMA PublishInv ==
  ASSUME IInv, NEW c \in Change, Publish(c)
  PROVE  IInv'
<1> DEFINE n == Len(published)
<1>1. /\ published \in Seq(Change) /\ n \in Nat
      /\ published' = Append(published, c)
      /\ truth \in [0..n -> Book]
      /\ truth' = [k \in 0..n+1 |-> IF k <= n THEN truth[k] ELSE Apply(truth[n], c)]
      /\ UNCHANGED <<book, mode, expected, buf, stats, pc, snap, i, expect, trail>>
  BY DEF Publish, IInv, TypeOK, builder, frame
<1>2. /\ published' \in Seq(Change) /\ Len(published') = n + 1
      /\ \A k \in 1..n : published'[k] = published[k]
      /\ published'[n + 1] = c
  BY <1>1
<1> HIDE DEF n
<1>3. /\ truth' \in [0..n+1 -> Book]
      /\ \A k \in 0..n : truth'[k] = truth[k]
      /\ truth'[n + 1] = Apply(truth[n], c)
  BY <1>1, ApplyAssumption
<1>4. TypeOK'
  BY <1>1, <1>2, <1>3 DEF IInv, TypeOK
<1>5. Genuine'
  BY <1>1, <1>2 DEF IInv, Genuine, Deltas, n
<1>6. TruthSteps'
  <2>1. truth'[0] = InitialBook
    BY <1>1, <1>3 DEF IInv, TruthSteps
  <2>2. ASSUME NEW k \in 1..n+1
        PROVE  truth'[k] = Apply(truth'[k - 1], published'[k])
    <3>1. CASE k \in 1..n
      BY <3>1, <1>1, <1>2, <1>3 DEF IInv, TruthSteps, Deltas, n
    <3>2. CASE k = n + 1
      BY <3>2, <1>1, <1>2, <1>3
    <3>3. n \in Nat
      BY <1>1
    <3> QED BY <3>1, <3>2, <3>3
  <2> QED BY <2>1, <2>2, <1>2 DEF TruthSteps, Deltas
<1>7. NoLeftovers' /\ GapHead'
  BY <1>1 DEF IInv, NoLeftovers, GapHead
<1>8. BookExact'
  BY <1>1, <1>2, <1>3 DEF IInv, BookExact, TypeOK, n
<1>9. CallOK'
  <2> SUFFICES ASSUME pc # "idle"
               PROVE  /\ snap.as_of \in 0..n + 1
                      /\ snap.levels \in LevelLists(truth'[snap.as_of])
                      /\ expect \in snap.as_of + 1..(n + 1) + 1
                      /\ mode = "Live" => snap.as_of >= expected
    BY <1>1, <1>2, Zenon DEF CallOK
  <2>1. /\ snap.as_of \in 0..n /\ snap.levels \in LevelLists(truth[snap.as_of])
        /\ expect \in snap.as_of + 1..n + 1 /\ (mode = "Live" => snap.as_of >= expected)
    BY Zenon DEF IInv, CallOK, n
  <2>2. \A a \in 0..n : a \in 0..n + 1 /\ \A e \in a + 1..n + 1 : e \in a + 1..(n + 1) + 1
    BY <1>1
  <2> QED
    BY <1>3, <2>1, <2>2, Zenon
<1>10. TrailOK'
  <2>1. pc = "replay" => trail[i] - 1 \in 0..n
    <3> SUFFICES ASSUME pc = "replay" PROVE trail[i] - 1 \in 0..n
      OBVIOUS
    <3>1. i \in 1..Len(trail) /\ snap.as_of \in Nat /\ n \in Nat
      BY <1>1 DEF IInv, TrailOK, TypeOK
    <3>2. trail[i] \in snap.as_of + 1..n + 1
      BY <3>1 DEF IInv, TrailOK, n
    <3> QED BY <3>1, <3>2
  <2> QED BY <2>1, <1>1, <1>2, <1>3 DEF IInv, TrailOK, Link, n
<1> QED BY <1>4, <1>5, <1>6, <1>7, <1>8, <1>9, <1>10 DEF IInv

\* on_delta() keeps the invariant: a live book steps along the venue's books,
\* a gap starts a buffer beyond the expected delta.
LEMMA DeltaInv ==
  ASSUME IInv, NEW n \in Deltas, OnDelta(Delta(n))
  PROVE  IInv'
<1> DEFINE d == Delta(n)
<1>1. /\ pc = "idle"
      /\ UNCHANGED <<pc, snap, i, expect, trail, published, truth>>
      /\ ApplyNext(d) \/ Gap(d) \/ Stale(d) \/ Hold(d)
  BY DEF OnDelta, frame, venue
<1>2. /\ published \in Seq(Change) /\ Len(published) \in Nat
      /\ n \in Nat \ {0} /\ n <= Len(published)
      /\ expected \in Nat
  BY DEF IInv, TypeOK, Deltas
<1>3. d \in DeltaRecord /\ d.seq = n /\ d.change = published[n]
  BY <1>2 DEF Delta, DeltaRecord, Deltas
<1> HIDE DEF d
<1>4. CASE ApplyNext(d)
  <2>1. /\ mode = "Live" /\ n = expected
        /\ book' = Apply(book, published[n]) /\ expected' = expected + 1
        /\ UNCHANGED <<mode, buf>>
        /\ Bump("applied")
    BY <1>3, <1>4, Zenon DEF ApplyNext
  <2>2. book = truth[n - 1]
    BY <2>1, <1>1 DEF IInv, BookExact
  <2>3. book' = truth[n]
    BY <2>1, <2>2 DEF IInv, TruthSteps
  <2>4. stats' \in [Counters -> Nat]
    BY <2>1, BumpType DEF IInv, TypeOK, Counters
  <2>5. book' \in Book
    <3>1. truth \in [0..Len(published) -> Book]
      BY DEF IInv, TypeOK
    <3>2. n \in 0..Len(published)
      BY <1>2
    <3> QED BY <2>3, <3>1, <3>2
  <2>6. TypeOK'
    BY <1>1, <1>2, <2>1, <2>4, <2>5 DEF IInv, TypeOK
  <2>7. Genuine' /\ TruthSteps' /\ NoLeftovers'
    BY <1>1, <2>1 DEF IInv, Genuine, TruthSteps, NoLeftovers, Deltas
  <2>8. BookExact'
    BY <1>1, <1>2, <2>1, <2>3 DEF BookExact
  <2>9. GapHead' /\ CallOK' /\ TrailOK'
    BY <1>1, <2>1 DEF GapHead, CallOK, TrailOK
  <2> QED BY <2>6, <2>7, <2>8, <2>9 DEF IInv
<1>5. CASE Gap(d)
  <2>1. /\ n > expected /\ mode' = "Recovering" /\ buf' = <<d>>
        /\ UNCHANGED <<book, expected>>
        /\ Bump("gaps")
    BY <1>3, <1>5 DEF Gap
  <2>2. stats' \in [Counters -> Nat]
    BY <2>1, BumpType DEF IInv, TypeOK, Counters
  <2>3. buf' \in Seq(DeltaRecord) /\ Len(buf') = 1 /\ buf'[1] = d
    BY <2>1, <1>3
  <2>4. TypeOK'
    BY <1>1, <2>1, <2>2, <2>3, BufAssumption DEF IInv, TypeOK
  <2>5. Genuine' /\ TruthSteps' /\ NoLeftovers'
    BY <1>1, <1>2, <1>3, <2>1, <2>3 DEF IInv, Genuine, TruthSteps, NoLeftovers, Deltas
  <2>6. BookExact' /\ CallOK' /\ TrailOK'
    BY <1>1, <2>1 DEF BookExact, CallOK, TrailOK
  <2>7. GapHead'
    BY <1>2, <1>3, <2>1, <2>3 DEF GapHead
  <2> QED BY <2>4, <2>5, <2>6, <2>7 DEF IInv
<1>6. CASE Stale(d)
  <2>1. Bump("stale_dropped") /\ UNCHANGED <<book, mode, expected, buf>>
    BY <1>6 DEF Stale
  <2>2. stats' \in [Counters -> Nat]
    BY <2>1, BumpType DEF IInv, TypeOK, Counters
  <2>3. TypeOK'
    BY <1>1, <2>1, <2>2 DEF IInv, TypeOK
  <2>4. Genuine' /\ TruthSteps' /\ NoLeftovers'
    BY <1>1, <2>1 DEF IInv, Genuine, TruthSteps, NoLeftovers, Deltas
  <2>5. BookExact' /\ GapHead' /\ CallOK' /\ TrailOK'
    BY <1>1, <2>1 DEF IInv, BookExact, GapHead, CallOK, TrailOK
  <2> QED BY <2>3, <2>4, <2>5 DEF IInv
<1>7. CASE Hold(d)
  <2>1. mode = "Recovering" /\ UNCHANGED <<book, mode, expected>>
    BY <1>7 DEF Hold
  <2>2. \/ Len(buf) < RecoverBuf /\ buf' = Append(buf, d) /\ UNCHANGED stats
        \/ Bump("buffer_overflow") /\ UNCHANGED buf
    BY <1>3, <1>7 DEF Hold
  <2>3. stats' \in [Counters -> Nat]
    BY <2>2, BumpType DEF IInv, TypeOK, Counters
  <2>5. /\ buf' \in Seq(DeltaRecord) /\ Len(buf') <= RecoverBuf
        /\ Len(buf') >= Len(buf)
        /\ \A j \in 1..Len(buf) : buf'[j] = buf[j]
        /\ \A j \in 1..Len(buf') : j \in 1..Len(buf) \/ buf'[j] = d
    <3>1. buf \in Seq(DeltaRecord) /\ Len(buf) \in Nat /\ Len(buf) <= RecoverBuf
      BY DEF IInv, TypeOK
    <3>2. CASE Len(buf) < RecoverBuf /\ buf' = Append(buf, d)
      BY <3>1, <3>2, <1>3, BufAssumption
    <3>3. CASE UNCHANGED buf
      BY <3>1, <3>3
    <3> QED BY <2>2, <3>2, <3>3
  <2>6. TypeOK'
    BY <1>1, <2>1, <2>3, <2>5 DEF IInv, TypeOK
  <2>7. Genuine'
    BY <1>1, <1>3, <2>5 DEF IInv, Genuine, Deltas
  <2>8. TruthSteps' /\ NoLeftovers' /\ BookExact' /\ CallOK' /\ TrailOK'
    BY <1>1, <2>1 DEF IInv, TruthSteps, NoLeftovers, BookExact, CallOK, TrailOK, Deltas
  <2>9. GapHead'
    <3>1. Len(buf) \in Nat /\ Len(buf') \in Nat
      BY <2>5 DEF IInv, TypeOK
    <3> QED BY <3>1, <2>1, <2>5 DEF IInv, GapHead
  <2> QED BY <2>6, <2>7, <2>8, <2>9 DEF IInv
<1> QED BY <1>1, <1>4, <1>5, <1>6, <1>7

\* on_snapshot() starts with a trail of one entry.
LEMMA SnapshotInv ==
  ASSUME IInv, NEW n \in 0..Len(published), NEW lv \in LevelLists(truth[n]),
         OnSnapshot(n, lv)
  PROVE  IInv'
<1>1. /\ pc = "idle" /\ ~(mode = "Live" /\ n < expected)
      /\ pc' = "check" /\ snap' = [as_of |-> n, levels |-> lv]
      /\ i' = 1 /\ expect' = n + 1 /\ trail' = <<n + 1>>
      /\ UNCHANGED <<book, mode, expected, buf, stats, published, truth>>
  BY DEF OnSnapshot, builder, venue
<1>2. /\ Len(published) \in Nat /\ n \in Nat /\ expected \in Nat /\ Len(buf) \in Nat
      /\ snap'.as_of = n /\ snap'.levels = lv
      /\ trail' \in Seq(Nat) /\ Len(trail') = 1 /\ trail'[1] = n + 1
  BY <1>1 DEF IInv, TypeOK
<1>3. TypeOK'
  BY <1>1, <1>2 DEF IInv, TypeOK
<1>4. Genuine' /\ TruthSteps' /\ NoLeftovers' /\ GapHead'
  BY <1>1 DEF IInv, Genuine, TruthSteps, NoLeftovers, GapHead, Deltas
<1>5. BookExact'
  BY <1>1 DEF IInv, BookExact
<1>6. CallOK'
  BY <1>1, <1>2 DEF CallOK
<1>7. TrailOK'
  BY <1>1, <1>2 DEF TrailOK
<1> QED BY <1>3, <1>4, <1>5, <1>6, <1>7 DEF IInv

\* A call that returns leaves no claims about its locals.
LEMMA ReturnClean ==
  ASSUME Return
  PROVE  /\ CallOK' /\ TrailOK' /\ pc' = "idle"
         /\ snap'.as_of \in Nat /\ i' \in Nat \ {0} /\ expect' \in Nat /\ trail' \in Seq(Nat)
BY DEF Return, CallOK, TrailOK, NoSnapshot

\* One step of the check loop extends the trail by one link, or gives up.
LEMMA CheckInv ==
  ASSUME IInv, CheckOne
  PROVE  IInv'
<1>1. /\ pc = "check" /\ i <= Len(buf)
      /\ UNCHANGED <<book, mode, expected, buf, published, truth>>
  BY DEF CheckOne, venue
<1>2. /\ Len(published) \in Nat /\ Len(buf) \in Nat /\ i \in 1..Len(buf)
      /\ snap.as_of \in Nat /\ expect \in snap.as_of + 1..Len(published) + 1
      /\ trail \in Seq(Nat) /\ Len(trail) = i /\ trail[i] = expect
      /\ buf[i].seq \in 1..Len(published)
  BY <1>1 DEF IInv, TypeOK, CallOK, TrailOK, Genuine, Deltas
<1>3. Genuine' /\ TruthSteps' /\ NoLeftovers' /\ GapHead'
  BY <1>1 DEF IInv, Genuine, TruthSteps, NoLeftovers, GapHead, Deltas
<1>4. CASE buf[i].seq > snap.as_of /\ buf[i].seq # expect
  <2>0. ~(buf[i].seq <= snap.as_of)
    BY <1>2, <1>4
  <2>1. Bump("snapshot_too_old") /\ Return
    BY <1>4, <2>0, Zenon DEF CheckOne
  <2>2. stats' \in [Counters -> Nat]
    BY <2>1, BumpType DEF IInv, TypeOK, Counters
  <2>3. TypeOK'
    BY <1>1, <2>1, <2>2, ReturnClean DEF IInv, TypeOK
  <2>4. BookExact' /\ CallOK' /\ TrailOK'
    BY <1>1, <2>1, ReturnClean DEF IInv, BookExact
  <2> QED BY <1>3, <2>3, <2>4 DEF IInv
<1>5. CASE ~(buf[i].seq > snap.as_of /\ buf[i].seq # expect)
  <2>1. /\ i' = i + 1 /\ trail' = Append(trail, expect')
        /\ UNCHANGED <<stats, pc, snap>>
        /\ IF buf[i].seq <= snap.as_of THEN expect' = expect
           ELSE buf[i].seq = expect /\ expect' = expect + 1
    <3>1. buf[i].seq \in Int /\ snap.as_of \in Int
      BY <1>2
    <3>2. CASE buf[i].seq <= snap.as_of
      <4>1. ~(buf[i].seq > snap.as_of)
        BY <3>1, <3>2
      <4> QED BY <3>2, <4>1 DEF CheckOne
    <3>3. CASE ~(buf[i].seq <= snap.as_of)
      <4>1. buf[i].seq > snap.as_of /\ buf[i].seq = expect
        BY <1>5, <3>1, <3>3
      <4> QED BY <3>3, <4>1 DEF CheckOne
    <3> QED BY <3>2, <3>3
  <2>2. expect' \in snap.as_of + 1..Len(published) + 1
    <3>1. /\ Len(published) \in Nat /\ snap.as_of \in Nat
          /\ expect \in snap.as_of + 1..Len(published) + 1
          /\ buf[i].seq \in 1..Len(published)
      BY <1>2
    <3>2. expect' = expect \/ (buf[i].seq = expect /\ expect' = expect + 1)
      BY <2>1
    <3> QED BY <3>1, <3>2
  <2>3. expect' \in Nat
    BY <1>2, <2>2
  <2>4. /\ trail' \in Seq(Nat) /\ Len(trail') = i + 1
        /\ \A j \in 1..i : trail'[j] = trail[j]
        /\ trail'[i + 1] = expect'
    BY <1>2, <2>1, <2>3
  <2>a. UNCHANGED <<stats, pc, snap>>
    BY <2>1
  <2>5. TypeOK'
    <3>1. i' \in Nat \ {0} /\ trail' \in Seq(Nat)
      BY <1>2, <2>1, <2>4
    <3>2. TypeOK
      BY DEF IInv
    <3> QED BY <1>1, <2>3, <2>a, <3>1, <3>2 DEF TypeOK
  <2>6. BookExact'
    BY <1>1, <2>a DEF IInv, BookExact
  <2>7. CallOK'
    BY <1>1, <2>2, <2>a DEF IInv, CallOK
  <2>8. TrailOK'
    <3>1. pc' = "check" /\ i' <= Len(buf') + 1 /\ Len(trail') = i'
      BY <1>1, <1>2, <2>1, <2>4
    <3>2. \A j \in 1..Len(trail') : trail'[j] \in snap.as_of + 1..Len(published) + 1
      <4>1. \A j \in 1..i : trail[j] \in snap.as_of + 1..Len(published) + 1
        BY <1>1, <1>2 DEF IInv, TrailOK
      <4> SUFFICES ASSUME NEW j \in 1..i + 1
                   PROVE  trail'[j] \in snap.as_of + 1..Len(published) + 1
        BY <2>4
      <4>2. CASE j \in 1..i
        BY <4>1, <4>2, <2>4
      <4>3. CASE j = i + 1
        BY <4>3, <2>2, <2>4
      <4> QED BY <4>2, <4>3, <1>2
    <3>3. trail'[1] = snap.as_of + 1 /\ trail'[Len(trail')] = expect'
      BY <1>1, <1>2, <2>4 DEF IInv, TrailOK
    <3>4. ASSUME NEW j \in 1..Len(trail') - 1 PROVE Link(j)'
      <4>1. CASE j \in 1..i - 1
        <5>1. Link(j)
          BY <4>1, <1>1, <1>2 DEF IInv, TrailOK
        <5>2. trail'[j] = trail[j] /\ trail'[j + 1] = trail[j + 1]
          BY <4>1, <1>2, <2>4
        <5> QED BY <5>1, <5>2, <1>1, <2>1 DEF Link
      <4>2. CASE j = i
        <5>1. trail'[j] = expect /\ trail'[j + 1] = expect'
          BY <4>2, <1>2, <2>4
        <5> QED BY <5>1, <4>2, <1>1, <2>1 DEF Link
      <4> QED BY <4>1, <4>2, <1>2, <2>4
    <3>5. Len(trail') >= 1
      BY <1>2, <2>4
    <3> QED BY <3>1, <3>2, <3>3, <3>4, <3>5, <1>1, <2>1 DEF TrailOK
  <2> QED BY <1>3, <2>5, <2>6, <2>7, <2>8 DEF IInv
<1> QED BY <1>4, <1>5

\* The rebuilt book is the venue's as of the snapshot: where the trail starts.
LEMMA RebuildInv ==
  ASSUME IInv, Rebuild
  PROVE  IInv'
<1>1. /\ pc = "check" /\ i > Len(buf) /\ pc' = "replay" /\ i' = 1
      /\ book' = FromLevels(snap.levels)
      /\ UNCHANGED <<mode, expected, buf, stats, snap, expect, trail, published, truth>>
  BY DEF Rebuild, venue
<1>2. /\ snap.as_of \in 0..Len(published) /\ Len(published) \in Nat /\ Len(buf) \in Nat
      /\ snap.levels \in LevelLists(truth[snap.as_of])
      /\ truth[snap.as_of] \in Book
      /\ i \in Nat /\ i <= Len(buf) + 1 /\ Len(trail) = i
      /\ trail[1] = snap.as_of + 1
  BY <1>1 DEF IInv, TypeOK, CallOK, TrailOK
<1>3. book' = truth[snap.as_of]
  BY <1>1, <1>2, SnapshotAssumption
<1>4. TypeOK'
  BY <1>1, <1>2, <1>3 DEF IInv, TypeOK
<1>5. Genuine' /\ TruthSteps' /\ NoLeftovers' /\ GapHead' /\ BookExact'
  BY <1>1 DEF IInv, Genuine, TruthSteps, NoLeftovers, GapHead, BookExact, Deltas
<1>6. CallOK'
  BY <1>1 DEF IInv, CallOK
<1>7. Len(trail') = Len(buf') + 1 /\ i' <= Len(buf') + 1
  BY <1>1, <1>2
<1>8. book' = truth'[trail'[i'] - 1]
  BY <1>1, <1>2, <1>3
<1>9. TrailOK'
  BY <1>1, <1>7, <1>8 DEF IInv, TrailOK, Link
<1> QED BY <1>4, <1>5, <1>6, <1>9 DEF IInv

\* One step of the replay loop moves the book one link along the trail.
LEMMA ReplayInv ==
  ASSUME IInv, ReplayOne
  PROVE  IInv'
<1>1. /\ pc = "replay" /\ i <= Len(buf) /\ i' = i + 1
      /\ book' = IF buf[i].seq > snap.as_of THEN Apply(book, buf[i].change) ELSE book
      /\ UNCHANGED <<mode, expected, buf, stats, pc, snap, expect, trail, published, truth>>
  BY DEF ReplayOne, venue
<1>2. /\ Len(published) \in Nat /\ Len(buf) \in Nat /\ i \in 1..Len(buf)
      /\ snap.as_of \in Nat
      /\ Len(trail) = Len(buf) + 1 /\ book = truth[trail[i] - 1]
      /\ buf[i].seq \in 1..Len(published)
      /\ buf[i].change = published[buf[i].seq]
  <2>1. /\ Len(published) \in Nat /\ Len(buf) \in Nat /\ i \in 1..Len(buf)
        /\ snap.as_of \in Nat
    BY <1>1 DEF IInv, TypeOK
  <2>2. Len(trail) = Len(buf) + 1 /\ book = truth[trail[i] - 1]
    BY <1>1 DEF IInv, TrailOK
  <2>3. buf[i].seq \in 1..Len(published) /\ buf[i].change = published[buf[i].seq]
    BY <2>1 DEF IInv, Genuine, Deltas
  <2> QED BY <2>1, <2>2, <2>3
<1>3. Link(i) /\ trail[i + 1] \in snap.as_of + 1..Len(published) + 1
  <2>1. /\ \A j \in 1..Len(trail) : trail[j] \in snap.as_of + 1..Len(published) + 1
        /\ \A j \in 1..Len(trail) - 1 : Link(j)
    BY <1>1 DEF IInv, TrailOK
  <2>2. i + 1 \in 1..Len(trail) /\ i \in 1..Len(trail) - 1
    BY <1>2
  <2> QED BY <2>1, <2>2
<1>4. book' = truth[trail[i + 1] - 1]
  <2>1. CASE buf[i].seq <= snap.as_of
    <3>1. trail[i + 1] = trail[i]
      BY <2>1, <1>3 DEF Link
    <3>2. book' = book
      BY <2>1, <1>1, <1>2
    <3> QED BY <3>1, <3>2, <1>2
  <2>2. CASE buf[i].seq > snap.as_of
    <3>1. buf[i].seq = trail[i] /\ trail[i + 1] = trail[i] + 1
      BY <2>2, <1>2, <1>3 DEF Link
    <3>2. truth[trail[i]] = Apply(truth[trail[i] - 1], published[trail[i]])
      BY <3>1, <1>2 DEF IInv, TruthSteps, Deltas
    <3> QED BY <3>1, <3>2, <2>2, <1>1, <1>2
  <2> QED BY <2>1, <2>2, <1>2
<1>5. trail[i + 1] - 1 \in 0..Len(published)
  <2>1. snap.as_of \in Nat /\ Len(published) \in Nat
    BY <1>2
  <2>2. trail[i + 1] \in snap.as_of + 1..Len(published) + 1
    BY <1>3
  <2> QED BY <2>1, <2>2
<1>6. TypeOK'
  <2>1. book' \in Book
    BY <1>4, <1>5 DEF IInv, TypeOK
  <2>2. i' \in Nat \ {0}
    BY <1>1, <1>2
  <2> QED BY <1>1, <2>1, <2>2 DEF IInv, TypeOK
<1>7. Genuine' /\ TruthSteps' /\ NoLeftovers' /\ GapHead' /\ BookExact'
  BY <1>1 DEF IInv, Genuine, TruthSteps, NoLeftovers, GapHead, BookExact, Deltas
<1>8. CallOK'
  BY <1>1 DEF IInv, CallOK
<1>9. i' <= Len(buf') + 1
  BY <1>1, <1>2
<1>10. TrailOK'
  BY <1>1, <1>4, <1>9 DEF IInv, TrailOK, Link
<1> QED BY <1>6, <1>7, <1>8, <1>10 DEF IInv

\* The end of the trail is where the book goes live.
LEMMA CommitInv ==
  ASSUME IInv, Commit
  PROVE  IInv'
<1>1. /\ pc = "replay" /\ i > Len(buf) /\ expected' = expect /\ buf' = <<>>
      /\ mode' = "Live" /\ Bump("recovered") /\ Return
      /\ UNCHANGED <<book, published, truth>>
  BY DEF Commit, venue
<1>2. /\ Len(published) \in Nat /\ snap.as_of \in Nat
      /\ expect \in snap.as_of + 1..Len(published) + 1
      /\ book = truth[expect - 1]
  <2>1. i \in Nat /\ Len(buf) \in Nat /\ Len(trail) = Len(buf) + 1 /\ i = Len(buf) + 1
    <3>1. i \in Nat /\ Len(buf) \in Nat
      BY DEF IInv, TypeOK
    <3>2. Len(trail) = Len(buf) + 1 /\ i <= Len(buf) + 1
      BY <1>1 DEF IInv, TrailOK
    <3> QED BY <3>1, <3>2, <1>1
  <2>2. trail[i] = expect /\ book = truth[trail[i] - 1]
    BY <2>1, <1>1 DEF IInv, TrailOK
  <2>3. Len(published) \in Nat /\ snap.as_of \in Nat
    BY DEF IInv, TypeOK
  <2>4. expect \in snap.as_of + 1..Len(published) + 1
    BY <1>1 DEF IInv, CallOK
  <2> QED BY <2>2, <2>3, <2>4
<1>3. stats' \in [Counters -> Nat]
  BY <1>1, BumpType DEF IInv, TypeOK, Counters
<1>4. TypeOK'
  <2>1. buf' \in Seq(DeltaRecord) /\ Len(buf') <= RecoverBuf
    BY <1>1, BufAssumption
  <2>2. expected' \in Nat /\ mode' \in {"Recovering", "Live"}
    BY <1>1, <1>2
  <2>3. /\ pc' \in {"idle", "check", "replay"} /\ snap'.as_of \in Nat /\ i' \in Nat \ {0}
        /\ expect' \in Nat /\ trail' \in Seq(Nat)
    BY <1>1, ReturnClean
  <2>4. book' \in Book /\ published' \in Seq(Change) /\ truth' \in [0..Len(published') -> Book]
    BY <1>1 DEF IInv, TypeOK
  <2> QED BY <1>3, <2>1, <2>2, <2>3, <2>4 DEF TypeOK
<1>5. Genuine' /\ TruthSteps' /\ NoLeftovers' /\ GapHead'
  BY <1>1 DEF IInv, Genuine, TruthSteps, NoLeftovers, GapHead, Deltas
<1>6. BookExact'
  BY <1>1, <1>2 DEF BookExact
<1>7. CallOK' /\ TrailOK'
  BY <1>1, ReturnClean
<1> QED BY <1>4, <1>5, <1>6, <1>7 DEF IInv

\* Every step keeps the invariant.
LEMMA NextInv == IInv /\ [Next]_vars => IInv'
<1> SUFFICES ASSUME IInv, [Next]_vars PROVE IInv'
  OBVIOUS
<1>1. CASE \E c \in Change : Publish(c)
  BY <1>1, PublishInv
<1>2. CASE \E n \in Deltas : OnDelta(Delta(n))
  BY <1>2, DeltaInv
<1>3. CASE \E n \in 0..Len(published) : \E lv \in LevelLists(truth[n]) : OnSnapshot(n, lv)
  BY <1>3, SnapshotInv
<1>4. CASE Running
  BY <1>4, CheckInv, RebuildInv, ReplayInv, CommitInv DEF Running
<1>5. CASE UNCHANGED vars
  <2>1. UNCHANGED <<book, mode, expected, buf, stats, pc, snap, i, expect, trail,
                    published, truth>>
    BY <1>5 DEF vars, builder, frame, venue
  <2> QED BY <2>1 DEF IInv, TypeOK, Genuine, TruthSteps, NoLeftovers, BookExact,
                      GapHead, CallOK, TrailOK, Link, Deltas
<1> QED BY <1>1, <1>2, <1>3, <1>4, <1>5 DEF Next

\* IInv holds throughout.
THEOREM BuilderInvariant == Spec => []IInv
BY InitInv, NextInv, PTL DEF Spec

\* BookBuilder's state stays well typed, the recovery buffer within its capacity.
THEOREM BuilderTypeCorrect == Spec => []TypeOK
<1>1. IInv => TypeOK
  BY DEF IInv
<1> QED BY <1>1, BuilderInvariant, PTL

\* A book that on_delta() and on_snapshot() hold live is the venue's book as of
\* the last delta it reflects, and it has no buffered deltas left over.
THEOREM LiveBookExact == Spec => [](LiveExact /\ NoLeftovers)
<1>1. IInv => LiveExact /\ NoLeftovers
  BY DEF IInv, BookExact, LiveExact
<1> QED BY <1>1, BuilderInvariant, PTL

\* on_snapshot() never takes expected_ backwards: a snapshot that lets the buffer
\* starting beyond a gap through reaches that gap.
THEOREM SequenceMonotone == Spec => NeverRewinds
<1>1. IInv /\ [Next]_vars => [expected' >= expected]_vars
  <2> SUFFICES ASSUME IInv, Next PROVE expected' >= expected
    BY DEF vars, builder
  <2>1. expected \in Nat
    BY DEF IInv, TypeOK
  <2>2. CASE \E c \in Change : Publish(c)
    BY <2>1, <2>2 DEF Publish, builder
  <2>3. CASE \E n \in Deltas : OnDelta(Delta(n))
    BY <2>1, <2>3 DEF OnDelta, ApplyNext, Gap, Stale, Hold
  <2>4. CASE \E n \in 0..Len(published) : \E lv \in LevelLists(truth[n]) : OnSnapshot(n, lv)
    BY <2>1, <2>4 DEF OnSnapshot, builder
  <2>5. CASE CheckOne \/ Rebuild \/ ReplayOne
    <3>1. expected' = expected
      BY <2>5, Zenon DEF CheckOne, Rebuild, ReplayOne
    <3> QED BY <2>1, <3>1
  <2>6. CASE Commit
    <3>1. pc = "replay" /\ expected' = expect
      BY <2>6 DEF Commit
    <3>2. Len(published) \in Nat /\ snap.as_of \in Nat /\ Len(buf) \in Nat
      BY DEF IInv, TypeOK
    <3>3. expect \in snap.as_of + 1..Len(published) + 1 /\ expect \in Nat
      BY <3>1 DEF IInv, TypeOK, CallOK
    <3>4. CASE mode = "Live"
      <4>1. snap.as_of >= expected
        BY <3>1, <3>4 DEF IInv, CallOK
      <4> QED BY <4>1, <3>1, <3>2, <3>3, <2>1
    <3>5. CASE mode = "Recovering" /\ expected # 0
      <4>1. Len(buf) >= 1 /\ buf[1].seq > expected
        BY <3>5 DEF IInv, GapHead
      <4>2. Len(trail) = Len(buf) + 1 /\ trail[1] = snap.as_of + 1
        BY <3>1 DEF IInv, TrailOK
      <4>3. Link(1)
        BY <4>1, <4>2, <3>1, <3>2 DEF IInv, TrailOK
      <4>4. buf[1].seq \in Nat
        BY <4>1, <3>2 DEF IInv, Genuine, Deltas
      <4>5. buf[1].seq <= snap.as_of + 1
        BY <4>2, <4>3, <4>4, <3>2 DEF Link
      <4> QED BY <4>1, <4>4, <4>5, <3>1, <3>2, <3>3, <2>1
    <3>6. CASE expected = 0
      BY <3>6, <3>1, <3>3
    <3> QED BY <3>4, <3>5, <3>6 DEF IInv, TypeOK
  <2> QED BY <2>2, <2>3, <2>4, <2>5, <2>6 DEF Next, Running
<1> QED BY <1>1, BuilderInvariant, PTL DEF Spec, NeverRewinds

-----------------------------------------------------------------------------
(* Which snapshots are taken                                               *)

\* The first j buffered deltas that a snapshot as of as_of does not include.
Newer(j, as_of) == {k \in 1..j : buf[k].seq > as_of}

\* The deltas held back follow the snapshot without a hole and without a repetition.
Connects(as_of) ==
  \A j \in 1..Len(buf) :
    buf[j].seq > as_of => buf[j].seq = as_of + Cardinality(Newer(j, as_of))

\* on_snapshot() ends with a live book exactly if the buffered deltas connect to the
\* snapshot; one that is as new as everything buffered is therefore always taken, and a
\* delta that came twice makes every snapshot older than it useless (lines 88-110).
SnapshotVerdict ==
  [][pc # "idle" /\ pc' = "idle" => (mode' = "Live" <=> Connects(snap.as_of))]_vars

\* The check loop has counted the deltas it has seen.
CountInv ==
  pc # "idle" =>
    \A j \in 1..Len(trail) :
      trail[j] = snap.as_of + 1 + Cardinality(Newer(j - 1, snap.as_of))

\* Buffered sequences are numbers.
LEMMA BufferedNumber ==
  ASSUME IInv, NEW j \in 1..Len(buf)
  PROVE  buf[j].seq \in Nat
<1>1. Len(published) \in Nat
  BY DEF IInv, TypeOK
<1>2. buf[j].seq \in 1..Len(published)
  BY Zenon DEF IInv, Genuine, Deltas
<1> QED
  BY <1>1, <1>2

\* One buffered delta more.
LEMMA NewerCount ==
  ASSUME NEW a, NEW j \in Nat
  PROVE  /\ Cardinality(Newer(j, a)) \in Nat
         /\ Cardinality(Newer(0, a)) = 0
         /\ Cardinality(Newer(j + 1, a)) =
              Cardinality(Newer(j, a)) + (IF buf[j + 1].seq > a THEN 1 ELSE 0)
<1>1. IsFiniteSet(Newer(j, a))
  <2>1. IsFiniteSet(1..j)
    BY FS_Interval
  <2> QED
    BY <2>1, FS_Subset, Zenon DEF Newer
<1>2. Cardinality(Newer(j, a)) \in Nat
  BY <1>1, FS_CardinalityType
<1>3. Newer(0, a) = {}
  BY DEF Newer
<1>4. CASE buf[j + 1].seq > a
  <2>1. Newer(j + 1, a) = Newer(j, a) \cup {j + 1} /\ j + 1 \notin Newer(j, a)
    BY <1>4 DEF Newer
  <2> QED
    <3>1. Cardinality(Newer(j + 1, a)) = Cardinality(Newer(j, a)) + 1
      BY <1>1, <2>1, FS_AddElement
    <3>2. Cardinality(Newer(0, a)) = 0
      BY <1>3, FS_EmptySet
    <3> QED
      BY <1>2, <1>4, <3>1, <3>2, Zenon
<1>5. CASE ~(buf[j + 1].seq > a)
  <2>1. Newer(j + 1, a) = Newer(j, a)
    BY <1>5 DEF Newer
  <2>2. Cardinality(Newer(0, a)) = 0
    BY <1>3, FS_EmptySet
  <2>3. Cardinality(Newer(j + 1, a)) = Cardinality(Newer(j, a)) + 0
    BY <1>2, <2>1
  <2> QED
    BY <1>2, <1>5, <2>2, <2>3, Zenon
<1> QED
  BY <1>4, <1>5

\* The count is kept by every step.
LEMMA CountStep == IInv /\ CountInv /\ [Next]_vars => CountInv'
<1> SUFFICES ASSUME IInv, CountInv, [Next]_vars, pc' # "idle" PROVE CountInv'
  BY DEF CountInv
<1>0. snap.as_of \in Nat /\ trail \in Seq(Nat) /\ i \in Nat \ {0}
  BY DEF IInv, TypeOK
<1>1. CASE \E n \in 0..Len(published) : \E lv \in LevelLists(truth[n]) : OnSnapshot(n, lv)
  <2>1. PICK n \in 0..Len(published) : \E lv \in LevelLists(truth[n]) : OnSnapshot(n, lv)
    BY <1>1
  <2>2. snap'.as_of = n /\ trail' = <<n + 1>> /\ UNCHANGED buf
    BY <2>1 DEF OnSnapshot, builder
  <2>3. n \in Nat /\ Len(trail') = 1 /\ trail'[1] = n + 1
    BY <2>1, <2>2 DEF IInv, TypeOK
  <2>4. ASSUME NEW j \in 1..Len(trail')
        PROVE  trail'[j] =
                 snap'.as_of + 1 + Cardinality({k \in 1..(j - 1) : buf'[k].seq > snap'.as_of})
    <3>1. j = 1 /\ n + 1 = n + 1 + 0
      BY <2>3
    <3>2. {k \in 1..(j - 1) : buf'[k].seq > snap'.as_of} = {}
      BY <3>1
    <3>3. Cardinality({}) = 0
      BY FS_EmptySet
    <3>4. trail'[j] = n + 1 + 0
      BY <2>3, <3>1
    <3> QED
      BY <2>2, <3>2, <3>3, <3>4, Zenon
  <2> QED
    BY <2>4, Zenon DEF CountInv, Newer
<1>2. CASE CheckOne
  <2>1. /\ pc = "check" /\ i \in 1..Len(buf) /\ UNCHANGED <<buf, snap>>
        /\ IF buf[i].seq > snap.as_of
           THEN buf[i].seq = expect /\ trail' = Append(trail, expect + 1)
           ELSE trail' = Append(trail, expect)
    <3>1. buf[i].seq \in Nat
      <4>1. i \in 1..Len(buf)
        BY <1>2, <1>0 DEF CheckOne, IInv, TypeOK
      <4> QED
        BY <4>1, BufferedNumber
    <3> QED
      BY <1>2, <1>0, <3>1 DEF CheckOne, Return
  <2>2. Len(trail) = i /\ trail[i] = expect
    BY <2>1 DEF IInv, TrailOK
  <2>3. trail[i] = snap.as_of + 1 + Cardinality(Newer(i - 1, snap.as_of))
    BY <2>1, <2>2, <1>0 DEF CountInv
  <2>4. /\ Cardinality(Newer(i - 1, snap.as_of)) \in Nat
        /\ Cardinality(Newer(i, snap.as_of)) =
             Cardinality(Newer(i - 1, snap.as_of)) + (IF buf[i].seq > snap.as_of THEN 1 ELSE 0)
    <3>1. i - 1 \in Nat /\ (i - 1) + 1 = i
      BY <1>0
    <3> QED
      BY <3>1, NewerCount
  <2>5. \A j : Newer(j, snap.as_of)' = Newer(j, snap.as_of)
    BY <2>1 DEF Newer
  <2> DEFINE e == IF buf[i].seq > snap.as_of THEN expect + 1 ELSE expect
  <2>7. e \in Nat /\ trail' = Append(trail, e)
    BY <2>1, <2>2, <1>0
  <2> HIDE DEF e
  <2>8. /\ Len(trail') = i + 1 /\ trail'[i + 1] = e
        /\ \A j \in 1..i : trail'[j] = trail[j]
    BY <2>2, <2>7, <1>0
  <2>6. ASSUME NEW j \in 1..Len(trail')
        PROVE  trail'[j] = snap.as_of + 1 + Cardinality(Newer(j - 1, snap.as_of))
    <3>1. CASE j \in 1..i
      <4>1. trail'[j] = trail[j] /\ j \in 1..Len(trail)
        BY <3>1, <2>2, <2>8, Zenon
      <4>2. pc # "idle"
        BY <2>1
      <4> QED
        BY <4>1, <4>2, Zenon DEF CountInv
    <3>2. CASE j = i + 1
      <4>1. j - 1 = i
        BY <3>2, <1>0
      <4>2. trail'[j] = IF buf[i].seq > snap.as_of THEN expect + 1 ELSE expect
        BY <3>2, <2>8, Zenon DEF e
      <4> DEFINE c == Cardinality(Newer(i - 1, snap.as_of))
                 d == Cardinality(Newer(i, snap.as_of))
      <4>3. /\ expect = snap.as_of + 1 + c /\ c \in Nat /\ snap.as_of \in Nat
            /\ d = c + (IF buf[i].seq > snap.as_of THEN 1 ELSE 0)
        BY <2>2, <2>3, <2>4, <1>0
      <4> HIDE DEF c, d
      <4>4. trail'[j] = snap.as_of + 1 + d
        <5>0. PICK a \in Nat, g \in Nat : a = snap.as_of /\ g = c
          BY <4>3, Zenon
        <5>1. CASE buf[i].seq > snap.as_of
          <6>1. trail'[j] = (a + 1 + g) + 1 /\ d = g + 1
            BY <4>2, <4>3, <5>0, <5>1, Zenon
          <6>2. (a + 1 + g) + 1 = a + 1 + (g + 1)
            OBVIOUS
          <6> QED
            BY <5>0, <6>1, <6>2, Zenon
        <5>2. CASE ~(buf[i].seq > snap.as_of)
          <6>1. trail'[j] = a + 1 + g /\ d = g + 0
            BY <4>2, <4>3, <5>0, <5>2, Zenon
          <6>2. g + 0 = g
            OBVIOUS
          <6> QED
            BY <5>0, <6>1, <6>2, Zenon
        <5> QED
          BY <5>1, <5>2
      <4> QED
        BY <4>1, <4>4 DEF d
    <3> QED
      BY <3>1, <3>2, <2>8, <1>0
  <2> QED
    BY <2>1, <2>5, <2>6 DEF CountInv
<1>3. CASE \/ \E c \in Change : Publish(c)
           \/ \E n \in Deltas : OnDelta(Delta(n))
           \/ Rebuild \/ ReplayOne \/ Commit \/ UNCHANGED vars
  <2>1. UNCHANGED <<buf, snap, trail>> /\ pc # "idle"
    BY <1>3 DEF Publish, OnDelta, Rebuild, ReplayOne, Commit, Return, vars, builder, frame
  <2> QED
    BY <2>1 DEF CountInv, Newer
<1> QED
  BY <1>1, <1>2, <1>3 DEF Next, Running

\* The sequence expected after c + 1 newer deltas.
LEMMA ExpectedAfter ==
  ASSUME NEW a \in Nat, NEW c \in Nat
  PROVE  a + 1 + c = a + (c + 1)
OBVIOUS

\* A call that ends has judged the snapshot by its connection to the buffer.
LEMMA VerdictStep ==
  ASSUME IInv, CountInv, Next, pc # "idle", pc' = "idle"
  PROVE  mode' = "Live" <=> Connects(snap.as_of)
<1>0. snap.as_of \in Nat /\ trail \in Seq(Nat) /\ i \in Nat \ {0} /\ buf \in Seq(DeltaRecord)
  BY DEF IInv, TypeOK
<1>1. CASE CheckOne
  <2>1. /\ pc = "check" /\ i \in 1..Len(buf) /\ UNCHANGED mode
        /\ buf[i].seq > snap.as_of /\ buf[i].seq # expect
    BY <1>0, <1>1 DEF CheckOne
  <2>2. Len(trail) = i /\ trail[i] = expect
    BY <2>1 DEF IInv, TrailOK
  <2>3. expect = snap.as_of + 1 + Cardinality(Newer(i - 1, snap.as_of))
    BY <2>1, <2>2, <1>0 DEF CountInv
  <2>4. /\ Cardinality(Newer(i - 1, snap.as_of)) \in Nat
        /\ Cardinality(Newer(i, snap.as_of)) = Cardinality(Newer(i - 1, snap.as_of)) + 1
    <3>1. i - 1 \in Nat /\ (i - 1) + 1 = i
      BY <1>0
    <3> QED
      BY <2>1, <3>1, NewerCount, Zenon
  <2>5. ~Connects(snap.as_of)
    <3> DEFINE c == Cardinality(Newer(i - 1, snap.as_of))
               d == Cardinality(Newer(i, snap.as_of))
    <3>1. expect = snap.as_of + 1 + c /\ d = c + 1 /\ c \in Nat /\ snap.as_of \in Nat
      BY <2>3, <2>4, <1>0
    <3> HIDE DEF c, d
    <3>2. expect = snap.as_of + d
      BY <3>1, ExpectedAfter, Zenon
    <3> QED
      BY <2>1, <3>2, Zenon DEF Connects, d
  <2>6. mode # "Live"
    BY <2>1, <1>0 DEF IInv, NoLeftovers
  <2> QED
    BY <2>1, <2>5, <2>6
<1>2. CASE Commit
  <2>1. pc = "replay" /\ mode' = "Live"
    BY <1>2 DEF Commit
  <2>2. Len(trail) = Len(buf) + 1 /\ \A j \in 1..Len(buf) : Link(j)
    BY <2>1, <1>0 DEF IInv, TrailOK
  <2>3. ASSUME NEW j \in 1..Len(buf), buf[j].seq > snap.as_of
        PROVE  buf[j].seq = snap.as_of + Cardinality(Newer(j, snap.as_of))
    <3>1. buf[j].seq = trail[j]
      <4>1. buf[j].seq \in Nat
        BY BufferedNumber
      <4>2. ~(buf[j].seq <= snap.as_of)
        BY <2>3, <4>1, <1>0
      <4> QED
        BY <2>2, <4>2, Zenon DEF Link
    <3>2. trail[j] = snap.as_of + 1 + Cardinality(Newer(j - 1, snap.as_of))
      <4>1. j \in 1..Len(trail)
        BY <2>2, <1>0
      <4> QED
        BY <2>1, <4>1, <1>0, Zenon DEF CountInv
    <3>3. /\ Cardinality(Newer(j - 1, snap.as_of)) \in Nat
          /\ Cardinality(Newer(j, snap.as_of)) = Cardinality(Newer(j - 1, snap.as_of)) + 1
      <4>1. j - 1 \in Nat /\ (j - 1) + 1 = j
        BY <1>0
      <4> QED
        BY <2>3, <4>1, NewerCount, Zenon
    <3> DEFINE c == Cardinality(Newer(j - 1, snap.as_of))
               d == Cardinality(Newer(j, snap.as_of))
    <3>4. buf[j].seq = snap.as_of + 1 + c /\ d = c + 1 /\ c \in Nat /\ snap.as_of \in Nat
      BY <3>1, <3>2, <3>3, <1>0
    <3> HIDE DEF c, d
    <3>5. buf[j].seq = snap.as_of + d
      BY <3>4, ExpectedAfter, Zenon
    <3> QED
      BY <3>5 DEF d
  <2> QED
    BY <2>1, <2>3 DEF Connects
<1>3. CASE Rebuild \/ ReplayOne
  BY <1>3 DEF Rebuild, ReplayOne
<1> QED
  BY <1>1, <1>2, <1>3 DEF Next, Running, Publish, OnDelta, OnSnapshot, frame

\* A snapshot is taken exactly if the deltas held back connect to it, whatever was lost,
\* repeated or reordered before (on_snapshot(), lines 77-110).
THEOREM SnapshotsJudgedExactly == Spec => SnapshotVerdict
<1>1. Init => CountInv
  BY DEF Init, CountInv
<1>2. IInv /\ CountInv /\ [Next]_vars =>
        [pc # "idle" /\ pc' = "idle" => (mode' = "Live" <=> Connects(snap.as_of))]_vars
  BY VerdictStep
<1> QED
  BY <1>1, <1>2, CountStep, BuilderInvariant, PTL DEF Spec, SnapshotVerdict

\* A snapshot of everything the venue has published is taken.
CurrentTaken ==
  [][pc # "idle" /\ pc' = "idle" /\ snap.as_of = Len(published) => mode' = "Live"]_vars

\* What the recovery of an untrusted book rests on: whatever is in the buffer, full of
\* repetitions or with holes, a snapshot of the current book is never refused as too old
\* (on_snapshot(), line 94).
THEOREM CurrentSnapshotTaken == Spec => CurrentTaken
<1>1. ASSUME IInv, snap.as_of = Len(published) PROVE Connects(snap.as_of)
  <2>1. ASSUME NEW j \in 1..Len(buf) PROVE ~(buf[j].seq > Len(published))
    <3>1. Len(published) \in Nat
      BY <1>1 DEF IInv, TypeOK
    <3>2. buf[j].seq \in 1..Len(published)
      BY <1>1, Zenon DEF IInv, Genuine, Deltas
    <3> QED
      BY <3>1, <3>2
  <2> QED
    BY <1>1, <2>1, Zenon DEF Connects
<1>2. IInv /\ [pc # "idle" /\ pc' = "idle" => (mode' = "Live" <=> Connects(snap.as_of))]_vars
        => [pc # "idle" /\ pc' = "idle" /\ snap.as_of = Len(published) => mode' = "Live"]_vars
  BY <1>1
<1> QED
  BY <1>2, SnapshotsJudgedExactly, BuilderInvariant, PTL DEF SnapshotVerdict, CurrentTaken

\* The iterations the two loops of a running on_snapshot() have ahead of them.
Ahead == CASE pc = "idle" -> 0
           [] pc = "check" -> (2 * Len(buf) + 3) - i
           [] pc = "replay" -> (Len(buf) + 2) - i

\* A running on_snapshot() has less ahead of it with every step of the builder.
CallAdvances == [][pc # "idle" => Ahead' < Ahead]_<<builder, frame>>

\* No call has more ahead of it than two rounds over a full buffer.
AheadBounded == Ahead \in 0..(2 * RecoverBuf + 2)

\* What a running call has ahead.
LEMMA AheadValues ==
  ASSUME IInv
  PROVE  /\ Len(buf) \in Nat /\ Len(buf) <= RecoverBuf /\ RecoverBuf \in Nat /\ i \in Nat \ {0}
         /\ pc # "idle" => i <= Len(buf) + 1
         /\ pc = "idle" => Ahead = 0
         /\ pc = "check" => Ahead = (2 * Len(buf) + 3) - i
         /\ pc = "replay" => Ahead = (Len(buf) + 2) - i
<1>1. /\ Len(buf) \in Nat /\ Len(buf) <= RecoverBuf /\ RecoverBuf \in Nat /\ i \in Nat \ {0}
      /\ pc # "idle" => i <= Len(buf) + 1
  BY BufAssumption DEF IInv, TypeOK, TrailOK
<1> QED
  BY <1>1 DEF Ahead

\* A step of a running call.
LEMMA AheadStep ==
  ASSUME IInv, Running
  PROVE  Ahead' < Ahead
<1>1. /\ Len(buf) \in Nat /\ i \in Nat \ {0} /\ i <= Len(buf) + 1
      /\ pc = "check" => Ahead = (2 * Len(buf) + 3) - i
      /\ pc = "replay" => Ahead = (Len(buf) + 2) - i
  BY AheadValues DEF Running, CheckOne, Rebuild, ReplayOne, Commit
<1>2. CASE pc' = "idle"
  <2>1. Ahead' = 0
    BY <1>2 DEF Ahead
  <2>2. pc \in {"check", "replay"}
    BY DEF Running, CheckOne, Rebuild, ReplayOne, Commit
  <2> QED
    BY <1>1, <2>1, <2>2
<1>3. CASE CheckOne /\ pc' # "idle"
  <2>1. pc = "check" /\ pc' = "check" /\ i' = i + 1 /\ Len(buf') = Len(buf)
    BY <1>3, Zenon DEF CheckOne, Return
  <2>2. Ahead' = (2 * Len(buf) + 3) - (i + 1)
    BY <2>1 DEF Ahead
  <2> QED
    BY <1>1, <2>1, <2>2
<1>4. CASE Rebuild
  <2>1. pc = "check" /\ i > Len(buf) /\ pc' = "replay" /\ i' = 1 /\ Len(buf') = Len(buf)
    BY <1>4 DEF Rebuild
  <2>2. Ahead' = (Len(buf) + 2) - 1
    BY <2>1 DEF Ahead
  <2> QED
    BY <1>1, <2>1, <2>2
<1>5. CASE ReplayOne
  <2>1. pc = "replay" /\ pc' = "replay" /\ i' = i + 1 /\ Len(buf') = Len(buf)
    BY <1>5 DEF ReplayOne
  <2>2. Ahead' = (Len(buf) + 2) - (i + 1)
    BY <2>1 DEF Ahead
  <2> QED
    BY <1>1, <2>1, <2>2
<1>6. CASE Commit
  BY <1>2, <1>6 DEF Commit, Return
<1> QED
  BY <1>2, <1>3, <1>4, <1>5, <1>6 DEF Running

\* on_snapshot() returns after at most two rounds over the buffer, one to check and one to
\* replay, however it ends (lines 92-104).
THEOREM SnapshotCallsEnd == Spec => CallAdvances /\ []AheadBounded
<1>1. IInv => AheadBounded
  <2> SUFFICES ASSUME IInv PROVE AheadBounded
    OBVIOUS
  <2>1. pc \in {"idle", "check", "replay"}
    BY DEF IInv, TypeOK
  <2> QED
    BY <2>1, AheadValues DEF AheadBounded
<1>2. IInv /\ [Next]_vars => [pc # "idle" => Ahead' < Ahead]_<<builder, frame>>
  BY AheadStep DEF Next, Publish, OnDelta, OnSnapshot, vars
<1> QED
  BY <1>1, <1>2, BuilderInvariant, PTL DEF Spec, CallAdvances
=============================================================================
