------------------------ MODULE FeedArbitratorProofs ------------------------
(***************************************************************************)
(* Proofs, for every window, gap limit, sequence width and payload set,    *)
(* that the arbitrator is correct and implements OrderedFeed.  The         *)
(* invariant is built in layers: the ring and its counter (RingInv) first, *)
(* then what the sink and the gap log have seen (LogInv), then the         *)
(* published counters.  A measure bounds the steps of a call.  The feed    *)
(* handler only ever makes the arbitrator's own steps, so all of this      *)
(* holds inside it; FeedInv adds where each packet is between the          *)
(* publisher and the sink.                                                 *)
(***************************************************************************)
EXTENDS FeedHandler, FiniteSetTheorems, TLAPS

-----------------------------------------------------------------------------
(* The ring index                                                          *)

\* The index of a sequence is a slot of the ring.
LEMMA IndexRange ==
  ASSUME NEW a \in Nat
  PROVE  Index(a) \in 0..Window-1
  BY WindowAssumption DEF Index

\* Two sequences less than a window apart never share a slot.
LEMMA IndexInjective ==
  ASSUME NEW a \in Nat, NEW b \in Nat, a <= b, b - a < Window,
         Index(a) = Index(b)
  PROVE  a = b
<1> DEFINE qa == a \div Window
           qb == b \div Window
<1>1. /\ qa \in Int /\ qb \in Int
      /\ a = Window * qa + (a % Window)
      /\ b = Window * qb + (b % Window)
  BY WindowAssumption
<1>2. b - a = Window * (qb - qa)
  <2> HIDE DEF qa, qb
  <2>1. Window * (qb - qa) = Window * qb - Window * qa
    BY <1>1, WindowAssumption
  <2>2. a % Window = b % Window
    BY DEF Index
  <2> QED BY <1>1, <2>1, <2>2, WindowAssumption
<1>3. qb - qa = 0
  <2> DEFINE k == qb - qa
  <2>1. k \in Int /\ 0 <= Window * k /\ Window * k < Window
    BY <1>1, <1>2
  <2> HIDE DEF k
  <2>2. CASE k >= 1
    <3>1. Window * k >= Window
      BY <2>1, <2>2, WindowAssumption
    <3> QED BY <3>1, <2>1, WindowAssumption
  <2>3. CASE k <= -1
    <3>1. Window * k <= -Window
      BY <2>1, <2>3, WindowAssumption
    <3> QED BY <3>1, <2>1, WindowAssumption
  <2> QED BY <2>1, <2>2, <2>3 DEF k
<1> QED BY <1>2, <1>3, WindowAssumption

-----------------------------------------------------------------------------
(* Layer 1: types, the ring and its counter                                *)

Live == {i \in 0..Window-1 : buf[i].occupied}

\* Before the first packet nothing has happened.
NotStarted ==
  ~started => /\ Live = {} /\ lap = 0 /\ out = <<>> /\ gapped = {}
              /\ pc \in {"idle", "flush"}
              /\ stats.delivered = 0 /\ stats.gaps = 0

\* Outside release_prefix() the message at the frontier has been handed on.
FrontierFree == pc # "release" => ~Holds(frontier)

\* While the forced advance releases a run, all it can release is below the
\* packet that forced it.
ForcedBelow ==
  pc = "release" /\ after = "force" => \A i \in Live : buf[i].seq < pkt.seq

RingInv == /\ TypeOK /\ InWindow /\ OccupiedCount
           /\ NotStarted /\ FrontierFree /\ ForcedBelow

\* Slots are finitely many, so counting them is counting a finite set.
LEMMA LiveFinite ==
  /\ IsFiniteSet(Live)
  /\ Cardinality(Live) \in Nat
  /\ Cardinality(Live) = 0 <=> Live = {}
<1>1. IsFiniteSet(0..Window-1)
  BY FS_Interval, WindowAssumption
<1>2. IsFiniteSet(Live)
  BY <1>1, FS_Subset, Zenon DEF Live
<1> QED BY <1>2, FS_CardinalityType, FS_EmptySet

\* A live slot that holds the frontier is the frontier's own slot.
LEMMA HoldsFrontier ==
  ASSUME TypeOK, InWindow, NEW i \in Live, buf[i].seq = frontier
  PROVE  Holds(frontier)
BY DEF TypeOK, InWindow, Live, Holds

\* The initial state satisfies layer 1.
LEMMA InitRing == Init => RingInv
<1> SUFFICES ASSUME Init PROVE RingInv
  OBVIOUS
<1> USE WindowAssumption, MaxSeqAssumption, RecordsAssumption DEF Init
<1>0. AnyRecord \in Records
  BY DEF AnyRecord
<1>1. TypeOK
  <2>1. buf \in [0..Window-1 -> Slot]
    BY <1>0 DEF Slot, EmptySlot, SeqNum
  <2>2. stats \in Stats
    BY DEF Stats, Lines
  <2>3. pkt \in Packet
    BY <1>0 DEF Packet, NoPacket, SeqNum, Lines
  <2>4. out \in Seq([lap : Nat, seq : SeqNum, record : Records])
    OBVIOUS
  <2>5. gapped \in SUBSET (Nat \X SeqNum) /\ heard \in SUBSET (SeqNum \X Records)
    OBVIOUS
  <2>6. frontier \in SeqNum /\ anchor \in SeqNum
    BY DEF SeqNum
  <2> QED BY <2>1, <2>2, <2>3, <2>4, <2>5, <2>6, Zenon DEF TypeOK
<1>2. Live = {}
  BY DEF Live, EmptySlot
<1>3. OccupiedCount
  BY <1>2, FS_EmptySet, Zenon DEF OccupiedCount, Live
<1>4. InWindow
  BY DEF InWindow, EmptySlot, Placing
<1>5. NotStarted
  BY <1>2 DEF NotStarted
<1>6. FrontierFree
  BY IndexRange DEF FrontierFree, Holds, EmptySlot
<1>7. ForcedBelow
  BY DEF ForcedBelow
<1> QED BY <1>1, <1>3, <1>4, <1>5, <1>6, <1>7 DEF RingInv

\* Counting keeps the counters natural numbers.
LEMMA StatsBump ==
  ASSUME NEW st \in Stats
  PROVE  /\ [st EXCEPT !.delivered = @ + 1] \in Stats
         /\ [st EXCEPT !.gaps = @ + 1] \in Stats
         /\ [st EXCEPT !.rejected = @ + 1] \in Stats
         /\ \A l \in Lines : [st EXCEPT !.duplicates[l] = @ + 1] \in Stats
         /\ \A n \in Nat : [st EXCEPT !.max_reorder = n] \in Stats
<1>1. [st EXCEPT !.delivered = @ + 1] \in Stats
  BY DEF Stats
<1>2. [st EXCEPT !.gaps = @ + 1] \in Stats
  BY DEF Stats
<1>3. [st EXCEPT !.rejected = @ + 1] \in Stats
  BY DEF Stats
<1>4. ASSUME NEW l \in Lines PROVE [st EXCEPT !.duplicates[l] = @ + 1] \in Stats
  BY DEF Stats
<1>5. ASSUME NEW n \in Nat PROVE [st EXCEPT !.max_reorder = n] \in Stats
  BY DEF Stats
<1> QED BY <1>1, <1>2, <1>3, <1>4, <1>5, Zenon

\* The window part of InWindow: live slots lie less than a window ahead.
SlotsInWindow ==
  \A i \in 0..Window-1 : buf[i].occupied =>
    /\ Index(buf[i].seq) = i
    /\ frontier <= buf[i].seq
    /\ buf[i].seq - frontier < Window

\* Handing the frontier message on frees exactly its slot and keeps the ring
\* consistent, also when frontier_ wraps: then no slot is left live.
LEMMA DeliverRing ==
  ASSUME TypeOK, SlotsInWindow, OccupiedCount, Holds(frontier),
         Deliver, StepFrontier
  PROVE  /\ buf' \in [0..Window-1 -> Slot]
         /\ frontier' \in SeqNum /\ lap' \in Nat /\ occupied' \in Nat
         /\ stats' \in Stats
         /\ out' \in Seq([lap : Nat, seq : SeqNum, record : Records])
         /\ SlotsInWindow' /\ OccupiedCount'
<1> DEFINE k == Index(frontier)
<1> USE WindowAssumption, MaxSeqAssumption
<1>1. k \in 0..Window-1 /\ buf[k].occupied /\ buf[k].seq = frontier
      /\ buf[k] \in Slot /\ k \in Live /\ frontier \in Nat
  <2>1. frontier \in Nat
    BY DEF TypeOK, SeqNum
  <2>2. k \in 0..Window-1
    BY <2>1, IndexRange
  <2>3. buf[k] \in Slot
    BY <2>2 DEF TypeOK
  <2> QED BY <2>1, <2>2, <2>3 DEF Holds, Live
<1>2. buf' = [buf EXCEPT ![k].occupied = FALSE]
  BY DEF Deliver
<1> HIDE DEF k
<1>3. buf' \in [0..Window-1 -> Slot]
  BY <1>1, <1>2, Zenon DEF TypeOK, Slot
<1>4. /\ frontier' \in SeqNum /\ lap' \in Nat
  BY DEF StepFrontier, TypeOK, SeqNum
<1>5. stats' \in Stats
  BY StatsBump, Zenon DEF Deliver, TypeOK
<1>6. out' \in Seq([lap : Nat, seq : SeqNum, record : Records])
  BY <1>1 DEF Deliver, TypeOK, Slot, k
<1>7. Live' = Live \ {k}
  BY <1>1, <1>2, <1>3 DEF Live, TypeOK, Slot
<1>8. /\ OccupiedCount' /\ occupied' \in Nat
  <2>1. Cardinality(Live \ {k}) = Cardinality(Live) - 1
    BY <1>1, LiveFinite, FS_RemoveElement, Zenon
  <2>2. Cardinality(Live \ {k}) \in Nat
    BY LiveFinite, FS_RemoveElement, FS_CardinalityType
  <2>3. occupied' = Cardinality(Live')
    BY <1>7, <2>1, Zenon DEF Deliver, OccupiedCount, Live
  <2> QED BY <2>2, <2>3, <1>7, Zenon DEF OccupiedCount, Live
<1>9. SlotsInWindow'
  <2> SUFFICES ASSUME NEW i \in 0..Window-1, buf'[i].occupied
               PROVE  /\ Index(buf'[i].seq) = i
                      /\ frontier' <= buf'[i].seq
                      /\ buf'[i].seq - frontier' < Window
    BY DEF SlotsInWindow, Index
  <2>1. i \in Live /\ i # k /\ buf'[i] = buf[i]
    BY <1>1, <1>2, <1>7 DEF Live, TypeOK
  <2>2. /\ Index(buf[i].seq) = i /\ buf[i].seq \in SeqNum
        /\ frontier <= buf[i].seq /\ buf[i].seq - frontier < Window
    BY <2>1 DEF SlotsInWindow, Live, TypeOK, Slot
  <2>3. buf[i].seq # frontier
    BY <2>1, <2>2 DEF k
  <2> QED BY <2>1, <2>2, <2>3, <1>1 DEF StepFrontier, SeqNum
<1> QED BY <1>3, <1>4, <1>5, <1>6, <1>8, <1>9

\* Giving the frontier up leaves the ring as it is; no live slot falls behind.
LEMMA GapRing ==
  ASSUME TypeOK, SlotsInWindow, ~Holds(frontier), DeclareGap, StepFrontier
  PROVE  /\ frontier' \in SeqNum /\ lap' \in Nat
         /\ stats' \in Stats
         /\ gapped' \in SUBSET (Nat \X SeqNum)
         /\ SlotsInWindow'
<1> USE MaxSeqAssumption
<1>1. /\ frontier' \in SeqNum /\ lap' \in Nat
  BY DEF StepFrontier, TypeOK, SeqNum
<1>2. stats' \in Stats
  BY StatsBump, Zenon DEF DeclareGap, TypeOK
<1>3. gapped' \in SUBSET (Nat \X SeqNum)
  BY DEF DeclareGap, TypeOK
<1>4. SlotsInWindow'
  <2> SUFFICES ASSUME NEW i \in 0..Window-1, buf[i].occupied
               PROVE  /\ Index(buf[i].seq) = i
                      /\ frontier' <= buf[i].seq
                      /\ buf[i].seq - frontier' < Window
    BY DEF SlotsInWindow, DeclareGap, Index
  <2>1. /\ Index(buf[i].seq) = i /\ buf[i].seq \in SeqNum /\ frontier \in SeqNum
        /\ frontier <= buf[i].seq /\ buf[i].seq - frontier < Window
    BY DEF SlotsInWindow, TypeOK, Slot
  <2>2. buf[i].seq # frontier
    BY <2>1 DEF Holds
  <2> QED BY <2>1, <2>2, WindowAssumption DEF StepFrontier, SeqNum
<1> QED BY <1>1, <1>2, <1>3, <1>4

\* Both advancing loops give the frontier up: what sits at the frontier was
\* released before, so the delivering branch of advance_frontier() is not
\* reached from either of them.
LEMMA AdvanceIsGap ==
  ASSUME RingInv, ForceAdvance \/ FlushAdvance
  PROVE  ~Holds(frontier) /\ DeclareGap /\ StepFrontier /\ pc' = "release"
BY DEF RingInv, FrontierFree, ForceAdvance, FlushAdvance, AdvanceFrontier

\* Every step preserves layer 1.
LEMMA RingStep == RingInv /\ [Next]_vars => RingInv'
<1> SUFFICES ASSUME RingInv, [Next]_vars
             PROVE  RingInv'
  OBVIOUS
<1> USE DEF RingInv
<1>0. SlotsInWindow /\ (Placing => frontier <= pkt.seq)
  BY DEF InWindow, SlotsInWindow
<1>0a. SlotsInWindow' /\ (Placing => frontier <= pkt.seq)' => InWindow'
  BY DEF InWindow, SlotsInWindow
<1>1. ASSUME NEW p \in Packet, Offer(p)
      PROVE  RingInv'
  <2> DEFINE f == Anchored(p.seq)
  <2>1. p.seq \in SeqNum /\ p.line \in Lines /\ p.record \in Records
    BY DEF Packet
  <2>2. f \in SeqNum
    BY <2>1 DEF Anchored, TypeOK
  <2>3. stats' \in Stats
    BY <1>1, <2>1, StatsBump, Zenon DEF Offer, TypeOK
  <2>4. TypeOK'
    BY <1>1, <2>1, <2>2, <2>3 DEF Offer, TypeOK
  <2>5. SlotsInWindow'
    BY <1>0, <1>1 DEF Offer, SlotsInWindow, Anchored, NotStarted, Live, Index
  <2>6. (Placing => frontier <= pkt.seq)'
    <3>1. pc = "idle" /\ frontier' = f
      BY <1>1 DEF Offer
    <3>2. pc' = "force" => pkt' = p /\ p.seq >= f
      BY <1>1 DEF Offer
    <3>3. pc' \in {"idle", "force"}
      BY <1>1 DEF Offer
    <3> QED BY <3>1, <3>2, <3>3, <2>1, <2>2, MaxSeqAssumption DEF Placing, SeqNum
  <2>7. OccupiedCount'
    BY <1>1 DEF Offer, OccupiedCount
  <2>8. NotStarted'
    BY <1>1 DEF Offer, NotStarted
  <2>9. FrontierFree'
    <3>1. p.seq \in Nat
      BY <2>1, MaxSeqAssumption DEF SeqNum
    <3>2. CASE started
      BY <1>1, <3>2 DEF Offer, FrontierFree, Holds, Anchored
    <3>3. CASE ~started
      BY <1>1, <3>1, <3>3, IndexRange
         DEF Offer, FrontierFree, Holds, Anchored, NotStarted, Live, Index
    <3> QED BY <3>2, <3>3
  <2>10. ForcedBelow'
    BY <1>1 DEF Offer, ForcedBelow
  <2> QED BY <1>0a, <2>4, <2>5, <2>6, <2>7, <2>8, <2>9, <2>10
<1>2. ASSUME ForceAdvance \/ FlushAdvance
      PROVE  RingInv'
  <2>1. ~Holds(frontier) /\ DeclareGap /\ StepFrontier /\ pc' = "release"
    BY <1>2, AdvanceIsGap
  <2>2. UNCHANGED <<buf, occupied, started, pkt, anchor, heard, offers, out>>
    BY <1>2, <2>1 DEF ForceAdvance, FlushAdvance, AdvanceFrontier, DeclareGap
  <2>3. after' \in {"force", "flush"} /\ (after' = "force" => ForceAdvance)
    BY <1>2 DEF ForceAdvance, FlushAdvance, AdvanceFrontier
  <2>4. TypeOK'
    BY <1>0, <2>1, <2>2, <2>3, GapRing DEF TypeOK
  <2>5. SlotsInWindow'
    BY <1>0, <2>1, GapRing
  <2>6. (Placing => frontier <= pkt.seq)'
    <3>1. pkt.seq \in Nat /\ frontier \in Nat
      BY MaxSeqAssumption DEF TypeOK, Packet, SeqNum
    <3>2. CASE after' = "force"
      <4>1. pkt.seq - frontier >= Window
        BY <2>3, <3>2 DEF ForceAdvance
      <4> QED BY <4>1, <2>1, <2>2, <3>1, WindowAssumption, MaxSeqAssumption DEF StepFrontier
    <3>3. CASE after' # "force"
      BY <3>3, <2>1 DEF Placing
    <3> QED BY <3>2, <3>3
  <2>7. OccupiedCount'
    BY <2>2 DEF OccupiedCount
  <2>8. NotStarted'
    <3>1. started
      <4>1. CASE ForceAdvance
        BY <4>1 DEF ForceAdvance, NotStarted
      <4>2. CASE FlushAdvance
        <5>1. occupied > 0 /\ occupied = Cardinality(Live)
          BY <4>2 DEF FlushAdvance, OccupiedCount, Live
        <5> QED BY <5>1, LiveFinite DEF NotStarted
      <4> QED BY <1>2, <4>1, <4>2
    <3> QED BY <3>1, <2>2 DEF NotStarted
  <2>9. FrontierFree'
    BY <2>1 DEF FrontierFree
  <2>10. ForcedBelow'
    <3> SUFFICES ASSUME after' = "force", NEW i \in Live
                 PROVE  buf[i].seq < pkt.seq
      BY <2>2 DEF ForcedBelow, Live
    <3>1. pkt.seq - frontier >= Window
      BY <2>3 DEF ForceAdvance
    <3>2. buf[i].seq - frontier < Window
      BY <1>0 DEF SlotsInWindow, Live
    <3>3. buf[i].seq \in Int /\ pkt.seq \in Int /\ frontier \in Int
      <4>1. SeqNum \subseteq Int
        BY MaxSeqAssumption DEF SeqNum
      <4>2. frontier \in SeqNum /\ pkt.seq \in SeqNum
        BY DEF TypeOK, Packet
      <4>3. buf[i].seq \in SeqNum
        BY DEF TypeOK, Slot, Live
      <4> QED
        BY <4>1, <4>2, <4>3, Zenon
    <3> QED BY <3>1, <3>2, <3>3, WindowAssumption
  <2> QED BY <1>0a, <2>4, <2>5, <2>6, <2>7, <2>8, <2>9, <2>10
<1>3. ASSUME Store
      PROVE  RingInv'
  <2> DEFINE k == Index(pkt.seq)
             noted == [stats EXCEPT !.max_reorder =
                         IF pkt.seq - frontier > @ THEN pkt.seq - frontier ELSE @]
  <2>1. /\ pkt.seq \in Nat /\ frontier \in Nat /\ frontier <= pkt.seq
        /\ pkt.seq \in SeqNum /\ pkt.line \in Lines /\ pkt.record \in Records
        /\ pkt.seq - frontier \in Nat /\ pkt.seq - frontier < Window
    BY <1>0, <1>3, MaxSeqAssumption DEF TypeOK, Packet, SeqNum, Store, Placing
  <2>2. k \in 0..Window-1
    BY <2>1, IndexRange
  <2>3. noted \in Stats
    <3>1. stats.max_reorder \in Nat
      BY DEF TypeOK, Stats
    <3> QED BY <3>1, <2>1, StatsBump, Zenon DEF TypeOK
  <2>4. started
    BY <1>3 DEF Store, NotStarted
  <2>5. CASE buf[k].occupied
    <3>1. stats' \in Stats
      <4>1. stats' = noted \/ stats' = [noted EXCEPT !.duplicates[pkt.line] = @ + 1]
        BY <1>3, <2>5 DEF Store
      <4> HIDE DEF noted
      <4> QED BY <4>1, <2>1, <2>3, StatsBump, Zenon
    <3>2. pc' = "idle" /\ UNCHANGED <<buf, occupied, after, frontier, started, pkt, history>>
      BY <1>3, <2>5 DEF Store
    <3>3. TypeOK'
      BY <3>1, <3>2 DEF TypeOK, history
    <3>4. InWindow'
      BY <3>2, <1>0 DEF InWindow, Placing, Index
    <3>5. OccupiedCount' /\ NotStarted' /\ FrontierFree' /\ ForcedBelow'
      BY <1>3, <3>2, <2>4
         DEF OccupiedCount, NotStarted, FrontierFree, ForcedBelow, Holds, Store, Index
    <3> QED BY <3>3, <3>4, <3>5
  <2>6. CASE ~buf[k].occupied
    <3>1. /\ stats' = noted /\ pc' = "release" /\ after' = "idle"
          /\ occupied' = occupied + 1
          /\ buf' = [buf EXCEPT ![k] =
                      [occupied |-> TRUE, seq |-> pkt.seq, record |-> pkt.record]]
          /\ UNCHANGED <<frontier, started, pkt, history>>
      BY <1>3, <2>6 DEF Store
    <3> HIDE DEF k, noted
    <3>2. buf' \in [0..Window-1 -> Slot]
      <4>1. [occupied |-> TRUE, seq |-> pkt.seq, record |-> pkt.record] \in Slot
        BY <2>1 DEF Slot
      <4> QED BY <4>1, <3>1, <2>2 DEF TypeOK
    <3>3. TypeOK'
      BY <3>1, <3>2, <2>3 DEF TypeOK, history
    <3>4. SlotsInWindow'
      <4> SUFFICES ASSUME NEW i \in 0..Window-1, buf'[i].occupied
                   PROVE  /\ Index(buf'[i].seq) = i
                          /\ frontier <= buf'[i].seq
                          /\ buf'[i].seq - frontier < Window
        BY <3>1 DEF SlotsInWindow, Index
      <4>1. CASE i = k
        BY <4>1, <3>1, <2>1, <2>2 DEF TypeOK, k
      <4>2. CASE i # k
        BY <4>2, <3>1, <1>0, <2>2 DEF TypeOK, SlotsInWindow
      <4> QED BY <4>1, <4>2
    <3>5. Live' = Live \cup {k} /\ k \notin Live
      BY <3>1, <2>2, <2>6 DEF Live, TypeOK
    <3>6. OccupiedCount'
      <4>1. Cardinality(Live \cup {k}) = Cardinality(Live) + 1
        BY <3>5, LiveFinite, FS_AddElement
      <4> QED BY <4>1, <3>1, <3>5, Zenon DEF OccupiedCount, Live
    <3>7. ~Placing' /\ FrontierFree' /\ NotStarted' /\ ForcedBelow'
      BY <3>1, <2>4 DEF Placing, FrontierFree, NotStarted, ForcedBelow
    <3> QED BY <1>0a, <3>3, <3>4, <3>6, <3>7
  <2> QED BY <2>5, <2>6
<1>4. ASSUME ReleaseOne
      PROVE  RingInv'
  <2>1. /\ Holds(frontier) /\ Deliver /\ StepFrontier /\ pc = "release"
        /\ UNCHANGED <<started, pc, after, pkt, anchor, heard, offers, gapped>>
    BY <1>4 DEF ReleaseOne, Deliver
  <2>2. TypeOK' /\ SlotsInWindow' /\ OccupiedCount'
    BY <1>0, <2>1, DeliverRing DEF TypeOK
  <2>3. started /\ NotStarted'
    BY <2>1 DEF NotStarted
  <2>4. FrontierFree'
    BY <2>1 DEF FrontierFree
  <2>5. Live' \subseteq Live /\ \A i \in Live' : buf'[i].seq = buf[i].seq
    BY <2>1 DEF Deliver, Live, TypeOK, Slot
  <2>6. ForcedBelow'
    BY <2>1, <2>5 DEF ForcedBelow
  <2>7. (Placing => frontier <= pkt.seq)'
    <3> SUFFICES ASSUME after = "force"
                 PROVE  frontier' <= pkt.seq
      BY <2>1 DEF Placing
    <3>1. Index(frontier) \in Live
      BY <2>1, IndexRange, MaxSeqAssumption DEF Holds, Live, TypeOK, SeqNum
    <3>2. frontier < pkt.seq
      BY <3>1, <2>1 DEF ForcedBelow, Holds
    <3> QED BY <3>2, <2>1, MaxSeqAssumption DEF StepFrontier, TypeOK, Packet, SeqNum
  <2> QED BY <1>0a, <2>2, <2>3, <2>4, <2>6, <2>7
<1>5. ASSUME ReleaseDone \/ Flush \/ FlushDone
      PROVE  RingInv'
  <2>1. UNCHANGED <<buf, frontier, occupied, started, stats, after, pkt, history>>
    BY <1>5 DEF ReleaseDone, Flush, FlushDone
  <2>2. /\ pc' \in {"idle", "flush", "force"}
        /\ pc' = "force" => Placing
        /\ pc = "release" => ~Holds(frontier)
        /\ pc' = "force" => pc = "release"
    BY <1>5 DEF ReleaseDone, Flush, FlushDone, TypeOK, Placing
  <2>3. TypeOK'
    BY <2>1, <2>2 DEF TypeOK, history
  <2>4. InWindow' /\ OccupiedCount'
    BY <1>0, <2>1, <2>2 DEF InWindow, OccupiedCount, Placing, Index
  <2>5. NotStarted' /\ FrontierFree' /\ ForcedBelow'
    BY <2>1, <2>2
       DEF NotStarted, FrontierFree, ForcedBelow, Holds, Index, Live, history
  <2> QED BY <2>3, <2>4, <2>5
<1>6. CASE UNCHANGED vars
  BY <1>6 DEF vars, state, history, TypeOK, InWindow, OccupiedCount, NotStarted,
              FrontierFree, ForcedBelow, Placing, Holds, Live, Index
<1> QED BY <1>1, <1>2, <1>3, <1>4, <1>5, <1>6 DEF Next, Step

\* Layer 1 holds in every reachable state.
THEOREM RingInvariant == Spec => []RingInv
BY InitRing, RingStep, PTL DEF Spec

\* Every variable stays within its type.
THEOREM TypeCorrect == Spec => []TypeOK
<1>1. RingInv => TypeOK
  BY DEF RingInv
<1> QED BY <1>1, RingInvariant, PTL

\* Live slots stay within a window of the frontier, occupied_ counts them, and
\* whatever is contiguous has been handed on when a call returns (offer and
\* flush, lines 76-142).
THEOREM RingCorrect == Spec => [](InWindow /\ OccupiedCount /\ PromptRelease)
<1>1. RingInv => InWindow /\ OccupiedCount /\ PromptRelease
  BY DEF RingInv, FrontierFree, PromptRelease
<1> QED BY <1>1, RingInvariant, PTL

\* Within a window, sharing a slot means being the same sequence.
LEMMA RingNoAlias == RingInv => NoAlias
<1> SUFFICES ASSUME RingInv, pc = "force", pkt.seq - frontier < Window,
                    buf[Index(pkt.seq)].occupied
             PROVE  buf[Index(pkt.seq)].seq = pkt.seq
  BY DEF NoAlias
<1> DEFINE k == Index(pkt.seq)
           q == buf[k].seq
<1>1. pkt.seq \in Nat /\ frontier \in Nat
  BY MaxSeqAssumption DEF RingInv, TypeOK, Packet, SeqNum
<1>2. k \in 0..Window-1
  BY <1>1, IndexRange
<1>3. q \in Nat
  BY <1>2, MaxSeqAssumption DEF RingInv, TypeOK, Slot, SeqNum
<1>4. /\ Index(q) = Index(pkt.seq) /\ frontier <= q /\ q - frontier < Window
      /\ frontier <= pkt.seq
  BY <1>2 DEF RingInv, InWindow, Placing
<1> HIDE DEF q, k
<1>5. CASE q <= pkt.seq
  BY <1>1, <1>3, <1>4, <1>5, IndexInjective, WindowAssumption DEF q, k
<1>6. CASE pkt.seq <= q
  BY <1>1, <1>3, <1>4, <1>6, IndexInjective, WindowAssumption DEF q, k
<1> QED BY <1>1, <1>3, <1>5, <1>6

\* The branch that would drop a packet because another sequence sits in its
\* slot is never taken (lines 120-126).
THEOREM NoAliasing == Spec => []NoAlias
<1> QED BY RingNoAlias, RingInvariant, PTL

\* flush() leaves no message in the ring (lines 135-142).
THEOREM FlushDrains == Spec => NothingStranded
<1>1. RingInv /\ [Next]_vars =>
        [FlushDone => \A i \in 0..Window-1 : ~buf[i].occupied]_vars
  <2> SUFFICES ASSUME RingInv, FlushDone
               PROVE  \A i \in 0..Window-1 : ~buf[i].occupied
    OBVIOUS
  <2>1. Cardinality(Live) = 0
    BY DEF RingInv, OccupiedCount, Live, FlushDone
  <2> QED BY <2>1, LiveFinite DEF Live
<1> QED BY <1>1, RingInvariant, PTL DEF Spec, NothingStranded

-----------------------------------------------------------------------------
(* Calls return: what is ahead of a running call shrinks with every step   *)

\* The sequences a running call may still step over: up to the packet in hand and up to
\* the last one buffered.
Todo ==
  {s \in SeqNum : /\ frontier <= s
                  /\ (Placing /\ s <= pkt.seq) \/ \E i \in Live : s <= buf[i].seq}

\* Steps left at one and the same frontier.
Rank == CASE pc = "idle" -> 0
          [] pc = "release" /\ after = "idle" -> 1
          [] pc \in {"force", "flush"} -> 2
          [] OTHER -> 3

Work == 4 * Cardinality(Todo) + Rank

\* Every step of a running call, whichever loop it is in, brings its end closer.
CallsAdvance == [][pc # "idle" => Work' < Work]_vars

\* "Bounded by kMaxGap" (line 110): the work ahead of a call never exceeds what the gap
\* limit and the window allow, however far ahead the packet and however long the stream.
WorkBounded == Work \in 0..(4 * (kMaxGap + Window) + 3)

\* The gap limit bounds the distance to the packet in hand.
InReach == Placing => pkt.seq - frontier <= kMaxGap

\* The work ahead is a finite set of sequences.
LEMMA TodoFinite ==
  /\ IsFiniteSet(Todo) /\ Cardinality(Todo) \in Nat /\ Rank \in 0..3
<1>1. IsFiniteSet(SeqNum)
  BY FS_Interval, MaxSeqAssumption DEF SeqNum
<1>2. IsFiniteSet(Todo)
  BY <1>1, FS_Subset, Zenon DEF Todo
<1> QED
  BY <1>2, FS_CardinalityType DEF Rank

\* What loses an element gets smaller.
LEMMA FewerLeft ==
  ASSUME NEW A, IsFiniteSet(A), NEW x \in A, NEW B, B \subseteq A \ {x}
  PROVE  Cardinality(B) < Cardinality(A)
<1>1. IsFiniteSet(A \ {x}) /\ Cardinality(A \ {x}) = Cardinality(A) - 1
  BY FS_RemoveElement
<1>2. IsFiniteSet(B) /\ Cardinality(B) <= Cardinality(A \ {x})
  BY <1>1, FS_Subset
<1> QED
  BY <1>1, <1>2, FS_CardinalityType

\* A step of the frontier takes the frontier off the work ahead and adds nothing, also
\* when it wraps.
LEMMA FrontierWork ==
  ASSUME TypeOK, SlotsInWindow, StepFrontier,
         \A i \in Live' : i \in Live /\ buf'[i].seq = buf[i].seq /\ buf[i].seq # frontier,
         Placing' => Placing /\ pkt' = pkt /\ frontier < pkt.seq
  PROVE  Todo' \subseteq Todo \ {frontier}
<1> SUFFICES ASSUME NEW s \in Todo' PROVE s \in Todo /\ s # frontier
  OBVIOUS
<1>1. /\ s \in SeqNum /\ frontier' <= s
      /\ (Placing' /\ s <= pkt'.seq) \/ \E i \in Live' : s <= buf'[i].seq
  BY DEF Todo
<1>2. frontier \in Nat /\ frontier <= MaxSeq /\ s \in Nat /\ s <= MaxSeq
  BY MaxSeqAssumption, <1>1 DEF TypeOK, SeqNum
<1>3. CASE Placing' /\ s <= pkt'.seq
  <2>1. Placing /\ s <= pkt.seq /\ frontier < pkt.seq /\ pkt.seq \in Nat /\ pkt.seq <= MaxSeq
    BY <1>3, MaxSeqAssumption DEF TypeOK, Packet, SeqNum
  <2>2. frontier' = frontier + 1
    BY <2>1, <1>2 DEF StepFrontier
  <2>3. frontier <= s /\ s # frontier
    BY <1>1, <1>2, <2>2
  <2> QED
    BY <1>1, <2>1, <2>3 DEF Todo
<1>4. ASSUME NEW i \in Live', s <= buf'[i].seq PROVE s \in Todo /\ s # frontier
  <2>1. i \in Live /\ s <= buf[i].seq /\ buf[i].seq # frontier
    BY <1>4
  <2>2. frontier <= buf[i].seq /\ buf[i].seq \in Nat /\ buf[i].seq <= MaxSeq
    <3>1. frontier <= buf[i].seq
      BY <2>1, Zenon DEF SlotsInWindow, Live
    <3>2. buf[i].seq \in SeqNum
      BY <2>1 DEF TypeOK, Slot, Live
    <3>3. SeqNum \subseteq Nat /\ \A q \in SeqNum : q <= MaxSeq
      BY MaxSeqAssumption DEF SeqNum
    <3> QED
      BY <3>1, <3>2, <3>3, Zenon
  <2>3. frontier' = frontier + 1
    BY <2>1, <2>2, <1>2 DEF StepFrontier
  <2>4. frontier <= s /\ s # frontier
    BY <1>1, <1>2, <2>3
  <2> QED
    BY <1>1, <2>1, <2>4 DEF Todo
<1> QED
  BY <1>1, <1>3, <1>4

\* Less to step over is less work, whatever the place in the code.
LEMMA LessToDo ==
  ASSUME frontier \in Todo, Todo' \subseteq Todo \ {frontier}
  PROVE  Work' < Work
<1>1. Cardinality(Todo') < Cardinality(Todo)
  BY FewerLeft, TodoFinite
<1>2. IsFiniteSet(Todo) /\ IsFiniteSet(Todo')
  BY TodoFinite, FS_RemoveElement, FS_Subset
<1>3. Cardinality(Todo) \in Nat /\ Cardinality(Todo') \in Nat
  BY <1>2, FS_CardinalityType
<1>4. Rank \in 0..3 /\ Rank' \in 0..3
  BY DEF Rank
<1> QED
  BY <1>1, <1>3, <1>4 DEF Work

\* The same to step over from a place nearer the end of the call is less work.
LEMMA NearerTheEnd ==
  ASSUME Todo' \subseteq Todo, Rank' < Rank
  PROVE  Work' < Work
<1>1. IsFiniteSet(Todo) /\ IsFiniteSet(Todo') /\ Cardinality(Todo') <= Cardinality(Todo)
  BY TodoFinite, FS_Subset
<1>2. Cardinality(Todo) \in Nat /\ Cardinality(Todo') \in Nat
  BY <1>1, FS_CardinalityType
<1>3. Rank \in 0..3 /\ Rank' \in 0..3
  BY DEF Rank
<1> QED
  BY <1>1, <1>2, <1>3 DEF Work

\* Each step of a call does less than was left.
LEMMA StepWork ==
  ASSUME RingInv, Next, pc # "idle"
  PROVE  Work' < Work
<1>0. TypeOK /\ SlotsInWindow /\ (Placing => frontier <= pkt.seq)
  BY DEF RingInv, InWindow, SlotsInWindow
<1>0a. /\ frontier \in Nat /\ pkt.seq \in Nat /\ frontier \in SeqNum /\ pkt.seq \in SeqNum
       /\ pc \in {"force", "release", "flush"} /\ after \in {"idle", "force", "flush"}
  BY <1>0, MaxSeqAssumption DEF TypeOK, Packet, SeqNum
<1>1. CASE ForceAdvance \/ FlushAdvance
  <2>1. ~Holds(frontier) /\ StepFrontier /\ pc' = "release" /\ UNCHANGED <<buf, pkt>>
    BY <1>1, AdvanceIsGap DEF DeclareGap, ForceAdvance, FlushAdvance, AdvanceFrontier
  <2>2. Live' = Live
    BY <2>1 DEF Live
  <2>3. \A i \in Live' : i \in Live /\ buf'[i].seq = buf[i].seq /\ buf[i].seq # frontier
    BY <2>1, <2>2, <1>0, HoldsFrontier DEF RingInv
  <2>4. Placing' => Placing /\ pkt' = pkt /\ frontier < pkt.seq
    <3>1. Placing' => ForceAdvance
      BY <1>1, <2>1 DEF Placing, ForceAdvance, FlushAdvance, AdvanceFrontier
    <3>2. ForceAdvance => pc = "force" /\ pkt.seq - frontier >= Window
      BY DEF ForceAdvance
    <3> QED
      BY <2>1, <3>1, <3>2, <1>0a, WindowAssumption DEF Placing
  <2>5. frontier \in Todo
    <3>1. CASE ForceAdvance
      BY <3>1, <1>0, <1>0a DEF ForceAdvance, Placing, Todo
    <3>2. CASE FlushAdvance
      <4>1. Cardinality(Live) > 0
        BY <3>2 DEF FlushAdvance, RingInv, OccupiedCount, Live
      <4>2. PICK i \in Live : TRUE
        BY <4>1, LiveFinite
      <4> QED
        BY <1>0, <1>0a, <4>2 DEF Todo, SlotsInWindow, Live
    <3> QED
      BY <1>1, <3>1, <3>2
  <2> QED
    BY <1>0, <2>1, <2>3, <2>4, <2>5, FrontierWork, LessToDo
<1>2. CASE ReleaseOne
  <2> DEFINE k == Index(frontier)
  <2>1. /\ pc = "release" /\ Holds(frontier) /\ StepFrontier /\ UNCHANGED <<pc, after, pkt>>
        /\ buf' = [buf EXCEPT ![k].occupied = FALSE]
    BY <1>2 DEF ReleaseOne, Deliver
  <2>2. k \in 0..Window-1 /\ k \in Live /\ buf[k].seq = frontier
    BY <2>1, <1>0a, IndexRange DEF Holds, Live
  <2>3. ASSUME NEW i \in Live'
        PROVE  i \in Live /\ buf'[i].seq = buf[i].seq /\ buf[i].seq # frontier
    <3>1. i \in 0..Window-1 /\ buf'[i].occupied
      BY DEF Live
    <3>2. i # k
      BY <2>1, <2>2, <3>1, <1>0 DEF TypeOK, Slot
    <3>3. buf'[i] = buf[i]
      BY <2>1, <3>1, <3>2, <1>0 DEF TypeOK
    <3>4. Index(buf[i].seq) = i
      BY <1>0, <3>1, <3>3 DEF SlotsInWindow
    <3> QED
      BY <3>1, <3>2, <3>3, <3>4 DEF Live
  <2>4. Placing' => Placing /\ pkt' = pkt /\ frontier < pkt.seq
    BY <2>1, <2>2 DEF Placing, RingInv, ForcedBelow
  <2>5. frontier \in Todo
    BY <1>0a, <2>2 DEF Todo
  <2> HIDE DEF k
  <2> QED
    BY <1>0, <2>1, <2>3, <2>4, <2>5, FrontierWork, LessToDo
<1>3. CASE ReleaseDone
  <2>1. pc = "release" /\ pc' = after /\ UNCHANGED <<buf, frontier, pkt, after>>
    BY <1>3 DEF ReleaseDone
  <2>2. Live' = Live /\ (Placing' => Placing)
    BY <2>1 DEF Live, Placing
  <2>3. Todo' \subseteq Todo
    BY <2>1, <2>2 DEF Todo
  <2>4. Rank' < Rank
    BY <2>1, <1>0a DEF Rank
  <2> QED
    BY <2>3, <2>4, NearerTheEnd
<1>4. CASE Store
  <2> DEFINE k == Index(pkt.seq)
  <2>1. /\ pc = "force" /\ UNCHANGED <<frontier, pkt>>
        /\ \/ pc' = "idle" /\ UNCHANGED buf
           \/ /\ pc' = "release" /\ after' = "idle"
              /\ buf' = [buf EXCEPT ![k] =
                          [occupied |-> TRUE, seq |-> pkt.seq, record |-> pkt.record]]
    BY <1>4 DEF Store
  <2>2. ~Placing' /\ Placing /\ Rank' < Rank
    BY <2>1 DEF Placing, Rank
  <2> HIDE DEF k
  <2>4. ASSUME NEW i \in Live'
        PROVE  buf'[i].seq = pkt.seq \/ (i \in Live /\ buf'[i].seq = buf[i].seq)
    <3>1. i \in 0..Window-1 /\ buf'[i].occupied
      BY DEF Live
    <3>2. CASE UNCHANGED buf
      BY <3>1, <3>2 DEF Live
    <3>3. CASE buf' = [buf EXCEPT ![k] =
                        [occupied |-> TRUE, seq |-> pkt.seq, record |-> pkt.record]]
      <4>1. buf'[i] = IF i = k THEN [occupied |-> TRUE, seq |-> pkt.seq, record |-> pkt.record]
                      ELSE buf[i]
        BY <3>1, <3>3, <1>0 DEF TypeOK
      <4> QED
        BY <3>1, <4>1 DEF Live
    <3> QED
      BY <2>1, <3>2, <3>3
  <2>5. Todo' \subseteq Todo
    <3> SUFFICES ASSUME NEW s \in Todo' PROVE s \in Todo
      OBVIOUS
    <3>1. s \in SeqNum /\ frontier <= s
      BY <2>1 DEF Todo
    <3>2. PICK i \in Live' : s <= buf'[i].seq
      BY <2>2 DEF Todo
    <3> QED
      BY <2>2, <2>4, <3>1, <3>2 DEF Todo
  <2> QED
    BY <2>2, <2>5, NearerTheEnd
<1>5. CASE FlushDone
  <2>1. pc = "flush" /\ pc' = "idle" /\ UNCHANGED <<buf, frontier, pkt>>
    BY <1>5 DEF FlushDone
  <2>2. Live' = Live /\ ~Placing' /\ Rank' < Rank
    BY <2>1 DEF Live, Placing, Rank
  <2>3. Todo' \subseteq Todo
    BY <2>1, <2>2 DEF Todo
  <2> QED
    BY <2>2, <2>3, NearerTheEnd
<1> QED
  BY <1>1, <1>2, <1>3, <1>4, <1>5 DEF Next, Step, Offer, Flush

\* A running call comes to its end: each step of offer() and flush(), in the forced
\* advance, the release loop and the flush loop alike, leaves strictly less to do
\* (lines 108-173).
THEOREM CallsComeToEnd == Spec => CallsAdvance
<1>1. RingInv /\ [Next]_vars => [pc # "idle" => Work' < Work]_vars
  BY StepWork
<1> QED
  BY <1>1, RingInvariant, PTL DEF Spec, CallsAdvance

\* The packet in hand stays within the gap limit: the frontier only comes nearer.
LEMMA ReachStep == RingInv /\ InReach /\ [Next]_vars => InReach'
<1> SUFFICES ASSUME RingInv, InReach, [Next]_vars, Placing'
             PROVE  pkt'.seq - frontier' <= kMaxGap
  BY DEF InReach
<1>0. /\ frontier \in Nat /\ frontier <= MaxSeq /\ pkt.seq \in Nat /\ pkt.seq <= MaxSeq
      /\ after \in {"idle", "force", "flush"} /\ MaxSeq \in Nat /\ kMaxGap \in Nat
  BY MaxSeqAssumption, kMaxGapAssumption DEF RingInv, TypeOK, Packet, SeqNum
<1>1. ASSUME NEW p \in Packet, Offer(p) PROVE pkt'.seq - frontier' <= kMaxGap
  BY <1>1 DEF Offer, Placing
<1>2. CASE ForceAdvance \/ FlushAdvance \/ ReleaseOne
  <2>1. Placing /\ frontier < pkt.seq /\ UNCHANGED pkt /\ StepFrontier
    <3>1. CASE ForceAdvance
      BY <3>1, <1>0, WindowAssumption DEF ForceAdvance, AdvanceFrontier, Placing
    <3>2. CASE FlushAdvance
      BY <3>2 DEF FlushAdvance, AdvanceFrontier, Placing
    <3>3. CASE ReleaseOne
      <4>1. /\ pc = "release" /\ Holds(frontier) /\ StepFrontier /\ UNCHANGED <<pc, after, pkt>>
        BY <3>3 DEF ReleaseOne
      <4>2. Index(frontier) \in Live /\ buf[Index(frontier)].seq = frontier
        BY <4>1, <1>0, IndexRange DEF Holds, Live
      <4> QED
        BY <4>1, <4>2 DEF Placing, RingInv, ForcedBelow
    <3> QED
      BY <1>2, <3>1, <3>2, <3>3
  <2>2. pkt.seq - frontier <= kMaxGap
    BY <2>1 DEF InReach
  <2> QED
    BY <2>1, <2>2, <1>0 DEF StepFrontier
<1>3. CASE ReleaseDone \/ Store \/ FlushDone \/ Flush \/ UNCHANGED vars
  <2>1. UNCHANGED <<frontier, pkt>> /\ Placing
    BY <1>0, <1>3 DEF ReleaseDone, Store, FlushDone, Flush, Placing, vars, state
  <2> QED
    BY <2>1 DEF InReach
<1> QED
  BY <1>1, <1>2, <1>3 DEF Next, Step

\* A packet within the limit and slots within the window leave so much to do at most.
LEMMA ReachBounds == RingInv /\ InReach => WorkBounded
<1> SUFFICES ASSUME RingInv, InReach PROVE WorkBounded
  OBVIOUS
<1> DEFINE top == frontier + kMaxGap + Window - 1
<1>0. /\ frontier \in Nat /\ pkt.seq \in Nat /\ Window \in Nat /\ Window >= 2 /\ kMaxGap \in Nat
  BY MaxSeqAssumption, kMaxGapAssumption, WindowAssumption DEF RingInv, TypeOK, Packet, SeqNum
<1>1. ASSUME NEW s \in Todo PROVE s \in frontier..top
  <2>1. s \in Nat /\ frontier <= s
    BY MaxSeqAssumption DEF Todo, SeqNum
  <2>2. CASE Placing /\ s <= pkt.seq
    BY <1>0, <2>1, <2>2 DEF InReach
  <2>3. ASSUME NEW i \in Live, s <= buf[i].seq PROVE s \in frontier..top
    <3>1. buf[i].seq - frontier < Window /\ buf[i].seq \in Nat
      BY MaxSeqAssumption DEF RingInv, InWindow, Live, TypeOK, Slot, SeqNum
    <3> QED
      BY <1>0, <2>1, <2>3, <3>1
  <2> QED
    BY <2>2, <2>3 DEF Todo
<1>2. IsFiniteSet(frontier..top) /\ Cardinality(frontier..top) = kMaxGap + Window
  <2>1. top \in Int /\ frontier \in Int /\ ~(frontier > top) /\ top - frontier + 1 = kMaxGap + Window
    BY <1>0
  <2> HIDE DEF top
  <2> QED
    BY <2>1, FS_Interval
<1> HIDE DEF top
<1>3. Cardinality(Todo) <= kMaxGap + Window
  BY <1>1, <1>2, FS_Subset, Zenon
<1>4. Cardinality(Todo) \in Nat /\ Rank \in 0..3
  BY TodoFinite
<1> QED
  BY <1>0, <1>3, <1>4 DEF WorkBounded, Work

\* The number of steps of any call is bounded by the gap limit and the window alone: no
\* packet, however far ahead, makes offer() run through the hole up to it (lines 97-113).
THEOREM CallsBounded == Spec => []WorkBounded
<1>1. Init => InReach
  BY DEF Init, InReach, Placing
<1> QED
  BY <1>1, ReachStep, ReachBounds, RingInvariant, PTL DEF Spec

-----------------------------------------------------------------------------
(* Layer 2: what the sink received and what was declared lost              *)

\* Everything handed on or given up lies behind the frontier.
BehindFrontier ==
  /\ \A i \in 1..Len(out) : \/ out[i].lap < lap
                            \/ out[i].lap = lap /\ out[i].seq < frontier
  /\ \A g \in gapped : g[1] < lap \/ (g[1] = lap /\ g[2] < frontier)
  /\ lap > 0 \/ anchor <= frontier

\* What waits in a slot, or is being placed, was heard under its sequence.
SlotsHeard ==
  /\ \A i \in Live : <<buf[i].seq, buf[i].record>> \in heard
  /\ Placing => <<pkt.seq, pkt.record>> \in heard

LogInv == /\ BehindFrontier /\ InOrder /\ ExactlyOnce
          /\ SlotsHeard /\ Integrity /\ GapsBelowHeard

\* The initial state satisfies layer 2.
LEMMA InitLog == Init => LogInv
<1> SUFFICES ASSUME Init PROVE LogInv
  OBVIOUS
<1> USE DEF Init
<1>1. Live = {}
  BY DEF Live, EmptySlot
<1>2. BehindFrontier /\ InOrder /\ Integrity /\ GapsBelowHeard
  BY DEF BehindFrontier, InOrder, Integrity, GapsBelowHeard
<1>3. SlotsHeard
  BY <1>1 DEF SlotsHeard, Placing
<1>4. ExactlyOnce
  BY MaxSeqAssumption DEF ExactlyOnce, Passed, Released, SeqNum
<1> QED BY <1>2, <1>3, <1>4 DEF LogInv

\* A step of the frontier passes exactly the sequence it stood on, and neither
\* that sequence nor anything of a later lap had been accounted for.
LEMMA PassOne ==
  ASSUME RingInv, LogInv, StepFrontier, anchor' = anchor,
         NEW l \in 0..lap', NEW s \in SeqNum
  PROVE  /\ Passed(l, s)' <=> Passed(l, s) \/ (l = lap /\ s = frontier)
         /\ ~Passed(l, s) => ~Released(l, s) /\ <<l, s>> \notin gapped
         /\ Passed(l, s) => /\ Released(l, s) \/ <<l, s>> \in gapped
                            /\ ~(Released(l, s) /\ <<l, s>> \in gapped)
         /\ ~Passed(lap, frontier)
<1>1. /\ lap \in Nat /\ frontier \in Nat /\ MaxSeq \in Nat /\ anchor \in Nat
      /\ frontier <= MaxSeq /\ s \in Nat /\ s <= MaxSeq /\ l \in Nat
  BY MaxSeqAssumption DEF RingInv, TypeOK, SeqNum, StepFrontier
<1>2. \/ lap' = lap /\ frontier' = frontier + 1 /\ frontier < MaxSeq
      \/ lap' = lap + 1 /\ frontier' = 0 /\ frontier = MaxSeq
  BY <1>1 DEF StepFrontier
<1>3. Passed(l, s)' <=> Passed(l, s) \/ (l = lap /\ s = frontier)
  BY <1>1, <1>2 DEF Passed, LogInv, BehindFrontier
<1>4. CASE l \in 0..lap
  BY <1>1, <1>3, <1>4 DEF LogInv, ExactlyOnce, Passed
<1>5. CASE l = lap + 1
  <2>1. ~Passed(l, s) /\ ~Passed(lap, frontier)
    BY <1>1, <1>5 DEF Passed
  <2>2. ~Released(l, s)
    BY <1>1, <1>5 DEF LogInv, BehindFrontier, Released
  <2>3. <<l, s>> \notin gapped
    BY <1>1, <1>5 DEF LogInv, BehindFrontier
  <2> QED BY <1>3, <2>1, <2>2, <2>3
<1> QED BY <1>1, <1>2, <1>4, <1>5

\* One message is handed on: the log grows by the frontier, in order.
LEMMA DeliverLog ==
  ASSUME RingInv, LogInv, Holds(frontier), Deliver, StepFrontier,
         UNCHANGED <<anchor, heard>>
  PROVE  /\ BehindFrontier' /\ InOrder' /\ ExactlyOnce'
         /\ Integrity' /\ GapsBelowHeard'
<1> DEFINE e == [lap |-> lap, seq |-> frontier, record |-> buf[Index(frontier)].record]
<1>1. out' = Append(out, e) /\ gapped' = gapped
  BY DEF Deliver
<1>2. /\ lap \in Nat /\ frontier \in SeqNum /\ frontier \in Nat /\ MaxSeq \in Nat
      /\ frontier <= MaxSeq
      /\ out \in Seq([lap : Nat, seq : SeqNum, record : Records])
      /\ gapped \in SUBSET (Nat \X SeqNum)
  BY MaxSeqAssumption DEF RingInv, TypeOK, SeqNum
<1>3. /\ Len(out') = Len(out) + 1 /\ Len(out) \in Nat
      /\ out'[Len(out) + 1] = e
      /\ \A i \in 1..Len(out) : out'[i] = out[i]
  BY <1>1, <1>2
<1>4. \A i \in 1..Len(out) : out[i].lap \in Nat /\ out[i].seq \in SeqNum
  <2>1. \A i \in 1..Len(out) : out[i] \in [lap : Nat, seq : SeqNum, record : Records]
    <3>1. \A S, q : q \in Seq(S) => \A i \in 1..Len(q) : q[i] \in S
      OBVIOUS
    <3> QED
      BY <1>2, <3>1, Zenon
  <2> QED BY <2>1
<1>5. /\ e.lap = lap /\ e.seq = frontier
  OBVIOUS
<1>6. \/ lap' = lap /\ frontier' = frontier + 1 /\ frontier < MaxSeq
      \/ lap' = lap + 1 /\ frontier' = 0 /\ frontier = MaxSeq
  BY <1>2 DEF StepFrontier
<1>7. <<frontier, e.record>> \in heard
  <2>1. Index(frontier) \in Live
    BY <1>2, IndexRange DEF Holds, Live
  <2> QED BY <2>1 DEF LogInv, SlotsHeard, Holds
<1> HIDE DEF e
<1>8. BehindFrontier'
  <2>1. ASSUME NEW i \in 1..Len(out')
        PROVE  out'[i].lap < lap' \/ (out'[i].lap = lap' /\ out'[i].seq < frontier')
    <3>1. CASE i \in 1..Len(out)
      <4>1. /\ out'[i] = out[i] /\ out[i].lap \in Nat /\ out[i].seq \in Nat
            /\ out[i].lap < lap \/ (out[i].lap = lap /\ out[i].seq < frontier)
        BY <3>1, <1>3, <1>4 DEF LogInv, BehindFrontier, SeqNum
      <4>2. \A x, y, l, f \in Nat : x < l \/ (x = l /\ y < f) =>
              x < l + 1 /\ (x < l \/ (x = l /\ y < f + 1))
        OBVIOUS
      <4>3. PICK x \in Nat, y \in Nat : x = out[i].lap /\ y = out[i].seq
        BY <4>1
      <4>4. x < lap + 1 /\ (x < lap \/ (x = lap /\ y < frontier + 1))
        BY <4>1, <4>2, <4>3, <1>2
      <4> QED BY <4>1, <4>3, <4>4, <1>6
    <3>2. CASE i = Len(out) + 1
      BY <3>2, <1>2, <1>3, <1>5, <1>6
    <3> QED BY <3>1, <3>2, <1>3
  <2>2. ASSUME NEW g \in gapped
        PROVE  g[1] < lap' \/ (g[1] = lap' /\ g[2] < frontier')
    <3>1. g[1] \in Nat /\ g[2] \in Nat
      BY <1>2 DEF SeqNum
    <3> QED BY <3>1, <1>2, <1>6 DEF LogInv, BehindFrontier
  <2>3. lap' > 0 \/ anchor <= frontier'
    BY <1>2, <1>6 DEF LogInv, BehindFrontier, RingInv, TypeOK, SeqNum
  <2> QED BY <2>1, <2>2, <2>3, <1>1 DEF BehindFrontier
<1>9. InOrder'
  <2> SUFFICES ASSUME NEW i \in 1..Len(out'), NEW j \in 1..Len(out'), i < j
               PROVE  Earlier(out'[i], out'[j])
    BY DEF InOrder, Earlier
  <2>1. i \in 1..Len(out)
    BY <1>3
  <2>2. CASE j \in 1..Len(out)
    BY <2>1, <2>2, <1>3 DEF LogInv, InOrder
  <2>3. CASE j = Len(out) + 1
    BY <2>1, <2>3, <1>3, <1>5 DEF LogInv, BehindFrontier, Earlier
  <2> QED BY <2>2, <2>3, <1>3
<1>10. Integrity'
  <2> SUFFICES ASSUME NEW i \in 1..Len(out')
               PROVE  <<out'[i].seq, out'[i].record>> \in heard
    BY DEF Integrity
  <2>1. CASE i \in 1..Len(out)
    BY <2>1, <1>3 DEF LogInv, Integrity
  <2>2. CASE i = Len(out) + 1
    BY <2>2, <1>3, <1>5, <1>7
  <2> QED BY <2>1, <2>2, <1>3
<1>11. GapsBelowHeard'
  BY <1>1 DEF LogInv, GapsBelowHeard
<1>12. ExactlyOnce'
  <2> SUFFICES ASSUME NEW l \in 0..lap', NEW s \in SeqNum
               PROVE  /\ Passed(l, s)' <=> (Released(l, s)' \/ <<l, s>> \in gapped)
                      /\ ~(Released(l, s)' /\ <<l, s>> \in gapped)
    BY <1>1 DEF ExactlyOnce
  <2>1. Released(l, s)' <=> Released(l, s) \/ (l = lap /\ s = frontier)
    <3>1. Released(l, s)' <=> \E i \in 1..Len(out') : out'[i].lap = l /\ out'[i].seq = s
      BY DEF Released
    <3>2. 1..Len(out') = 1..Len(out) \cup {Len(out) + 1}
      BY <1>3
    <3> QED BY <3>1, <3>2, <1>3, <1>5 DEF Released
  <2> QED BY <2>1, PassOne
<1> QED BY <1>8, <1>9, <1>10, <1>11, <1>12

\* One sequence is given up: the gap log grows by the frontier, below h, a
\* sequence that was heard.
LEMMA GapLog ==
  ASSUME RingInv, LogInv, DeclareGap, StepFrontier,
         UNCHANGED <<anchor, heard>>,
         NEW h \in heard, frontier < h[1]
  PROVE  /\ BehindFrontier' /\ InOrder' /\ ExactlyOnce'
         /\ Integrity' /\ GapsBelowHeard'
<1>1. out' = out /\ gapped' = gapped \cup {<<lap, frontier>>}
  BY DEF DeclareGap
<1>2. /\ lap \in Nat /\ frontier \in SeqNum /\ frontier \in Nat /\ MaxSeq \in Nat
      /\ frontier <= MaxSeq
      /\ out \in Seq([lap : Nat, seq : SeqNum, record : Records])
      /\ gapped \in SUBSET (Nat \X SeqNum)
  BY MaxSeqAssumption DEF RingInv, TypeOK, SeqNum
<1>3. \A i \in 1..Len(out) : out[i].lap \in Nat /\ out[i].seq \in SeqNum
  <2>1. \A i \in 1..Len(out) : out[i] \in [lap : Nat, seq : SeqNum, record : Records]
    <3>1. \A S, q : q \in Seq(S) => \A i \in 1..Len(q) : q[i] \in S
      OBVIOUS
    <3> QED
      BY <1>2, <3>1, Zenon
  <2> QED BY <2>1
<1>4. \/ lap' = lap /\ frontier' = frontier + 1 /\ frontier < MaxSeq
      \/ lap' = lap + 1 /\ frontier' = 0 /\ frontier = MaxSeq
  BY <1>2 DEF StepFrontier
<1>5. BehindFrontier'
  <2>1. ASSUME NEW i \in 1..Len(out)
        PROVE  out[i].lap < lap' \/ (out[i].lap = lap' /\ out[i].seq < frontier')
    <3>1. /\ out[i].lap \in Nat /\ out[i].seq \in Nat
          /\ out[i].lap < lap \/ (out[i].lap = lap /\ out[i].seq < frontier)
      BY <1>3 DEF LogInv, BehindFrontier, SeqNum
    <3> QED BY <3>1, <1>2, <1>4
  <2>2. ASSUME NEW g \in gapped'
        PROVE  g[1] < lap' \/ (g[1] = lap' /\ g[2] < frontier')
    <3>1. CASE g \in gapped
      <4>1. g[1] \in Nat /\ g[2] \in Nat
        BY <3>1, <1>2 DEF SeqNum
      <4> QED BY <3>1, <4>1, <1>2, <1>4 DEF LogInv, BehindFrontier
    <3>2. CASE g = <<lap, frontier>>
      BY <3>2, <1>2, <1>4
    <3> QED BY <3>1, <3>2, <1>1
  <2>3. lap' > 0 \/ anchor <= frontier'
    BY <1>2, <1>4 DEF LogInv, BehindFrontier, RingInv, TypeOK, SeqNum
  <2> QED BY <2>1, <2>2, <2>3, <1>1 DEF BehindFrontier
<1>6. InOrder' /\ Integrity'
  BY <1>1 DEF LogInv, InOrder, Integrity, Earlier
<1>7. GapsBelowHeard'
  <2>1. ASSUME NEW g \in gapped' PROVE \E x \in heard : g[2] < x[1]
    <3>1. CASE g \in gapped
      BY <3>1 DEF LogInv, GapsBelowHeard
    <3>2. CASE g = <<lap, frontier>>
      BY <3>2
    <3> QED BY <3>1, <3>2, <1>1
  <2> QED BY <2>1 DEF GapsBelowHeard
<1>8. ExactlyOnce'
  <2> SUFFICES ASSUME NEW l \in 0..lap', NEW s \in SeqNum
               PROVE  /\ Passed(l, s)' <=> (Released(l, s) \/ <<l, s>> \in gapped')
                      /\ ~(Released(l, s) /\ <<l, s>> \in gapped')
    BY <1>1 DEF ExactlyOnce, Released
  <2>1. <<l, s>> \in gapped' <=> <<l, s>> \in gapped \/ (l = lap /\ s = frontier)
    BY <1>1
  <2> QED BY <2>1, PassOne
<1> QED BY <1>5, <1>6, <1>7, <1>8

\* When a sequence is given up a later one has been heard: the packet that forces the
\* advance, or one that flush() finds in a slot.
LEMMA HeardAhead ==
  ASSUME RingInv, SlotsHeard, ForceAdvance \/ FlushAdvance
  PROVE  \E h \in heard : frontier < h[1]
<1>1. CASE ForceAdvance
  <2>1. <<pkt.seq, pkt.record>> \in heard
    BY <1>1 DEF ForceAdvance, SlotsHeard, Placing
  <2>2. frontier < pkt.seq
    BY <1>1, WindowAssumption, MaxSeqAssumption
       DEF ForceAdvance, RingInv, TypeOK, Packet, SeqNum
  <2> QED BY <2>1, <2>2
<1>2. CASE FlushAdvance
  <2>1. Cardinality(Live) > 0
    BY <1>2 DEF FlushAdvance, RingInv, OccupiedCount, Live
  <2>2. PICK i \in Live : TRUE
    BY <2>1, LiveFinite
  <2>3. <<buf[i].seq, buf[i].record>> \in heard
    BY <2>2 DEF SlotsHeard
  <2>4. buf[i].seq # frontier
    BY <2>2, AdvanceIsGap, HoldsFrontier DEF RingInv
  <2>5. frontier <= buf[i].seq
    BY <2>2 DEF RingInv, InWindow, Live
  <2>6. frontier < buf[i].seq
    <3>1. buf[i] \in Slot /\ frontier \in SeqNum
      BY <2>2 DEF RingInv, TypeOK, Live
    <3>2. buf[i].seq \in Int /\ frontier \in Int
      BY <3>1, MaxSeqAssumption DEF Slot, SeqNum
    <3> QED BY <3>2, <2>4, <2>5
  <2> QED BY <2>3, <2>6
<1> QED BY <1>1, <1>2

\* Every step preserves layer 2.
LEMMA LogStep == RingInv /\ LogInv /\ [Next]_vars => LogInv'
<1> SUFFICES ASSUME RingInv, LogInv, [Next]_vars
             PROVE  LogInv'
  OBVIOUS
<1>1. ASSUME NEW p \in Packet, Offer(p)
      PROVE  LogInv'
  <2>1. /\ UNCHANGED <<buf, lap, out, gapped>>
        /\ heard \subseteq heard' /\ <<p.seq, p.record>> \in heard'
        /\ pc = "idle" /\ pc' \in {"idle", "force"} /\ (pc' = "force" => pkt' = p)
    BY <1>1 DEF Offer
  <2>2. started => UNCHANGED <<frontier, anchor>>
    BY <1>1 DEF Offer, Anchored
  <2>3. ~started => /\ out = <<>> /\ gapped = {} /\ lap = 0
                    /\ frontier' = p.seq /\ anchor' = p.seq /\ p.seq \in Nat
    BY <1>1, MaxSeqAssumption DEF Offer, Anchored, RingInv, NotStarted, Packet, SeqNum
  <2>4. BehindFrontier'
    BY <2>1, <2>2, <2>3 DEF LogInv, BehindFrontier
  <2>5. InOrder'
    BY <2>1 DEF LogInv, InOrder, Earlier
  <2>6. ExactlyOnce'
    <3>1. CASE started
      <4>1. UNCHANGED <<lap, out, gapped, frontier, anchor>>
        BY <3>1, <2>1, <2>2
      <4>2. ExactlyOnce' <=> ExactlyOnce
        BY <4>1 DEF ExactlyOnce, Passed, Released
      <4> QED BY <4>2 DEF LogInv
    <3>2. CASE ~started
      BY <3>2, <2>1, <2>3, MaxSeqAssumption DEF ExactlyOnce, Passed, Released, SeqNum
    <3> QED BY <3>1, <3>2
  <2>7. SlotsHeard'
    BY <2>1 DEF LogInv, SlotsHeard, Live, Placing
  <2>8. Integrity' /\ GapsBelowHeard'
    BY <2>1 DEF LogInv, Integrity, GapsBelowHeard
  <2> QED BY <2>4, <2>5, <2>6, <2>7, <2>8 DEF LogInv
<1>2. ASSUME ForceAdvance \/ FlushAdvance
      PROVE  LogInv'
  <2>1. ~Holds(frontier) /\ DeclareGap /\ StepFrontier /\ pc' = "release"
    BY <1>2, AdvanceIsGap
  <2>2. UNCHANGED <<buf, pkt, anchor, heard>>
    BY <1>2, <2>1 DEF ForceAdvance, FlushAdvance, AdvanceFrontier, DeclareGap
  <2>3. PICK h \in heard : frontier < h[1]
    BY <1>2, HeardAhead DEF LogInv
  <2>4. BehindFrontier' /\ InOrder' /\ ExactlyOnce' /\ Integrity' /\ GapsBelowHeard'
    BY <2>1, <2>2, <2>3, GapLog
  <2>5. SlotsHeard'
    <3>1. Placing' => Placing
      BY <1>2, <2>1 DEF ForceAdvance, FlushAdvance, AdvanceFrontier, Placing
    <3> QED BY <3>1, <2>1, <2>2 DEF LogInv, SlotsHeard, Live, DeclareGap
  <2> QED BY <2>4, <2>5 DEF LogInv
<1>3. ASSUME ReleaseOne
      PROVE  LogInv'
  <2>1. /\ Holds(frontier) /\ Deliver /\ StepFrontier
        /\ UNCHANGED <<pc, after, pkt, anchor, heard>>
    BY <1>3 DEF ReleaseOne
  <2>2. BehindFrontier' /\ InOrder' /\ ExactlyOnce' /\ Integrity' /\ GapsBelowHeard'
    BY <2>1, DeliverLog
  <2>3. \A i \in Live' : i \in Live /\ buf'[i].seq = buf[i].seq
                                    /\ buf'[i].record = buf[i].record
    BY <2>1 DEF Deliver, Live, RingInv, TypeOK, Slot
  <2>4. SlotsHeard'
    BY <2>1, <2>3 DEF LogInv, SlotsHeard, Placing
  <2> QED BY <2>2, <2>4 DEF LogInv
<1>4. ASSUME Store \/ ReleaseDone \/ Flush \/ FlushDone \/ UNCHANGED vars
      PROVE  LogInv'
  <2>1. UNCHANGED <<frontier, pkt, history>>
    BY <1>4 DEF Store, ReleaseDone, Flush, FlushDone, vars, state
  <2>2. BehindFrontier' /\ InOrder' /\ ExactlyOnce' /\ Integrity' /\ GapsBelowHeard'
    <3>1. /\ out' = out /\ gapped' = gapped /\ heard' = heard /\ lap' = lap
          /\ frontier' = frontier /\ anchor' = anchor
      BY <2>1 DEF history
    <3>2. BehindFrontier /\ InOrder /\ ExactlyOnce /\ Integrity /\ GapsBelowHeard
      BY DEF LogInv
    <3>3. BehindFrontier' /\ InOrder'
      BY <3>1, <3>2 DEF BehindFrontier, InOrder, Earlier
    <3>4. ExactlyOnce'
      <4>1. \A l, s : Passed(l, s)' = Passed(l, s) /\ Released(l, s)' = Released(l, s)
        BY <3>1 DEF Passed, Released
      <4> QED
        BY <3>1, <3>2, <4>1 DEF ExactlyOnce
    <3>5. Integrity' /\ GapsBelowHeard'
      BY <3>1, <3>2 DEF Integrity, GapsBelowHeard
    <3> QED
      BY <3>3, <3>4, <3>5
  <2>3. (Placing => <<pkt.seq, pkt.record>> \in heard)'
    <3>1. Placing' => Placing
      BY <1>4 DEF Store, ReleaseDone, Flush, FlushDone, vars, state, Placing
    <3> QED BY <3>1, <2>1 DEF LogInv, SlotsHeard, history
  <2>4. \A i \in Live' : <<buf'[i].seq, buf'[i].record>> \in heard
    <3>1. CASE UNCHANGED buf
      BY <3>1 DEF LogInv, SlotsHeard, Live
    <3>2. CASE Store /\ ~UNCHANGED buf
      <4>1. /\ pc = "force"
            /\ buf' = [buf EXCEPT ![Index(pkt.seq)] =
                        [occupied |-> TRUE, seq |-> pkt.seq, record |-> pkt.record]]
        BY <3>2 DEF Store
      <4>2. <<pkt.seq, pkt.record>> \in heard
        BY <4>1 DEF LogInv, SlotsHeard, Placing
      <4> QED BY <4>1, <4>2, Zenon DEF LogInv, SlotsHeard, Live, RingInv, TypeOK
    <3> QED BY <1>4, <3>1, <3>2 DEF ReleaseDone, Flush, FlushDone, vars, state
  <2> QED BY <2>1, <2>2, <2>3, <2>4 DEF LogInv, SlotsHeard, history
<1> QED BY <1>1, <1>2, <1>3, <1>4 DEF Next, Step

\* Every reachable state satisfies the invariant of the stream.
THEOREM LogInvariant == Spec => []LogInv
BY InitLog, LogStep, RingInvariant, PTL DEF Spec

\* The sink sees strictly increasing sequences, whatever the order of arrival
\* (release_prefix() and advance_frontier(), lines 161-190).
THEOREM DeliveredInOrder == Spec => []InOrder
<1>1. LogInv => InOrder
  BY DEF LogInv
<1> QED BY <1>1, LogInvariant, PTL

\* Each sequence the frontier passed was delivered once or declared a gap, not both
\* (lines 19-43).
THEOREM DeliveredOrGapped == Spec => []ExactlyOnce
<1>1. LogInv => ExactlyOnce
  BY DEF LogInv
<1> QED BY <1>1, LogInvariant, PTL

\* What is delivered under a sequence was sent under it: the slots never mix two
\* sequences (offer()'s store and deliver()).
THEOREM PayloadsIntact == Spec => []Integrity
<1>1. LogInv => Integrity
  BY DEF LogInv
<1> QED BY <1>1, LogInvariant, PTL

\* A gap is declared only below a sequence that was heard (the forced advance of
\* offer(), and flush()).
THEOREM GapsJustified == Spec => []GapsBelowHeard
<1>1. LogInv => GapsBelowHeard
  BY DEF LogInv
<1> QED BY <1>1, LogInvariant, PTL

-----------------------------------------------------------------------------
(* The arbitrator implements the ordered feed                              *)

\* Something has been heard exactly if the frontier is anchored.
Anchoring == (started => heard # {}) /\ (~started => heard = {})

\* Every step keeps that.
LEMMA AnchoringStep == Anchoring /\ [Next]_vars => Anchoring'
<1> SUFFICES ASSUME Anchoring, [Next]_vars PROVE Anchoring'
  OBVIOUS
<1>1. CASE \E p \in Packet : Offer(p)
  BY <1>1, Zenon DEF Offer, Anchoring
<1>2. CASE Flush \/ Step \/ UNCHANGED vars
  <2>1. started' = started /\ heard' = heard
    BY <1>2 DEF Flush, Step, ForceAdvance, FlushAdvance, AdvanceFrontier, Store, ReleaseOne,
                ReleaseDone, FlushDone, vars, state, history
  <2> QED
    BY <2>1 DEF Anchoring
<1> QED
  BY <1>1, <1>2 DEF Next

\* An offered packet is heard; a release hands one over; each round of the two advancing
\* loops gives one up; nothing else shows.
LEMMA OrderedStep ==
  ASSUME RingInv, LogInv, Anchoring, [Next]_vars
  PROVE  [Ordered!Next]_<<frontier, lap, out, gapped, heard>>
<1>1. ASSUME NEW p \in Packet, Offer(p)
      PROVE  Ordered!Next
  <2>1. p.seq \in 0..MaxSeq /\ p.record \in Records
    BY DEF Packet, SeqNum
  <2>2. Ordered!Hear(p.seq, p.record)
    BY <1>1 DEF Offer, Anchored, Anchoring, Ordered!Hear
  <2> QED
    BY <2>1, <2>2 DEF Ordered!Next
<1>2. CASE ReleaseOne
  <2>1. Holds(frontier) /\ Deliver /\ StepFrontier /\ UNCHANGED heard
    BY <1>2 DEF ReleaseOne
  <2>2. Index(frontier) \in 0..Window-1
    BY IndexRange, MaxSeqAssumption DEF RingInv, TypeOK, SeqNum
  <2>3. /\ <<frontier, buf[Index(frontier)].record>> \in heard
        /\ buf[Index(frontier)].record \in Records
    BY <2>1, <2>2 DEF Holds, LogInv, SlotsHeard, Live, RingInv, TypeOK, Slot
  <2>4. Ordered!Hand(buf[Index(frontier)].record)
    BY <2>1, <2>3 DEF Deliver, StepFrontier, Ordered!Hand, Ordered!Turn
  <2> QED
    BY <2>3, <2>4 DEF Ordered!Next
<1>3. CASE ForceAdvance \/ FlushAdvance
  <2>1. DeclareGap /\ StepFrontier /\ UNCHANGED heard
    BY <1>3, AdvanceIsGap DEF ForceAdvance, FlushAdvance, AdvanceFrontier
  <2>2. PICK h \in heard : frontier < h[1]
    BY <1>3, HeardAhead DEF LogInv
  <2>3. h[1] > frontier
    BY <2>2
  <2>4. Ordered!GiveUp
    BY <2>1, <2>3 DEF DeclareGap, StepFrontier, Ordered!GiveUp, Ordered!Turn
  <2> QED
    BY <2>4 DEF Ordered!Next
<1>4. CASE Store \/ ReleaseDone \/ Flush \/ FlushDone \/ UNCHANGED vars
  BY <1>4 DEF Store, ReleaseDone, Flush, FlushDone, vars, state, history
<1> QED
  BY <1>1, <1>2, <1>3, <1>4 DEF Next, Step

\* The arbitrator (offer() and flush(), lines 72-142) implements the ordered feed, for
\* every window and gap limit: seen from the sink and from the gap counter it is a queue
\* of one, that passes each sequence number in turn or gives it up.
THEOREM ImplementsOrderedFeed == Spec => IsOrderedFeed
<1>1. Init => Anchoring /\ Ordered!Init
  BY DEF Init, Anchoring, Ordered!Init
<1> QED
  BY <1>1, AnchoringStep, OrderedStep, RingInvariant, LogInvariant, PTL
     DEF Spec, IsOrderedFeed, Ordered!Spec

-----------------------------------------------------------------------------
(* Layer 3: the counters                                                   *)

\* The two counter equations, over the counters, what is buffered and what is in hand.
Balanced(o, st, occ, w) ==
  o = st.delivered + occ + st.duplicates[0] + st.duplicates[1] + st.rejected + w
Stepped(st, f, a, l) == st.delivered + st.gaps = f - a + l * (MaxSeq + 1)

\* The ways of counting.
CountDelivered(st) == [st EXCEPT !.delivered = @ + 1]
CountGap(st) == [st EXCEPT !.gaps = @ + 1]
CountRejected(st) == [st EXCEPT !.rejected = @ + 1]
CountDuplicate(st, l) == [st EXCEPT !.duplicates[l] = @ + 1]
NoteReorder(st, n) == [st EXCEPT !.max_reorder = n]

\* What each way of counting leaves in the fields of Stats.
LEMMA CountedFields ==
  ASSUME NEW st \in Stats
  PROVE  /\ CountDelivered(st).delivered = st.delivered + 1
         /\ CountDelivered(st).gaps = st.gaps
         /\ CountDelivered(st).duplicates = st.duplicates
         /\ CountDelivered(st).rejected = st.rejected
         /\ CountGap(st).delivered = st.delivered /\ CountGap(st).gaps = st.gaps + 1
         /\ CountGap(st).duplicates = st.duplicates /\ CountGap(st).rejected = st.rejected
         /\ CountRejected(st).delivered = st.delivered /\ CountRejected(st).gaps = st.gaps
         /\ CountRejected(st).duplicates = st.duplicates
         /\ CountRejected(st).rejected = st.rejected + 1
<1>1. /\ CountDelivered(st).delivered = st.delivered + 1
      /\ CountDelivered(st).gaps = st.gaps
      /\ CountDelivered(st).duplicates = st.duplicates
      /\ CountDelivered(st).rejected = st.rejected
  BY DEF Stats, CountDelivered
<1>2. /\ CountGap(st).delivered = st.delivered /\ CountGap(st).gaps = st.gaps + 1
      /\ CountGap(st).duplicates = st.duplicates /\ CountGap(st).rejected = st.rejected
  BY DEF Stats, CountGap
<1>3. /\ CountRejected(st).delivered = st.delivered /\ CountRejected(st).gaps = st.gaps
      /\ CountRejected(st).duplicates = st.duplicates
      /\ CountRejected(st).rejected = st.rejected + 1
  BY DEF Stats, CountRejected
<1> QED
  BY <1>1, <1>2, <1>3, Zenon

\* Noting the reordering leaves the other fields alone.
LEMMA NotedFields ==
  ASSUME NEW st \in Stats, NEW n
  PROVE  /\ NoteReorder(st, n).delivered = st.delivered /\ NoteReorder(st, n).gaps = st.gaps
         /\ NoteReorder(st, n).duplicates = st.duplicates
         /\ NoteReorder(st, n).rejected = st.rejected
BY DEF Stats, NoteReorder

\* A duplicate is counted on its own line.
LEMMA DuplicateFields ==
  ASSUME NEW st \in Stats, NEW l \in Lines
  PROVE  /\ CountDuplicate(st, l).delivered = st.delivered
         /\ CountDuplicate(st, l).gaps = st.gaps
         /\ CountDuplicate(st, l).rejected = st.rejected
         /\ \/ /\ CountDuplicate(st, l).duplicates[0] = st.duplicates[0] + 1
               /\ CountDuplicate(st, l).duplicates[1] = st.duplicates[1]
            \/ /\ CountDuplicate(st, l).duplicates[0] = st.duplicates[0]
               /\ CountDuplicate(st, l).duplicates[1] = st.duplicates[1] + 1
<1>1. /\ CountDuplicate(st, l).delivered = st.delivered
      /\ CountDuplicate(st, l).gaps = st.gaps
      /\ CountDuplicate(st, l).rejected = st.rejected
      /\ CountDuplicate(st, l).duplicates = [st.duplicates EXCEPT ![l] = @ + 1]
  BY DEF Stats, CountDuplicate
<1>2. PICK d : d = st.duplicates /\ d \in [Lines -> Nat]
  BY DEF Stats
<1>3. PICK f : f = [d EXCEPT ![l] = @ + 1]
  BY Zenon
<1>4. \A m \in Lines : f[m] = IF m = l THEN d[l] + 1 ELSE d[m]
  BY <1>2, <1>3, Zenon
<1>5. /\ Lines = {0, 1} /\ 0 # 1
      /\ l = 0 \/ l = 1
  BY DEF Lines
<1>6. (f[0] = d[0] + 1 /\ f[1] = d[1]) \/ (f[0] = d[0] /\ f[1] = d[1] + 1)
  BY <1>4, <1>5, Zenon
<1> QED
  BY <1>1, <1>2, <1>3, <1>6, Zenon

\* The numbers in the counters.
LEMMA StatsNumbers ==
  ASSUME NEW st \in Stats
  PROVE  \E a, g, c, d, e \in Nat :
           /\ a = st.delivered /\ g = st.gaps /\ c = st.duplicates[0]
           /\ d = st.duplicates[1] /\ e = st.rejected
<1>1. /\ st.delivered \in Nat /\ st.gaps \in Nat /\ st.rejected \in Nat
      /\ st.duplicates \in [Lines -> Nat]
  BY DEF Stats
<1>2. st.duplicates[0] \in Nat /\ st.duplicates[1] \in Nat
  BY <1>1 DEF Lines
<1> QED
  BY <1>1, <1>2, Zenon

\* A packet offered is in hand, or counted as a duplicate or as rejected.
LEMMA OfferBalanced ==
  ASSUME NEW st \in Stats, NEW o \in Nat, NEW occ \in Nat, Balanced(o, st, occ, 0)
  PROVE  /\ Balanced(o + 1, st, occ, 1)
         /\ Balanced(o + 1, CountRejected(st), occ, 0)
         /\ \A l \in Lines : Balanced(o + 1, CountDuplicate(st, l), occ, 0)
<1>1. PICK a, g, c, d, e \in Nat : /\ a = st.delivered /\ g = st.gaps
                                   /\ c = st.duplicates[0] /\ d = st.duplicates[1]
                                   /\ e = st.rejected
  BY StatsNumbers
<1>2. o = a + occ + c + d + e + 0
  BY <1>1, Zenon DEF Balanced
<1>3. /\ o + 1 = a + occ + c + d + e + 1 /\ o + 1 = a + occ + c + d + (e + 1) + 0
      /\ o + 1 = a + occ + (c + 1) + d + e + 0 /\ o + 1 = a + occ + c + (d + 1) + e + 0
  BY <1>2
<1>4. Balanced(o + 1, st, occ, 1)
  BY <1>1, <1>3, Zenon DEF Balanced
<1>5. Balanced(o + 1, CountRejected(st), occ, 0)
  <2>1. PICK t : t = CountRejected(st)
    BY Zenon
  <2>2. /\ t.delivered = a /\ t.duplicates[0] = c /\ t.duplicates[1] = d
        /\ t.rejected = e + 1
    BY <1>1, <2>1, CountedFields, Zenon
  <2>3. Balanced(o + 1, t, occ, 0)
    BY <1>3, <2>2, Zenon DEF Balanced
  <2> QED
    BY <2>1, <2>3, Zenon
<1>6. ASSUME NEW l \in Lines
      PROVE  Balanced(o + 1, CountDuplicate(st, l), occ, 0)
  <2>1. PICK t : t = CountDuplicate(st, l)
    BY Zenon
  <2>2. /\ t.delivered = a /\ t.rejected = e
        /\ \/ t.duplicates[0] = c + 1 /\ t.duplicates[1] = d
           \/ t.duplicates[0] = c /\ t.duplicates[1] = d + 1
    BY <1>1, <2>1, DuplicateFields, Zenon
  <2>3. Balanced(o + 1, t, occ, 0)
    BY <1>3, <2>2, Zenon DEF Balanced
  <2> QED
    BY <2>1, <2>3, Zenon
<1> QED
  BY <1>4, <1>5, <1>6

\* The packet in hand is buffered, or counted as the second copy of one that is.
LEMMA StoreBalanced ==
  ASSUME NEW st \in Stats, NEW o \in Nat, NEW occ \in Nat, Balanced(o, st, occ, 1)
  PROVE  /\ Balanced(o, st, occ + 1, 0)
         /\ \A l \in Lines : Balanced(o, CountDuplicate(st, l), occ, 0)
<1>1. PICK a, g, c, d, e \in Nat : /\ a = st.delivered /\ g = st.gaps
                                   /\ c = st.duplicates[0] /\ d = st.duplicates[1]
                                   /\ e = st.rejected
  BY StatsNumbers
<1>2. o = a + occ + c + d + e + 1
  BY <1>1, Zenon DEF Balanced
<1>3. /\ o = a + (occ + 1) + c + d + e + 0
      /\ o = a + occ + (c + 1) + d + e + 0 /\ o = a + occ + c + (d + 1) + e + 0
  BY <1>2
<1>4. Balanced(o, st, occ + 1, 0)
  BY <1>1, <1>3, Zenon DEF Balanced
<1>5. ASSUME NEW l \in Lines
      PROVE  Balanced(o, CountDuplicate(st, l), occ, 0)
  <2>1. PICK t : t = CountDuplicate(st, l)
    BY Zenon
  <2>2. /\ t.delivered = a /\ t.rejected = e
        /\ \/ t.duplicates[0] = c + 1 /\ t.duplicates[1] = d
           \/ t.duplicates[0] = c /\ t.duplicates[1] = d + 1
    BY <1>1, <2>1, DuplicateFields, Zenon
  <2>3. Balanced(o, t, occ, 0)
    BY <1>3, <2>2, Zenon DEF Balanced
  <2> QED
    BY <2>1, <2>3, Zenon
<1> QED
  BY <1>4, <1>5

\* A packet delivered was buffered; a gap and the reordering are no packets.
LEMMA AdvanceBalanced ==
  ASSUME NEW st \in Stats, NEW o, NEW occ \in Nat, NEW w \in {0, 1}, Balanced(o, st, occ, w)
  PROVE  /\ Balanced(o, CountDelivered(st), occ - 1, w)
         /\ Balanced(o, CountGap(st), occ, w)
         /\ \A n : Balanced(o, NoteReorder(st, n), occ, w)
<1>1. Balanced(o, CountDelivered(st), occ - 1, w)
  <2>1. PICK a, g, c, d, e \in Nat : /\ a = st.delivered /\ g = st.gaps
                                     /\ c = st.duplicates[0] /\ d = st.duplicates[1]
                                     /\ e = st.rejected
    BY StatsNumbers
  <2>2. o = a + occ + c + d + e + w
    BY <2>1, Zenon DEF Balanced
  <2>3. o = (a + 1) + (occ - 1) + c + d + e + w
    BY <2>2
  <2>4. PICK t : t = CountDelivered(st)
    BY Zenon
  <2>5. /\ t.delivered = a + 1 /\ t.duplicates[0] = c /\ t.duplicates[1] = d
        /\ t.rejected = e
    BY <2>1, <2>4, CountedFields, Zenon
  <2>6. Balanced(o, t, occ - 1, w)
    BY <2>3, <2>5, Zenon DEF Balanced
  <2> QED
    BY <2>4, <2>6, Zenon
<1>2. Balanced(o, CountGap(st), occ, w)
  BY CountedFields, Zenon DEF Balanced
<1>3. ASSUME NEW n PROVE Balanced(o, NoteReorder(st, n), occ, w)
  BY NotedFields, Zenon DEF Balanced
<1> QED
  BY <1>1, <1>2, <1>3

\* A delivery or a gap is a step of the frontier, also where it wraps; nothing else is.
LEMMA FrontierPassed ==
  ASSUME NEW st \in Stats, NEW f \in Nat, NEW a \in Nat, NEW l \in Nat, Stepped(st, f, a, l)
  PROVE  /\ \A t \in {CountDelivered(st), CountGap(st)} :
              /\ f # MaxSeq => Stepped(t, f + 1, a, l)
              /\ f = MaxSeq => Stepped(t, 0, a, l + 1)
         /\ \A n : Stepped(NoteReorder(st, n), f, a, l)
         /\ Stepped(CountRejected(st), f, a, l)
         /\ \A k \in Lines : Stepped(CountDuplicate(st, k), f, a, l)
<1>1. PICK x, y \in Nat : x = st.delivered /\ y = st.gaps
  BY StatsNumbers, Zenon
<1>2. PICK m \in Nat : m = l * (MaxSeq + 1)
  BY MaxSeqAssumption
<1>3. (l + 1) * (MaxSeq + 1) = m + (MaxSeq + 1)
  BY <1>2, MaxSeqAssumption
<1>4. x + y = f - a + m
  BY <1>1, <1>2, Zenon DEF Stepped
<1>5. /\ (x + 1) + y = (f + 1) - a + m /\ x + (y + 1) = (f + 1) - a + m
      /\ f = MaxSeq => /\ (x + 1) + y = 0 - a + (m + (MaxSeq + 1))
                       /\ x + (y + 1) = 0 - a + (m + (MaxSeq + 1))
  BY <1>4, MaxSeqAssumption
<1>6. ASSUME NEW t \in {CountDelivered(st), CountGap(st)}
      PROVE  /\ f # MaxSeq => Stepped(t, f + 1, a, l)
             /\ f = MaxSeq => Stepped(t, 0, a, l + 1)
  <2>1. \/ t.delivered = x + 1 /\ t.gaps = y
        \/ t.delivered = x /\ t.gaps = y + 1
    BY <1>1, CountedFields, Zenon
  <2> QED
    BY <2>1, <1>2, <1>3, <1>5, Zenon DEF Stepped
<1>7. ASSUME NEW n PROVE Stepped(NoteReorder(st, n), f, a, l)
  BY NotedFields, Zenon DEF Stepped
<1>8. Stepped(CountRejected(st), f, a, l)
  BY CountedFields, Zenon DEF Stepped
<1>9. ASSUME NEW k \in Lines PROVE Stepped(CountDuplicate(st, k), f, a, l)
  BY DuplicateFields, Zenon DEF Stepped
<1> QED
  BY <1>6, <1>7, <1>8, <1>9

\* Every packet offered, and every step of the frontier, is in the counters.
THEOREM CountersCorrect == Spec => [](Conservation /\ CountsPassed)
<1> DEFINE CInv == Conservation /\ CountsPassed
<1>1. Init => CInv
  BY DEF Init, Conservation, CountsPassed, Placing, Lines
<1>2. RingInv /\ CInv /\ [Next]_vars => CInv'
  <2> SUFFICES ASSUME RingInv, Conservation, CountsPassed, [Next]_vars
               PROVE  Conservation' /\ CountsPassed'
    OBVIOUS
  <2>0. /\ stats \in Stats /\ occupied \in Nat /\ offers \in Nat
        /\ frontier \in Nat /\ anchor \in Nat /\ lap \in Nat
    BY MaxSeqAssumption DEF RingInv, TypeOK, SeqNum
  <2>a. /\ Placing => Balanced(offers, stats, occupied, 1)
        /\ ~Placing => Balanced(offers, stats, occupied, 0)
        /\ started => Stepped(stats, frontier, anchor, lap)
    BY Zenon DEF Conservation, Balanced, CountsPassed, Stepped
  <2>b. /\ Placing' /\ Balanced(offers', stats', occupied', 1) => Conservation'
        /\ ~Placing' /\ Balanced(offers', stats', occupied', 0) => Conservation'
        /\ Stepped(stats', frontier', anchor', lap') => CountsPassed'
    BY Zenon DEF Conservation, Balanced, CountsPassed, Stepped
  <2>1. ASSUME NEW p \in Packet, Offer(p)
        PROVE  Conservation' /\ CountsPassed'
    <3>1. p.line \in Lines /\ p.seq \in Nat
      BY MaxSeqAssumption DEF Packet, SeqNum
    <3>2. UNCHANGED <<occupied, after, lap>> /\ offers' = offers + 1 /\ pc = "idle"
      BY <2>1 DEF Offer
    <3>3. \/ pc' = "idle" /\ stats' = CountDuplicate(stats, p.line)
          \/ pc' = "idle" /\ stats' = CountRejected(stats)
          \/ pc' = "force" /\ stats' = stats
      BY <2>1, Zenon DEF Offer, CountDuplicate, CountRejected
    <3>4. Conservation'
      <4>1. Balanced(offers, stats, occupied, 0)
        BY <2>a, <3>2 DEF Placing
      <4>2. CASE pc' = "idle"
        <5>1. ~Placing' /\ Balanced(offers', stats', occupied', 0)
          BY <4>1, <4>2, <3>1, <3>2, <3>3, <2>0, OfferBalanced, Zenon DEF Placing
        <5> QED BY <5>1, <2>b
      <4>3. CASE pc' = "force"
        <5>1. Placing' /\ Balanced(offers', stats', occupied', 1)
          BY <4>1, <4>3, <3>2, <3>3, <2>0, OfferBalanced, Zenon DEF Placing
        <5> QED BY <5>1, <2>b
      <4> QED BY <3>3, <4>2, <4>3
    <3>5. CountsPassed'
      <4>1. frontier' \in Nat /\ anchor' \in Nat /\ Stepped(stats, frontier', anchor', lap)
        <5>1. CASE started
          BY <5>1, <2>1, <2>0, <2>a, Zenon DEF Offer, Anchored
        <5>2. CASE ~started
          <6>1. frontier' = p.seq /\ anchor' = p.seq
            BY <5>2, <2>1, Zenon DEF Offer, Anchored
          <6>2. lap = 0 /\ stats.delivered = 0 /\ stats.gaps = 0
            BY <5>2 DEF RingInv, NotStarted
          <6>3. 0 + 0 = p.seq - p.seq + 0 * (MaxSeq + 1)
            BY <3>1, MaxSeqAssumption
          <6> QED BY <6>1, <6>2, <6>3, <3>1, Zenon DEF Stepped
        <5> QED BY <5>1, <5>2
      <4>2. Stepped(stats', frontier', anchor', lap)
        BY <4>1, <3>1, <3>3, <2>0, FrontierPassed, Zenon
      <4> QED BY <4>2, <3>2, <2>b, Zenon
    <3> QED BY <3>4, <3>5
  <2>2. ASSUME StepFrontier, anchor' = anchor, started,
               stats' \in {CountDelivered(stats), CountGap(stats)}
        PROVE  CountsPassed'
    <3>1. Stepped(stats', frontier', anchor', lap')
      BY <2>0, <2>a, <2>2, FrontierPassed, Zenon DEF StepFrontier
    <3> QED BY <3>1, <2>b
  <2>3. ASSUME ForceAdvance \/ FlushAdvance
        PROVE  Conservation' /\ CountsPassed'
    <3>1. ~Holds(frontier) /\ DeclareGap /\ StepFrontier /\ pc' = "release"
      BY <2>3, AdvanceIsGap
    <3>2. /\ UNCHANGED <<occupied, offers, started, anchor>>
          /\ Placing' <=> Placing
      BY <2>3, <3>1 DEF ForceAdvance, FlushAdvance, AdvanceFrontier, DeclareGap, Placing
    <3>3. stats' = CountGap(stats)
      BY <3>1, Zenon DEF DeclareGap, CountGap
    <3>4. started
      BY <3>1, <3>2, RingStep DEF RingInv, NotStarted
    <3>5. Conservation'
      BY <3>2, <3>3, <2>0, <2>a, <2>b, AdvanceBalanced, Zenon
    <3>6. CountsPassed'
      BY <3>1, <3>2, <3>3, <3>4, <2>2, Zenon
    <3> QED BY <3>5, <3>6
  <2>4. ASSUME ReleaseOne
        PROVE  Conservation' /\ CountsPassed'
    <3>1. /\ StepFrontier /\ started
          /\ UNCHANGED <<started, pc, after, anchor, offers>> /\ occupied' = occupied - 1
      BY <2>4 DEF ReleaseOne, Deliver, RingInv, NotStarted
    <3>2. stats' = CountDelivered(stats)
      BY <2>4, Zenon DEF ReleaseOne, Deliver, CountDelivered
    <3>3. Conservation'
      <4>1. Placing' <=> Placing
        BY <3>1, Zenon DEF Placing
      <4> QED BY <4>1, <3>1, <3>2, <2>0, <2>a, <2>b, AdvanceBalanced, Zenon
    <3>4. CountsPassed'
      BY <3>1, <3>2, <2>2, Zenon
    <3> QED BY <3>3, <3>4
  <2>5. ASSUME Store
        PROVE  Conservation' /\ CountsPassed'
    <3> DEFINE k == Index(pkt.seq)
               noted == [stats EXCEPT !.max_reorder =
                           IF pkt.seq - frontier > @ THEN pkt.seq - frontier ELSE @]
    <3>1. /\ UNCHANGED <<frontier, started, pkt, history>> /\ pc = "force" /\ Placing
          /\ \/ pc' = "idle"
             \/ pc' = "release" /\ after' = "idle"
      BY <2>5 DEF Store, Placing
    <3>2. /\ ~Placing'
          /\ UNCHANGED <<lap, anchor, offers>>
      BY <3>1 DEF Placing, history
    <3>3. /\ noted \in Stats /\ Balanced(offers, noted, occupied, 1)
          /\ started => Stepped(noted, frontier, anchor, lap)
      <4>1. PICK n \in Nat : noted = NoteReorder(stats, n)
        <5>1. pkt.seq - frontier \in Nat /\ stats.max_reorder \in Nat
          BY <3>1, <2>0, MaxSeqAssumption DEF RingInv, InWindow, TypeOK, Packet, SeqNum, Stats
        <5> QED BY <5>1, Zenon DEF NoteReorder
      <4> HIDE DEF noted
      <4>2. noted \in Stats
        BY <4>1, <2>0, StatsBump, Zenon DEF NoteReorder
      <4>3. Balanced(offers, noted, occupied, 1)
        BY <4>1, <3>1, <2>0, <2>a, AdvanceBalanced, Zenon
      <4>4. started => Stepped(noted, frontier, anchor, lap)
        BY <4>1, <2>0, <2>a, FrontierPassed, Zenon
      <4> QED BY <4>2, <4>3, <4>4
    <3>4. pkt.line \in Lines
      BY DEF RingInv, TypeOK, Packet
    <3>5. \/ occupied' = occupied /\ stats' = CountDuplicate(noted, pkt.line)
          \/ occupied' = occupied + 1 /\ stats' = noted
      <4>1. CASE buf[k].occupied
        <5>1. NoAlias
          BY RingNoAlias
        <5>2. buf[k].seq = pkt.seq
          BY <5>1, <3>1, <4>1, <2>5 DEF NoAlias, Store
        <5> QED BY <2>5, <4>1, <5>2, Zenon DEF Store, CountDuplicate
      <4>2. CASE ~buf[k].occupied
        BY <2>5, <4>2 DEF Store
      <4> QED BY <4>1, <4>2
    <3> HIDE DEF noted
    <3>6. Conservation'
      <4>1. Balanced(offers, stats', occupied', 0)
        BY <3>3, <3>4, <3>5, <2>0, StoreBalanced, Zenon
      <4> QED BY <4>1, <3>2, <2>b, Zenon
    <3>7. CountsPassed'
      <4>1. CASE started
        <5>1. Stepped(stats', frontier, anchor, lap)
          BY <4>1, <3>3, <3>4, <3>5, <2>0, FrontierPassed, Zenon
        <5> QED BY <5>1, <3>1, <3>2, <2>b, Zenon
      <4>2. CASE ~started
        BY <4>2, <3>1 DEF CountsPassed
      <4> QED BY <4>1, <4>2
    <3> QED BY <3>6, <3>7
  <2>6. ASSUME ReleaseDone \/ Flush \/ FlushDone \/ UNCHANGED vars
        PROVE  Conservation' /\ CountsPassed'
    <3>1. UNCHANGED <<frontier, occupied, started, stats, history>>
      BY <2>6 DEF ReleaseDone, Flush, FlushDone, vars, state
    <3>2. Placing' <=> Placing
      BY <2>6 DEF ReleaseDone, Flush, FlushDone, vars, state, Placing, RingInv, TypeOK
    <3> QED BY <3>1, <3>2, Zenon DEF history, Conservation, CountsPassed
  <2> QED BY <2>1, <2>3, <2>4, <2>5, <2>6 DEF Next, Step
<1> QED BY <1>1, <1>2, RingInvariant, PTL DEF Spec

-----------------------------------------------------------------------------
(* The handler around it.  What it takes off the sockets is offered to the *)
(* arbitrator, so all of the above holds in the demo; that a gap was lost  *)
(* on both lines needs the lead of the publisher to stay within the window *)
(* and no foreign datagram to pass for a packet.                           *)

Datagram == [seq : 0..Count-1, size : {"full"} \cup StraySizes]

FeedType ==
  /\ next \in 0..Count /\ sending \in 0..1
  /\ sock \in [Lines -> Seq(Datagram)]
  /\ sent \subseteq Lines \X (0..Count-1)

\* A datagram off a socket is offered as a packet of the stream.
LEMMA OfferedPacket ==
  ASSUME NEW d \in Datagram, NEW l \in Lines
  PROVE  [seq |-> d.seq, line |-> l, record |-> d.seq] \in Packet
<1>1. d.seq \in 0..Count-1
  BY DEF Datagram
<1>2. d.seq \in SeqNum /\ d.seq \in Records
  BY <1>1, FeedAssumption, MaxSeqAssumption DEF SeqNum
<1> QED
  BY <1>2 DEF Packet

\* The sockets hold datagrams, whatever the lines lose and others send.
LEMMA FeedTypeStep == FeedType /\ [FeedNext]_feedVars => FeedType'
<1> SUFFICES ASSUME FeedType, [FeedNext]_feedVars PROVE FeedType'
  OBVIOUS
<1> USE DEF FeedType
<1>0. \A l \in Lines : sock[l] \in Seq(Datagram)
  OBVIOUS
<1>1. ASSUME NEW lost \in BOOLEAN, Send(lost) PROVE FeedType'
  <2>1. next \in 0..Count-1 /\ sending \in Lines /\ next' \in 0..Count /\ sending' \in 0..1
    BY <1>1, FeedAssumption DEF Send, Lines
  <2>2. [seq |-> next, size |-> "full"] \in Datagram
    BY <2>1 DEF Datagram
  <2>3. Append(sock[sending], [seq |-> next, size |-> "full"]) \in Seq(Datagram)
    BY <1>0, <2>1, <2>2
  <2>4. \/ UNCHANGED <<sock, sent>>
        \/ /\ sock' = [sock EXCEPT ![sending] =
                         Append(sock[sending], [seq |-> next, size |-> "full"])]
           /\ sent' = sent \cup {<<sending, next>>}
    BY <1>1 DEF Send
  <2>5. sock' \in [Lines -> Seq(Datagram)]
    BY <2>1, <2>3, <2>4, Zenon
  <2>6. sent' \subseteq Lines \X (0..Count-1)
    BY <2>1, <2>4
  <2> QED
    BY <2>1, <2>5, <2>6
<1>2. ASSUME NEW l \in Lines, NEW size \in StraySizes, NEW seq \in 0..Count-1,
             Stray(l, size, seq)
      PROVE  FeedType'
  <2>1. [seq |-> seq, size |-> size] \in Datagram
    BY DEF Datagram
  <2>2. Append(sock[l], [seq |-> seq, size |-> size]) \in Seq(Datagram)
    BY <1>0, <2>1
  <2> QED
    BY <1>2, <2>2 DEF Stray, publisher
<1>3. ASSUME NEW l \in Lines, DrainOne(l) \/ DrainEnd(l) PROVE FeedType'
  <2>1. sock[l] # <<>> => Tail(sock[l]) \in Seq(Datagram)
    BY <1>0
  <2> QED
    BY <1>3, <2>1, Zenon DEF DrainOne, DrainEnd, publisher
<1>4. CASE Poll \/ Continue \/ GiveUp \/ Report \/ Arbitrate \/ UNCHANGED feedVars
  BY <1>4, Zenon DEF Poll, Continue, GiveUp, Report, Arbitrate, feedVars, publisher, network
<1> QED
  BY <1>1, <1>2, <1>3, <1>4 DEF FeedNext, Handle

\* Nothing is published yet.
LEMMA FeedTypeInit == FeedInit => FeedType
BY FeedAssumption DEF FeedInit, FeedType, Lines

\* Every step of the demo is a step of the arbitrator or leaves it alone.
LEMMA HandlerStep == FeedType /\ [FeedNext]_feedVars => [Next]_vars
<1> SUFFICES ASSUME FeedType, [FeedNext]_feedVars PROVE [Next]_vars
  OBVIOUS
<1>1. ASSUME NEW l \in Lines, DrainOne(l) PROVE Next
  <2>1. Head(sock[l]) \in Datagram
    BY <1>1 DEF DrainOne, FeedType
  <2> QED
    BY <1>1, <2>1, OfferedPacket, Zenon DEF DrainOne, Next
<1>2. ASSUME NEW l \in Lines, DrainEnd(l) PROVE UNCHANGED vars
  BY <1>2 DEF DrainEnd, arbitrator
<1>3. CASE GiveUp \/ Arbitrate
  BY <1>3 DEF GiveUp, Arbitrate, Next
<1>4. CASE Poll \/ Continue \/ Report \/ UNCHANGED feedVars
  BY <1>4 DEF Poll, Continue, Report, feedVars, arbitrator
<1>5. ASSUME NEW lost \in BOOLEAN, Send(lost) PROVE UNCHANGED vars
  BY <1>5 DEF Send, arbitrator
<1>6. ASSUME NEW l, NEW size, NEW seq, Stray(l, size, seq) PROVE UNCHANGED vars
  BY <1>6 DEF Stray, arbitrator
<1> QED
  BY <1>1, <1>2, <1>3, <1>4, <1>5, <1>6 DEF FeedNext, Handle

\* The demo drives the arbitrator as its specification says: whatever is proved of the
\* arbitrator holds behind the sockets (the drain loop and the flush of
\* feed_handler.cpp).
THEOREM HandlerDrivesArbitrator == FeedSpec => Spec
<1>1. FeedInit => Init
  BY DEF FeedInit
<1> QED
  BY <1>1, FeedTypeInit, FeedTypeStep, HandlerStep, PTL DEF FeedSpec, Spec

\* So does the whole handler: with its ring, its threads and its idle timeout it shows
\* the consumer an ordered feed (src/bin/feed_handler.cpp).
THEOREM HandlerIsOrderedFeed == FeedSpec => IsOrderedFeed
  BY HandlerDrivesArbitrator, ImplementsOrderedFeed, PTL

\* The hypotheses of the two theorems below.  feed_handler.cpp's comment puts the first
\* as "ample for the inter-line skew at feed rates"; recv() takes a longer foreign
\* datagram for a packet, so the second leaves only shorter ones.
SkewWithinWindow == MaxLead <= Window
NoLookalikes == "oversized" \notin StraySizes

\* What is on the wire was published, and not longer ago than the lead allows.
Published ==
  /\ \A p \in sent : p[2] < next + sending
  /\ \A l \in Lines, s \in 0..Count-1 :
       Waiting(l, s) => <<l, s>> \in sent /\ next + sending <= s + MaxLead

\* What a line brought is unread or was offered, and nothing else was offered.
Accounted ==
  /\ \A p \in sent : Waiting(p[1], p[2]) \/ <<p[2], p[2]>> \in heard
  /\ \A h \in heard : h[1] = h[2] /\ \E l \in Lines : <<l, h[1]>> \in sent
  /\ ~started => heard = {}

\* What was offered is behind the frontier and no gap, in the ring, or in hand.
Kept ==
  /\ \A h \in heard : h[1] < frontier \/ Holds(h[1]) \/ (Placing /\ pkt.seq = h[1])
  /\ \A h \in heard, g \in gapped : h[1] # g[2]
  /\ lap = 0 /\ frontier <= Count

\* flush() runs from the end of the loop to the report, and the report finds the ring
\* empty.
Flushing == pc = "flush" \/ (pc = "release" /\ after = "flush")
Closing ==
  /\ Flushing => hpc = "flushing"
  /\ hpc = "flushing" => Flushing \/ (pc = "idle" /\ occupied = 0)
  /\ hpc = "done" => pc = "idle" /\ occupied = 0
  /\ hpc = "drained" => pc = "idle"

FeedInv == Published /\ Accounted /\ Kept /\ Closing /\ NoFalseGaps

\* A datagram joins the socket of line l.
LEMMA WaitingAppend ==
  ASSUME FeedType, NEW l \in Lines, NEW d \in Datagram,
         sock' = [sock EXCEPT ![l] = Append(@, d)]
  PROVE  \A k \in Lines, s \in 0..Count-1 :
           Waiting(k, s)' <=> Waiting(k, s) \/ (k = l /\ d = [seq |-> s, size |-> "full"])
<1> SUFFICES ASSUME NEW k \in Lines, NEW s \in 0..Count-1
             PROVE  Waiting(k, s)' <=>
                      Waiting(k, s) \/ (k = l /\ d = [seq |-> s, size |-> "full"])
  OBVIOUS
<1> DEFINE e == [seq |-> s, size |-> "full"]
<1>0. sock \in [Lines -> Seq(Datagram)] /\ sock[l] \in Seq(Datagram)
  BY DEF FeedType
<1>1. CASE k # l
  <2>1. sock'[k] = sock[k]
    BY <1>0, <1>1
  <2> QED
    BY <1>1, <2>1, Zenon DEF Waiting
<1>2. CASE k = l
  <2>1. sock'[l] = Append(sock[l], d)
    BY <1>0
  <2>2. /\ Len(sock'[l]) = Len(sock[l]) + 1 /\ Len(sock[l]) \in Nat
        /\ sock'[l][Len(sock[l]) + 1] = d
        /\ \A i \in 1..Len(sock[l]) : sock'[l][i] = sock[l][i]
    BY <2>1, <1>0
  <2>3. 1..Len(sock'[l]) = 1..Len(sock[l]) \cup {Len(sock[l]) + 1}
    BY <2>2
  <2>4. Waiting(l, s)' <=> \E i \in 1..Len(sock'[l]) : sock'[l][i] = e
    BY Zenon DEF Waiting
  <2>5. Waiting(l, s) <=> \E i \in 1..Len(sock[l]) : sock[l][i] = e
    BY DEF Waiting
  <2> HIDE DEF e
  <2>6. Waiting(l, s)' <=> Waiting(l, s) \/ d = e
    BY <2>2, <2>3, <2>4, <2>5, Zenon
  <2> QED
    BY <1>2, <2>6 DEF e
<1> QED
  BY <1>1, <1>2

\* A datagram is read off the socket of line l.
LEMMA WaitingTail ==
  ASSUME FeedType, NEW l \in Lines, sock[l] # <<>>,
         sock' = [sock EXCEPT ![l] = Tail(@)]
  PROVE  \A k \in Lines, s \in 0..Count-1 :
           /\ Waiting(k, s)' => Waiting(k, s)
           /\ Waiting(k, s) => \/ Waiting(k, s)'
                               \/ k = l /\ Head(sock[l]) = [seq |-> s, size |-> "full"]
<1> SUFFICES ASSUME NEW k \in Lines, NEW s \in 0..Count-1
             PROVE  /\ Waiting(k, s)' => Waiting(k, s)
                    /\ Waiting(k, s) =>
                         \/ Waiting(k, s)'
                         \/ k = l /\ Head(sock[l]) = [seq |-> s, size |-> "full"]
  OBVIOUS
<1> DEFINE e == [seq |-> s, size |-> "full"]
<1>0. sock \in [Lines -> Seq(Datagram)] /\ sock[l] \in Seq(Datagram)
  BY DEF FeedType
<1>1. CASE k # l
  <2>1. sock'[k] = sock[k]
    BY <1>0, <1>1
  <2> QED
    BY <1>1, <2>1 DEF Waiting
<1>2. CASE k = l
  <2>1. sock'[l] = Tail(sock[l])
    BY <1>0
  <2>2. /\ Len(sock[l]) \in Nat /\ Len(sock[l]) >= 1 /\ Head(sock[l]) = sock[l][1]
        /\ Len(sock'[l]) = Len(sock[l]) - 1
        /\ \A i \in 1..(Len(sock[l]) - 1) : sock'[l][i] = sock[l][i + 1]
    BY <2>1, <1>0
  <2>4. Waiting(l, s)' <=> \E i \in 1..Len(sock'[l]) : sock'[l][i] = e
    BY DEF Waiting
  <2>5. Waiting(l, s) <=> \E i \in 1..Len(sock[l]) : sock[l][i] = e
    BY DEF Waiting
  <2> HIDE DEF e
  <2>6. ASSUME Waiting(l, s)' PROVE Waiting(l, s)
    <3>1. PICK i \in 1..Len(sock'[l]) : sock'[l][i] = e
      BY <2>4, <2>6, Zenon
    <3>2. i + 1 \in 1..Len(sock[l]) /\ sock[l][i + 1] = e
      BY <2>2, <3>1
    <3> QED
      BY <2>5, <3>2
  <2>7. ASSUME Waiting(l, s), Head(sock[l]) # e PROVE Waiting(l, s)'
    <3>1. PICK i \in 1..Len(sock[l]) : sock[l][i] = e
      BY <2>5, <2>7
    <3>2. i # 1
      BY <3>1, <2>2, <2>7
    <3>3. i - 1 \in 1..Len(sock'[l]) /\ sock'[l][i - 1] = sock[l][(i - 1) + 1]
      BY <2>2, <3>2
    <3>4. (i - 1) + 1 = i
      OBVIOUS
    <3> QED
      BY <2>4, <3>1, <3>3, <3>4, Zenon
  <2> QED
    BY <1>2, <2>6, <2>7 DEF e
<1> QED
  BY <1>1, <1>2

\* What was offered is a sequence of the stream.
LEMMA HeardRange ==
  ASSUME FeedType, Accounted, NEW h \in heard
  PROVE  h[1] \in 0..Count-1 /\ h[1] = h[2] /\ h[1] \in Int
<1>1. PICK l \in Lines : <<l, h[1]>> \in sent
  BY Zenon DEF Accounted
<1>2. <<l, h[1]>> \in Lines \X (0..Count-1)
  BY <1>1 DEF FeedType
<1>3. h[1] \in 0..Count-1
  BY <1>2
<1> QED
  BY <1>3, FeedAssumption DEF Accounted

\* Where the loops give a sequence up, no copy of it was ever offered.
LEMMA FrontierUnheard ==
  ASSUME FeedType, Accounted, RingInv, Kept, ForceAdvance \/ FlushAdvance, NEW h \in heard
  PROVE  h[1] # frontier
<1>1. h[1] \in Int /\ frontier \in Int /\ ~Holds(frontier)
  BY AdvanceIsGap, HeardRange, MaxSeqAssumption DEF RingInv, TypeOK, SeqNum
<1>2. Placing => pkt.seq - frontier >= Window /\ pkt.seq \in Int
  BY MaxSeqAssumption DEF ForceAdvance, FlushAdvance, Placing, RingInv, TypeOK, Packet, SeqNum
<1>3. h[1] < frontier \/ Holds(h[1]) \/ (Placing /\ pkt.seq = h[1])
  BY DEF Kept
<1>4. CASE h[1] < frontier
  BY <1>1, <1>4
<1>5. CASE Holds(h[1])
  BY <1>1, <1>5
<1>6. CASE Placing /\ pkt.seq = h[1]
  BY <1>1, <1>2, <1>6, WindowAssumption
<1> QED
  BY <1>3, <1>4, <1>5, <1>6

\* The frontier stays below the end of the stream, far from the wrap of its type.
LEMMA FrontierSteps ==
  ASSUME FeedType, Kept, StepFrontier, RingInv, NEW c \in 0..Count-1, frontier <= c
  PROVE  lap' = 0 /\ frontier' = frontier + 1 /\ frontier' <= Count /\ frontier \in Nat
BY FeedAssumption, MaxSeqAssumption DEF StepFrontier, Kept, RingInv, TypeOK, SeqNum

\* Handing on the message at the frontier keeps account of what was offered.
LEMMA DeliverKept ==
  ASSUME FeedType, Accounted, RingInv, LogInv, Kept, ReleaseOne
  PROVE  Kept'
<1>1. /\ Holds(frontier) /\ buf' = [buf EXCEPT ![Index(frontier)].occupied = FALSE]
      /\ UNCHANGED <<gapped, heard, pkt, pc, after>> /\ StepFrontier
  BY DEF ReleaseOne, Deliver
<1>2. frontier \in Nat /\ Index(frontier) \in 0..Window-1 /\ buf \in [0..Window-1 -> Slot]
  BY IndexRange, MaxSeqAssumption DEF RingInv, TypeOK, SeqNum
<1>3. <<frontier, buf[Index(frontier)].record>> \in heard
  BY <1>1, <1>2 DEF Holds, Live, LogInv, SlotsHeard
<1>4. frontier \in 0..Count-1
  BY <1>3, HeardRange
<1>5. lap' = 0 /\ frontier' = frontier + 1 /\ frontier' <= Count
  BY <1>1, <1>2, <1>4, FrontierSteps
<1>6. Placing' <=> Placing
  BY <1>1 DEF Placing
<1>7. ASSUME NEW h \in heard
      PROVE  h[1] < frontier' \/ Holds(h[1])' \/ (Placing' /\ pkt'.seq = h[1])
  <2>1. h[1] \in Nat
    BY HeardRange
  <2>2. h[1] < frontier \/ Holds(h[1]) \/ (Placing /\ pkt.seq = h[1])
    BY DEF Kept
  <2>3. CASE h[1] < frontier \/ h[1] = frontier
    BY <2>1, <2>3, <1>2, <1>5
  <2>4. CASE Holds(h[1]) /\ h[1] # frontier
    <3>1. Index(h[1]) # Index(frontier)
      BY <2>4, <1>1 DEF Holds
    <3>2. Index(h[1]) \in 0..Window-1
      BY <2>1, IndexRange
    <3>3. buf'[Index(h[1])] = buf[Index(h[1])]
      BY <1>1, <1>2, <3>1, <3>2
    <3> QED
      BY <2>4, <3>3, Zenon DEF Holds
  <2>5. CASE Placing /\ pkt.seq = h[1]
    BY <2>5, <1>1, <1>6
  <2> QED
    BY <2>2, <2>3, <2>4, <2>5
<1>8. \A h \in heard, g \in gapped : h[1] # g[2]
  BY DEF Kept
<1> QED
  BY <1>1, <1>5, <1>7, <1>8 DEF Kept

\* So does giving the frontier up.
LEMMA GapKept ==
  ASSUME FeedType, Accounted, RingInv, LogInv, Kept, LogInv', ForceAdvance \/ FlushAdvance
  PROVE  Kept'
<1>1. /\ DeclareGap /\ StepFrontier /\ pc' = "release"
      /\ gapped' = gapped \cup {<<lap, frontier>>} /\ UNCHANGED <<buf, heard, pkt>>
      /\ (Placing => Placing')
  BY AdvanceIsGap DEF ForceAdvance, FlushAdvance, AdvanceFrontier, DeclareGap, Placing
<1>2. PICK t \in heard : frontier < t[1]
  <2>1. <<lap, frontier>> \in gapped'
    BY <1>1
  <2>2. \E t \in heard' : <<lap, frontier>>[2] < t[1]
    BY <2>1 DEF LogInv, GapsBelowHeard
  <2> QED
    BY <2>2, <1>1
<1>3. t[1] \in 0..Count-1 /\ frontier \in Nat
  BY HeardRange, MaxSeqAssumption DEF RingInv, TypeOK, SeqNum
<1>4. lap' = 0 /\ frontier' = frontier + 1 /\ frontier' <= Count
  BY <1>1, <1>2, <1>3, FrontierSteps
<1>5. ASSUME NEW h \in heard
      PROVE  h[1] < frontier' \/ Holds(h[1])' \/ (Placing' /\ pkt'.seq = h[1])
  <2>1. h[1] \in Nat
    BY HeardRange
  <2>2. h[1] < frontier \/ Holds(h[1]) \/ (Placing /\ pkt.seq = h[1])
    BY DEF Kept
  <2>3. Holds(h[1])' <=> Holds(h[1])
    BY <1>1 DEF Holds
  <2>4. h[1] < frontier => h[1] < frontier'
    BY <2>1, <1>3, <1>4
  <2> QED
    BY <2>2, <2>3, <2>4, <1>1
<1>6. ASSUME NEW h \in heard, NEW g \in gapped' PROVE h[1] # g[2]
  <2>1. CASE g \in gapped
    BY <2>1 DEF Kept
  <2>2. CASE g = <<lap, frontier>>
    BY <2>2, FrontierUnheard
  <2> QED
    BY <2>1, <2>2, <1>1
<1> QED
  BY <1>1, <1>4, <1>5, <1>6 DEF Kept

\* So does storing the packet in hand, whose slot is free or holds its own copy.
LEMMA StoreKept ==
  ASSUME FeedType, Accounted, RingInv, Kept, Store
  PROVE  Kept'
<1> DEFINE k == Index(pkt.seq)
<1>1. /\ Placing /\ UNCHANGED <<frontier, lap, gapped, heard, pkt>>
      /\ pc = "force" /\ pkt.seq - frontier < Window
  BY DEF Store, Placing, history
<1>2. k \in 0..Window-1 /\ buf \in [0..Window-1 -> Slot]
  BY IndexRange, MaxSeqAssumption DEF RingInv, TypeOK, Packet, SeqNum
<1>3. Holds(pkt.seq)' /\ \A s \in Nat : Holds(s) => Holds(s)'
  <2>1. CASE buf[k].occupied
    <3>1. buf' = buf /\ buf[k].seq = pkt.seq
      BY <2>1, <1>1, RingNoAlias DEF Store, NoAlias
    <3> QED
      BY <2>1, <3>1, <1>1 DEF Holds
  <2>2. CASE ~buf[k].occupied
    <3>1. buf' = [buf EXCEPT ![k] =
                    [occupied |-> TRUE, seq |-> pkt.seq, record |-> pkt.record]]
      BY <2>2 DEF Store
    <3>2. buf'[k].occupied /\ buf'[k].seq = pkt.seq
      BY <3>1, <1>2
    <3>3. ASSUME NEW s \in Nat, Holds(s) PROVE Holds(s)'
      <4>1. Index(s) # k /\ Index(s) \in 0..Window-1
        BY <3>3, <2>2, IndexRange DEF Holds
      <4>2. buf'[Index(s)] = buf[Index(s)]
        BY <3>1, <1>2, <4>1
      <4> QED
        BY <3>3, <4>2 DEF Holds
    <3> QED
      BY <3>2, <3>3, <1>1, Zenon DEF Holds
  <2> QED
    BY <2>1, <2>2
<1>4. \A h \in heard : h[1] \in Nat
  BY HeardRange
<1>5. \A h \in heard : h[1] < frontier \/ Holds(h[1])'
  BY <1>1, <1>3, <1>4 DEF Kept
<1> QED
  BY <1>1, <1>5 DEF Kept

\* One iteration of the arbitrator's loops.
LEMMA StepKept ==
  ASSUME FeedType, Accounted, RingInv, LogInv, Kept, LogInv', Step
  PROVE  Kept'
<1>1. CASE ReleaseDone
  <2>1. UNCHANGED <<buf, frontier, lap, gapped, heard, pkt>> /\ (Placing => Placing')
    BY <1>1, Zenon DEF ReleaseDone, Placing, history
  <2> QED
    BY <2>1 DEF Kept, Holds
<1>2. CASE FlushDone
  <2>1. UNCHANGED <<buf, frontier, lap, gapped, heard, pkt>> /\ ~Placing
    BY <1>2 DEF FlushDone, Placing, history
  <2> QED
    BY <2>1 DEF Kept, Holds
<1> QED
  BY <1>1, <1>2, DeliverKept, GapKept, StoreKept, Zenon DEF Step

\* Nothing is published, heard or given up yet.
LEMMA FeedInvInit == FeedInit => FeedInv
<1> SUFFICES ASSUME FeedInit PROVE FeedInv
  OBVIOUS
<1>1. /\ sent = {} /\ heard = {} /\ gapped = {} /\ lap = 0 /\ frontier = 0
      /\ pc = "idle" /\ hpc = "poll" /\ \A l \in Lines : sock[l] = <<>>
  BY DEF FeedInit, Init
<1>2. \A l \in Lines, s \in 0..Count-1 : ~Waiting(l, s)
  BY <1>1 DEF Waiting
<1>3. Published /\ Accounted /\ Closing /\ NoFalseGaps
  BY <1>1, <1>2 DEF Published, Accounted, Closing, Flushing, NoFalseGaps
<1>4. Kept
  BY <1>1, FeedAssumption DEF Kept
<1> QED
  BY <1>3, <1>4 DEF FeedInv

\* A step that leaves the arbitrator alone keeps what was offered.
LEMMA QuietKept == ASSUME Kept, UNCHANGED vars PROVE Kept'
BY Zenon DEF Kept, Holds, Placing, vars, state, history

\* The publisher sends packet next on line sending: what was given up before lies below.
LEMMA SendFeed ==
  ASSUME FeedType, FeedInv, LogInv, NEW lost \in BOOLEAN, Send(lost)
  PROVE  FeedInv'
<1> DEFINE d == [seq |-> next, size |-> "full"]
<1>1. /\ UNCHANGED <<vars, hpc, heard, gapped, started, pc, after, occupied>>
      /\ next \in 0..Count-1 /\ sending \in Lines
      /\ next' + sending' = next + 1 /\ next + sending <= next + 1
  BY FeedAssumption DEF Send, FeedType, Lines, arbitrator, handler, vars, state, history
<1>2. d \in Datagram
  BY <1>1 DEF Datagram
<1>3. /\ \A l \in Lines, s \in 0..Count-1 :
            /\ Waiting(l, s) => Waiting(l, s)'
            /\ Waiting(l, s)' => \/ Waiting(l, s)
                                 \/ s = next /\ l = sending /\ <<l, s>> \in sent'
      /\ \A l \in Lines, s \in 0..Count-1 :
            <<l, s>> \in sent' => <<l, s>> \in sent \/ (l = sending /\ s = next /\ Waiting(l, s)')
      /\ sent \subseteq sent'
  <2>1. CASE lost
    BY <2>1, Zenon DEF Send, Waiting
  <2>2. CASE ~lost
    <3>1. sock' = [sock EXCEPT ![sending] = Append(@, d)]
          /\ sent' = sent \cup {<<sending, next>>}
      BY <2>2 DEF Send
    <3>2. \A k \in Lines, s \in 0..Count-1 :
            Waiting(k, s)' <=> Waiting(k, s) \/ (k = sending /\ d = [seq |-> s, size |-> "full"])
      BY <3>1, <1>1, <1>2, WaitingAppend, Zenon
    <3>3. \A s \in 0..Count-1 : d = [seq |-> s, size |-> "full"] <=> s = next
      OBVIOUS
    <3> HIDE DEF d
    <3>4. \A k \in Lines, s \in 0..Count-1 :
            Waiting(k, s)' <=> Waiting(k, s) \/ (k = sending /\ s = next)
      BY <3>2, <3>3
    <3>5. /\ \A l \in Lines, s \in 0..Count-1 :
                <<l, s>> \in sent' <=> <<l, s>> \in sent \/ (l = sending /\ s = next)
          /\ sent \subseteq sent'
      BY <3>1
    <3> QED
      BY <3>4, <3>5
  <2> QED
    BY <2>1, <2>2
<1>4. sent' \subseteq Lines \X (0..Count-1) /\ sent \subseteq Lines \X (0..Count-1)
  <2>1. [FeedNext]_feedVars
    BY DEF FeedNext
  <2> QED
    BY <2>1, FeedTypeStep DEF FeedType
<1>5. Published'
  <2>1. ASSUME NEW p \in sent' PROVE p[2] < next' + sending'
    <3>1. p[1] \in Lines /\ p[2] \in 0..Count-1 /\ p = <<p[1], p[2]>>
      BY <1>4
    <3>2. p \in sent \/ p[2] = next
      BY <3>1, <1>3
    <3> QED
      BY <3>1, <3>2, <1>1 DEF FeedInv, Published, Lines
  <2>2. ASSUME NEW l \in Lines, NEW s \in 0..Count-1, Waiting(l, s)'
        PROVE  <<l, s>> \in sent' /\ next' + sending' <= s + MaxLead
    <3>1. CASE Waiting(l, s)
      <4>1. s \in Unread
        BY <3>1 DEF Unread
      <4>2. next < s + MaxLead
        BY <4>1 DEF Send, WithinLead
      <4> QED
        BY <3>1, <4>2, <1>1, <1>3, FeedAssumption DEF FeedInv, Published
    <3>2. CASE s = next /\ <<l, s>> \in sent'
      BY <3>2, <1>1, FeedAssumption
    <3> QED
      BY <2>2, <3>1, <3>2, <1>3, Zenon
  <2> QED
    BY <2>1, <2>2 DEF Published
<1>6. Accounted'
  <2>1. ASSUME NEW p \in sent' PROVE Waiting(p[1], p[2])' \/ <<p[2], p[2]>> \in heard
    <3>1. p[1] \in Lines /\ p[2] \in 0..Count-1 /\ p = <<p[1], p[2]>>
      BY <1>4
    <3>2. CASE p \in sent
      BY <3>1, <3>2, <1>3 DEF FeedInv, Accounted
    <3>3. CASE p \notin sent
      BY <3>1, <3>3, <1>3
    <3> QED
      BY <3>2, <3>3
  <2>2. \A h \in heard : h[1] = h[2] /\ \E l \in Lines : <<l, h[1]>> \in sent'
    BY <1>3, Zenon DEF FeedInv, Accounted
  <2> QED
    BY <2>1, <2>2, <1>1, Zenon DEF FeedInv, Accounted
<1>7. NoFalseGaps'
  <2> SUFFICES ASSUME NEW g \in gapped, NEW l \in Lines, <<l, g[2]>> \in sent'
               PROVE  hpc \in {"flushing", "done"} /\ Waiting(l, g[2])'
    BY <1>1 DEF NoFalseGaps
  <2>1. PICK h \in heard : g[2] < h[1]
    BY DEF LogInv, GapsBelowHeard
  <2>2. PICK k \in Lines : <<k, h[1]>> \in sent
    BY Zenon DEF FeedInv, Accounted
  <2>3. h[1] < next + sending
    BY <2>2 DEF FeedInv, Published
  <2>4. h[1] \in Nat /\ g[2] \in 0..Count-1
    BY <2>2, <1>4, FeedAssumption
  <2>5. g[2] # next
    BY <2>1, <2>3, <2>4, <1>1 DEF Lines
  <2>6. <<l, g[2]>> \in sent
    BY <2>4, <2>5, <1>3
  <2> QED
    BY <2>4, <2>6, <1>3 DEF FeedInv, NoFalseGaps
<1>8. Closing' /\ Kept'
  BY <1>1, QuietKept DEF FeedInv, Closing, Flushing
<1> QED
  BY <1>5, <1>6, <1>7, <1>8, Zenon DEF FeedInv

\* A step that touches neither what was published nor what waits unread, nor the
\* arbitrator, and does not leave the loop.
LEMMA QuietFeed ==
  ASSUME FeedType, FeedInv, UNCHANGED <<vars, next, sending, sent>>,
         \A l \in Lines, s \in 0..Count-1 : Waiting(l, s)' <=> Waiting(l, s),
         hpc \in {"flushing", "done"} => hpc' \in {"flushing", "done"},
         Closing'
  PROVE  FeedInv'
<1>1. UNCHANGED <<heard, gapped, started>>
  BY DEF vars, state, history
<1>2. sent \subseteq Lines \X (0..Count-1)
  BY DEF FeedType
<1>3. Published'
  BY DEF FeedInv, Published
<1>4. Accounted'
  <2>1. \A p \in sent : p[1] \in Lines /\ p[2] \in 0..Count-1
    BY <1>2
  <2> QED
    BY <1>1, <2>1, Zenon DEF FeedInv, Accounted
<1>5. NoFalseGaps'
  <2>1. \A l \in Lines : \A s : <<l, s>> \in sent => s \in 0..Count-1
    BY <1>2
  <2> QED
    BY <1>1, <2>1 DEF FeedInv, NoFalseGaps
<1>6. Kept'
  BY QuietKept DEF FeedInv
<1> QED
  BY <1>3, <1>4, <1>5, <1>6 DEF FeedInv

\* A foreign datagram is no packet of the stream.
LEMMA StrayFeed ==
  ASSUME FeedType, FeedInv, NEW l \in Lines, NEW size \in StraySizes,
         NEW seq \in 0..Count-1, Stray(l, size, seq)
  PROVE  FeedInv'
<1> DEFINE d == [seq |-> seq, size |-> size]
<1>1. d \in Datagram /\ size # "full"
  BY FeedAssumption DEF Datagram
<1>2. \A s \in 0..Count-1 : d # [seq |-> s, size |-> "full"]
  BY <1>1
<1>3. sock' = [sock EXCEPT ![l] = Append(@, d)]
  BY DEF Stray
<1>4. \A k \in Lines, s \in 0..Count-1 :
        Waiting(k, s)' <=> Waiting(k, s) \/ (k = l /\ d = [seq |-> s, size |-> "full"])
  BY <1>1, <1>3, WaitingAppend, Zenon
<1> HIDE DEF d
<1>5. \A k \in Lines, s \in 0..Count-1 : Waiting(k, s)' <=> Waiting(k, s)
  BY <1>2, <1>4
<1>6. UNCHANGED <<vars, next, sending, sent, hpc>>
  BY DEF Stray, publisher, handler, arbitrator
<1>7. Closing'
  BY <1>6 DEF FeedInv, Closing, Flushing, vars, state
<1> QED
  BY <1>5, <1>6, <1>7, QuietFeed

\* The end of a drain, and the steps of the loop around it.
LEMMA LoopFeed ==
  ASSUME FeedType, FeedInv,
         (\E l \in Lines : DrainEnd(l)) \/ Poll \/ Continue \/ Report
  PROVE  FeedInv'
<1>1. UNCHANGED <<vars, next, sending, sent, pc, after, occupied>>
  BY DEF DrainEnd, Poll, Continue, Report, publisher, network, arbitrator, vars, state
<1>2. \A l \in Lines, s \in 0..Count-1 : Waiting(l, s)' <=> Waiting(l, s)
  <2>1. ASSUME NEW k \in Lines, DrainEnd(k), sock' # sock
        PROVE  \A l \in Lines, s \in 0..Count-1 : Waiting(l, s)' <=> Waiting(l, s)
    <3>1. /\ sock[k] # <<>> /\ ~Accepted(Head(sock[k]))
          /\ sock' = [sock EXCEPT ![k] = Tail(@)]
      BY <2>1 DEF DrainEnd
    <3>2. \A s : Head(sock[k]) # [seq |-> s, size |-> "full"]
      BY <3>1 DEF Accepted
    <3> QED
      BY <3>1, <3>2, WaitingTail, Zenon
  <2>2. CASE sock' = sock
    BY <2>2 DEF Waiting
  <2> QED
    BY <2>1, <2>2 DEF Poll, Continue, Report, network
<1>3. Closing'
  BY <1>1 DEF DrainEnd, Draining, Poll, Continue, Report, FeedInv, Closing, Flushing
<1>4. hpc \in {"flushing", "done"} => hpc' \in {"flushing", "done"}
  BY DEF DrainEnd, Draining, Poll, Continue, Report
<1> QED
  BY <1>1, <1>2, <1>3, <1>4, QuietFeed, Zenon

\* The loop ends and flush() is called: nothing is read any more.
LEMMA GiveUpFeed == ASSUME FeedType, FeedInv, GiveUp PROVE FeedInv'
<1>1. /\ UNCHANGED <<next, sending, sent, sock, heard, gapped, started, frontier, buf, pkt, lap>>
      /\ hpc = "drained" /\ hpc' = "flushing" /\ pc = "idle" /\ pc' = "flush"
  BY DEF GiveUp, Flush, publisher, network, history
<1>2. Published' /\ Accounted' /\ Closing' /\ NoFalseGaps'
  BY <1>1, Zenon DEF FeedInv, Published, Accounted, Closing, Flushing, NoFalseGaps, Waiting
<1>3. Kept'
  BY <1>1, Zenon DEF FeedInv, Kept, Holds, Placing
<1> QED
  BY <1>2, <1>3 DEF FeedInv

\* A packet is read and offered.  None was given up while the loop reads, so it is behind
\* the frontier, or it becomes the packet in hand.
LEMMA DrainFeed ==
  ASSUME NoLookalikes, FeedType, FeedInv, RingInv, LogInv, LogInv',
         NEW l \in Lines, DrainOne(l)
  PROVE  FeedInv'
<1> DEFINE d == Head(sock[l])
<1>1. /\ hpc \in {"drain0", "drain1"} /\ pc = "idle" /\ hpc' = hpc
      /\ UNCHANGED <<next, sending, sent>>
      /\ sock[l] # <<>> /\ sock' = [sock EXCEPT ![l] = Tail(@)]
  BY DEF DrainOne, Draining, publisher
<1>2. d \in Datagram /\ d.size = "full" /\ d.seq \in 0..Count-1
  <2>1. d \in Datagram
    BY <1>1 DEF FeedType
  <2>2. d.size \in {"full"} \cup StraySizes /\ d.size \in {"full", "oversized"}
    BY <2>1 DEF DrainOne, Accepted, Datagram
  <2> QED
    BY <2>1, <2>2 DEF NoLookalikes, Datagram
<1>3. PICK s \in 0..Count-1 : d = [seq |-> s, size |-> "full"]
  BY <1>2 DEF Datagram
<1>4. Offer([seq |-> s, line |-> l, record |-> s])
  <2>1. Offer([seq |-> d.seq, line |-> l, record |-> d.seq])
    BY Zenon DEF DrainOne
  <2>2. d.seq = s
    BY <1>3
  <2> HIDE DEF d
  <2> QED
    BY <2>1, <2>2, Zenon
<1>5. Waiting(l, s)
  <2>1. sock[l] \in Seq(Datagram)
    BY DEF FeedType
  <2>2. 1 \in 1..Len(sock[l]) /\ sock[l][1] = d
    BY <1>1, <2>1
  <2> QED
    BY <1>3, <2>2, Zenon DEF Waiting
<1>6. \A k \in Lines, i \in 0..Count-1 :
        /\ Waiting(k, i)' => Waiting(k, i)
        /\ Waiting(k, i) => Waiting(k, i)' \/ (k = l /\ i = s)
  <2>1. \A i \in 0..Count-1 : d = [seq |-> i, size |-> "full"] => i = s
    BY <1>3
  <2> QED
    BY <1>1, <2>1, WaitingTail, Zenon
<1> HIDE DEF d
<1>7. <<l, s>> \in sent
  BY <1>5 DEF FeedInv, Published
<1>8. \A g \in gapped : g[2] # s
  BY <1>1, <1>7 DEF FeedInv, NoFalseGaps
<1>9. /\ heard' = heard \cup {<<s, s>>} /\ started' /\ UNCHANGED <<gapped, buf, lap, after, occupied>>
      /\ frontier' = Anchored(s)
      /\ \/ s < frontier' /\ UNCHANGED pc
         \/ s - frontier' > kMaxGap /\ UNCHANGED pc
         \/ pc' = "force" /\ pkt'.seq = s
  BY <1>4 DEF Offer
<1>10. Published'
  BY <1>1, <1>6 DEF FeedInv, Published
<1>11. Accounted'
  <2>1. ASSUME NEW p \in sent PROVE Waiting(p[1], p[2])' \/ <<p[2], p[2]>> \in heard'
    <3>1. p[1] \in Lines /\ p[2] \in 0..Count-1
      BY DEF FeedType
    <3>2. CASE Waiting(p[1], p[2])
      BY <3>1, <3>2, <1>6, <1>9
    <3>3. CASE <<p[2], p[2]>> \in heard
      BY <3>3, <1>9
    <3> QED
      BY <3>2, <3>3 DEF FeedInv, Accounted
  <2>2. ASSUME NEW h \in heard' PROVE h[1] = h[2] /\ \E k \in Lines : <<k, h[1]>> \in sent
    <3>1. CASE h \in heard
      BY <3>1, Zenon DEF FeedInv, Accounted
    <3>2. CASE h = <<s, s>>
      <4>1. h[1] = s /\ h[2] = s
        BY <3>2
      <4> QED
        BY <4>1, <1>7
    <3> QED
      BY <3>1, <3>2, <1>9
  <2> QED
    BY <2>1, <2>2, <1>1, <1>9, Zenon DEF Accounted
<1>12. Kept'
  <2>1. frontier \in Nat /\ frontier' \in Nat /\ frontier' <= Count /\ lap' = 0
    <3>1. frontier \in Nat /\ Count \in Nat /\ s \in Nat /\ s <= Count
      BY FeedAssumption, MaxSeqAssumption DEF RingInv, TypeOK, SeqNum
    <3>2. frontier <= Count /\ lap = 0
      BY DEF FeedInv, Kept
    <3>3. frontier' = frontier \/ frontier' = s
      BY <1>9 DEF Anchored
    <3> QED
      BY <1>9, <3>1, <3>2, <3>3
  <2>2. s < frontier' \/ (Placing' /\ pkt'.seq = s)
    <3>0. s \in Nat /\ Count \in Nat /\ kMaxGap \in Nat /\ s < Count /\ Count <= kMaxGap
      BY FeedAssumption, kMaxGapAssumption
    <3>1. \A f \in Nat : s - f <= kMaxGap /\ ~(s - f > kMaxGap)
      BY <3>0
    <3> QED
      BY <1>9, <2>1, <3>1 DEF Placing
  <2>3. ASSUME NEW h \in heard PROVE h[1] < frontier' \/ Holds(h[1])'
    <3>1. started
      BY DEF FeedInv, Accounted
    <3>2. frontier' = frontier
      BY <3>1, <1>9 DEF Anchored
    <3>3. ~Placing
      BY <1>1 DEF Placing
    <3>4. Holds(h[1])' <=> Holds(h[1])
      BY <1>9 DEF Holds
    <3> QED
      BY <3>2, <3>3, <3>4 DEF FeedInv, Kept
  <2>4. ASSUME NEW h \in heard'
        PROVE  h[1] < frontier' \/ Holds(h[1])' \/ (Placing' /\ pkt'.seq = h[1])
    <3>1. CASE h = <<s, s>>
      <4>1. h[1] = s
        BY <3>1
      <4> QED
        BY <2>2, <4>1
    <3> QED
      BY <2>3, <3>1, <1>9
  <2>5. ASSUME NEW h \in heard', NEW g \in gapped PROVE h[1] # g[2]
    <3>1. CASE h = <<s, s>>
      BY <3>1, <1>8
    <3>2. CASE h \in heard
      BY <3>2 DEF FeedInv, Kept
    <3> QED
      BY <3>1, <3>2, <1>9
  <2> QED
    BY <2>1, <2>4, <2>5, <1>9 DEF Kept
<1>13. NoFalseGaps'
  BY <1>1, <1>9 DEF FeedInv, NoFalseGaps
<1>14. Closing'
  BY <1>1, <1>9 DEF FeedInv, Closing, Flushing
<1> QED
  BY <1>10, <1>11, <1>12, <1>13, <1>14 DEF FeedInv

\* An iteration of the arbitrator's loops.  Within the rate assumption a sequence that a
\* packet in hand pushes out of the window can no longer be on the wire; flush() runs
\* after the last read.
LEMMA ArbitrateFeed ==
  ASSUME SkewWithinWindow, FeedType, FeedInv, RingInv, LogInv, LogInv', Arbitrate
  PROVE  FeedInv'
<1>1. Step /\ UNCHANGED <<next, sending, sent, sock, hpc, heard, started>>
  BY DEF Arbitrate, publisher, network, handler, Step, ForceAdvance, FlushAdvance,
         AdvanceFrontier, Store, ReleaseOne, ReleaseDone, FlushDone, history
<1>2. Published' /\ Accounted'
  BY <1>1, Zenon DEF FeedInv, Published, Accounted, Waiting
<1>3. Kept'
  BY <1>1, StepKept DEF FeedInv
<1>4. Closing'
  <2>1. CASE ForceAdvance
    BY <2>1, <1>1 DEF ForceAdvance, AdvanceFrontier, FeedInv, Closing, Flushing
  <2>2. CASE FlushAdvance
    BY <2>2, <1>1 DEF FlushAdvance, AdvanceFrontier, FeedInv, Closing, Flushing
  <2>3. CASE Store
    BY <2>3, <1>1 DEF Store, FeedInv, Closing, Flushing
  <2>4. CASE ReleaseOne
    BY <2>4, <1>1 DEF ReleaseOne, FeedInv, Closing, Flushing
  <2>5. CASE ReleaseDone
    BY <2>5, <1>1 DEF ReleaseDone, FeedInv, Closing, Flushing
  <2>6. CASE FlushDone
    BY <2>6, <1>1 DEF FlushDone, FeedInv, Closing, Flushing
  <2> QED
    BY <1>1, <2>1, <2>2, <2>3, <2>4, <2>5, <2>6, Zenon DEF Step
<1>5. NoFalseGaps'
  <2>1. CASE ForceAdvance \/ FlushAdvance
    <3>1. gapped' = gapped \cup {<<lap, frontier>>}
      BY <2>1, AdvanceIsGap DEF DeclareGap
    <3>2. ASSUME NEW l \in Lines, <<l, frontier>> \in sent
          PROVE  hpc \in {"flushing", "done"} /\ Waiting(l, frontier)
      <4>1. frontier \in 0..Count-1
        BY <3>2 DEF FeedType
      <4>2. Waiting(l, frontier)
        <5>1. Waiting(l, frontier) \/ <<frontier, frontier>> \in heard
          BY <3>2 DEF FeedInv, Accounted
        <5>2. <<frontier, frontier>> \notin heard
          BY <2>1, FrontierUnheard DEF FeedInv
        <5> QED
          BY <5>1, <5>2
      <4>3. CASE FlushAdvance
        BY <4>2, <4>3 DEF FlushAdvance, FeedInv, Closing, Flushing
      <4>4. CASE ForceAdvance
        <5>1. <<pkt.seq, pkt.record>> \in heard /\ pkt.seq - frontier >= Window
          BY <4>4 DEF ForceAdvance, LogInv, SlotsHeard, Placing
        <5>2. PICK k \in Lines : <<k, pkt.seq>> \in sent
          BY <5>1, Zenon DEF FeedInv, Accounted
        <5>3. pkt.seq < next + sending
          BY <5>2 DEF FeedInv, Published
        <5>4. next + sending <= frontier + MaxLead
          BY <4>1, <4>2, Zenon DEF FeedInv, Published
        <5>5. /\ pkt.seq \in Int /\ frontier \in Int /\ next \in Int /\ sending \in Int
              /\ MaxLead \in Int /\ Window \in Int /\ MaxLead <= Window
          BY FeedAssumption, WindowAssumption, MaxSeqAssumption
             DEF SkewWithinWindow, FeedType, RingInv, TypeOK, Packet, SeqNum
        <5>6. FALSE
          BY <5>1, <5>3, <5>4, <5>5
        <5> QED
          BY <5>6
      <4> QED
        BY <2>1, <4>3, <4>4
    <3>3. ASSUME NEW g \in gapped', NEW l \in Lines, <<l, g[2]>> \in sent
          PROVE  hpc \in {"flushing", "done"} /\ Waiting(l, g[2])
      <4>1. CASE g \in gapped
        BY <3>3, <4>1 DEF FeedInv, NoFalseGaps
      <4>2. CASE g = <<lap, frontier>>
        <5>1. g[2] = frontier
          BY <4>2, Zenon
        <5> QED
          BY <5>1, <3>2, <3>3
      <4> QED
        BY <4>1, <4>2, <3>1
    <3> QED
      BY <3>3, <1>1 DEF NoFalseGaps, Waiting
  <2>2. CASE UNCHANGED gapped
    BY <2>2, <1>1 DEF FeedInv, NoFalseGaps, Waiting
  <2> QED
    BY <1>1, <2>1, <2>2, Zenon DEF Step, Store, ReleaseOne, Deliver, ReleaseDone, FlushDone, history
<1> QED
  BY <1>2, <1>3, <1>4, <1>5 DEF FeedInv

\* Every step of the demo preserves the handler's invariant.
LEMMA FeedStep ==
  ASSUME SkewWithinWindow, NoLookalikes
  PROVE  FeedType /\ RingInv /\ LogInv /\ FeedInv /\ [FeedNext]_feedVars => FeedInv'
<1> SUFFICES ASSUME FeedType, RingInv, LogInv, FeedInv, [FeedNext]_feedVars
             PROVE  FeedInv'
  OBVIOUS
<1>0. LogInv'
  BY HandlerStep, LogStep
<1>1. ASSUME NEW lost \in BOOLEAN, Send(lost) PROVE FeedInv'
  BY <1>1, SendFeed
<1>2. ASSUME NEW l \in Lines, NEW size \in StraySizes, NEW seq \in 0..Count-1,
             Stray(l, size, seq)
      PROVE  FeedInv'
  BY <1>2, StrayFeed
<1>3. ASSUME NEW l \in Lines, DrainOne(l) PROVE FeedInv'
  BY <1>0, <1>3, DrainFeed
<1>4. CASE (\E l \in Lines : DrainEnd(l)) \/ Poll \/ Continue \/ Report
  BY <1>4, LoopFeed
<1>5. CASE GiveUp
  BY <1>5, GiveUpFeed
<1>6. CASE Arbitrate
  BY <1>0, <1>6, ArbitrateFeed
<1>7. CASE UNCHANGED feedVars
  <2>1. UNCHANGED <<vars, next, sending, sent, sock, hpc>>
    BY <1>7 DEF feedVars, publisher, network, handler, arbitrator
  <2>2. \A l \in Lines, s \in 0..Count-1 : Waiting(l, s)' <=> Waiting(l, s)
    BY <2>1 DEF Waiting
  <2>3. Closing'
    BY <2>1 DEF FeedInv, Closing, Flushing, vars, state
  <2> QED
    BY <2>1, <2>2, <2>3, QuietFeed
<1> QED
  BY <1>1, <1>2, <1>3, <1>4, <1>5, <1>6, <1>7 DEF FeedNext, Handle

\* The handler's invariant holds throughout, with those of the arbitrator inside it.
THEOREM FeedInvariant ==
  ASSUME SkewWithinWindow, NoLookalikes
  PROVE  FeedSpec => [](FeedType /\ RingInv /\ LogInv /\ FeedInv)
<1>1. FeedSpec => []FeedType
  BY FeedTypeInit, FeedTypeStep, PTL DEF FeedSpec
<1>2. FeedSpec => [](RingInv /\ LogInv)
  BY HandlerDrivesArbitrator, RingInvariant, LogInvariant, PTL
<1>3. FeedType /\ RingInv /\ LogInv /\ FeedInv /\ [FeedNext]_feedVars => FeedInv'
  BY FeedStep
<1> QED
  BY <1>1, <1>2, <1>3, FeedInvInit, PTL DEF FeedSpec

\* What the report calls "gaps (lost on both)" was lost on both, up to what was still
\* unread when the handler stopped listening, for every length of the stream, every
\* window and every interleaving of the lines (feed_handler.cpp, arbitrator.h).
THEOREM GapsLostOnBoth ==
  ASSUME SkewWithinWindow, NoLookalikes
  PROVE  FeedSpec => []NoFalseGaps
BY FeedInvariant, PTL DEF FeedInv

\* When the report is printed, what was taken off the sockets has been handed to the
\* validator under its own sequence, with the payload it carried.
THEOREM ReadIsValidated ==
  ASSUME SkewWithinWindow, NoLookalikes
  PROVE  FeedSpec => []HandledIsValidated
<1>1. FeedType /\ RingInv /\ LogInv /\ FeedInv => HandledIsValidated
  <2> SUFFICES ASSUME FeedType, RingInv, LogInv, FeedInv, hpc = "done",
                      NEW p \in heard, p[1] >= anchor
               PROVE  \E i \in 1..Len(out) : out[i].seq = p[1] /\ out[i].record = p[2]
    BY DEF HandledIsValidated
  <2>1. pc = "idle" /\ occupied = 0 /\ lap = 0 /\ p[1] \in 0..Count-1 /\ p[1] = p[2]
    BY HeardRange DEF FeedInv, Closing, Kept
  <2>2. Live = {}
    BY <2>1, LiveFinite DEF RingInv, OccupiedCount, Live
  <2>3. ~Holds(p[1])
    BY <2>1, <2>2, IndexRange DEF Holds, Live
  <2>4. p[1] < frontier
    BY <2>1, <2>3 DEF FeedInv, Kept, Placing
  <2>5. p[1] \in SeqNum /\ 0 \in 0..lap
    BY <2>1, FeedAssumption, MaxSeqAssumption DEF SeqNum
  <2>6. Passed(0, p[1])
    BY <2>1, <2>4 DEF Passed
  <2>7. <<0, p[1]>> \notin gapped
    BY DEF FeedInv, Kept
  <2>8. Released(0, p[1])
    BY <2>5, <2>6, <2>7, Zenon DEF LogInv, ExactlyOnce
  <2>9. PICK i \in 1..Len(out) : out[i].seq = p[1]
    BY <2>8 DEF Released
  <2>10. <<out[i].seq, out[i].record>> \in heard
    BY DEF LogInv, Integrity
  <2>11. out[i].record = out[i].seq
    BY <2>10, HeardRange DEF FeedInv
  <2> QED
    BY <2>1, <2>9, <2>11, Zenon
<1> QED
  BY <1>1, FeedInvariant, PTL

=============================================================================
