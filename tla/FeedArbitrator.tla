--------------------------- MODULE FeedArbitrator ---------------------------
(***************************************************************************)
(* A/B line arbitration (src/feed/arbitrator.h): one stream of numbered    *)
(* messages arrives redundantly on two lines; the arbitrator hands each    *)
(* sequence to a sink once, in order, and declares a gap when it must give *)
(* one up.                                                                 *)
(*                                                                         *)
(* The object is single threaded.  offer() and flush() are loops around    *)
(* the sink callback, so each call is a run of steps driven by pc: one     *)
(* step per loop iteration, and no new call starts before pc is "idle".    *)
(***************************************************************************)
EXTENDS Integers, Sequences, FiniteSets

CONSTANTS
  Window,     \* slots of the reorder ring (template parameter)
  kMaxGap,    \* farthest ahead of the frontier a packet is believed
  MaxSeq,     \* largest sequence number of the integer type, 2^64 - 1
  Records,    \* payloads
  MaxOffers   \* bound: calls of offer() in a behaviour

ASSUME WindowAssumption == Window \in Nat /\ Window >= 2
ASSUME kMaxGapAssumption == kMaxGap \in Nat
ASSUME MaxSeqAssumption == MaxSeq \in Nat
ASSUME MaxOffersAssumption == MaxOffers \in Nat
ASSUME RecordsAssumption == Records # {}

Lines == 0..1       \* line A is 0, line B is 1
SeqNum == 0..MaxSeq
Packet == [seq : SeqNum, line : Lines, record : Records]
Slot == [occupied : BOOLEAN, seq : SeqNum, record : Records]
Stats == [delivered : Nat, duplicates : [Lines -> Nat], gaps : Nat,
          max_reorder : Nat, rejected : Nat]

AnyRecord == CHOOSE r \in Records : TRUE
EmptySlot == [occupied |-> FALSE, seq |-> 0, record |-> AnyRecord]
NoPacket == [seq |-> 0, line |-> 0, record |-> AnyRecord]

VARIABLES
  buf,        \* buf_: the ring of slots
  frontier,   \* frontier_: the next sequence to release
  occupied,   \* occupied_: number of occupied slots
  started,    \* started_: a first packet has anchored the frontier
  stats,      \* stats_
  pc,         \* where the running call is
  after,      \* where release_prefix() returns to
  pkt,        \* the packet of the running offer()
  \* History, read by no action.
  lap,        \* times frontier_ wrapped past MaxSeq
  anchor,     \* frontier_ at the first packet
  out,        \* what the sink received
  gapped,     \* the sequences declared gaps, with their lap
  heard,      \* <<seq, record>> of every packet offered
  offers      \* calls of offer()

state == <<buf, frontier, occupied, started, stats, pc, after, pkt>>
history == <<lap, anchor, out, gapped, heard, offers>>
vars == <<state, history>>

Index(seq) == seq % Window

\* The slot of seq is live and holds that very sequence.
Holds(seq) == buf[Index(seq)].occupied /\ buf[Index(seq)].seq = seq

Init ==
  /\ buf = [i \in 0..Window-1 |-> EmptySlot]
  /\ frontier = 0
  /\ occupied = 0
  /\ started = FALSE
  /\ stats = [delivered |-> 0, duplicates |-> [l \in Lines |-> 0], gaps |-> 0,
              max_reorder |-> 0, rejected |-> 0]
  /\ pc = "idle"
  /\ after = "idle"
  /\ pkt = NoPacket
  /\ lap = 0
  /\ anchor = 0
  /\ out = <<>>
  /\ gapped = {}
  /\ heard = {}
  /\ offers = 0

-----------------------------------------------------------------------------
(* The two things a loop iteration can do at the frontier.                 *)

\* ++frontier_ on an unsigned integer.
StepFrontier ==
  /\ frontier' = IF frontier = MaxSeq THEN 0 ELSE frontier + 1
  /\ lap' = IF frontier = MaxSeq THEN lap + 1 ELSE lap

\* Fault: the released slot is not freed.
DeliverKeepsSlot ==
  /\ out' = Append(out, [lap |-> lap, seq |-> frontier,
                         record |-> buf[Index(frontier)].record])
  /\ stats' = [stats EXCEPT !.delivered = @ + 1]
  /\ occupied' = occupied - 1
  /\ UNCHANGED <<gapped, buf>>

\* sink(frontier_, record), ++delivered, free the slot, --occupied_.
Deliver ==
  /\ out' = Append(out, [lap |-> lap, seq |-> frontier,
                         record |-> buf[Index(frontier)].record])
  /\ stats' = [stats EXCEPT !.delivered = @ + 1]
  /\ buf' = [buf EXCEPT ![Index(frontier)].occupied = FALSE]
  /\ occupied' = occupied - 1
  /\ UNCHANGED gapped

DeclareGap ==
  /\ stats' = [stats EXCEPT !.gaps = @ + 1]
  /\ gapped' = gapped \cup {<<lap, frontier>>}
  /\ UNCHANGED <<buf, occupied, out>>

\* advance_frontier(): its last call, release_prefix(), returns to ret.
AdvanceFrontier(ret) ==
  /\ IF Holds(frontier) THEN Deliver ELSE DeclareGap
  /\ StepFrontier
  /\ pc' = "release"
  /\ after' = ret
  /\ UNCHANGED <<started, pkt, anchor, heard, offers>>

\* release_prefix(): one iteration, or the return.
ReleaseOne ==
  /\ pc = "release"
  /\ Holds(frontier)
  /\ Deliver
  /\ StepFrontier
  /\ UNCHANGED <<started, pc, after, pkt, anchor, heard, offers>>

ReleaseDone ==
  /\ pc = "release"
  /\ ~Holds(frontier)
  /\ pc' = after
  /\ UNCHANGED <<buf, frontier, occupied, started, stats, after, pkt, history>>

-----------------------------------------------------------------------------
(* offer()                                                                 *)

\* Fault: a late packet pulls the frontier back.
AnchoredBack(seq) == IF started /\ seq >= frontier THEN frontier ELSE seq

\* The first packet ever offered anchors the frontier at its own sequence.
Anchored(seq) == IF started THEN frontier ELSE seq

Offer(p) ==
  LET f == Anchored(p.seq) IN
  /\ pc = "idle"
  /\ offers < MaxOffers
  /\ frontier' = f
  /\ started' = TRUE
  /\ anchor' = IF started THEN anchor ELSE p.seq
  /\ offers' = offers + 1
  /\ heard' = heard \cup {<<p.seq, p.record>>}
  /\ \/ /\ p.seq < f
        /\ stats' = [stats EXCEPT !.duplicates[p.line] = @ + 1]
        /\ UNCHANGED <<pc, pkt>>
     \/ /\ p.seq >= f
        /\ p.seq - f > kMaxGap
        /\ stats' = [stats EXCEPT !.rejected = @ + 1]
        /\ UNCHANGED <<pc, pkt>>
     \/ /\ p.seq >= f
        /\ p.seq - f <= kMaxGap
        /\ pc' = "force"
        /\ pkt' = p
        /\ UNCHANGED stats
  /\ UNCHANGED <<buf, occupied, after, lap, out, gapped>>

\* Fault: the frontier jumps over the hole instead of stepping through it.
ForceJump ==
  /\ pc = "force"
  /\ pkt.seq - frontier >= Window
  /\ frontier' = pkt.seq - Window + 1
  /\ UNCHANGED <<buf, occupied, started, stats, pc, after, pkt, history>>

\* while (seq - frontier_ >= Window) advance_frontier(sink);
ForceAdvance ==
  /\ pc = "force"
  /\ pkt.seq - frontier >= Window
  /\ AdvanceFrontier("force")

\* Faults: the duplicate is not counted; the stored packet is not released at
\* once; the slot keeps its old record.
Placed(depth) ==
  /\ stats' = [stats EXCEPT !.max_reorder = IF depth > @ THEN depth ELSE @]
  /\ buf' = [buf EXCEPT ![Index(pkt.seq)] =
               [occupied |-> TRUE, seq |-> pkt.seq, record |-> pkt.record]]
  /\ occupied' = occupied + 1
  /\ UNCHANGED <<frontier, started, pkt, history>>
StoreUncounted ==
  /\ pc = "force" /\ pkt.seq - frontier < Window
  /\ IF buf[Index(pkt.seq)].occupied
     THEN pc' = "idle" /\ UNCHANGED <<buf, frontier, occupied, started, stats, after, pkt, history>>
     ELSE Placed(pkt.seq - frontier) /\ pc' = "release" /\ after' = "idle"
StoreNoRelease ==
  /\ pc = "force" /\ pkt.seq - frontier < Window
  /\ IF buf[Index(pkt.seq)].occupied
     THEN UNCHANGED <<buf, frontier, occupied, started, stats, pkt, history>>
     ELSE Placed(pkt.seq - frontier)
  /\ pc' = "idle" /\ UNCHANGED after
StoreStaleRecord ==
  /\ pc = "force" /\ pkt.seq - frontier < Window
  /\ IF buf[Index(pkt.seq)].occupied
     THEN pc' = "idle" /\ UNCHANGED <<buf, occupied, after>>
     ELSE /\ buf' = [buf EXCEPT ![Index(pkt.seq)].occupied = TRUE,
                                ![Index(pkt.seq)].seq = pkt.seq]
          /\ occupied' = occupied + 1
          /\ pc' = "release" /\ after' = "idle"
  /\ UNCHANGED <<stats, frontier, started, pkt, history>>

\* seq fits the window: record its depth, then store it or drop the copy.
Store ==
  LET depth == pkt.seq - frontier
      slot == buf[Index(pkt.seq)]
      noted == [stats EXCEPT !.max_reorder = IF depth > @ THEN depth ELSE @]
  IN
  /\ pc = "force"
  /\ depth < Window
  /\ IF slot.occupied
     THEN /\ stats' = IF slot.seq = pkt.seq
                      THEN [noted EXCEPT !.duplicates[pkt.line] = @ + 1]
                      ELSE noted
          /\ pc' = "idle"
          /\ UNCHANGED <<buf, occupied, after>>
     ELSE /\ stats' = noted
          /\ buf' = [buf EXCEPT ![Index(pkt.seq)] =
                       [occupied |-> TRUE, seq |-> pkt.seq, record |-> pkt.record]]
          /\ occupied' = occupied + 1
          /\ pc' = "release"
          /\ after' = "idle"
  /\ UNCHANGED <<frontier, started, pkt, history>>

-----------------------------------------------------------------------------
(* flush(): while (occupied_ > 0) advance_frontier(sink);                  *)

Flush ==
  /\ pc = "idle"
  /\ pc' = "flush"
  /\ UNCHANGED <<buf, frontier, occupied, started, stats, after, pkt, history>>

\* Faults: flush() goes on when nothing is left; flush() only releases the prefix.
FlushAdvanceAlways ==
  /\ pc = "flush"
  /\ AdvanceFrontier("flush")
FlushReleaseOnly ==
  /\ pc = "flush"
  /\ occupied > 0
  /\ pc' = "release" /\ after' = "flush"
  /\ UNCHANGED <<buf, frontier, occupied, started, stats, pkt, history>>

FlushAdvance ==
  /\ pc = "flush"
  /\ occupied > 0
  /\ AdvanceFrontier("flush")

\* Fault: flush() returns whatever is left.
FlushDoneEarly ==
  /\ pc = "flush"
  /\ pc' = "idle"
  /\ UNCHANGED <<buf, frontier, occupied, started, stats, after, pkt, history>>

FlushDone ==
  /\ pc = "flush"
  /\ occupied = 0
  /\ pc' = "idle"
  /\ UNCHANGED <<buf, frontier, occupied, started, stats, after, pkt, history>>

-----------------------------------------------------------------------------
\* What a running call does next; the caller decides only when to call.
Step == \/ ForceAdvance \/ Store \/ ReleaseOne \/ ReleaseDone
        \/ FlushAdvance \/ FlushDone

Next == (\E p \in Packet : Offer(p)) \/ Flush \/ Step

Spec == Init /\ [][Next]_vars

\* A call in progress keeps running: the thread that made it is scheduled.
FairSpec == Spec /\ WF_vars(Step)
-----------------------------------------------------------------------------
(* Properties                                                              *)

\* Every variable stays within its type.
TypeOK ==
  /\ buf \in [0..Window-1 -> Slot]
  /\ frontier \in SeqNum
  /\ occupied \in Nat
  /\ started \in BOOLEAN
  /\ stats \in Stats
  /\ pc \in {"idle", "force", "release", "flush"}
  /\ after \in {"idle", "force", "flush"}
  /\ pkt \in Packet
  /\ lap \in Nat
  /\ anchor \in SeqNum
  /\ out \in Seq([lap : Nat, seq : SeqNum, record : Records])
  /\ gapped \in SUBSET (Nat \X SeqNum)
  /\ heard \in SUBSET (SeqNum \X Records)
  /\ offers \in Nat

\* An offer() is between its range checks and the store of its packet.
Placing == pc = "force" \/ (pc = "release" /\ after = "force")

\* Every live slot holds a sequence that belongs there and lies less than one
\* window ahead of the frontier, and the packet being placed is never behind
\* the frontier, so seq - frontier_ does not wrap (lines 111-130).
InWindow ==
  /\ \A i \in 0..Window-1 : buf[i].occupied =>
       /\ Index(buf[i].seq) = i
       /\ frontier <= buf[i].seq
       /\ buf[i].seq - frontier < Window
  /\ Placing => frontier <= pkt.seq

\* "A different seq would alias a live slot -- impossible given the window
\* bound above" (lines 121-123): the branch that silently loses a packet is
\* never taken.
NoAlias ==
  pc = "force" /\ pkt.seq - frontier < Window /\ buf[Index(pkt.seq)].occupied
    => buf[Index(pkt.seq)].seq = pkt.seq

\* occupied_, the counter flush() stops on, is the number of live slots.
OccupiedCount == occupied = Cardinality({i \in 0..Window-1 : buf[i].occupied})

Earlier(a, b) == a.lap < b.lap \/ (a.lap = b.lap /\ a.seq < b.seq)

\* The sink sees strictly increasing sequences, over all calls ("strictly in
\* order", line 19), up to the wrap of the sequence number.
InOrder == \A i, j \in 1..Len(out) : i < j => Earlier(out[i], out[j])

\* The frontier has passed sequence s of lap l since the anchor.
Passed(l, s) == /\ l > 0 \/ s >= anchor
                /\ l < lap \/ (l = lap /\ s < frontier)

Released(l, s) == \E i \in 1..Len(out) : out[i].lap = l /\ out[i].seq = s

\* Each sequence the frontier passed went to the sink or was declared a gap,
\* never both, and nothing ahead of the frontier was ("detection has to be
\* exact", lines 19-23).
ExactlyOnce ==
  \A l \in 0..lap, s \in SeqNum :
    /\ Passed(l, s) <=> (Released(l, s) \/ <<l, s>> \in gapped)
    /\ ~(Released(l, s) /\ <<l, s>> \in gapped)

\* What reaches the sink as sequence s is a payload some packet carried under
\* that very sequence: reuse of a slot never crosses two messages.
Integrity == \A i \in 1..Len(out) : <<out[i].seq, out[i].record>> \in heard

\* A gap is declared only below a sequence that was heard: running ahead of
\* the stream would turn the next packets into duplicates.
GapsBelowHeard == \A g \in gapped : \E h \in heard : g[2] < h[1]

\* "deliver every sequence exactly once, strictly in order, taking whichever line
\* delivers each copy first" (lines 19-20), step by step: the frontier is the number
\* whose turn it is, and neither the ring nor the lines show.
Ordered == INSTANCE OrderedFeed WITH next <- frontier, lost <- gapped
IsOrderedFeed == Ordered!Spec

\* No packet goes missing: each one offered was delivered, waits in a slot, was
\* counted as a duplicate or as rejected, or is the one being placed.
Conservation ==
  offers = stats.delivered + occupied + stats.duplicates[0]
             + stats.duplicates[1] + stats.rejected + (IF Placing THEN 1 ELSE 0)

\* The published counters account for every step of the frontier.
CountsPassed ==
  started => stats.delivered + stats.gaps = frontier - anchor + lap * (MaxSeq + 1)

\* "Every message that becomes deliverable ... is handed to sink ... before
\* offer() returns" (lines 72-74).
PromptRelease == pc = "idle" => ~Holds(frontier)

\* flush() returns with no message left in any slot ("so no message is left
\* stranded", lines 135-136).
NothingStranded ==
  [][FlushDone => \A i \in 0..Window-1 : ~buf[i].occupied]_vars

\* Every call returns: the forced-advance loop and the flush loop both end.
CallReturns == (pc # "idle") ~> (pc = "idle")
=============================================================================
