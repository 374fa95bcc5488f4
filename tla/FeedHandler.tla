---------------------------- MODULE FeedHandler -----------------------------
(***************************************************************************)
(* The multicast demo end to end: feed_publisher.cpp sends each sequence   *)
(* on two lines, feed_handler.cpp drains the two sockets in one thread     *)
(* into a FeedArbitrator, all of line A before line B, and stops when the  *)
(* feed has been silent for a while.                                       *)
(*                                                                         *)
(* A socket is a queue of datagrams.  A line loses any of them (the        *)
(* publisher's own drop, or the network); other senders on the group may   *)
(* add datagrams that are not FeedPackets.  Wall-clock time is abstracted: *)
(* an idle handler may give up, a handler that just received may not.      *)
(***************************************************************************)
EXTENDS FeedArbitrator

CONSTANTS
  Count,       \* sequences published: 0 .. Count-1
  MaxLead,     \* how far the publisher runs ahead of the oldest unread datagram
  StraySizes,  \* sizes of foreign datagrams, a subset of {"short", "oversized"}
  MaxStrays    \* bound: number of foreign datagrams

\* The stream is short of the gap limit and of the end of the sequence numbers, and a
\* record is identified by the sequence it was published under.
ASSUME FeedAssumption ==
  /\ Count \in Nat \ {0} /\ Count <= kMaxGap /\ Count <= MaxSeq
  /\ 0..Count-1 \subseteq Records
  /\ MaxLead \in Nat \ {0}
  /\ StraySizes \subseteq {"short", "oversized"} /\ MaxStrays \in Nat
  /\ MaxOffers >= 2 * Count + MaxStrays

VARIABLES
  \* The publisher: seq, and the line it sends on next (Count when done).
  next, sending,
  \* The network: unread datagrams and, as history, what was put on each line.
  sock, sent, strays,
  \* The handler: where its loop is, got and seen.
  hpc, got, seen

publisher == <<next, sending>>
network == <<sock, sent, strays>>
handler == <<hpc, got, seen>>
arbitrator == vars
feedVars == <<publisher, network, handler, arbitrator>>

FeedInit ==
  /\ next = 0 /\ sending = 0
  /\ sock = [l \in Lines |-> <<>>] /\ sent = {} /\ strays = 0
  /\ hpc = "poll" /\ got = FALSE /\ seen = FALSE
  /\ Init

-----------------------------------------------------------------------------
(* feed_publisher.cpp, and what the network makes of it                    *)

\* A copy of packet s that line l brought has not been read.
Waiting(l, s) == \E i \in 1..Len(sock[l]) : sock[l][i] = [seq |-> s, size |-> "full"]
Unread == {s \in 0..Count-1 : \E l \in Lines : Waiting(l, s)}

\* The rate assumption behind "ample for the inter-line skew at feed rates".
WithinLead == \A s \in Unread : next < s + MaxLead

\* One copy of packet next, on line sending; it is lost or it is queued.
Send(lost) ==
  /\ next < Count /\ WithinLead
  /\ IF lost THEN UNCHANGED <<sock, sent>>
     ELSE /\ sock' = [sock EXCEPT ![sending] = Append(@, [seq |-> next, size |-> "full"])]
          /\ sent' = sent \cup {<<sending, next>>}
  /\ sending' = 1 - sending
  /\ next' = next + sending
  /\ UNCHANGED <<strays, handler, arbitrator>>

\* A datagram of another size, from elsewhere.
Stray(l, size, seq) ==
  /\ strays < MaxStrays
  /\ strays' = strays + 1
  /\ sock' = [sock EXCEPT ![l] = Append(@, [seq |-> seq, size |-> size])]
  /\ UNCHANGED <<publisher, sent, handler, arbitrator>>

-----------------------------------------------------------------------------
(* feed_handler.cpp                                                        *)

\* recv() with a buffer of sizeof(FeedPacket) returns at most that many bytes:
\* the excess of a longer datagram is cut off.
Accepted(d) == d.size \in {"full", "oversized"}

\* Fault: got is not reset for the next iteration.
PollKeepsGot ==
  /\ hpc = "poll"
  /\ hpc' = "drain0"
  /\ UNCHANGED <<got, seen, publisher, network, arbitrator>>

Poll ==
  /\ hpc = "poll"
  /\ hpc' = "drain0" /\ got' = FALSE
  /\ UNCHANGED <<seen, publisher, network, arbitrator>>

Draining(l) == pc = "idle" /\ hpc = (IF l = 0 THEN "drain0" ELSE "drain1")

\* Fault: a packet is taken off the socket and not offered.
DrainOneDropsB(l) ==
  LET d == Head(sock[l]) IN
  /\ Draining(l) /\ sock[l] # <<>> /\ Accepted(d)
  /\ sock' = [sock EXCEPT ![l] = Tail(@)]
  /\ IF l = 0 THEN Offer([seq |-> d.seq, line |-> l, record |-> d.seq])
     ELSE UNCHANGED arbitrator
  /\ got' = TRUE
  /\ UNCHANGED <<hpc, seen, sent, strays, publisher>>

\* while (recv(pkt)) { arb.offer(pkt, sink); got = true; }
DrainOne(l) ==
  LET d == Head(sock[l]) IN
  /\ Draining(l) /\ sock[l] # <<>> /\ Accepted(d)
  /\ sock' = [sock EXCEPT ![l] = Tail(@)]
  /\ Offer([seq |-> d.seq, line |-> l, record |-> d.seq])
  /\ got' = TRUE
  /\ UNCHANGED <<hpc, seen, sent, strays, publisher>>

\* recv() returned false: nothing to read, or a datagram it does not accept.
DrainEnd(l) ==
  /\ Draining(l)
  /\ \/ sock[l] = <<>> /\ UNCHANGED sock
     \/ /\ sock[l] # <<>> /\ ~Accepted(Head(sock[l]))
        /\ sock' = [sock EXCEPT ![l] = Tail(@)]
  /\ hpc' = IF l = 0 THEN "drain1" ELSE "drained"
  /\ UNCHANGED <<got, seen, sent, strays, publisher, arbitrator>>

\* Data was received, or the silence is not long enough yet.
Continue ==
  /\ hpc = "drained"
  /\ seen' = (seen \/ got)
  /\ hpc' = "poll"
  /\ UNCHANGED <<got, publisher, network, arbitrator>>

\* Fault: the loop ends without the flush.
GiveUpUnflushed ==
  /\ hpc = "drained" /\ ~got
  /\ hpc' = "flushing"
  /\ UNCHANGED <<got, seen, publisher, network, arbitrator>>

\* 800 ms after the last data, or 10 s without any: break, then flush.
GiveUp ==
  /\ hpc = "drained" /\ ~got
  /\ hpc' = "flushing"
  /\ Flush
  /\ UNCHANGED <<got, seen, publisher, network>>

Report ==
  /\ hpc = "flushing" /\ pc = "idle"
  /\ hpc' = "done"
  /\ UNCHANGED <<got, seen, publisher, network, arbitrator>>

Arbitrate == Step /\ UNCHANGED <<publisher, network, handler>>

Handle == \/ Poll \/ (\E l \in Lines : DrainOne(l) \/ DrainEnd(l)) \/ Continue
          \/ GiveUp \/ Report \/ Arbitrate

FeedNext ==
  \/ \E lost \in BOOLEAN : Send(lost)
  \/ \E l \in Lines, size \in StraySizes, seq \in 0..Count-1 : Stray(l, size, seq)
  \/ Handle

FeedSpec == FeedInit /\ [][FeedNext]_feedVars

\* The handler's thread runs; an iteration that finds nothing again and again
\* finds its idle time past the limit.
FairFeed == FeedSpec /\ WF_feedVars(Handle) /\ SF_feedVars(GiveUp)

-----------------------------------------------------------------------------
(* Properties                                                              *)

\* "gaps (lost on both)" (feed_handler.cpp:100), while the publisher's lead is at
\* most the window: a sequence is given up as a gap only if neither line brought
\* it, or if the only copy was still unread when the handler stopped listening.
NoFalseGaps ==
  \A g \in gapped : \A l \in Lines :
    <<l, g[2]>> \in sent => hpc \in {"flushing", "done"} /\ Waiting(l, g[2])

\* When the report is printed, every packet taken off a socket since the stream was
\* anchored has been through the validator, once, under its own sequence.
HandledIsValidated ==
  hpc = "done" =>
    \A p \in heard : p[1] >= anchor =>
      \E i \in 1..Len(out) : out[i].seq = p[1] /\ out[i].record = p[2]

\* The report comes: the loop ends once the publisher has stopped, and so do the
\* arbitrator's loops.
Reports == <>(hpc = "done")

\* "drains all of line A before line B ... delivery is unaffected"
\* (feed_handler.cpp:49-51): nothing that a line brought is given up as a gap.
DeliveryUnaffected == NoFalseGaps
=============================================================================
