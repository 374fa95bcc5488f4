----------------------------- MODULE OrderedFeed -----------------------------
(***************************************************************************)
(* What the consumer of a redundant, lossy feed is promised: from the      *)
(* first number heard on, each sequence number in turn is handed over,     *)
(* once, with a record that was heard under it, or is given up, and it is  *)
(* given up only when a later one has been heard.  There is no window and  *)
(* no line here, and nothing is buffered.                                  *)
(***************************************************************************)
EXTENDS Integers, Sequences

CONSTANTS MaxSeq, Records

VARIABLES next, lap, out, lost, heard

Init == next = 0 /\ lap = 0 /\ out = <<>> /\ lost = {} /\ heard = {}

\* The first message heard says where the stream begins.
Hear(s, r) ==
  /\ next' = IF heard = {} THEN s ELSE next
  /\ heard' = heard \cup {<<s, r>>}
  /\ UNCHANGED <<lap, out, lost>>

Turn ==
  /\ next' = IF next = MaxSeq THEN 0 ELSE next + 1
  /\ lap' = IF next = MaxSeq THEN lap + 1 ELSE lap

Hand(r) ==
  /\ <<next, r>> \in heard
  /\ out' = Append(out, [lap |-> lap, seq |-> next, record |-> r])
  /\ Turn /\ UNCHANGED <<lost, heard>>

GiveUp ==
  /\ \E h \in heard : h[1] > next
  /\ lost' = lost \cup {<<lap, next>>}
  /\ Turn /\ UNCHANGED <<out, heard>>

Next ==
  \/ \E s \in 0..MaxSeq, r \in Records : Hear(s, r)
  \/ \E r \in Records : Hand(r)
  \/ GiveUp

Spec == Init /\ [][Next]_<<next, lap, out, lost, heard>>
=============================================================================
