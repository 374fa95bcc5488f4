---------------------------- MODULE BookBuilder -----------------------------
(***************************************************************************)
(* Snapshot recovery of an order book (src/book/book_builder.h).  Deltas   *)
(* of a numbered stream keep the book current; a missing one invalidates   *)
(* it until a snapshot, taken at some earlier or later point of the        *)
(* stream, rebuilds it and the buffered deltas after that point are        *)
(* replayed.                                                               *)
(*                                                                         *)
(* The venue publishes deltas 1, 2, ...; any of them may reach on_delta()  *)
(* late, twice, out of order or never.  A snapshot is the venue's book as  *)
(* of any published delta.  on_snapshot() is two loops over the buffer,    *)
(* one step per iteration, and nothing else runs until it returns.         *)
(***************************************************************************)
EXTENDS Integers, Sequences

CONSTANTS
  Book, InitialBook,   \* books, and the book before the first delta
  Change,            \* what a delta does to the book
  Apply(_, _),       \* OrderBook::apply(delta)
  LevelLists(_),     \* the level ranges a snapshot of a book may arrive as
  FromLevels(_),     \* clear(), then apply() each level
  RecoverBuf,        \* capacity of the recovery buffer (template parameter)
  MaxDeltas,         \* bound: deltas the venue publishes
  StatCap            \* bound: counters saturate here

ASSUME ApplyAssumption ==
  InitialBook \in Book /\ \A b \in Book, c \in Change : Apply(b, c) \in Book
ASSUME SnapshotAssumption ==
  \A b \in Book : \A lv \in LevelLists(b) : FromLevels(lv) = b
ASSUME BufAssumption == RecoverBuf \in Nat \ {0}
ASSUME BoundAssumption == MaxDeltas \in Nat /\ StatCap \in Nat

VARIABLES
  book,       \* book_
  mode,       \* state_
  expected,   \* expected_
  buf,        \* buf_[0 .. nbuf_-1]
  stats,      \* stats_
  pc,         \* where the running on_snapshot() is
  snap,       \* its arguments
  i,          \* its loop index (from 1)
  expect,     \* its local variable
  \* The venue, and history read by no step of the builder.
  published,  \* the change each delta carries
  truth,      \* the venue's book after each delta
  trail       \* the value of expect when the check loop was at each index

builder == <<book, mode, expected, buf, stats>>
frame == <<pc, snap, i, expect, trail>>
venue == <<published, truth>>
vars == <<builder, frame, venue>>

Deltas == 1..Len(published)
Delta(n) == [seq |-> n, change |-> published[n]]
NoSnapshot == [as_of |-> 0, levels |-> <<>>]
Counters == {"applied", "gaps", "recovered", "stale_dropped",
             "snapshot_too_old", "buffer_overflow"}
Bump(c) == stats' = [stats EXCEPT ![c] = IF @ < StatCap THEN @ + 1 ELSE @]

Init ==
  /\ book = InitialBook
  /\ mode = "Recovering"
  /\ expected = 0
  /\ buf = <<>>
  /\ stats = [c \in Counters |-> 0]
  /\ pc = "idle" /\ snap = NoSnapshot /\ i = 1 /\ expect = 0 /\ trail = <<>>
  /\ published = <<>>
  /\ truth = [n \in {0} |-> InitialBook]

\* The venue moves on.
Publish(c) ==
  LET n == Len(published) IN
  /\ n < MaxDeltas
  /\ published' = Append(published, c)
  /\ truth' = [k \in 0..n+1 |-> IF k <= n THEN truth[k] ELSE Apply(truth[n], c)]
  /\ UNCHANGED <<builder, frame>>

-----------------------------------------------------------------------------
(* on_delta()                                                              *)

ApplyNext(d) ==
  /\ mode = "Live" /\ d.seq = expected
  /\ book' = Apply(book, d.change)
  /\ expected' = expected + 1
  /\ Bump("applied")
  /\ UNCHANGED <<mode, buf>>

\* A later delta than expected: the book is no longer trusted.
Gap(d) ==
  /\ mode = "Live" /\ d.seq > expected
  /\ Bump("gaps")
  /\ mode' = "Recovering"
  /\ buf' = <<d>>
  /\ UNCHANGED <<book, expected>>

Stale(d) ==
  /\ mode = "Live" /\ d.seq < expected
  /\ Bump("stale_dropped")
  /\ UNCHANGED <<book, mode, expected, buf>>

Hold(d) ==
  /\ mode = "Recovering"
  /\ IF Len(buf) < RecoverBuf
     THEN buf' = Append(buf, d) /\ UNCHANGED stats
     ELSE Bump("buffer_overflow") /\ UNCHANGED buf
  /\ UNCHANGED <<book, mode, expected>>

OnDelta(d) ==
  /\ pc = "idle"
  /\ ApplyNext(d) \/ Gap(d) \/ Stale(d) \/ Hold(d)
  /\ UNCHANGED <<frame, venue>>

-----------------------------------------------------------------------------
(* on_snapshot()                                                           *)

\* Fault: a stale refresh of a live book is processed.
OnSnapshotAny(as_of, levels) ==
  /\ pc = "idle"
  /\ pc' = "check"
  /\ snap' = [as_of |-> as_of, levels |-> levels]
  /\ i' = 1
  /\ expect' = as_of + 1
  /\ trail' = <<as_of + 1>>
  /\ UNCHANGED <<builder, venue>>

\* A snapshot that would not advance a live book is ignored: no step.
OnSnapshot(as_of, levels) ==
  /\ pc = "idle"
  /\ ~(mode = "Live" /\ as_of < expected)
  /\ pc' = "check"
  /\ snap' = [as_of |-> as_of, levels |-> levels]
  /\ i' = 1
  /\ expect' = as_of + 1
  /\ trail' = <<as_of + 1>>
  /\ UNCHANGED <<builder, venue>>

\* The call returns; its locals are gone.
Return == pc' = "idle" /\ snap' = NoSnapshot /\ i' = 1 /\ expect' = 0 /\ trail' = <<>>

\* Fault: a buffer that does not connect to the snapshot ends the call for good.
CheckOneForever ==
  LET seq == buf[i].seq IN
  /\ pc = "check" /\ i <= Len(buf)
  /\ \/ /\ seq <= snap.as_of \/ seq # expect
        /\ Bump("snapshot_too_old")
        /\ Return
     \/ /\ seq > snap.as_of /\ seq = expect
        /\ expect' = expect + 1
        /\ i' = i + 1
        /\ trail' = Append(trail, expect + 1)
        /\ UNCHANGED <<stats, pc, snap>>
  /\ UNCHANGED <<book, mode, expected, buf, venue>>

\* One buffered delta of the contiguity check.
CheckOne ==
  LET seq == buf[i].seq IN
  /\ pc = "check" /\ i <= Len(buf)
  /\ \/ /\ seq <= snap.as_of
        /\ i' = i + 1
        /\ trail' = Append(trail, expect)
        /\ UNCHANGED <<stats, pc, snap, expect>>
     \/ /\ seq > snap.as_of /\ seq # expect
        /\ Bump("snapshot_too_old")
        /\ Return
     \/ /\ seq > snap.as_of /\ seq = expect
        /\ expect' = expect + 1
        /\ i' = i + 1
        /\ trail' = Append(trail, expect + 1)
        /\ UNCHANGED <<stats, pc, snap>>
  /\ UNCHANGED <<book, mode, expected, buf, venue>>

\* The check passed: book_ is rebuilt from the levels.
Rebuild ==
  /\ pc = "check" /\ i > Len(buf)
  /\ pc' = "replay"
  /\ book' = FromLevels(snap.levels)
  /\ i' = 1
  /\ UNCHANGED <<mode, expected, buf, stats, snap, expect, trail, venue>>

\* Fault: every buffered delta is replayed.
ReplayAll ==
  /\ pc = "replay" /\ i <= Len(buf)
  /\ book' = Apply(book, buf[i].change)
  /\ i' = i + 1
  /\ UNCHANGED <<mode, expected, buf, stats, pc, snap, expect, trail, venue>>

\* One buffered delta of the replay loop.
ReplayOne ==
  /\ pc = "replay" /\ i <= Len(buf)
  /\ book' = IF buf[i].seq > snap.as_of THEN Apply(book, buf[i].change) ELSE book
  /\ i' = i + 1
  /\ UNCHANGED <<mode, expected, buf, stats, pc, snap, expect, trail, venue>>

Commit ==
  /\ pc = "replay" /\ i > Len(buf)
  /\ expected' = expect
  /\ buf' = <<>>
  /\ mode' = "Live"
  /\ Bump("recovered")
  /\ Return
  /\ UNCHANGED <<book, venue>>

-----------------------------------------------------------------------------
Running == CheckOne \/ Rebuild \/ ReplayOne \/ Commit

Next ==
  \/ \E c \in Change : Publish(c)
  \/ \E n \in Deltas : OnDelta(Delta(n))
  \/ \E n \in 0..Len(published) : \E lv \in LevelLists(truth[n]) : OnSnapshot(n, lv)
  \/ Running

Spec == Init /\ [][Next]_vars

\* A running call finishes, and the venue keeps pushing snapshots of its
\* current book: one is taken if the builder is free to take it again and again.
CurrentSnapshot ==
  \E lv \in LevelLists(truth[Len(published)]) : OnSnapshot(Len(published), lv)

FairSpec == Spec /\ WF_vars(Running) /\ SF_vars(CurrentSnapshot)

-----------------------------------------------------------------------------
(* Properties                                                              *)

DeltaRecord == [seq : Nat, change : Change]

\* Every variable stays within its type.
TypeOK ==
  /\ book \in Book
  /\ mode \in {"Recovering", "Live"}
  /\ expected \in Nat
  /\ buf \in Seq(DeltaRecord) /\ Len(buf) <= RecoverBuf
  /\ stats \in [Counters -> Nat]
  /\ pc \in {"idle", "check", "replay"}
  /\ snap.as_of \in Nat
  /\ i \in Nat \ {0}
  /\ expect \in Nat
  /\ published \in Seq(Change)
  /\ truth \in [0..Len(published) -> Book]
  /\ trail \in Seq(Nat)

\* A live book is the venue's book as of the last delta it reflects: no update
\* applied twice, none left out, whatever was lost, repeated or reordered and
\* however old the snapshot was (lines 26-33).
LiveExact ==
  mode = "Live" /\ pc = "idle" =>
    /\ expected \in 1..Len(published) + 1
    /\ book = truth[expected - 1]

\* No delta of an abandoned recovery is left to be replayed into a later one.
NoLeftovers == mode = "Live" => buf = <<>>

\* The sequence never rewinds, through gaps, late snapshots and recoveries ("a
\* stale refresh must not ... rewind the sequence", lines 83-84).
NeverRewinds == [][expected' >= expected]_vars

\* An untrusted book is rebuilt as long as current snapshots keep coming, also
\* after the buffer overflowed and after snapshots that were too old.
Recovers == (mode = "Recovering") ~> (mode = "Live")
=============================================================================
