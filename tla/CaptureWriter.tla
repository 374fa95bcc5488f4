---------------------------- MODULE CaptureWriter ----------------------------
(***************************************************************************)
(* The capture of a session (src/replay/capture_writer.h): records go to   *)
(* a buffered stream, and the record count is patched into the header at   *)
(* the end.  The device may fill up at any write; a process that is killed *)
(* leaves what had reached the file.                                       *)
(***************************************************************************)
EXTENDS Integers

VARIABLES
  disk,        \* the file: the count in its header, and its complete records
  pending,     \* records in the stream's buffer
  good,        \* the stream has not failed
  count,       \* count_
  finalized    \* finalized_

writer == <<disk, pending, good, count, finalized>>

Empty == [count |-> 0, records |-> 0]

WriterInit ==
  /\ disk = Empty /\ pending = 0 /\ count = 0
  /\ good = FALSE /\ finalized = FALSE

\* The constructor: the file is truncated, the placeholder header is written; until
\* it reaches the file there is nothing to read, which counts as no records.
Open ==
  /\ good' = TRUE
  /\ UNCHANGED <<disk, pending, count, finalized>>

\* n of the m records in the stream's buffer reach the file.
Spill(n, m) == disk' = [disk EXCEPT !.records = @ + n] /\ pending' = m - n

\* write(): the stream keeps any part of its buffer back, or the device is full and
\* the stream goes bad; the record counts either way.
Write ==
  \/ /\ good
     /\ \/ UNCHANGED good /\ \E n \in 0..pending+1 : Spill(n, pending + 1)
        \/ good' = FALSE /\ \E n \in 0..pending : Spill(n, pending)
     /\ count' = count + 1
     /\ UNCHANGED finalized
  \/ ~good /\ UNCHANGED writer

\* finalize() does nothing on a bad stream or a second time.
FinalizeSkipped == (~good \/ finalized) /\ UNCHANGED writer

\* finalize() up to seekp(0), which writes the buffer out.
FinalizeSeek ==
  /\ good /\ ~finalized
  /\ finalized' = TRUE
  /\ \/ UNCHANGED good /\ Spill(pending, pending)
     \/ good' = FALSE /\ \E n \in 0..pending : Spill(n, pending)
  /\ UNCHANGED count

\* The rest of it: the header with the final count, flushed.
FinalizeHeader ==
  /\ finalized
  /\ \/ good /\ disk' = [disk EXCEPT !.count = count] /\ UNCHANGED good
     \/ good' = FALSE /\ UNCHANGED disk
  /\ UNCHANGED <<pending, count, finalized>>

-----------------------------------------------------------------------------
\* Whenever the process dies, the header never promises records that are not in
\* the file: view_replay() accepts what is left.
HeaderHonest == disk.count <= disk.records
=============================================================================
