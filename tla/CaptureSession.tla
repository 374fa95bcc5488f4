--------------------------- MODULE CaptureSession ----------------------------
(***************************************************************************)
(* A capture session (scripts/capture_session.sh): the live program runs   *)
(* until a signal, a kill or its own end, and then the script hands what   *)
(* is in the file to the benchmark and to the Python side.                 *)
(***************************************************************************)
EXTENDS LiveIngest, ReplayFormat

VARIABLES
  script,   \* where the script is: "wait", "bench", "detect" or "done"
  found,    \* the file as the script finds it
  bench,    \* what replay_bench's view was
  detect    \* what read_replay() gave detect.py

scripting == <<script, found, bench, detect>>
sessionVars == <<vars, scripting>>

NoFile == File(0, Header(0))

SessionInit ==
  /\ Init
  /\ script = "wait" /\ found = NoFile /\ bench = Refused /\ detect = Refused

\* The header was the first thing in the stream: it is out with the first record, or
\* with the flush of finalize(); before, the file has no bytes unless a write failed
\* on the way.
HeaderOut == disk.records > 0 \/ (finalized /\ good)

\* The record after the complete ones is cut anywhere, if some did not make it.
Cut == pending > 0 \/ ~good

Leftovers ==
  LET whole == HeaderSize + Stride * disk.records
      full == {whole} \cup (IF Cut THEN {whole + Stride - 1} ELSE {})
      part == {0} \cup (IF good THEN {} ELSE {HeaderSize - 1} \cup full)
  IN  IF capture
      THEN {File(size, Header(disk.count)) : size \in IF HeaderOut THEN full ELSE part}
      ELSE {NoFile}

\* wait, and the test for an empty file.
Check ==
  /\ script = "wait" /\ Ended
  /\ found' \in Leftovers
  /\ script' = IF found'.size # 0 THEN "bench" ELSE "done"
  /\ UNCHANGED <<vars, bench, detect>>

\* Whatever replay_bench and detect.py return, the script goes on.  replay_bench fails
\* on a file it cannot view and divides by the record count of one it can.
Bench ==
  /\ script = "bench" /\ script' = "detect"
  /\ bench' = ViewReplay(found)
  /\ UNCHANGED <<vars, found, detect>>

Detect ==
  /\ script = "detect" /\ script' = "done"
  /\ detect' = ReadReplay(found)
  /\ UNCHANGED <<vars, found, bench>>

SessionNext == (Next /\ UNCHANGED scripting) \/ Check \/ Bench \/ Detect

SessionSpec == SessionInit /\ [][SessionNext]_sessionVars

\* As for the live program by itself.
FairSession ==
  /\ SessionSpec
  /\ WF_vars(Main) /\ WF_vars(Reconnect) /\ SF_vars(Redial) /\ WF_vars(Serve)

-----------------------------------------------------------------------------
(* Properties                                                              *)

\* Whatever a session leaves, however it ended: view_replay() refuses only a file cut
\* in its header, and shows no record that is not complete; read_replay() takes all of
\* the file or none of it, and then sees what view_replay() sees; and after a return on
\* a sound device both see every record that was validated.
ReadersAgree ==
  script = "done" /\ found.size # 0 =>
    /\ bench.accepted <=> found.size >= HeaderSize
    /\ bench.accepted => bench.count <= WholeRecords(found)
    /\ detect.accepted => bench = detect /\ detect.count = WholeRecords(found)
    /\ pc = "returned" /\ good => detect = Accepted(validated)

\* "no data captured (empty file). Market closed, or no frames in the window."
\* (scripts/capture_session.sh:58): a session without records ends at that test.
NoDataNotReplayed == script = "bench" => validated > 0
=============================================================================
