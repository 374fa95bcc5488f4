----------------------------- MODULE LiveIngest ------------------------------
(***************************************************************************)
(* The live program (src/bin/alpaca_ingest.cpp): it opens the capture,     *)
(* starts the session, and then validates and captures frame after frame   *)
(* until it is told to stop, something throws, or it is killed.            *)
(*                                                                         *)
(* A frame of market data is what Parser::parse() makes of it: the number  *)
(* of its records that have a symbol, and whether parsing throws, because  *)
(* of the frame as a whole or of one message in it.                        *)
(***************************************************************************)
EXTENDS AlpacaClient, CaptureWriter

CONSTANT MaxRecords   \* bound: records published

ASSUME FramesAssumption ==
  /\ Frames \subseteq [kind : {"data"}, records : Nat, throws : BOOLEAN]
  /\ MaxWire \in Nat /\ MaxDrops \in Nat /\ MaxRecords \in Nat

VARIABLES
  pc,          \* where main() is
  stop,        \* g_stop
  capture,     \* is there a CaptureWriter
  todo,        \* records of the current frame still to be handled
  validated,   \* records checked
  published    \* records the server sent

program == <<pc, stop, capture, todo, validated>>
vars == <<client, writer, program, published>>

Init ==
  /\ ClientInit /\ WriterInit
  /\ pc = "capture" /\ stop = FALSE /\ capture = FALSE
  /\ todo = 0 /\ validated = 0 /\ published = 0

Ended == pc \in {"returned", "exited", "killed"}

Goto(l) == pc' = l /\ UNCHANGED <<stop, capture, todo, validated, published>>

-----------------------------------------------------------------------------
(* Start-up                                                                *)

\* OHLCV_CAPTURE names a file that opens, or there is no capture.
OpenCapture ==
  /\ pc = "capture" /\ pc' = "env"
  /\ \/ Open /\ capture' = TRUE
     \/ capture' = FALSE /\ UNCHANGED writer
  /\ UNCHANGED <<client, stop, todo, validated, published>>

\* require_env(): std::exit() runs no destructor of main()'s variables.
RequireEnv == pc = "env" /\ (Goto("connect") \/ Goto("exited")) /\ UNCHANGED <<client, writer>>

ConnectFirst ==
  /\ pc = "connect"
  /\ (Connect /\ Goto("read_welcome")) \/ (ConnectThrows /\ Goto("fatal"))
  /\ UNCHANGED writer

AuthenticateFirst ==
  /\ pc = "authenticate"
  /\ (Authenticate /\ Goto("read_auth")) \/ (AuthenticateThrows /\ Goto("fatal"))
  /\ UNCHANGED writer

SubscribeFirst ==
  /\ pc = "subscribe"
  /\ (Subscribe /\ Goto("read_sub")) \/ (SubscribeThrows /\ Goto("fatal"))
  /\ UNCHANGED writer

\* The three responses are logged and not looked at.
Responses ==
  [read_welcome |-> "welcome", read_auth |-> "auth_response", read_sub |-> "sub_response"]
ReadResponse ==
  /\ pc \in DOMAIN Responses
  /\ ReadFrame /\ Goto(Responses[pc]) /\ UNCHANGED writer

\* Fault: start-up may read once more.
LogResponseAgain ==
  /\ \E f \in Frames \cup Acks : Returns(f)
  /\ \/ pc = "welcome" /\ Goto("authenticate")
     \/ pc = "auth_response" /\ Goto("subscribe")
     \/ pc = "sub_response" /\ (Goto("loop") \/ Goto("read_sub"))
  /\ UNCHANGED writer

LogResponse ==
  /\ \E f \in Frames \cup Acks : Returns(f)
  /\ \/ pc = "welcome" /\ Goto("authenticate")
     \/ pc = "auth_response" /\ Goto("subscribe")
     \/ pc = "sub_response" /\ Goto("loop")
  /\ UNCHANGED writer

-----------------------------------------------------------------------------
(* The main loop                                                           *)

\* Fault: the flag is not looked at.
LoopForever == pc = "loop" /\ ReadFrame /\ Goto("frame") /\ UNCHANGED writer

Loop ==
  /\ pc = "loop"
  /\ \/ stop /\ Close /\ Goto("finalize")
     \/ ~stop /\ ReadFrame /\ Goto("frame")
  /\ UNCHANGED writer

\* A frame is parsed as a whole before any of its records is handled.
Frame(f) ==
  /\ pc = "frame" /\ Returns(f)
  /\ \/ /\ ~f.throws
        /\ pc' = "records" /\ todo' = f.records
        /\ UNCHANGED <<stop, capture, validated, published>>
     \/ f.throws /\ Goto("fatal")
  /\ UNCHANGED writer

\* One trade, quote or bar: check() and, with a capture, write().
Record ==
  /\ pc = "records" /\ todo > 0
  /\ todo' = todo - 1 /\ validated' = validated + 1
  /\ IF capture THEN Write ELSE UNCHANGED writer
  /\ UNCHANGED <<client, pc, stop, capture, published>>

FrameDone == pc = "records" /\ todo = 0 /\ Goto("loop") /\ UNCHANGED <<client, writer>>

-----------------------------------------------------------------------------
(* The end                                                                 *)

\* Fault: the process exits from the handler.
FatalExits == pc = "fatal" /\ Close /\ Goto("returned") /\ UNCHANGED writer

\* catch: the destructors run when main() returns.
Fatal == pc = "fatal" /\ Close /\ Goto("finalize") /\ UNCHANGED writer

\* finalize(), by name or from the destructor.
Finalize ==
  /\ pc = "finalize"
  /\ \/ ~capture /\ Goto("returned") /\ UNCHANGED writer
     \/ capture /\ FinalizeSkipped /\ Goto("returned")
     \/ capture /\ FinalizeSeek /\ Goto("header")
  /\ UNCHANGED client
PatchHeader == pc = "header" /\ FinalizeHeader /\ Goto("returned") /\ UNCHANGED client

Main ==
  \/ OpenCapture \/ RequireEnv
  \/ ConnectFirst \/ AuthenticateFirst \/ SubscribeFirst \/ ReadResponse \/ LogResponse
  \/ Loop
  \/ (\E f \in Frames \cup Acks : Frame(f)) \/ Record \/ FrameDone
  \/ Fatal \/ Finalize \/ PatchHeader

-----------------------------------------------------------------------------
(* Around it                                                               *)

Signal == ~Ended /\ ~stop /\ stop' = TRUE
          /\ UNCHANGED <<client, writer, pc, capture, todo, validated, published>>

Kill == ~Ended /\ Goto("killed") /\ UNCHANGED <<client, writer>>

Serve ==
  \E f \in Frames :
    /\ ~Ended /\ published + f.records <= MaxRecords
    /\ Publish(f) /\ published' = published + f.records
    /\ UNCHANGED <<writer, program>>

Reconnect == ~Ended /\ Establish /\ UNCHANGED <<writer, program, published>>
Redial == ~Ended /\ Dial /\ UNCHANGED <<writer, program, published>>
Lose == ~Ended /\ Drop /\ UNCHANGED <<writer, program, published>>

Next == Main \/ Signal \/ Kill \/ Serve \/ Reconnect \/ Redial \/ Lose

Spec == Init /\ [][Next]_vars

\* The program's thread runs; the server can be reached again and again, and keeps
\* sending.
FairSpec ==
  Spec /\ WF_vars(Main) /\ WF_vars(Reconnect) /\ SF_vars(Redial) /\ WF_vars(Serve)

-----------------------------------------------------------------------------
(* Properties                                                              *)

\* The main loop never waits on a connection that will not deliver: if the socket is
\* up, the server has the subscription, whenever the drop that preceded came.
SubscriptionHeld == pc = "frame" /\ call = "read" /\ conn = "open" => session = "sub"

\* The three frames logged at start-up are never market data, however many
\* reconnects happened in between.
NoDataDiscarded ==
  [][LogResponse => Head(wire) \notin Frames]_vars

\* However main() returns, every record validated is in the capture and in its count
\* unless the device failed.
CaptureComplete ==
  pc = "returned" /\ capture /\ good => disk.count = validated /\ disk.records = validated

\* "On a timeout/drop the client transparently reconnects."
Resumes ==
  (pc = "frame" /\ conn = "dead") ~> (session = "sub" \/ pc # "frame")

\* Ctrl+C ends the program on a feed that delivers.
StopHonoured == stop ~> Ended
=============================================================================
