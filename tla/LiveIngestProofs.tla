-------------------------- MODULE LiveIngestProofs --------------------------
(***************************************************************************)
(* The capture of a live session is honest and complete, its main loop     *)
(* reads only from connections the server has subscribed, start-up throws  *)
(* no data away, no read waits in vain, the signal brings the end, and the *)
(* readers of the file it leaves agree.                                    *)
(***************************************************************************)
EXTENDS CaptureSession, TLAPS

-----------------------------------------------------------------------------
(* The capture                                                             *)

WriterType ==
  /\ disk \in [count : Nat, records : Nat]
  /\ pending \in Nat /\ count \in Nat /\ validated \in Nat

\* A healthy stream holds every record counted, in the file or in its buffer, and
\* finalize() leaves none in the buffer.
Accounted ==
  /\ capture /\ good => count = validated /\ disk.records + pending = count
  /\ finalized /\ good => pending = 0
  /\ ~capture => ~good

\* finalize() runs once, at the end; the header is patched when it is over.
Closing ==
  /\ pc \notin {"header", "returned", "killed"} => ~finalized
  /\ pc = "header" => finalized
  /\ pc = "capture" => ~capture /\ ~good /\ validated = 0 /\ count = 0 /\ pending = 0
                         /\ disk = Empty
  /\ pc = "returned" /\ capture /\ good => finalized /\ disk.count = count

CaptureInv == WriterType /\ HeaderHonest /\ Accounted /\ Closing

\* Steps that touch neither the writer nor the counts, and stay clear of the end,
\* keep the capture's invariant.
LEMMA QuietKeepsCapture ==
  ASSUME CaptureInv, UNCHANGED <<writer, capture, validated>>,
         \/ pc' = pc
         \/ pc' = "killed"
         \/ /\ pc \notin {"capture", "header", "returned", "killed"}
            /\ pc' \notin {"capture", "header", "returned"}
  PROVE  CaptureInv'
BY DEF CaptureInv, WriterType, HeaderHonest, Accounted, Closing, writer, Empty

\* One record: check() and write().
LEMMA RecordKeepsCapture == CaptureInv /\ Record => CaptureInv'
<1> SUFFICES ASSUME CaptureInv, Record PROVE CaptureInv'
  OBVIOUS
<1>0. /\ pc = "records" /\ pc' = pc /\ capture' = capture /\ validated' = validated + 1
      /\ IF capture THEN Write ELSE UNCHANGED writer
  BY DEF Record
<1>1. CASE UNCHANGED writer /\ (~capture \/ ~good)
  BY <1>0, <1>1 DEF CaptureInv, WriterType, HeaderHonest, Accounted, Closing, writer, Empty
<1>2. CASE capture /\ good
  <2>1. /\ count' = count + 1 /\ finalized' = finalized
        /\ \/ /\ good' = good
              /\ \E n \in 0..pending+1 : Spill(n, pending + 1)
           \/ /\ good' = FALSE
              /\ \E n \in 0..pending : Spill(n, pending)
    BY <1>0, <1>2, Zenon DEF Write
  <2>2. CASE good' = good /\ \E n \in 0..pending+1 : Spill(n, pending + 1)
    <3>1. PICK n \in 0..pending+1 : Spill(n, pending + 1)
      BY <2>2
    <3>2. /\ disk' = [disk EXCEPT !.records = disk.records + n]
          /\ pending' = (pending + 1) - n
      BY <3>1 DEF Spill
    <3> QED
      BY <1>0, <1>2, <2>1, <2>2, <3>2 DEF CaptureInv, WriterType, HeaderHonest, Accounted, Closing
  <2>3. CASE good' = FALSE /\ \E n \in 0..pending : Spill(n, pending)
    <3>1. PICK n \in 0..pending : Spill(n, pending)
      BY <2>3
    <3>2. /\ disk' = [disk EXCEPT !.records = disk.records + n]
          /\ pending' = pending - n
      BY <3>1 DEF Spill
    <3> QED
      BY <1>0, <1>2, <2>1, <2>3, <3>2 DEF CaptureInv, WriterType, HeaderHonest, Accounted, Closing
  <2> QED
    BY <2>1, <2>2, <2>3, Zenon
<1> QED
  BY <1>0, <1>1, <1>2, Zenon DEF Write

\* finalize(): the buffer is written out before the header counts it.
LEMMA FinalizeKeepsCapture == CaptureInv /\ (Finalize \/ PatchHeader) => CaptureInv'
<1> SUFFICES ASSUME CaptureInv, Finalize \/ PatchHeader PROVE CaptureInv'
  OBVIOUS
<1> USE DEF CaptureInv, Goto
<1>1. CASE pc = "finalize" /\ UNCHANGED <<writer, capture, validated>>
             /\ pc' = "returned" /\ (~capture \/ ~good)
  BY <1>1 DEF WriterType, HeaderHonest, Accounted, Closing, writer, Empty
<1>2. CASE pc = "finalize" /\ capture /\ FinalizeSeek /\ Goto("header")
  <2>1. /\ finalized' = TRUE /\ count' = count /\ pc' = "header" /\ good
        /\ capture' = capture /\ validated' = validated
    BY <1>2 DEF FinalizeSeek
  <2>2. \/ good' = good /\ Spill(pending, pending)
        \/ good' = FALSE /\ \E n \in 0..pending : Spill(n, pending)
    BY <1>2, Zenon DEF FinalizeSeek
  <2>3. CASE good' = good /\ Spill(pending, pending)
    <3>1. /\ disk' = [disk EXCEPT !.records = disk.records + pending]
          /\ pending' = pending - pending
      BY <2>3 DEF Spill
    <3> QED
      BY <1>2, <2>1, <2>3, <3>1 DEF WriterType, HeaderHonest, Accounted, Closing
  <2>4. CASE good' = FALSE /\ \E n \in 0..pending : Spill(n, pending)
    <3>1. PICK n \in 0..pending : Spill(n, pending)
      BY <2>4
    <3>2. /\ disk' = [disk EXCEPT !.records = disk.records + n]
          /\ pending' = pending - n
      BY <3>1 DEF Spill
    <3> QED
      BY <1>2, <2>1, <2>4, <3>2 DEF WriterType, HeaderHonest, Accounted, Closing
  <2> QED
    BY <2>2, <2>3, <2>4, Zenon
<1>3. CASE PatchHeader
  <2>1. /\ pc = "header" /\ pc' = "returned" /\ finalized /\ finalized' = finalized
        /\ pending' = pending /\ count' = count
        /\ capture' = capture /\ validated' = validated
    BY <1>3 DEF PatchHeader, FinalizeHeader
  <2>2. CASE good /\ disk' = [disk EXCEPT !.count = count] /\ good' = good
    BY <2>1, <2>2 DEF WriterType, HeaderHonest, Accounted, Closing
  <2>3. CASE good' = FALSE /\ disk' = disk
    BY <2>1, <2>3 DEF WriterType, HeaderHonest, Accounted, Closing
  <2> QED
    BY <1>3, <2>2, <2>3, Zenon DEF PatchHeader, FinalizeHeader
<1>4. Finalize => \/ /\ pc = "finalize" /\ UNCHANGED <<writer, capture, validated>>
                     /\ pc' = "returned" /\ (~capture \/ ~good)
                  \/ pc = "finalize" /\ capture /\ FinalizeSeek /\ Goto("header")
  BY DEF Finalize, FinalizeSkipped, Closing
<1> QED
  BY <1>1, <1>2, <1>3, <1>4

\* Every step keeps the capture's invariant.
LEMMA CaptureStep == CaptureInv /\ [Next]_vars => CaptureInv'
<1> SUFFICES ASSUME CaptureInv, [Next]_vars PROVE CaptureInv'
  OBVIOUS
<1>1. CASE OpenCapture
  BY <1>1 DEF OpenCapture, Open, CaptureInv, WriterType, HeaderHonest, Accounted, Closing,
              writer, Empty
<1>2. CASE RequireEnv
  BY <1>2, QuietKeepsCapture DEF RequireEnv, Goto
<1>3. CASE ConnectFirst \/ AuthenticateFirst \/ SubscribeFirst
  BY <1>3, QuietKeepsCapture DEF ConnectFirst, AuthenticateFirst, SubscribeFirst, Goto
<1>4. CASE ReadResponse
  BY <1>4, QuietKeepsCapture DEF ReadResponse, Responses, Goto
<1>5. CASE LogResponse
  BY <1>5, QuietKeepsCapture DEF LogResponse, Goto
<1>6. CASE Loop \/ FrameDone \/ Fatal
  BY <1>6, QuietKeepsCapture DEF Loop, FrameDone, Fatal, Goto
<1>7. CASE \E f \in Frames \cup Acks : Frame(f)
  BY <1>7, QuietKeepsCapture DEF Frame, Goto
<1>8. CASE Record
  BY <1>8, RecordKeepsCapture
<1>9. CASE Finalize \/ PatchHeader
  BY <1>9, FinalizeKeepsCapture
<1>10. CASE Signal \/ Serve \/ Reconnect \/ Redial \/ Lose \/ UNCHANGED vars
  BY <1>10, QuietKeepsCapture DEF Signal, Serve, Reconnect, Redial, Lose, program, vars
<1>11. CASE Kill
  BY <1>11, QuietKeepsCapture DEF Kill, Goto
<1> QED
  BY <1>1, <1>2, <1>3, <1>4, <1>5, <1>6, <1>7, <1>8, <1>9, <1>10, <1>11 DEF Next, Main

\* Before the capture is opened nothing is counted.
LEMMA CaptureInit == Init => CaptureInv
<1> SUFFICES ASSUME Init PROVE CaptureInv
  OBVIOUS
<1>1. pc = "capture" /\ ~capture /\ ~good /\ ~finalized
  BY Zenon DEF Init, WriterInit
<1>2. disk = Empty /\ pending = 0 /\ count = 0 /\ validated = 0
  BY DEF Init, WriterInit
<1> QED
  BY <1>1, <1>2 DEF Empty, CaptureInv, WriterType, HeaderHonest, Accounted, Closing

\* Whenever the process stops, by any path or by a kill, the header of the capture
\* counts no more records than the file has (CaptureWriter::finalize()).
THEOREM CaptureHonest == Spec => []HeaderHonest
<1>1. CaptureInv => HeaderHonest
  BY DEF CaptureInv
<1> QED
  BY <1>1, CaptureInit, CaptureStep, PTL DEF Spec

\* However main() returns, the capture holds and counts every validated record,
\* unless the device failed (the shutdown and the destructor's finalize()).
THEOREM CaptureIsComplete == Spec => []CaptureComplete
<1>1. CaptureInv => CaptureComplete
  BY DEF CaptureInv, CaptureComplete, WriterType, Accounted, Closing
<1> QED
  BY <1>1, CaptureInit, CaptureStep, PTL DEF Spec

-----------------------------------------------------------------------------
(* The connection                                                          *)

Reading == {"welcome", "auth_response", "sub_response", "frame"}
\* main() has called subscribe(), and goes on.
AfterSubscribe == {"read_sub", "sub_response", "loop", "frame", "records"}
AfterAuthenticate == {"read_auth", "auth_response", "subscribe"}

\* call is inside read_frame() only while main() is.
CallInv == call # "none" => pc \in Reading \cup {"killed"}

\* What the server knows of an open connection is what the client has told it.
SessionInv ==
  conn = "open" =>
    /\ session \in {"new", "auth", "sub"}
    /\ call = "auth" => session = "new"
    /\ call = "sub" => session = "auth"
    /\ call \in {"none", "read"} /\ pc \in AfterAuthenticate => session \in {"auth", "sub"}
    /\ call \in {"none", "read"} /\ pc \in AfterSubscribe => session = "sub"

\* From then on a reconnect replays the subscription.
ReplayInv == pc \in AfterSubscribe => subscribed

SubscriptionInv == CallInv /\ SessionInv /\ ReplayInv

\* Without a connection the server knows nothing.
LEMMA SubscriptionInit == Init => SubscriptionInv
BY DEF Init, ClientInit, SubscriptionInv, CallInv, SessionInv, ReplayInv, AfterSubscribe

\* Steps that do not touch the session, except to end it, keep the invariant while
\* main() goes on to a place that expects no more of the connection.
LEMMA QuietKeepsSubscription ==
  ASSUME SubscriptionInv, UNCHANGED <<session, subscribed, call>>,
         conn' = conn \/ conn' # "open",
         \/ pc' = pc
         \/ pc' = "killed"
         \/ call = "none" /\ pc' \notin AfterSubscribe \cup AfterAuthenticate
         \/ call = "none" /\ pc' \in AfterSubscribe /\ pc \in AfterSubscribe
         \/ call = "none" /\ pc' \in AfterAuthenticate /\ pc \in AfterAuthenticate
  PROVE  SubscriptionInv'
BY DEF SubscriptionInv, CallInv, SessionInv, ReplayInv, AfterSubscribe, AfterAuthenticate,
       Reading

\* Every step keeps the connection's invariant.
LEMMA SubscriptionStep == SubscriptionInv /\ [Next]_vars => SubscriptionInv'
<1> SUFFICES ASSUME SubscriptionInv, [Next]_vars PROVE SubscriptionInv'
  OBVIOUS
<1> USE DEF AfterSubscribe, AfterAuthenticate
<1>0. pc \notin Reading \cup {"killed"} => call = "none"
  BY DEF SubscriptionInv, CallInv
<1>1. CASE OpenCapture \/ RequireEnv
  BY <1>0, <1>1, QuietKeepsSubscription DEF OpenCapture, RequireEnv, Goto, client, Reading
<1>2. CASE ConnectFirst
  BY <1>0, <1>2 DEF ConnectFirst, Connect, ConnectThrows, Connected, NotConnected, Goto,
    SubscriptionInv, CallInv, SessionInv, ReplayInv, Reading
<1>3. CASE AuthenticateFirst
  BY <1>0, <1>3 DEF AuthenticateFirst, Authenticate, AuthenticateThrows, WriteThrows, Request,
    Goto, SubscriptionInv, CallInv, SessionInv, ReplayInv, Reading
<1>4. CASE SubscribeFirst
  BY <1>0, <1>4 DEF SubscribeFirst, Subscribe, SubscribeThrows, WriteThrows, Request,
    Goto, SubscriptionInv, CallInv, SessionInv, ReplayInv, Reading
<1>5. CASE ReadResponse
  BY <1>0, <1>5 DEF ReadResponse, Responses, ReadFrame, Goto, SubscriptionInv, CallInv,
    SessionInv, ReplayInv, Reading
<1>6. CASE LogResponse
  BY <1>6 DEF LogResponse, Returns, Goto, SubscriptionInv, CallInv, SessionInv, ReplayInv,
    Reading
<1>7. CASE Loop
  BY <1>0, <1>7, Zenon DEF Loop, Close, ReadFrame, Goto, SubscriptionInv, CallInv, SessionInv,
    ReplayInv, Reading
<1>8. CASE \E f \in Frames \cup Acks : Frame(f)
  BY <1>8 DEF Frame, Returns, SubscriptionInv, CallInv, SessionInv, ReplayInv, Reading
<1>9. CASE Record \/ FrameDone \/ Finalize \/ PatchHeader
  BY <1>0, <1>9, QuietKeepsSubscription DEF Record, FrameDone, Finalize, PatchHeader, Goto,
    client, Reading
<1>10. CASE Fatal
  BY <1>0, <1>10 DEF Fatal, Close, Goto, SubscriptionInv, CallInv, SessionInv, ReplayInv,
    Reading
<1>11. CASE Signal \/ Kill \/ Serve \/ UNCHANGED vars
  BY <1>11, QuietKeepsSubscription DEF Signal, Kill, Serve, Publish, Goto, client, program,
    vars
<1>12. CASE Lose
  BY <1>12 DEF Lose, Drop, program, SubscriptionInv, CallInv, SessionInv, ReplayInv
<1>13. CASE Redial
  BY <1>13 DEF Redial, Dial, Connected, program, SubscriptionInv, CallInv, SessionInv,
    ReplayInv
<1>14. CASE Reconnect
  <2>1. CASE ReadFails \/ DialFails \/ StartOver
    BY <1>14, <2>1 DEF Reconnect, ReadFails, DialFails, NotConnected, StartOver, WriteThrows,
      program, SubscriptionInv, CallInv, SessionInv, ReplayInv
  <2>2. CASE ReAuthenticate
    BY <1>14, <2>2 DEF Reconnect, ReAuthenticate, Request, program, SubscriptionInv, CallInv,
      SessionInv, ReplayInv
  <2>3. CASE ReSubscribe
    BY <1>14, <2>3 DEF Reconnect, ReSubscribe, Request, program, SubscriptionInv, CallInv,
      SessionInv, ReplayInv
  <2> QED
    BY <1>14, <2>1, <2>2, <2>3 DEF Reconnect, Establish
<1> QED
  BY <1>1, <1>2, <1>3, <1>4, <1>5, <1>6, <1>7, <1>8, <1>9, <1>10, <1>11, <1>12, <1>13, <1>14
  DEF Next, Main

\* While main() waits for a frame on an open socket, the server has its subscription,
\* whatever drops and reconnects came before (AlpacaClient::establish()).
THEOREM AlwaysSubscribed == Spec => []SubscriptionHeld
<1>1. SubscriptionInv => SubscriptionHeld
  BY DEF SubscriptionInv, SessionInv, SubscriptionHeld, AfterSubscribe
<1> QED
  BY <1>1, SubscriptionInit, SubscriptionStep, PTL DEF Spec

-----------------------------------------------------------------------------
(* The three responses                                                     *)

BeforeSubscribe ==
  {"capture", "env", "connect", "read_welcome", "welcome", "authenticate", "read_auth",
   "auth_response", "subscribe"}

\* Until main() has subscribed, the server has sent answers and nothing else, whatever
\* connections came and went; after that, the answer to the subscription, or to what
\* replaced it, is still ahead of any data.
StartInv ==
  /\ wire \in Seq(Frames \cup Acks)
  /\ call = "sub" => subscribed
  /\ pc \in BeforeSubscribe => ~subscribed /\ session # "sub" /\ wire \in Seq(Acks)
  /\ pc \in {"read_sub", "sub_response"} =>
       /\ session = "sub" => wire # <<>>
       /\ wire # <<>> => Head(wire) \in Acks

\* An answer is no market data.
LEMMA AcksAreNoData == Acks \cap Frames = {}
BY FramesAssumption DEF Acks, Ack

\* What was read, lost or appended leaves a sequence of the same frames.
LEMMA WireSeq ==
  ASSUME NEW S, NEW w \in Seq(S)
  PROVE  /\ \A x \in S : /\ Append(w, x) \in Seq(S) /\ Append(w, x) # <<>>
                         /\ Head(Append(w, x)) = IF w = <<>> THEN x ELSE Head(w)
         /\ w # <<>> => Tail(w) \in Seq(S)
         /\ \A n \in 0..Len(w) : /\ SubSeq(w, 1, n) \in Seq(S)
                                 /\ SubSeq(w, 1, n) # <<>> =>
                                      w # <<>> /\ Head(SubSeq(w, 1, n)) = Head(w)
<1>1. ASSUME NEW x \in S
      PROVE  /\ Append(w, x) \in Seq(S) /\ Append(w, x) # <<>>
             /\ Head(Append(w, x)) = IF w = <<>> THEN x ELSE Head(w)
  <2>1. Append(w, x) \in Seq(S) /\ Len(Append(w, x)) = Len(w) + 1 /\ Len(w) \in Nat
    OBVIOUS
  <2>2. Append(w, x)[1] = IF Len(w) = 0 THEN x ELSE w[1]
    OBVIOUS
  <2>3. Append(w, x) # <<>>
    <3> SUFFICES ASSUME Append(w, x) = <<>> PROVE FALSE
      BY Zenon
    <3>1. Len(<<>>) = 0
      OBVIOUS
    <3>2. PICK c \in Nat : c = Len(w)
      BY <2>1, Zenon
    <3>3. c + 1 = 0
      BY <2>1, <3>1, <3>2, Zenon
    <3> QED
      BY <3>3
  <2>4. w = <<>> <=> Len(w) = 0
    OBVIOUS
  <2>5. w # <<>> => Head(w) = w[1]
    OBVIOUS
  <2>6. Head(Append(w, x)) = Append(w, x)[1]
    BY <2>1, <2>3
  <2> QED
    BY <2>1, <2>2, <2>3, <2>4, <2>5, <2>6
<1>2. w # <<>> => Tail(w) \in Seq(S)
  OBVIOUS
<1>3. ASSUME NEW n \in 0..Len(w)
      PROVE  /\ SubSeq(w, 1, n) \in Seq(S)
             /\ SubSeq(w, 1, n) # <<>> => w # <<>> /\ Head(SubSeq(w, 1, n)) = Head(w)
  OBVIOUS
<1> QED
  BY <1>1, <1>2, <1>3

\* A new connection has the greeting in flight, or nothing.
LEMMA Greeted ==
  ASSUME Connected \/ NotConnected
  PROVE  /\ session' # "sub" /\ wire' \in Seq(Acks) /\ wire' \in Seq(Frames \cup Acks)
         /\ wire' # <<>> => Head(wire') \in Acks
<1>1. CASE Connected
  <2>1. PICK a \in Acks : wire' = <<a>>
    BY <1>1 DEF Connected, Acks
  <2>2. <<a>> \in Seq(Acks) /\ <<a>> \in Seq(Frames \cup Acks) /\ Head(<<a>>) = a
    OBVIOUS
  <2> QED
    BY <1>1, <2>1, <2>2 DEF Connected
<1>2. CASE NotConnected
  BY <1>2 DEF NotConnected
<1> QED
  BY <1>1, <1>2

\* A request is answered, or vanishes with the connection.
LEMMA RequestAnswered ==
  ASSUME NEW req \in {"auth", "sub"}, Request(req)
  PROVE  \/ \E a \in Acks : /\ wire' = Append(wire, a)
                            /\ session' \in {session, req}
         \/ UNCHANGED <<session, wire>>
BY DEF Request, Acks

\* Nothing is in flight before the first connection.
LEMMA StartInit == Init => StartInv
BY DEF Init, ClientInit, StartInv

\* Steps inside read_frame() and on the network.
LEMMA NetworkKeepsStart ==
  ASSUME StartInv, pc' = pc,
         \/ UNCHANGED client
         \/ ReadFails \/ Dial \/ DialFails \/ ReAuthenticate \/ ReSubscribe \/ StartOver
         \/ Drop \/ (\E f \in Frames : Publish(f))
  PROVE  StartInv'
<1> USE DEF StartInv
<1>1. CASE UNCHANGED client \/ ReadFails \/ StartOver
  BY <1>1 DEF client, ReadFails, StartOver, WriteThrows
<1>2. CASE Dial \/ DialFails
  BY <1>2, Greeted DEF Dial, DialFails
<1>3. CASE ReAuthenticate \/ ReSubscribe
  <2>1. PICK req \in {"auth", "sub"} :
          /\ Request(req) /\ call = req /\ UNCHANGED subscribed
          /\ call' = "sub" => subscribed
    BY <1>3 DEF ReAuthenticate, ReSubscribe
  <2>2. CASE UNCHANGED <<session, wire>>
    BY <2>1, <2>2
  <2>3. CASE \E a \in Acks : wire' = Append(wire, a) /\ session' \in {session, req}
    <3>1. PICK a \in Acks : wire' = Append(wire, a) /\ session' \in {session, req}
      BY <2>3
    <3>2. /\ wire' \in Seq(Frames \cup Acks) /\ wire' # <<>>
          /\ Head(wire') = IF wire = <<>> THEN a ELSE Head(wire)
      BY <3>1, WireSeq
    <3>3. wire \in Seq(Acks) => wire' \in Seq(Acks)
      BY <3>1, WireSeq
    <3> QED
      BY <2>1, <3>1, <3>2, <3>3
  <2> QED
    BY <2>1, <2>2, <2>3, RequestAnswered
<1>4. CASE Drop
  <2>1. PICK n \in 0..Len(wire) : wire' = SubSeq(wire, 1, n)
    BY <1>4 DEF Drop
  <2>2. /\ wire' \in Seq(Frames \cup Acks)
        /\ wire' # <<>> => wire # <<>> /\ Head(wire') = Head(wire)
    BY <2>1, WireSeq
  <2>3. wire \in Seq(Acks) => wire' \in Seq(Acks)
    BY <2>1, WireSeq
  <2> QED
    BY <1>4, <2>2, <2>3 DEF Drop
<1>5. CASE \E f \in Frames : Publish(f)
  <2>1. PICK f \in Frames : session = "sub" /\ wire' = Append(wire, f)
                            /\ UNCHANGED <<session, subscribed, call>>
    BY <1>5 DEF Publish
  <2>2. /\ wire' \in Seq(Frames \cup Acks) /\ wire' # <<>>
        /\ Head(wire') = IF wire = <<>> THEN f ELSE Head(wire)
    BY <2>1, WireSeq
  <2> QED
    BY <2>1, <2>2
<1> QED
  BY <1>1, <1>2, <1>3, <1>4, <1>5

\* Steps of main() that do not touch the connection.
LEMMA QuietKeepsStart ==
  ASSUME StartInv, UNCHANGED client,
         pc' \in BeforeSubscribe => pc \in BeforeSubscribe,
         pc' \notin {"read_sub", "sub_response"}
  PROVE  StartInv'
BY DEF StartInv, client

\* main()'s own requests and reads.
LEMMA MainKeepsStart ==
  ASSUME StartInv,
         \/ ConnectFirst \/ AuthenticateFirst \/ SubscribeFirst \/ ReadResponse
         \/ LogResponse \/ Loop \/ Fatal \/ \E f \in Frames \cup Acks : Frame(f)
  PROVE  StartInv'
<1> USE DEF StartInv, Goto, BeforeSubscribe
<1>1. CASE ConnectFirst
  BY <1>1, Greeted DEF ConnectFirst, Connect, ConnectThrows
<1>2. CASE AuthenticateFirst \/ SubscribeFirst
  <2>1. CASE AuthenticateThrows \/ SubscribeThrows
    BY <1>2, <2>1 DEF AuthenticateFirst, SubscribeFirst, AuthenticateThrows, SubscribeThrows,
      Authenticate, Subscribe, WriteThrows, Request
  <2>2. CASE AuthenticateFirst /\ Authenticate
    <3>1. /\ Request("auth") /\ UNCHANGED <<subscribed, call>>
          /\ pc = "authenticate" /\ pc' \in {"read_auth", "fatal"}
      BY <2>2 DEF AuthenticateFirst, Authenticate
    <3>2. CASE UNCHANGED <<session, wire>>
      BY <3>1, <3>2
    <3>3. CASE \E a \in Acks : wire' = Append(wire, a) /\ session' \in {session, "auth"}
      <4>1. PICK a \in Acks : wire' = Append(wire, a) /\ session' \in {session, "auth"}
        BY <3>3
      <4>2. wire' \in Seq(Acks) /\ wire' \in Seq(Frames \cup Acks)
        BY <3>1, <4>1, WireSeq
      <4> QED
        BY <3>1, <4>1, <4>2
    <3> QED
      BY <3>1, <3>2, <3>3, RequestAnswered
  <2>3. CASE SubscribeFirst /\ Subscribe
    <3>1. /\ Request("sub") /\ subscribed' /\ call' = call
          /\ pc = "subscribe" /\ pc' \in {"read_sub", "fatal"}
      BY <2>3 DEF SubscribeFirst, Subscribe
    <3>2. CASE UNCHANGED <<session, wire>>
      <4>1. wire # <<>> => Head(wire) \in Acks
        BY <3>1
      <4> QED
        BY <3>1, <3>2, <4>1
    <3>3. CASE \E a \in Acks : wire' = Append(wire, a) /\ session' \in {session, "sub"}
      <4>1. PICK a \in Acks : wire' = Append(wire, a) /\ session' \in {session, "sub"}
        BY <3>3
      <4>2. wire' \in Seq(Acks) /\ wire' \in Seq(Frames \cup Acks) /\ wire' # <<>>
        BY <3>1, <4>1, WireSeq
      <4>3. Head(wire') \in Acks
        BY <4>2
      <4> QED
        BY <3>1, <4>1, <4>2, <4>3
    <3> QED
      BY <3>1, <3>2, <3>3, RequestAnswered
  <2> QED
    BY <1>2, <2>1, <2>2, <2>3 DEF AuthenticateFirst, SubscribeFirst
<1>3. CASE ReadResponse
  BY <1>3 DEF ReadResponse, Responses, ReadFrame
<1>4. CASE LogResponse \/ \E f \in Frames \cup Acks : Frame(f)
  <2>1. /\ wire # <<>> /\ wire' = Tail(wire) /\ call' = "none"
        /\ UNCHANGED <<session, subscribed>>
        /\ pc' \in BeforeSubscribe => pc \in BeforeSubscribe
        /\ pc' \notin {"read_sub", "sub_response"}
    BY <1>4 DEF LogResponse, Frame, Returns
  <2>2. wire' \in Seq(Frames \cup Acks) /\ (wire \in Seq(Acks) => wire' \in Seq(Acks))
    BY <2>1, WireSeq
  <2> QED
    BY <2>1, <2>2
<1>5. CASE Loop \/ Fatal
  <2>1. <<>> \in Seq(Frames \cup Acks)
    OBVIOUS
  <2> QED
    BY <1>5, <2>1, Zenon DEF Loop, Fatal, Close, ReadFrame
<1> QED
  BY <1>1, <1>2, <1>3, <1>4, <1>5

\* Every step keeps the responses ahead of the data.
LEMMA StartStep == StartInv /\ [Next]_vars => StartInv'
<1> SUFFICES ASSUME StartInv, [Next]_vars PROVE StartInv'
  OBVIOUS
<1>1. CASE OpenCapture \/ RequireEnv \/ Record \/ FrameDone \/ Finalize \/ PatchHeader \/ Kill
  BY <1>1, QuietKeepsStart
  DEF OpenCapture, RequireEnv, Record, FrameDone, Finalize, PatchHeader, Kill, Goto,
      BeforeSubscribe
<1>2. CASE \/ ConnectFirst \/ AuthenticateFirst \/ SubscribeFirst \/ ReadResponse
           \/ LogResponse \/ Loop \/ Fatal \/ \E f \in Frames \cup Acks : Frame(f)
  BY <1>2, MainKeepsStart
<1>3. CASE Signal \/ Serve \/ Reconnect \/ Redial \/ Lose \/ UNCHANGED vars
  <2>1. pc' = pc
    BY <1>3 DEF Signal, Serve, Reconnect, Redial, Lose, program, vars
  <2>2. \/ UNCHANGED client
        \/ ReadFails \/ Dial \/ DialFails \/ ReAuthenticate \/ ReSubscribe \/ StartOver
        \/ Drop \/ (\E f \in Frames : Publish(f))
    BY <1>3 DEF Signal, Serve, Reconnect, Establish, Redial, Lose, vars
  <2> QED
    BY <2>1, <2>2, NetworkKeepsStart
<1> QED
  BY <1>1, <1>2, <1>3 DEF Next, Main

\* The three frames that start-up reads and does not look at are answers of the server,
\* never market data, however often the client reconnected by itself in between
\* (main() in alpaca_ingest.cpp over AlpacaClient::read_frame()).
THEOREM StartUpDiscardsNoData == Spec => NoDataDiscarded
<1>1. StartInv /\ [Next]_vars => [LogResponse => Head(wire) \notin Frames]_vars
  <2> SUFFICES ASSUME StartInv, LogResponse PROVE Head(wire) \notin Frames
    OBVIOUS
  <2>1. wire # <<>> /\ pc \in {"welcome", "auth_response", "sub_response"}
    BY DEF LogResponse, Returns
  <2>2. Head(wire) \in Acks
    BY <2>1 DEF StartInv, BeforeSubscribe
  <2> QED
    BY <2>2, AcksAreNoData
<1> QED
  BY <1>1, StartInit, StartStep, PTL DEF Spec, NoDataDiscarded

-----------------------------------------------------------------------------
(* No wait is in vain                                                      *)

\* main() waits for an answer, or is about to; main() has a connection.
Awaiting == {"read_welcome", "welcome", "read_auth", "auth_response", "read_sub", "sub_response"}
Up == Awaiting \cup {"authenticate", "subscribe", "loop", "frame", "records"}

\* The stream the client reads is there, broken or not, and on an unbroken one the
\* answer main() waits for is under way.
AnswerInv ==
  /\ pc \in Up /\ call # "dial" => conn \in {"open", "dead"}
  /\ pc \in Awaiting /\ conn = "open" => wire # <<>>

\* What read_frame() blocks on can come: a frame is under way, or the read fails, or the
\* server has the subscription; and establish() never writes without a stream.
NeverStranded ==
  ~Ended =>
    /\ call = "read" => \/ wire # <<>> \/ conn = "dead"
                        \/ conn = "open" /\ session = "sub"
    /\ call \in {"auth", "sub"} => conn \in {"open", "dead"}

\* What is sent makes the wire longer.
LEMMA SentIsThere ==
  ASSUME StartInv, NEW f \in Frames \cup Acks, wire' = Append(wire, f)
  PROVE  wire' # <<>>
<1>1. wire \in Seq(Frames \cup Acks)
  BY DEF StartInv
<1> QED
  BY <1>1

\* A request on an open connection is answered.
LEMMA RequestIsAnswered ==
  ASSUME StartInv, NEW req, Request(req), conn = "open"
  PROVE  wire' # <<>>
<1>1. PICK k \in {"error", "authenticated", "subscription"} : wire' = Append(wire, Ack(k))
  BY DEF Request
<1>2. Ack(k) \in Frames \cup Acks
  BY DEF Acks
<1> QED
  BY <1>1, <1>2, SentIsThere

\* main() goes where it waits for no answer, or to the end; the connection stays.
LEMMA QuietKeepsAnswer ==
  ASSUME AnswerInv, UNCHANGED <<conn, call>>,
         \/ pc' = pc /\ wire' = wire
         \/ pc \in Up /\ pc' \in Up \ Awaiting
         \/ pc' \notin Up
  PROVE  AnswerInv'
BY DEF AnswerInv, Up, Awaiting

\* Every step keeps the invariant.
LEMMA AnswerStep ==
  AnswerInv /\ StartInv /\ SubscriptionInv /\ [Next]_vars => AnswerInv'
<1> SUFFICES ASSUME AnswerInv, StartInv, SubscriptionInv, [Next]_vars PROVE AnswerInv'
  OBVIOUS
<1>0. pc \notin Reading \cup {"killed"} => call = "none"
  BY DEF SubscriptionInv, CallInv
<1>1. CASE OpenCapture \/ RequireEnv \/ Finalize \/ PatchHeader
  BY <1>1, QuietKeepsAnswer
     DEF OpenCapture, RequireEnv, Finalize, PatchHeader, Goto, client, Up, Awaiting
<1>2. CASE ConnectFirst
  BY <1>2 DEF ConnectFirst, Connect, ConnectThrows, Connected, NotConnected, Goto,
     AnswerInv, Up, Awaiting
<1>3. CASE AuthenticateFirst \/ SubscribeFirst
  <2>1. CASE pc' = "fatal"
    BY <2>1 DEF AnswerInv, Up, Awaiting
  <2>2. CASE \E req : Request(req) /\ conn' = conn /\ call' = call
    BY <1>3, <2>2, RequestIsAnswered
       DEF AuthenticateFirst, SubscribeFirst, AnswerInv, Up, Awaiting
  <2> QED
    BY <1>3, <2>1, <2>2 DEF AuthenticateFirst, SubscribeFirst, Authenticate, Subscribe, Goto
<1>4. CASE ReadResponse \/ LogResponse
  <2>1. CASE ReadResponse
    BY <1>0, <2>1 DEF ReadResponse, Responses, ReadFrame, Goto, AnswerInv, Up, Awaiting, Reading
  <2>2. CASE LogResponse
    BY <2>2 DEF LogResponse, Returns, Goto, AnswerInv, Up, Awaiting
  <2> QED
    BY <1>4, <2>1, <2>2
<1>5. CASE Loop
  BY <1>0, <1>5, Zenon DEF Loop, Close, ReadFrame, Goto, AnswerInv, Up, Awaiting, Reading
<1>6. CASE \E f \in Frames \cup Acks : Frame(f)
  BY <1>6 DEF Frame, Returns, Goto, AnswerInv, Up, Awaiting
<1>7. CASE Record \/ FrameDone \/ Kill \/ Signal \/ UNCHANGED vars
  BY <1>7, QuietKeepsAnswer
     DEF Record, FrameDone, Kill, Signal, vars, program, Goto, client, Up, Awaiting
<1>8. CASE Fatal
  BY <1>8 DEF Fatal, Goto, AnswerInv, Up, Awaiting
<1>9. CASE Serve
  BY <1>9, SentIsThere DEF Serve, Publish, program, AnswerInv
<1>10. CASE Lose
  BY <1>10 DEF Lose, Drop, program, AnswerInv
<1>11. CASE Redial
  BY <1>11 DEF Redial, Dial, Connected, program, AnswerInv
<1>12. CASE Reconnect
  <2>1. CASE ReadFails \/ DialFails \/ StartOver
    BY <1>12, <2>1 DEF Reconnect, ReadFails, DialFails, NotConnected, StartOver, WriteThrows,
      program, AnswerInv
  <2>2. CASE ReAuthenticate \/ ReSubscribe
    BY <1>12, <2>2, RequestIsAnswered DEF Reconnect, ReAuthenticate, ReSubscribe, program,
      AnswerInv
  <2> QED
    BY <1>12, <2>1, <2>2 DEF Reconnect, Establish
<1> QED
  BY <1>1, <1>2, <1>3, <1>4, <1>5, <1>6, <1>7, <1>8, <1>9, <1>10, <1>11, <1>12 DEF Next, Main

\* read_frame() never blocks on what cannot come (AlpacaClient::read_frame() and
\* establish()), whatever drops, failed dials and lost requests came before: on an open
\* connection the answer to each request of start-up is under way, and afterwards the
\* server has the subscription.  The safety half of Resumes.
THEOREM ReadsNeverStranded == Spec => []NeverStranded
<1>1. Init => AnswerInv
  BY DEF Init, AnswerInv, Up, Awaiting
<1>2. AnswerInv /\ SubscriptionInv => NeverStranded
  BY DEF AnswerInv, SubscriptionInv, CallInv, SessionInv, NeverStranded, Ended, Up, Awaiting,
     Reading, AfterSubscribe
<1> QED
  BY <1>1, <1>2, AnswerStep, StartInit, StartStep, SubscriptionInit, SubscriptionStep, PTL
     DEF Spec

-----------------------------------------------------------------------------
(* The way to the end                                                      *)

\* The places of main(), by the steps left once the flag is set.
ToEnd ==
  [capture |-> 14, env |-> 13, connect |-> 12, read_welcome |-> 11, welcome |-> 10,
   authenticate |-> 9, read_auth |-> 8, auth_response |-> 7, subscribe |-> 6, read_sub |-> 5,
   sub_response |-> 4, frame |-> 5, records |-> 4, loop |-> 3, fatal |-> 3, finalize |-> 2,
   header |-> 1, returned |-> 0, exited |-> 0, killed |-> 0]
Nearer == ToEnd[pc'] < ToEnd[pc] \/ (pc' = pc /\ todo' < todo)

\* After Ctrl+C every step of main() brings it nearer to its end, and nothing that
\* happens around it takes it back: the frame it is reading is the last one handled.
StopNearer == [][stop => (~Main /\ UNCHANGED <<pc, todo>>) \/ Nearer]_vars

PlaceInv == pc \in DOMAIN ToEnd /\ todo \in Nat

\* Every frame holds a number of records.
LEMMA RecordsAreCounted == \A f \in Frames \cup Acks : f.records \in Nat
BY FramesAssumption DEF Acks, Ack

\* The second place is nearer to the end than the first.
Down(k, l) == l \in DOMAIN ToEnd /\ ToEnd[l] < ToEnd[k]

\* The ways on from each place, a new read apart.
LEMMA Ways ==
  /\ Down("capture", "env") /\ Down("env", "connect") /\ Down("env", "exited")
  /\ Down("connect", "read_welcome") /\ Down("connect", "fatal")
  /\ Down("read_welcome", "welcome") /\ Down("welcome", "authenticate")
  /\ Down("authenticate", "read_auth") /\ Down("authenticate", "fatal")
  /\ Down("read_auth", "auth_response") /\ Down("auth_response", "subscribe")
  /\ Down("subscribe", "read_sub") /\ Down("subscribe", "fatal")
  /\ Down("read_sub", "sub_response") /\ Down("sub_response", "loop")
  /\ Down("frame", "records") /\ Down("frame", "fatal") /\ Down("records", "loop")
  /\ Down("loop", "finalize") /\ Down("fatal", "finalize")
  /\ Down("finalize", "header") /\ Down("finalize", "returned") /\ Down("header", "returned")
  /\ "frame" \in DOMAIN ToEnd
<1>1. /\ Down("capture", "env") /\ Down("env", "connect") /\ Down("env", "exited")
      /\ Down("connect", "read_welcome") /\ Down("connect", "fatal")
      /\ Down("read_welcome", "welcome") /\ Down("welcome", "authenticate")
  BY DEF Down, ToEnd
<1>2. /\ Down("authenticate", "read_auth") /\ Down("authenticate", "fatal")
      /\ Down("read_auth", "auth_response") /\ Down("auth_response", "subscribe")
      /\ Down("subscribe", "read_sub") /\ Down("subscribe", "fatal")
      /\ Down("read_sub", "sub_response") /\ Down("sub_response", "loop")
  BY DEF Down, ToEnd
<1>3. /\ Down("frame", "records") /\ Down("frame", "fatal") /\ Down("records", "loop")
      /\ Down("loop", "finalize") /\ Down("fatal", "finalize")
  BY DEF Down, ToEnd
<1>4. /\ Down("finalize", "header") /\ Down("finalize", "returned")
      /\ Down("header", "returned") /\ "frame" \in DOMAIN ToEnd
  BY DEF Down, ToEnd
<1> QED
  BY <1>1, <1>2, <1>3, <1>4

\* Every step of main() leads to a place nearer to the end, but for a new read.
LEMMA MainNearer ==
  ASSUME PlaceInv, Main
  PROVE  /\ PlaceInv'
         /\ stop => Nearer
<1>0. ASSUME Down(pc, pc'), todo' \in Nat
      PROVE  PlaceInv' /\ Nearer
  BY <1>0, Zenon DEF PlaceInv, Nearer, Down
<1>1. CASE OpenCapture \/ RequireEnv \/ Fatal \/ Finalize \/ PatchHeader \/ FrameDone
  <2>1. Down(pc, pc') /\ todo' = todo
    BY <1>1, Ways, Zenon
       DEF OpenCapture, RequireEnv, Fatal, Finalize, PatchHeader, FrameDone, Goto
  <2> QED
    BY <2>1, <1>0 DEF PlaceInv
<1>2. CASE ConnectFirst \/ AuthenticateFirst \/ SubscribeFirst
  <2>1. Down(pc, pc') /\ todo' = todo
    BY <1>2, Ways, Zenon DEF ConnectFirst, AuthenticateFirst, SubscribeFirst, Goto
  <2> QED
    BY <2>1, <1>0 DEF PlaceInv
<1>3. CASE ReadResponse \/ LogResponse
  <2>1. Down(pc, pc') /\ todo' = todo
    <3>1. CASE LogResponse
      BY <3>1, Ways, Zenon DEF LogResponse, Goto
    <3>2. CASE ReadResponse
      <4>1. pc \in {"read_welcome", "read_auth", "read_sub"} /\ pc' = Responses[pc]
            /\ todo' = todo
        BY <3>2 DEF ReadResponse, Responses, Goto
      <4>2. /\ Responses["read_welcome"] = "welcome"
            /\ Responses["read_auth"] = "auth_response"
            /\ Responses["read_sub"] = "sub_response"
        BY DEF Responses
      <4> QED
        BY <4>1, <4>2, Ways, Zenon
    <3> QED
      BY <1>3, <3>1, <3>2
  <2> QED
    BY <2>1, <1>0 DEF PlaceInv
<1>4. CASE Loop
  <2>1. todo' = todo /\ (Down(pc, pc') \/ (~stop /\ pc' = "frame"))
    BY <1>4, Ways, Zenon DEF Loop, Goto
  <2> QED
    BY <2>1, <1>0, Ways DEF PlaceInv
<1>5. CASE \E f \in Frames \cup Acks : Frame(f)
  <2>1. PICK f \in Frames \cup Acks : Frame(f)
    BY <1>5
  <2>2. Down(pc, pc') /\ (todo' = todo \/ todo' = f.records)
    BY <2>1, Ways, Zenon DEF Frame, Goto
  <2> QED
    BY <2>2, <1>0, RecordsAreCounted DEF PlaceInv
<1>6. CASE Record
  BY <1>6 DEF Record, PlaceInv, Nearer
<1> QED
  BY <1>1, <1>2, <1>3, <1>4, <1>5, <1>6 DEF Main

\* Ctrl+C (g_stop in alpaca_ingest.cpp) ends the program after the frame being read: once
\* the flag is set no step leads away from the end, and the steps left are at most 14 and
\* the records of one frame.  The safety half of StopHonoured.
THEOREM StopBringsEnd == Spec => StopNearer
<1>1. Init => PlaceInv
  BY DEF Init, PlaceInv, ToEnd
<1>2. PlaceInv /\ [Next]_vars => PlaceInv'
  <2> SUFFICES ASSUME PlaceInv, [Next]_vars PROVE PlaceInv'
    OBVIOUS
  <2>1. CASE Main
    BY <2>1, MainNearer
  <2>2. CASE Kill
    BY <2>2 DEF Kill, Goto, PlaceInv, ToEnd
  <2>3. CASE UNCHANGED <<pc, todo>>
    BY <2>3 DEF PlaceInv
  <2> QED
    BY <2>1, <2>2, <2>3 DEF Next, Signal, Serve, Reconnect, Redial, Lose, program, vars
<1>3. PlaceInv /\ [Next]_vars => [stop => (~Main /\ UNCHANGED <<pc, todo>>) \/ Nearer]_vars
  <2> SUFFICES ASSUME PlaceInv, Next, stop, ~((~Main /\ UNCHANGED <<pc, todo>>) \/ Nearer)
               PROVE  FALSE
    OBVIOUS
  <2>1. CASE Main
    BY <2>1, MainNearer
  <2>2. CASE ~Main /\ Kill
    <3>1. pc \in DOMAIN ToEnd /\ ~Ended /\ pc' = "killed"
      BY <2>2 DEF Kill, Goto, PlaceInv
    <3> QED
      BY <3>1 DEF Ended, Nearer, ToEnd
  <2>3. CASE ~Main /\ UNCHANGED <<pc, todo>>
    BY <2>3
  <2> QED
    BY <2>1, <2>2, <2>3, Zenon DEF Next, Signal, Serve, Reconnect, Redial, Lose, program
<1> QED
  BY <1>1, <1>2, <1>3, PTL DEF Spec, StopNearer

-----------------------------------------------------------------------------
(* The file a session leaves, and its readers                              *)

\* The script starts when the program has ended, and gives both readers the file as
\* it was then.
ScriptInv ==
  /\ script \in {"wait", "bench", "detect", "done"}
  /\ script # "wait" => Ended /\ found \in Leftovers
  /\ script = "detect" => bench = ViewReplay(found)
  /\ script = "done" /\ found.size # 0 =>
       bench = ViewReplay(found) /\ detect = ReadReplay(found)

\* A program that has ended takes no step.
LEMMA EndedIsFinal == Ended => ~Next
<1> SUFFICES ASSUME Ended PROVE ~Next
  OBVIOUS
<1>1. ~Main
  BY DEF Ended, Main, OpenCapture, RequireEnv, ConnectFirst, AuthenticateFirst, SubscribeFirst,
    ReadResponse, Responses, LogResponse, Loop, Frame, Record, FrameDone, Fatal, Finalize,
    PatchHeader
<1>2. ~(Signal \/ Kill \/ Serve \/ Reconnect \/ Redial \/ Lose)
  BY DEF Signal, Kill, Serve, Reconnect, Redial, Lose
<1> QED
  BY <1>1, <1>2 DEF Next

\* Every step of the session keeps the script's invariant.
LEMMA ScriptStep == ScriptInv /\ [SessionNext]_sessionVars => ScriptInv'
<1> SUFFICES ASSUME ScriptInv, [SessionNext]_sessionVars PROVE ScriptInv'
  OBVIOUS
<1>1. UNCHANGED vars => (Ended' <=> Ended) /\ Leftovers' = Leftovers
  BY DEF vars, program, writer, Ended, Leftovers, Cut, HeaderOut
<1>2. CASE Next /\ UNCHANGED scripting
  <2>1. script = "wait"
    BY <1>2, EndedIsFinal DEF ScriptInv
  <2> QED
    BY <1>2, <2>1 DEF scripting, ScriptInv
<1>3. CASE UNCHANGED sessionVars
  BY <1>1, <1>3 DEF sessionVars, scripting, ScriptInv
<1>4. CASE Check
  BY <1>1, <1>4 DEF Check, ScriptInv
<1>5. CASE Bench
  BY <1>1, <1>5 DEF Bench, ScriptInv
<1>6. CASE Detect
  BY <1>1, <1>6 DEF Detect, ScriptInv
<1> QED
  BY <1>2, <1>3, <1>4, <1>5, <1>6 DEF SessionNext

\* A file that a session leaves is no file at all, is cut in the header, or has the
\* header and every record its count promises; after a return on a sound device it
\* has exactly the validated records.
LEMMA LeftBehind ==
  ASSUME CaptureInv, NEW f \in Leftovers, f.size # 0
  PROVE  /\ f.size \in Nat
         /\ f.header = Header(disk.count)
         /\ f.size < HeaderSize \/ f.size >= HeaderSize + Stride * disk.count
         /\ pc = "returned" /\ good =>
              disk.count = validated /\ f.size = HeaderSize + Stride * validated
<1>1. capture /\ f.header = Header(disk.count)
  BY DEF Leftovers, NoFile, File
<1>2. disk.count \in Nat /\ disk.records \in Nat /\ disk.count <= disk.records
  BY DEF CaptureInv, WriterType, HeaderHonest
<1>3. \/ f.size = HeaderSize - 1 /\ ~good
      \/ f.size = HeaderSize + Stride * disk.records
      \/ f.size = HeaderSize + Stride * disk.records + Stride - 1 /\ Cut
  BY <1>1 DEF Leftovers, File, HeaderSize, Stride
<1>4. pc = "returned" /\ good =>
        /\ ~Cut /\ disk.records = validated /\ disk.count = validated
  BY <1>1 DEF CaptureInv, WriterType, Accounted, Closing, Cut
<1> QED
  BY <1>1, <1>2, <1>3, <1>4 DEF HeaderSize, Stride

\* On such a file the readers do what ReadersAgree says.
LEMMA ReadBack ==
  ASSUME CaptureInv, ScriptInv PROVE ReadersAgree
<1> SUFFICES ASSUME script = "done", found.size # 0
             PROVE  /\ bench.accepted <=> found.size >= HeaderSize
                    /\ bench.accepted => bench.count <= WholeRecords(found)
                    /\ detect.accepted => bench = detect /\ detect.count = WholeRecords(found)
                    /\ pc = "returned" /\ good => detect = Accepted(validated)
  BY DEF ReadersAgree
<1>1. found \in Leftovers /\ bench = ViewReplay(found) /\ detect = ReadReplay(found)
  BY DEF ScriptInv
<1>2. /\ found.size \in Nat /\ found.header = Header(disk.count)
      /\ found.size < HeaderSize \/ found.size >= HeaderSize + Stride * disk.count
      /\ pc = "returned" /\ good =>
           disk.count = validated /\ found.size = HeaderSize + Stride * validated
  BY <1>1, LeftBehind
<1>3. disk.count \in Nat /\ validated \in Nat
  BY DEF CaptureInv, WriterType
<1> DEFINE size == found.size
           n == disk.count
<1>4. /\ found.header.magic = kMagic /\ found.header.version = kVersion
      /\ found.header.count = n
  BY <1>2 DEF Header
<1>5. /\ size \in Nat /\ n \in Nat
      /\ size >= HeaderSize => size >= HeaderSize + Stride * n
  BY <1>2, <1>3 DEF HeaderSize, Stride
<1>6. size >= HeaderSize => n <= WholeRecords(found)
  BY <1>5 DEF WholeRecords, HeaderSize, Stride
<1>7. bench = IF size < HeaderSize THEN Refused ELSE Accepted(n)
  BY <1>1, <1>4, <1>5, <1>6 DEF ViewReplay, Mapped, WholeRecords, HeaderSize, Stride
<1>8. detect = IF size < HeaderSize \/ size - HeaderSize # n * Stride
               THEN Refused ELSE Accepted(n)
  BY <1>1, <1>4 DEF ReadReplay
<1>9. size - HeaderSize = n * Stride => n = WholeRecords(found)
  BY <1>5 DEF WholeRecords, HeaderSize, Stride
<1>10. bench.accepted <=> size >= HeaderSize
  BY <1>5, <1>7 DEF Refused, Accepted, HeaderSize
<1>11. bench.accepted => bench.count <= WholeRecords(found)
  BY <1>6, <1>7, <1>10 DEF Accepted, Refused, HeaderSize
<1>12. detect.accepted => bench = detect /\ detect.count = WholeRecords(found)
  BY <1>7, <1>8, <1>9 DEF Accepted, Refused
<1>13. ASSUME pc = "returned", good PROVE detect = Accepted(validated)
  BY <1>2, <1>3, <1>8, <1>13 DEF HeaderSize, Stride
<1> QED
  BY <1>10, <1>11, <1>12, <1>13

\* However a session ends, view_replay() and read_replay() take from the file only
\* records that are there, agree when both accept it, and get every validated record
\* after a return on a sound device (capture_session.sh over CaptureWriter).
THEOREM SessionReadBack == SessionSpec => []ReadersAgree
<1>1. SessionInit => CaptureInv /\ ScriptInv
  BY CaptureInit DEF SessionInit, ScriptInv
<1>2. CaptureInv /\ [SessionNext]_sessionVars => CaptureInv'
  <2> SUFFICES ASSUME CaptureInv, [SessionNext]_sessionVars PROVE CaptureInv'
    OBVIOUS
  <2>1. [Next]_vars
    BY DEF SessionNext, sessionVars, Check, Bench, Detect
  <2> QED
    BY <2>1, CaptureStep
<1> QED
  BY <1>1, <1>2, ScriptStep, ReadBack, PTL DEF SessionSpec
=============================================================================
