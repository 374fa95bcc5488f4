---------------------------- MODULE AlpacaClient -----------------------------
(***************************************************************************)
(* The session with the data server (src/ingest/alpaca_client.cpp): the    *)
(* blocking calls of the client, and a server that greets, answers and     *)
(* publishes.  A connection can drop at any time, with any part of what    *)
(* was in flight.  A call is the state of the client's one thread inside   *)
(* read_frame() and establish(); it is "none" outside.                     *)
(***************************************************************************)
EXTENDS Integers, Sequences

CONSTANTS
  Frames,      \* frames of market data
  MaxWire,     \* bound: frames in flight
  MaxDrops     \* bound: connections lost

VARIABLES
  conn,         \* the socket: "none", "open", "dead" (the peer is gone) or "closed"
  session,      \* what the server knows of it: "none", "new", "auth", "sub"
  wire,         \* frames from the server not read yet
  subscribed,   \* subscribed_
  call,         \* "none", "read", and in establish(): "dial", "auth", "sub"
  drops         \* connections lost

client == <<conn, session, wire, subscribed, call, drops>>

ClientInit ==
  /\ conn = "none" /\ session = "none" /\ wire = <<>>
  /\ subscribed = FALSE /\ call = "none" /\ drops = 0

-----------------------------------------------------------------------------
(* The server                                                              *)

\* The answers parse to no records.
Ack(kind) == [kind |-> kind, records |-> 0, throws |-> FALSE]
Acks == {Ack(k) : k \in {"connected", "authenticated", "subscription", "error"}}

\* A request that reaches the server is answered; one written to a dead peer
\* vanishes.
Request(req) ==
  LET granted == \/ req = "auth" /\ session = "new"
                 \/ req = "sub" /\ session \in {"auth", "sub"}
      kind == IF ~granted THEN "error"
              ELSE IF req = "auth" THEN "authenticated" ELSE "subscription"
  IN  \/ /\ conn = "open"
         /\ session' = IF granted THEN req ELSE session
         /\ wire' = Append(wire, Ack(kind))
      \/ conn = "dead" /\ UNCHANGED <<session, wire>>

Publish(f) ==
  /\ session = "sub" /\ Len(wire) < MaxWire
  /\ wire' = Append(wire, f)
  /\ UNCHANGED <<conn, session, subscribed, call, drops>>

\* The connection is lost, or has been silent for idle_timeout.
Drop ==
  /\ conn = "open" /\ drops < MaxDrops
  /\ conn' = "dead" /\ session' = "none" /\ drops' = drops + 1
  /\ \E n \in 0..Len(wire) : wire' = SubSeq(wire, 1, n)
  /\ UNCHANGED <<subscribed, call>>

-----------------------------------------------------------------------------
(* The calls                                                               *)

\* connect(): the old stream is replaced before anything can fail.
Connected == conn' = "open" /\ session' = "new" /\ wire' = <<Ack("connected")>>
NotConnected == conn' = "none" /\ session' = "none" /\ wire' = <<>>

Connect == Connected /\ UNCHANGED <<subscribed, call, drops>>
ConnectThrows == NotConnected /\ UNCHANGED <<subscribed, call, drops>>

\* A write to a dead peer may go unnoticed or throw.
WriteThrows == conn = "dead" /\ UNCHANGED <<conn, session, wire, drops>>

Authenticate == Request("auth") /\ UNCHANGED <<conn, subscribed, call, drops>>
AuthenticateThrows == WriteThrows /\ UNCHANGED <<subscribed, call>>

\* Fault: the subscription is not remembered.
SubscribeForgets == Request("sub") /\ UNCHANGED <<conn, subscribed, call, drops>>

Subscribe == Request("sub") /\ subscribed' = TRUE /\ UNCHANGED <<conn, call, drops>>
SubscribeThrows == WriteThrows /\ subscribed' = TRUE /\ UNCHANGED call

ReadFrame == call' = "read" /\ UNCHANGED <<conn, session, wire, subscribed, drops>>

\* read_frame() returns the next frame.
Returns(f) ==
  /\ call = "read" /\ wire # <<>> /\ f = Head(wire)
  /\ wire' = Tail(wire) /\ call' = "none"
  /\ UNCHANGED <<conn, session, subscribed, drops>>

\* The read fails: establish() begins.
ReadFails ==
  /\ call = "read" /\ conn = "dead" /\ wire = <<>>
  /\ call' = "dial"
  /\ UNCHANGED <<conn, session, wire, subscribed, drops>>

\* establish(): connect(), authenticate(), replay the subscription; whatever
\* throws, it waits and starts over.
Dial == call = "dial" /\ Connected /\ call' = "auth" /\ UNCHANGED <<subscribed, drops>>
\* Fault: establish() returns after a failed attempt.
DialFailsGivesUp ==
  call = "dial" /\ NotConnected /\ call' = "read" /\ UNCHANGED <<subscribed, drops>>

DialFails == call = "dial" /\ NotConnected /\ UNCHANGED <<subscribed, call, drops>>

ReAuthenticate ==
  /\ call = "auth"
  /\ Request("auth")
  /\ call' = IF subscribed THEN "sub" ELSE "read"
  /\ UNCHANGED <<conn, subscribed, drops>>

ReSubscribe ==
  /\ call = "sub"
  /\ Request("sub")
  /\ call' = "read"
  /\ UNCHANGED <<conn, subscribed, drops>>

StartOver == call \in {"auth", "sub"} /\ WriteThrows /\ call' = "dial" /\ UNCHANGED subscribed

Close == conn' = "closed" /\ session' = "none" /\ wire' = <<>>
         /\ UNCHANGED <<subscribed, call, drops>>

\* What the client does by itself inside read_frame().
Establish == ReadFails \/ DialFails \/ ReAuthenticate \/ ReSubscribe \/ StartOver
=============================================================================
