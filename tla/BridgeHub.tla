----------------------------- MODULE BridgeHub -----------------------------
(***************************************************************************)
(* nat/bridge_hub.go: the hub that owns the bridges of one end             *)
(* (ServerBridge in the server, LocalBridge in the client).  A bridge      *)
(* joins one TCP connection to a websocket session; an incoming message    *)
(* finds its bridge by the request id alone.                               *)
(*                                                                         *)
(* As in Hub, a call on one of the hub's unbuffered channels and the case  *)
(* of run that serves it are one step.                                     *)
(***************************************************************************)
EXTENDS Naturals, Sequences

CONSTANTS
    Bridge,     \* the *Bridge objects: one per request at each end
    Id,         \* request ids
    Body,       \* message bodies
    BridgeCap   \* the capacity of a bridge's channel, make(chan []byte, 100)

VARIABLES
    bridges,    \* h.bridges, the registered bridges
    send,       \* send[b]: what is buffered in b.send
    cause,      \* cause[b]: "open", or what closed the channel b.send
    reqID       \* reqID[b]: the id b was registered with

bridgeVars == <<bridges, send, cause, reqID>>

Cause == {"open", "close", "full", "unregister"}

closed == {b \in Bridge : cause[b] # "open"}

BridgeTypeOK ==
    /\ bridges \subseteq Bridge
    /\ send \in [Bridge -> Seq(Body)]
    /\ cause \in [Bridge -> Cause]
    /\ reqID \in [Bridge -> Id]

BridgeInit(noId) ==
    /\ bridges = {}
    /\ send = [b \in Bridge |-> << >>]
    /\ cause = [b \in Bridge |-> "open"]
    /\ reqID = [b \in Bridge |-> noId]

----------------------------------------------------------------------------
\* BridgeHub.Register builds the object and hands it to run.
Register(b, i) ==
    /\ b \notin bridges \cup closed
    /\ bridges' = bridges \cup {b}
    /\ reqID' = [reqID EXCEPT ![b] = i]
    /\ UNCHANGED <<send, cause>>

\* close(bridge.send) and delete(h.bridges, bridge) for every bridge of B.
Drop(B, why) ==
    /\ bridges' = bridges \ B
    /\ cause' = [b \in Bridge |-> IF b \in B THEN why ELSE cause[b]]

\* `case bridge := <-h.unregister`
Unregister(b) ==
    IF b \in bridges
    THEN Drop({b}, "unregister") /\ UNCHANGED <<send, reqID>>
    ELSE UNCHANGED bridgeVars

\* Wrong variant: the id is not compared.
Matching_Any(i) == bridges

Matching(i) == {b \in bridges : reqID[b] = i}
Full(b) == Len(send[b]) >= BridgeCap

\* A METHOD_CLOSE message closes the first bridge with its id that the range
\* over the map meets, and no other.
BroadcastClose(i) ==
    IF Matching(i) = {}
    THEN UNCHANGED bridgeVars
    ELSE /\ \E b \in Matching(i) : Drop({b}, "close")
         /\ UNCHANGED <<send, reqID>>

\* Wrong variant: a full channel costs the message, not the bridge.
BroadcastBody_Sheds(i, body) ==
    \/ \E b \in Matching(i) :
        /\ ~Full(b)
        /\ send' = [send EXCEPT ![b] = Append(@, body)]
        /\ UNCHANGED <<bridges, cause, reqID>>
    \/ /\ \A b \in Matching(i) : Full(b)
       /\ UNCHANGED bridgeVars

\* Any other message goes to the first bridge with its id that has room.  The
\* full ones met before it are dropped; when all are full, all are dropped.
BroadcastBody(i, body) ==
    LET full == {b \in Matching(i) : Full(b)}
        room == Matching(i) \ full
    IN  /\ \/ /\ room = {}
              /\ Drop(full, "full")
              /\ UNCHANGED send
           \/ \E met \in SUBSET full, b \in room :
              /\ Drop(met, "full")
              /\ send' = [send EXCEPT ![b] = Append(@, body)]
        /\ UNCHANGED reqID

\* `message, ok := <-b.send` of WritePump, ok and not ok.
Take(b) ==
    /\ send[b] # << >>
    /\ send' = [send EXCEPT ![b] = Tail(@)]
    /\ UNCHANGED <<bridges, cause, reqID>>

Drained(b) == b \in closed /\ send[b] = << >>

----------------------------------------------------------------------------
BridgeNext ==
    \/ \E b \in Bridge :
        \/ \E i \in Id : Register(b, i)
        \/ Unregister(b)
        \/ Take(b)
    \/ \E i \in Id :
        \/ BroadcastClose(i)
        \/ \E body \in Body : BroadcastBody(i, body)

BridgeSpec == (\E i \in Id : BridgeInit(i)) /\ [][BridgeNext]_bridgeVars

----------------------------------------------------------------------------
\* The channel of a registered bridge is open: run never closes a channel twice
\* and never sends on a closed one, whatever mixture of CLOSE messages,
\* overflows and Unregister calls ends the bridge.
MembersOpen == bridges \cap closed = {}

\* Once closed, a channel only drains, and what closed it first stays the cause.
ClosedIsFinal ==
    [][\A b \in closed :
          /\ cause'[b] = cause[b]
          /\ Len(send'[b]) <= Len(send[b])]_bridgeVars
=============================================================================
