-------------------------------- MODULE Nat --------------------------------
(***************************************************************************)
(* The NAT relay: the websocket tunnel by which a server process hands an  *)
(* HTTP request to a client process behind a firewall (nat/*.go and        *)
(* proto/websocket.go).                                                    *)
(*                                                                         *)
(*   requester --tcp--> server  ==websocket session==> client --tcp--> app *)
(*                                                                         *)
(* Each end has a Hub (one client object per session, with a write pump    *)
(* and a read pump) and a BridgeHub (one bridge per request).  In the      *)
(* server a request runs two goroutines: transfer, which drains its bridge *)
(* towards the requester, and the sender it starts, which copies what the  *)
(* requester sends.  In the client a request has two goroutines as well:   *)
(* the bridge's WritePump towards the local application and the copier of  *)
(* what the application answers.                                           *)
(*                                                                         *)
(* A chunk is what one Read of the copy loop returned.  It is named by the *)
(* request that it belongs to and its place in that request's stream, so   *)
(* that a chunk that reaches the wrong connection can be told.             *)
(***************************************************************************)
EXTENDS Naturals, Sequences

CONSTANTS
    Req,            \* requests (objects: a request of a dead process is not reused)
    Session,        \* websocket connections, used one after the other
    NoSession,      \* stands for no session
    SendCap,        \* capacity of a session's channel (SEND_CHAN_LEN, 200)
    BridgeCap,      \* capacity of a bridge's channel (100)
    WireCap,        \* messages the network holds per session and direction
    MaxUp,          \* bound: chunks of a request, the header being the first
    MaxDown,        \* bound: chunks of a response
    MaxFail,        \* bound: connection losses and client crashes
    MaxRestart      \* bound: restarts of the server process

ASSUME NatAssumption ==
    /\ {SendCap, BridgeCap, WireCap, MaxUp} \subseteq Nat \ {0}
    /\ {MaxDown, MaxFail, MaxRestart} \subseteq Nat
    /\ NoSession \notin Session

VARIABLES
    sClients, sSend, sClosed,           \* ServerHub
    cClients, cSend, cClosed,           \* ClientHub
    sBridges, sBody, sCause, sID,       \* ServerBridge
    lBridges, lBody, lCause, lID,       \* LocalBridge
    conn,       \* conn[e][s]: has end e its socket of session s open?
    wire,       \* wire[e][s]: messages on their way to end e
    wp, rp,     \* the goroutines writePump and read pump of session s at end e
    tpc,        \* the goroutine of transfer
    snd,        \* the goroutine it starts, request -> websocket
    agent,      \* agent[r]: the session transfer chose
    up,         \* chunks the sender has read from the requester
    got,        \* what was written to the requester
    lwp,        \* the client's WritePump goroutine of a request
    lcp,        \* the client's goroutine local -> websocket
    lagent,     \* lagent[r]: the session the CREATE message came from
    down,       \* chunks that goroutine has read from the application
    lgot,       \* what was written to the application
    nextId,     \* the server process's autoinc counter
    fails, restarts     \* how often the environment interfered

hubS  == <<sClients, sSend, sClosed>>
hubC  == <<cClients, cSend, cClosed>>
brS   == <<sBridges, sBody, sCause, sID>>
brL   == <<lBridges, lBody, lCause, lID>>
net   == <<conn, wire>>
pumps == <<wp, rp>>
xfer  == <<tpc, snd, agent, up, got>>
local == <<lwp, lcp, lagent, down, lgot>>
env   == <<nextId, fails, restarts>>
vars  == <<hubS, hubC, brS, brL, net, pumps, xfer, local, env>>

----------------------------------------------------------------------------
End == {"S", "C"}
Peer(e) == IF e = "S" THEN "C" ELSE "S"

Id == Nat       \* uint in the code; the counter starts at 1
NoId == 0
Chunk == [req : Req, n : Nat]

\* Message of nat/message.go.  The body of "create" and "close" is empty in the
\* code; here it still names the request and the place in its stream, which is
\* 0 for CREATE and the one after the last chunk for CLOSE, for the history alone.
Method == {"create", "close", ""}
Message == [id : Id, method : Method, body : Chunk]
Msg(i, method, r, n) == [id |-> i, method |-> method, body |-> [req |-> r, n |-> n]]

SH == INSTANCE Hub WITH Client <- Session, clients <- sClients,
                        send <- sSend, closed <- sClosed
CH == INSTANCE Hub WITH Client <- Session, clients <- cClients,
                        send <- cSend, closed <- cClosed
SB == INSTANCE BridgeHub WITH Bridge <- Req, Body <- Chunk, bridges <- sBridges,
                              send <- sBody, cause <- sCause, reqID <- sID
LB == INSTANCE BridgeHub WITH Bridge <- Req, Body <- Chunk, bridges <- lBridges,
                              send <- lBody, cause <- lCause, reqID <- lID

SockState == {"none", "open", "closed"}
PumpState == {"off", "register", "run", "done", "dead"}

NetTypeOK ==
    /\ conn \in [End -> [Session -> SockState]]
    /\ wire \in [End -> [Session -> Seq(Message)]]
    /\ wp \in [End -> [Session -> PumpState]]
    /\ rp \in [End -> [Session -> PumpState]]

XferTypeOK ==
    /\ tpc \in [Req -> {"new", "open", "pump", "wait", "ret", "plain", "dead"}]
    /\ snd \in [Req -> {"off", "head", "copy", "done", "dead"}]
    /\ agent \in [Req -> Session \cup {NoSession}]
    /\ up \in [Req -> 0 .. MaxUp]
    /\ got \in [Req -> Seq(Chunk)]

LocalTypeOK ==
    /\ lwp \in [Req -> {"off", "run", "done", "dead"}]
    /\ lcp \in [Req -> {"off", "copy", "unreg", "done", "dead"}]
    /\ lagent \in [Req -> Session \cup {NoSession}]
    /\ down \in [Req -> 0 .. MaxDown]
    /\ lgot \in [Req -> Seq(Chunk)]

EnvTypeOK ==
    /\ nextId \in Id
    /\ fails \in 0 .. MaxFail
    /\ restarts \in 0 .. MaxRestart

TypeOK ==
    /\ SH!HubTypeOK /\ CH!HubTypeOK
    /\ SB!BridgeTypeOK /\ LB!BridgeTypeOK
    /\ NetTypeOK /\ XferTypeOK /\ LocalTypeOK /\ EnvTypeOK

Init ==
    /\ SH!HubInit /\ CH!HubInit
    /\ SB!BridgeInit(NoId) /\ LB!BridgeInit(NoId)
    /\ conn = [e \in End |-> [s \in Session |-> "none"]]
    /\ wire = [e \in End |-> [s \in Session |-> << >>]]
    /\ wp = [e \in End |-> [s \in Session |-> "off"]]
    /\ rp = [e \in End |-> [s \in Session |-> "off"]]
    /\ tpc = [r \in Req |-> "new"]
    /\ snd = [r \in Req |-> "off"]
    /\ agent = [r \in Req |-> NoSession]
    /\ up = [r \in Req |-> 0]
    /\ got = [r \in Req |-> << >>]
    /\ lwp = [r \in Req |-> "off"]
    /\ lcp = [r \in Req |-> "off"]
    /\ lagent = [r \in Req |-> NoSession]
    /\ down = [r \in Req |-> 0]
    /\ lgot = [r \in Req |-> << >>]
    /\ nextId = 1 /\ fails = 0 /\ restarts = 0

----------------------------------------------------------------------------
(* The network of one session.                                             *)

\* Closing a socket discards what had not been read from it; what was already
\* sent may still arrive, unless the reset that follows overtakes it.
CloseSock(e, s) ==
    IF conn[e][s] # "open" THEN UNCHANGED net
    ELSE /\ conn' = [conn EXCEPT ![e][s] = "closed"]
         /\ \E last \in {<< >>, wire[Peer(e)][s]} :
              wire' = [wire EXCEPT ![e][s] = << >>, ![Peer(e)][s] = last]

\* A write blocks while the network is full; towards a peer that has closed its
\* socket it succeeds, and the data is lost.
WriteSock(e, s, m) ==
    /\ conn[e][s] = "open"
    /\ IF conn[Peer(e)][s] = "open"
       THEN /\ Len(wire[Peer(e)][s]) < WireCap
            /\ wire' = [wire EXCEPT ![Peer(e)][s] = Append(@, m)]
       ELSE UNCHANGED wire
    /\ UNCHANGED conn

ReadSock(e, s) ==
    /\ conn[e][s] = "open" /\ wire[e][s] # << >>
    /\ wire' = [wire EXCEPT ![e][s] = Tail(@)]
    /\ UNCHANGED conn

\* What makes a write, and a read, of end e fail.
WriteFails(e, s) == "closed" \in {conn[e][s], conn[Peer(e)][s]}
ReadFails(e, s) == conn[e][s] = "closed" \/ (conn[Peer(e)][s] = "closed" /\ wire[e][s] = << >>)

----------------------------------------------------------------------------
(* A session: ConnectServer and connect in the client, serveWs and the     *)
(* pumps in the server.                                                    *)

StartPumps(e, s) ==
    /\ rp[e][s] = "register"
    /\ rp' = [rp EXCEPT ![e][s] = "run"]
    /\ wp' = [wp EXCEPT ![e][s] = "run"]

\* The client dials, authenticates and subscribes.  The loop of ConnectServer
\* calls connect again only when the previous call has returned.
Connect(s) ==
    /\ conn["C"][s] = "none"
    /\ \A t \in Session : rp["C"][t] \in {"off", "done", "dead"}
    /\ conn' = [e \in End |-> [conn[e] EXCEPT ![s] = "open"]]
    /\ rp' = [e \in End |-> [rp[e] EXCEPT ![s] = "register"]]
    /\ UNCHANGED <<hubS, hubC, brS, brL, wire, wp, xfer, local, env>>

\* Each end registers its client object and starts its pumps, in either order.
ServerRegister(s) ==
    /\ StartPumps("S", s) /\ SH!Register(s)
    /\ UNCHANGED <<hubC, brS, brL, net, xfer, local, env>>

ClientRegister(s) ==
    /\ StartPumps("C", s) /\ CH!Register(s)
    /\ UNCHANGED <<hubS, brS, brL, net, xfer, local, env>>

\* writePump: a message from the channel to the websocket.
ServerWrite(s) ==
    /\ wp["S"][s] = "run" /\ SH!Take(s)
    /\ WriteSock("S", s, Head(sSend[s]))
    /\ UNCHANGED <<hubC, brS, brL, pumps, xfer, local, env>>

ClientWrite(s) ==
    /\ wp["C"][s] = "run" /\ CH!Take(s)
    /\ WriteSock("C", s, Head(cSend[s]))
    /\ UNCHANGED <<hubS, brS, brL, pumps, xfer, local, env>>

\* Wrong variant: without `defer c.conn.Close()`.
WritePumpEnds_NoClose(e, s, drained) ==
    /\ wp[e][s] = "run"
    /\ drained \/ WriteFails(e, s)
    /\ wp' = [wp EXCEPT ![e][s] = "done"]
    /\ UNCHANGED <<hubS, hubC, brS, brL, net, rp, xfer, local, env>>

\* writePump returns, because the hub closed the channel or because a write, of
\* a message or of the periodic ping, failed; its defer closes the socket.  The
\* CloseMessage it sends in the first case ends the peer's reads where the end
\* of the connection does.
WritePumpEnds(e, s, drained) ==
    /\ wp[e][s] = "run"
    /\ drained \/ WriteFails(e, s)
    /\ wp' = [wp EXCEPT ![e][s] = "done"]
    /\ CloseSock(e, s)
    /\ UNCHANGED <<hubS, hubC, brS, brL, rp, xfer, local, env>>

ServerWriteEnd(s) == WritePumpEnds("S", s, SH!Drained(s))
ClientWriteEnd(s) == WritePumpEnds("C", s, CH!Drained(s))

\* serverReadPump hands every message to ServerBridge.
ServerRead(s) ==
    /\ rp["S"][s] = "run" /\ ReadSock("S", s)
    /\ LET m == Head(wire["S"][s])
       IN  IF m.method = "close" THEN SB!BroadcastClose(m.id)
                                 ELSE SB!BroadcastBody(m.id, m.body)
    /\ UNCHANGED <<hubS, hubC, brL, pumps, xfer, local, env>>

\* The read pump ends on a read error: unregister, then close the socket.
ReadPumpEnds(e, s) ==
    /\ rp[e][s] = "run" /\ ReadFails(e, s)
    /\ rp' = [rp EXCEPT ![e][s] = "done"]
    /\ CloseSock(e, s)

ServerReadEnd(s) ==
    /\ ReadPumpEnds("S", s) /\ SH!Unregister(s)
    /\ UNCHANGED <<hubC, brS, brL, wp, xfer, local, env>>

\* In the client localReadPump returns, done is closed, and connect, returning,
\* runs its two defers.
ClientReadEnd(s) ==
    /\ ReadPumpEnds("C", s) /\ CH!Unregister(s)
    /\ UNCHANGED <<hubS, brS, brL, wp, xfer, local, env>>

\* localReadPump, METHOD_CREATE: dial the local proxy, register the bridge and
\* start its two goroutines.  (That the dial fails is in ClientCrash.)
ClientCreate(s) ==
    /\ rp["C"][s] = "run" /\ ReadSock("C", s)
    /\ LET m == Head(wire["C"][s])
           r == m.body.req
       IN  /\ m.method = "create"
           /\ LB!Register(r, m.id)
           /\ lwp' = [lwp EXCEPT ![r] = "run"]
           /\ lcp' = [lcp EXCEPT ![r] = "copy"]
           /\ lagent' = [lagent EXCEPT ![r] = s]
    /\ UNCHANGED <<hubS, hubC, brS, pumps, xfer, down, lgot, env>>

\* Wrong variant: the message is buffered where its body should be.
ToLocalBridge_Whole(m) ==
    IF m.method = "close" THEN LB!BroadcastClose(m.id) ELSE LB!BroadcastBody(m.id, m)

\* localReadPump, any other message.
ToLocalBridge(m) ==
    IF m.method = "close" THEN LB!BroadcastClose(m.id) ELSE LB!BroadcastBody(m.id, m.body)

ClientRead(s) ==
    /\ rp["C"][s] = "run" /\ ReadSock("C", s)
    /\ LET m == Head(wire["C"][s])
       IN  m.method # "create" /\ ToLocalBridge(m)
    /\ UNCHANGED <<hubS, hubC, brS, pumps, xfer, local, env>>

----------------------------------------------------------------------------
(* wsTunnel.transfer and the goroutine it starts.                          *)

\* Wrong variant: the sender is started before CREATE is sent.
Begin_SenderFirst(r) ==
    /\ tpc[r] = "new"
    /\ \E s \in sClients : agent' = [agent EXCEPT ![r] = s]
    /\ SB!Register(r, nextId)
    /\ nextId' = nextId + 1
    /\ tpc' = [tpc EXCEPT ![r] = "open"]
    /\ snd' = [snd EXCEPT ![r] = "head"]
    /\ UNCHANGED <<hubS, hubC, brL, net, pumps, up, got, local, fails, restarts>>

\* The connection gets its id from the process's counter when it is accepted;
\* GetClient picks a session whose subscription matches the request, and
\* ServerBridge.Register makes the bridge.
Begin(r) ==
    /\ tpc[r] = "new"
    /\ \E s \in sClients : agent' = [agent EXCEPT ![r] = s]
    /\ SB!Register(r, nextId)
    /\ nextId' = nextId + 1
    /\ tpc' = [tpc EXCEPT ![r] = "open"]
    /\ UNCHANGED <<hubS, hubC, brL, net, pumps, snd, up, got, local, fails, restarts>>

\* No session, or none whose subscription matches the request: transfer returns
\* false, and the request is forwarded as usual.
NotFound(r) ==
    /\ tpc[r] = "new"
    /\ tpc' = [tpc EXCEPT ![r] = "plain"]
    /\ nextId' = nextId + 1
    /\ UNCHANGED <<hubS, hubC, brS, brL, net, pumps, snd, agent, up, got, local,
                   fails, restarts>>

\* b.Open: CREATE goes out before the sender starts.
Open(r) ==
    /\ tpc[r] = "open"
    /\ SH!Broadcast(agent[r], Msg(sID[r], "create", r, 0))
    /\ tpc' = [tpc EXCEPT ![r] = "pump"]
    /\ snd' = [snd EXCEPT ![r] = "head"]
    /\ UNCHANGED <<hubC, brS, brL, net, pumps, agent, up, got, local, env>>

\* The sender: first the buffered header, then whatever it reads.
Send(r) ==
    /\ snd[r] \in {"head", "copy"} /\ up[r] < MaxUp
    /\ up' = [up EXCEPT ![r] = @ + 1]
    /\ SH!Broadcast(agent[r], Msg(sID[r], "", r, up[r] + 1))
    /\ snd' = [snd EXCEPT ![r] = "copy"]
    /\ UNCHANGED <<hubC, brS, brL, net, pumps, tpc, agent, got, local, env>>

\* The requester closes its connection and CopyBuffer ends: CloseWrite, and done
\* is closed.
SendClose(r) ==
    /\ snd[r] = "copy"
    /\ SH!Broadcast(agent[r], Msg(sID[r], "close", r, up[r] + 1))
    /\ snd' = [snd EXCEPT ![r] = "done"]
    /\ UNCHANGED <<hubC, brS, brL, net, pumps, tpc, agent, up, got, local, env>>

\* WritePump in the server: a chunk to the requester.
Pump(r) ==
    /\ tpc[r] = "pump" /\ SB!Take(r)
    /\ got' = [got EXCEPT ![r] = Append(@, Head(sBody[r]))]
    /\ UNCHANGED <<hubS, hubC, brL, net, pumps, tpc, snd, agent, up, local, env>>

\* WritePump returns when the channel is closed and drained or when a write to
\* a requester that went away fails.  It does not look at the requester, nor at
\* the session, while the channel is empty.
PumpEnd(r) ==
    /\ tpc[r] = "pump"
    /\ SB!Drained(r) \/ (snd[r] = "done" /\ sBody[r] # << >>)
    /\ tpc' = [tpc EXCEPT ![r] = "wait"]
    /\ UNCHANGED <<hubS, hubC, brS, brL, net, pumps, snd, agent, up, got, local, env>>

\* Wrong variant: without `defer b.Unregister()`.
Return_NoUnregister(r) ==
    /\ tpc[r] = "wait" /\ snd[r] = "done"
    /\ tpc' = [tpc EXCEPT ![r] = "ret"]
    /\ UNCHANGED <<hubS, hubC, brS, brL, net, pumps, snd, agent, up, got, local, env>>

\* `<-done`, the deferred Unregister, return.
Return(r) ==
    /\ tpc[r] = "wait" /\ snd[r] = "done"
    /\ SB!Unregister(r)
    /\ tpc' = [tpc EXCEPT ![r] = "ret"]
    /\ UNCHANGED <<hubS, hubC, brL, net, pumps, snd, agent, up, got, local, env>>

----------------------------------------------------------------------------
(* The client's goroutines of a request.                                   *)

\* WritePump in the client: a chunk to the application.
LocalPump(r) ==
    /\ lwp[r] = "run" /\ LB!Take(r)
    /\ lgot' = [lgot EXCEPT ![r] = Append(@, Head(lBody[r]))]
    /\ UNCHANGED <<hubS, hubC, brS, net, pumps, xfer, lwp, lcp, lagent, down, env>>

\* It returns as in the server; CloseWrite passes the end on to the application.
LocalPumpEnd(r) ==
    /\ lwp[r] = "run"
    /\ LB!Drained(r) \/ (lcp[r] # "copy" /\ lBody[r] # << >>)
    /\ lwp' = [lwp EXCEPT ![r] = "done"]
    /\ UNCHANGED <<hubS, hubC, brS, brL, net, pumps, xfer, lcp, lagent, down, lgot, env>>

\* CopyBuffer reads a chunk of the answer and Write hands it to ClientHub.
LocalCopy(r) ==
    /\ lcp[r] = "copy" /\ down[r] < MaxDown
    /\ down' = [down EXCEPT ![r] = @ + 1]
    /\ CH!Broadcast(lagent[r], Msg(lID[r], "", r, down[r] + 1))
    /\ UNCHANGED <<hubS, brS, brL, net, pumps, xfer, lwp, lcp, lagent, lgot, env>>

\* Wrong variant: the end of the answer is not passed on.
LocalClose_Silent(r) ==
    /\ lcp[r] = "copy"
    /\ lcp' = [lcp EXCEPT ![r] = "unreg"]
    /\ UNCHANGED <<hubS, hubC, brS, brL, net, pumps, xfer, lwp, lagent, down, lgot, env>>

\* The application closed its connection: CloseWrite, then the deferred Unregister.
LocalClose(r) ==
    /\ lcp[r] = "copy"
    /\ CH!Broadcast(lagent[r], Msg(lID[r], "close", r, down[r] + 1))
    /\ lcp' = [lcp EXCEPT ![r] = "unreg"]
    /\ UNCHANGED <<hubS, brS, brL, net, pumps, xfer, lwp, lagent, down, lgot, env>>

\* Wrong variant: without `defer b.Unregister()`.
LocalUnregister_Skips(r) ==
    /\ lcp[r] = "unreg"
    /\ lcp' = [lcp EXCEPT ![r] = "done"]
    /\ UNCHANGED <<hubS, hubC, brS, brL, net, pumps, xfer, lwp, lagent, down, lgot, env>>

LocalUnregister(r) ==
    /\ lcp[r] = "unreg" /\ LB!Unregister(r)
    /\ lcp' = [lcp EXCEPT ![r] = "done"]
    /\ UNCHANGED <<hubS, hubC, brS, net, pumps, xfer, lwp, lagent, down, lgot, env>>

----------------------------------------------------------------------------
(* What goes wrong around the program.                                     *)

\* The connection of a session is lost with everything on it; each end notices
\* in its own time (in the server at the latest by the 60 s read deadline).
Cut(s) ==
    /\ fails < MaxFail
    /\ "open" \in {conn["S"][s], conn["C"][s]}
    /\ conn' = [e \in End |-> [conn[e] EXCEPT ![s] = "closed"]]
    /\ wire' = [e \in End |-> [wire[e] EXCEPT ![s] = << >>]]
    /\ fails' = fails + 1
    /\ UNCHANGED <<hubS, hubC, brS, brL, pumps, xfer, local, nextId, restarts>>

\* The sockets and goroutines of end e disappear with its process.
ProcessDies(e) ==
    /\ conn' = [conn EXCEPT ![e] = [s \in Session |->
                    IF conn[e][s] = "open" THEN "closed" ELSE conn[e][s]]]
    /\ wire' = [wire EXCEPT ![e] = [s \in Session |-> << >>]]
    /\ rp' = [rp EXCEPT ![e] = [s \in Session |->
                    IF rp[e][s] \in {"register", "run"} THEN "dead" ELSE rp[e][s]]]
    /\ wp' = [wp EXCEPT ![e] = [s \in Session |->
                    IF wp[e][s] = "run" THEN "dead" ELSE wp[e][s]]]

\* The client process ends and is started again, with empty hubs.  Nothing
\* refers to the objects of the old process, which are left as they were.
\* One way to get here is in the code: when dialProxy fails, the type assertion
\* of localReadPump on its nil result panics.
ClientCrash ==
    /\ fails < MaxFail
    /\ \E s \in Session : conn["C"][s] = "open"
    /\ fails' = fails + 1
    /\ ProcessDies("C")
    /\ cClients' = {} /\ lBridges' = {}
    /\ lwp' = [r \in Req |-> IF lwp[r] = "run" THEN "dead" ELSE lwp[r]]
    /\ lcp' = [r \in Req |-> IF lcp[r] = "copy" THEN "dead"
                            ELSE IF lcp[r] = "unreg" THEN "done" ELSE lcp[r]]
    /\ UNCHANGED <<hubS, cSend, cClosed, brS, lBody, lCause, lID, xfer, lagent, down, lgot,
                   nextId, restarts>>

\* The server process is replaced by a new one (a crash, or the graceful restart
\* once the old process is gone): its sessions and transfers end, and request
\* ids start again from 1.
ServerRestart ==
    /\ restarts < MaxRestart
    /\ restarts' = restarts + 1
    /\ ProcessDies("S")
    /\ sClients' = {} /\ sBridges' = {}
    /\ tpc' = [r \in Req |-> IF tpc[r] \in {"open", "pump"} THEN "dead"
                            ELSE IF tpc[r] = "wait" THEN "ret" ELSE tpc[r]]
    /\ snd' = [r \in Req |-> IF snd[r] \in {"head", "copy"} THEN "dead" ELSE snd[r]]
    /\ nextId' = 1
    /\ UNCHANGED <<sSend, sClosed, hubC, sBody, sCause, sID, brL, agent, up, got, local,
                   fails>>

----------------------------------------------------------------------------
ServerWritePump(s) == ServerWrite(s) \/ ServerWriteEnd(s)
ClientWritePump(s) == ClientWrite(s) \/ ClientWriteEnd(s)
ServerReadPump(s) == ServerRegister(s) \/ ServerRead(s) \/ ServerReadEnd(s)
ClientReadPump(s) == ClientRegister(s) \/ ClientCreate(s) \/ ClientRead(s) \/ ClientReadEnd(s)

Transfer(r) == Open(r) \/ Pump(r) \/ PumpEnd(r) \/ Return(r)
Sender(r) == Send(r) \/ SendClose(r)
LocalWriter(r) == LocalPump(r) \/ LocalPumpEnd(r)
LocalCopier(r) == LocalCopy(r) \/ LocalClose(r) \/ LocalUnregister(r)

SessionNext(s) ==
    \/ Connect(s) \/ Cut(s)
    \/ ServerWritePump(s) \/ ClientWritePump(s) \/ ServerReadPump(s) \/ ClientReadPump(s)

RequestNext(r) ==
    \/ Begin(r) \/ NotFound(r)
    \/ Transfer(r) \/ Sender(r) \/ LocalWriter(r) \/ LocalCopier(r)

Next ==
    \/ \E s \in Session : SessionNext(s)
    \/ \E r \in Req : RequestNext(r)
    \/ ClientCrash
    \/ ServerRestart

Spec == Init /\ [][Next]_vars

\* Goroutines run.  Of the surroundings only this is assumed: a requester closes
\* its connection at some time, and an application whose input has ended closes
\* its own.  Nothing makes a client connect, a request arrive or a failure happen.
Fairness ==
    /\ \A s \in Session :
        /\ WF_vars(ServerWritePump(s)) /\ WF_vars(ClientWritePump(s))
        /\ WF_vars(ServerReadPump(s)) /\ WF_vars(ClientReadPump(s))
    /\ \A r \in Req :
        /\ WF_vars(Transfer(r)) /\ WF_vars(Sender(r))
        /\ WF_vars(LocalWriter(r))
        /\ WF_vars(LocalUnregister(r))
        /\ WF_vars(lwp[r] = "done" /\ LocalClose(r))

FairSpec == Spec /\ Fairness

----------------------------------------------------------------------------
(* What the relay promises.                                                *)

\* The chunks 1..n of request r, in order.
Chunks(r, n) == [i \in 1 .. n |-> [req |-> r, n |-> i]]

\* Neither process panics on a channel: no hub has a client or a bridge whose
\* channel is closed among its members (bridge.go:49: writes go through the hub
\* because a direct one would race with close).
NoPanic ==
    /\ SH!MembersOpen /\ CH!MembersOpen
    /\ SB!MembersOpen /\ LB!MembersOpen

\* The application receives the chunks of the request it was dialled for, and
\* the requester those of its own answer: in order, none missing before one that
\* arrives, none of another request's, none twice.
OwnChunksInOrder ==
    \A r \in Req :
        /\ Len(lgot[r]) <= up[r] /\ lgot[r] = Chunks(r, Len(lgot[r]))
        /\ Len(got[r]) <= down[r] /\ got[r] = Chunks(r, Len(got[r]))

\* When a CLOSE message ended a bridge, it was the one its own peer had sent,
\* and whatever the peer had sent before it has reached the bridge: CLOSE takes
\* the same road as the data, overtakes none of it and meets no other bridge.
CloseAfterData ==
    \A r \in Req :
        /\ lCause[r] = "close" =>
                snd[r] = "done" /\ Len(lgot[r] \o lBody[r]) = up[r]
        /\ sCause[r] = "close" =>
                lcp[r] \in {"unreg", "done"} /\ Len(got[r] \o sBody[r]) = down[r]

\* When the read pump of a session has returned, the session's channel is closed:
\* its write pump has been told to stop, and nobody will pick the session.
DeadSessionClosed ==
    \A s \in Session :
        /\ rp["S"][s] = "done" => s \in sClosed
        /\ rp["C"][s] = "done" => s \in cClosed

\* No bridge outlives the goroutines that use it.
NoBridgeLeak ==
    \A r \in Req :
        /\ r \in sBridges => tpc[r] \in {"open", "pump", "wait"}
        /\ r \in lBridges => lcp[r] \in {"copy", "unreg"}

\* What a goroutine leaves behind: the hub forgets a session or a bridge, and
\* the channel it closed only drains.
ClosedIsFinal ==
    /\ SH!ClosedIsFinal /\ CH!ClosedIsFinal
    /\ SB!ClosedIsFinal /\ LB!ClosedIsFinal

\* The relay implements Relay for the two streams of every request.  What ends a
\* stream for its reader is how the goroutine that feeds it returned, and that is
\* an orderly end when CLOSE closed the bridge and nothing was left in it.
Stream == {"up", "down"} \X Req
StreamChunk(x, i) == [req |-> x[2], n |-> i]

ReaderEnd(pc, cause, body) ==
    CASE pc = "dead" -> "cut"
      [] pc \in {"done", "wait", "ret"} ->
            IF cause = "close" /\ body = << >> THEN "eof" ELSE "cut"
      [] OTHER -> "open"

StreamIn == [x \in Stream |-> IF x[1] = "up" THEN up[x[2]] ELSE down[x[2]]]
StreamShut == [x \in Stream |-> IF x[1] = "up" THEN snd[x[2]] = "done"
                                              ELSE lcp[x[2]] \in {"unreg", "done"}]
StreamOut == [x \in Stream |-> IF x[1] = "up" THEN lgot[x[2]] ELSE got[x[2]]]
StreamEnd == [x \in Stream |->
                IF x[1] = "up" THEN ReaderEnd(lwp[x[2]], lCause[x[2]], lBody[x[2]])
                               ELSE ReaderEnd(tpc[x[2]], sCause[x[2]], sBody[x[2]])]

RelayOf == INSTANCE Relay WITH Chunk <- StreamChunk, in <- StreamIn, shut <- StreamShut,
                               out <- StreamOut, end <- StreamEnd

ImplementsRelay == RelayOf!RelaySpec

\* A session falls as a whole: once one of its four goroutines has ended, the
\* others end and both sockets are closed.
SessionFalls ==
    \A s \in Session :
        (\E e \in End : wp[e][s] \in {"done", "dead"} \/ rp[e][s] \in {"done", "dead"})
        ~> (\A e \in End : wp[e][s] # "run" /\ rp[e][s] \in {"done", "dead"}
                                /\ conn[e][s] = "closed")

\* As long as its session stays registered, a transfer returns, whatever order
\* the two directions end in and whichever channel overflows.
TransferReturns ==
    \A r \in Req :
        tpc[r] = "pump" ~> (tpc[r] \in {"ret", "dead"} \/ agent[r] \notin sClients)

\* Nothing of a request is left in the client.
Gone(r) ==
    /\ lwp[r] \in {"done", "dead"} /\ lcp[r] \in {"done", "dead"}
    /\ r \notin lBridges

\* client.go:126: the client forgets every request.  Both goroutines of a bridge end
\* and the bridge leaves LocalBridge, as long as the session stays registered in the
\* server; and whatever becomes of the session, once one of the three has gone the
\* others follow.
LocalEnds ==
    \A r \in Req :
        /\ lwp[r] = "run" ~> (Gone(r) \/ lagent[r] \notin sClients)
        /\ (lwp[r] = "done" \/ lcp[r] \in {"unreg", "done"} \/ (lwp[r] = "run" /\ r \notin lBridges))
                ~> Gone(r)

\* websocket.go:89 says of transfer: whether it ends normally or not, once the
\* server has ended the function returns and the connection is closed.
ReturnsOnceServerEnded ==
    \A r \in Req :
        (tpc[r] = "pump" /\ agent[r] \notin sClients) ~> tpc[r] \in {"ret", "dead"}
=============================================================================
