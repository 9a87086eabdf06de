----------------------------- MODULE NatProofs -----------------------------
(***************************************************************************)
(* Theorems about the NAT relay, for any number of requests and sessions,  *)
(* any channel capacities, and any number of failures and restarts.        *)
(***************************************************************************)
EXTENDS Nat, TLAPS

\* Every operation of a hub keeps the channels of its members open.  Stated for
\* ServerHub and for ClientHub.
LEMMA ServerHubKeepsOpen ==
    ASSUME SH!MembersOpen, NEW s,
           \/ SH!Register(s) \/ SH!Unregister(s) \/ SH!Take(s)
           \/ \E m : SH!Broadcast(s, m)
    PROVE  SH!MembersOpen'
  BY DEF SH!MembersOpen, SH!Register, SH!Fresh, SH!Unregister, SH!Drop, SH!Take,
         SH!Broadcast, SH!hubVars

LEMMA ClientHubKeepsOpen ==
    ASSUME CH!MembersOpen, NEW s,
           \/ CH!Register(s) \/ CH!Unregister(s) \/ CH!Take(s)
           \/ \E m : CH!Broadcast(s, m)
    PROVE  CH!MembersOpen'
  BY DEF CH!MembersOpen, CH!Register, CH!Fresh, CH!Unregister, CH!Drop, CH!Take,
         CH!Broadcast, CH!hubVars

\* The same for the two bridge hubs.
LEMMA ServerBridgeKeepsOpen ==
    ASSUME SB!MembersOpen, NEW r, NEW i, NEW body,
           \/ SB!Register(r, i) \/ SB!Unregister(r) \/ SB!Take(r)
           \/ SB!BroadcastClose(i) \/ SB!BroadcastBody(i, body)
    PROVE  SB!MembersOpen'
  BY DEF SB!MembersOpen, SB!closed, SB!Register, SB!Unregister, SB!Drop, SB!Take,
         SB!BroadcastClose, SB!BroadcastBody, SB!Matching, SB!bridgeVars

LEMMA LocalBridgeKeepsOpen ==
    ASSUME LB!MembersOpen, NEW r, NEW i, NEW body,
           \/ LB!Register(r, i) \/ LB!Unregister(r) \/ LB!Take(r)
           \/ LB!BroadcastClose(i) \/ LB!BroadcastBody(i, body)
    PROVE  LB!MembersOpen'
  BY DEF LB!MembersOpen, LB!closed, LB!Register, LB!Unregister, LB!Drop, LB!Take,
         LB!BroadcastClose, LB!BroadcastBody, LB!Matching, LB!bridgeVars

LEMMA UnchangedKeepsOpen ==
    ASSUME NoPanic
    PROVE  /\ UNCHANGED hubS => SH!MembersOpen'
           /\ UNCHANGED hubC => CH!MembersOpen'
           /\ UNCHANGED brS => SB!MembersOpen'
           /\ UNCHANGED brL => LB!MembersOpen'
  BY DEF NoPanic, hubS, hubC, brS, brL, SH!MembersOpen, CH!MembersOpen,
         SB!MembersOpen, SB!closed, LB!MembersOpen, LB!closed

\* No process ever panics on a channel: no step of either process, in whatever
\* order the goroutines take them, sends on or closes a closed channel.
THEOREM ChannelSafety == Spec => []NoPanic
<1>1. Init => NoPanic
  BY DEF Init, NoPanic, SH!HubInit, CH!HubInit, SB!BridgeInit, LB!BridgeInit,
         SH!MembersOpen, CH!MembersOpen, SB!MembersOpen, SB!closed,
         LB!MembersOpen, LB!closed
<1>2. ASSUME NoPanic, [Next]_vars
      PROVE  NoPanic'
  <2> USE UnchangedKeepsOpen, <1>2
  <2>1. ASSUME NEW s \in Session, SessionNext(s)
        PROVE  NoPanic'
    <3>1. CASE Connect(s) \/ Cut(s) \/ ServerWriteEnd(s) \/ ClientWriteEnd(s)
      BY <3>1 DEF NoPanic, Connect, Cut, ServerWriteEnd, ClientWriteEnd, WritePumpEnds
    <3>2. CASE ServerRegister(s) \/ ServerWrite(s) \/ ServerReadEnd(s)
      BY <3>2, ServerHubKeepsOpen
      DEF NoPanic, ServerRegister, ServerWrite, ServerReadEnd
    <3>3. CASE ClientRegister(s) \/ ClientWrite(s) \/ ClientReadEnd(s)
      BY <3>3, ClientHubKeepsOpen
      DEF NoPanic, ClientRegister, ClientWrite, ClientReadEnd
    <3>4. CASE ServerRead(s)
      BY <3>4, ServerBridgeKeepsOpen DEF NoPanic, ServerRead
    <3>5. CASE ClientCreate(s) \/ ClientRead(s)
      BY <3>5, LocalBridgeKeepsOpen DEF NoPanic, ClientCreate, ClientRead, ToLocalBridge
    <3> QED
      BY <2>1, <3>1, <3>2, <3>3, <3>4, <3>5
      DEF SessionNext, ServerWritePump, ClientWritePump, ServerReadPump, ClientReadPump
  <2>2. ASSUME NEW r \in Req, RequestNext(r)
        PROVE  NoPanic'
    <3>1. CASE NotFound(r) \/ PumpEnd(r) \/ LocalPumpEnd(r)
      BY <3>1 DEF NoPanic, NotFound, PumpEnd, LocalPumpEnd
    <3>2. CASE Open(r) \/ Send(r) \/ SendClose(r)
      BY <3>2, ServerHubKeepsOpen DEF NoPanic, Open, Send, SendClose
    <3>3. CASE LocalCopy(r) \/ LocalClose(r)
      BY <3>3, ClientHubKeepsOpen DEF NoPanic, LocalCopy, LocalClose
    <3>4. CASE Begin(r) \/ Pump(r) \/ Return(r)
      BY <3>4, ServerBridgeKeepsOpen DEF NoPanic, Begin, Pump, Return
    <3>5. CASE LocalPump(r) \/ LocalUnregister(r)
      BY <3>5, LocalBridgeKeepsOpen DEF NoPanic, LocalPump, LocalUnregister
    <3> QED
      BY <2>2, <3>1, <3>2, <3>3, <3>4, <3>5
      DEF RequestNext, Transfer, Sender, LocalWriter, LocalCopier
  <2>3. CASE ClientCrash
    BY <2>3 DEF NoPanic, ClientCrash, CH!MembersOpen, LB!MembersOpen
  <2>4. CASE ServerRestart
    BY <2>4 DEF NoPanic, ServerRestart, SH!MembersOpen, SB!MembersOpen
  <2>5. CASE UNCHANGED vars
    BY <2>5 DEF NoPanic, vars
  <2> QED
    BY <2>1, <2>2, <2>3, <2>4, <2>5 DEF Next
<1> QED
  BY <1>1, <1>2, PTL DEF Spec
----------------------------------------------------------------------------
(* Type correctness. *)

LEMMA ServerHubTyped ==
    ASSUME SH!HubTypeOK, NEW s,
           \/ s \in Session /\ (SH!Register(s) \/ SH!Unregister(s) \/ SH!Take(s))
           \/ \E m \in Message : SH!Broadcast(s, m)
    PROVE  SH!HubTypeOK'
<1> USE DEF SH!HubTypeOK
<1>1. CASE s \in Session /\ SH!Register(s)
  BY <1>1 DEF SH!Register
<1>2. CASE s \in Session /\ SH!Unregister(s)
  BY <1>2 DEF SH!Unregister, SH!Drop, SH!hubVars
<1>3. CASE s \in Session /\ SH!Take(s)
  BY <1>3, Tail(sSend[s]) \in Seq(Message) DEF SH!Take
<1>4. ASSUME NEW m \in Message, SH!Broadcast(s, m)
      PROVE  SH!HubTypeOK'
  <2>1. s \in Session => Append(sSend[s], m) \in Seq(Message)
    OBVIOUS
  <2> QED
    BY <1>4, <2>1 DEF SH!Broadcast, SH!Drop, SH!hubVars
<1> QED
  BY <1>1, <1>2, <1>3, <1>4

LEMMA ClientHubTyped ==
    ASSUME CH!HubTypeOK, NEW s,
           \/ s \in Session /\ (CH!Register(s) \/ CH!Unregister(s) \/ CH!Take(s))
           \/ \E m \in Message : CH!Broadcast(s, m)
    PROVE  CH!HubTypeOK'
<1> USE DEF CH!HubTypeOK
<1>1. CASE s \in Session /\ CH!Register(s)
  BY <1>1 DEF CH!Register
<1>2. CASE s \in Session /\ CH!Unregister(s)
  BY <1>2 DEF CH!Unregister, CH!Drop, CH!hubVars
<1>3. CASE s \in Session /\ CH!Take(s)
  BY <1>3, Tail(cSend[s]) \in Seq(Message) DEF CH!Take
<1>4. ASSUME NEW m \in Message, CH!Broadcast(s, m)
      PROVE  CH!HubTypeOK'
  <2>1. s \in Session => Append(cSend[s], m) \in Seq(Message)
    OBVIOUS
  <2> QED
    BY <1>4, <2>1 DEF CH!Broadcast, CH!Drop, CH!hubVars
<1> QED
  BY <1>1, <1>2, <1>3, <1>4

LEMMA ServerBridgeTyped ==
    ASSUME SB!BridgeTypeOK, NEW r, NEW i, NEW body,
           \/ r \in Req /\ i \in Id /\ SB!Register(r, i)
           \/ r \in Req /\ (SB!Unregister(r) \/ SB!Take(r))
           \/ SB!BroadcastClose(i)
           \/ body \in Chunk /\ SB!BroadcastBody(i, body)
    PROVE  SB!BridgeTypeOK'
<1> USE DEF SB!BridgeTypeOK
<1>1. CASE r \in Req /\ i \in Id /\ SB!Register(r, i)
  BY <1>1 DEF SB!Register
<1>2. CASE r \in Req /\ SB!Unregister(r)
  BY <1>2 DEF SB!Unregister, SB!Drop, SB!Cause, SB!bridgeVars
<1>3. CASE r \in Req /\ SB!Take(r)
  BY <1>3, Tail(sBody[r]) \in Seq(Chunk) DEF SB!Take
<1>4. CASE SB!BroadcastClose(i)
  BY <1>4 DEF SB!BroadcastClose, SB!Matching, SB!Drop, SB!Cause, SB!bridgeVars
<1>5. CASE body \in Chunk /\ SB!BroadcastBody(i, body)
  <2>1. \A b \in Req : Append(sBody[b], body) \in Seq(Chunk)
    BY <1>5
  <2>2. /\ \E B : SB!Drop(B, "full")
        /\ \/ UNCHANGED sBody
           \/ \E b \in Req : sBody' = [sBody EXCEPT ![b] = Append(@, body)]
        /\ UNCHANGED sID
    BY <1>5 DEF SB!BroadcastBody, SB!Matching
  <2>3. sBody' \in [Req -> Seq(Chunk)]
    <3>1. CASE UNCHANGED sBody
      BY <3>1
    <3>2. ASSUME NEW b \in Req, sBody' = [sBody EXCEPT ![b] = Append(@, body)]
          PROVE  sBody' \in [Req -> Seq(Chunk)]
      BY <3>2, <2>1
    <3> QED
      BY <2>2, <3>1, <3>2
  <2> QED
    BY <2>2, <2>3 DEF SB!Drop, SB!Cause
<1> QED
  BY <1>1, <1>2, <1>3, <1>4, <1>5

LEMMA LocalBridgeTyped ==
    ASSUME LB!BridgeTypeOK, NEW r, NEW i, NEW body,
           \/ r \in Req /\ i \in Id /\ LB!Register(r, i)
           \/ r \in Req /\ (LB!Unregister(r) \/ LB!Take(r))
           \/ LB!BroadcastClose(i)
           \/ body \in Chunk /\ LB!BroadcastBody(i, body)
    PROVE  LB!BridgeTypeOK'
<1> USE DEF LB!BridgeTypeOK
<1>1. CASE r \in Req /\ i \in Id /\ LB!Register(r, i)
  BY <1>1 DEF LB!Register
<1>2. CASE r \in Req /\ LB!Unregister(r)
  BY <1>2 DEF LB!Unregister, LB!Drop, LB!Cause, LB!bridgeVars
<1>3. CASE r \in Req /\ LB!Take(r)
  BY <1>3, Tail(lBody[r]) \in Seq(Chunk) DEF LB!Take
<1>4. CASE LB!BroadcastClose(i)
  BY <1>4 DEF LB!BroadcastClose, LB!Matching, LB!Drop, LB!Cause, LB!bridgeVars
<1>5. CASE body \in Chunk /\ LB!BroadcastBody(i, body)
  <2>1. \A b \in Req : Append(lBody[b], body) \in Seq(Chunk)
    BY <1>5
  <2>2. /\ \E B : LB!Drop(B, "full")
        /\ \/ UNCHANGED lBody
           \/ \E b \in Req : lBody' = [lBody EXCEPT ![b] = Append(@, body)]
        /\ UNCHANGED lID
    BY <1>5 DEF LB!BroadcastBody, LB!Matching
  <2>3. lBody' \in [Req -> Seq(Chunk)]
    <3>1. CASE UNCHANGED lBody
      BY <3>1
    <3>2. ASSUME NEW b \in Req, lBody' = [lBody EXCEPT ![b] = Append(@, body)]
          PROVE  lBody' \in [Req -> Seq(Chunk)]
      BY <3>2, <2>1
    <3> QED
      BY <2>2, <3>1, <3>2
  <2> QED
    BY <2>2, <2>3 DEF LB!Drop, LB!Cause
<1> QED
  BY <1>1, <1>2, <1>3, <1>4, <1>5

LEMMA UnchangedTyped ==
    ASSUME TypeOK
    PROVE  /\ UNCHANGED hubS => SH!HubTypeOK'
           /\ UNCHANGED hubC => CH!HubTypeOK'
           /\ UNCHANGED brS => SB!BridgeTypeOK'
           /\ UNCHANGED brL => LB!BridgeTypeOK'
           /\ UNCHANGED <<net, pumps>> => NetTypeOK'
           /\ UNCHANGED xfer => XferTypeOK'
           /\ UNCHANGED local => LocalTypeOK'
           /\ UNCHANGED env => EnvTypeOK'
  BY DEF TypeOK, hubS, hubC, brS, brL, net, pumps, xfer, local, env, SH!HubTypeOK,
         CH!HubTypeOK, SB!BridgeTypeOK, LB!BridgeTypeOK, NetTypeOK, XferTypeOK,
         LocalTypeOK, EnvTypeOK

\* Updates at one end and one session.
LEMMA EndUpdate ==
    ASSUME NEW S, NEW f \in [End -> [Session -> S]], NEW e \in End, NEW s \in Session,
           NEW v \in S
    PROVE  [f EXCEPT ![e][s] = v] \in [End -> [Session -> S]]
  OBVIOUS

SockTypeOK ==
    /\ conn \in [End -> [Session -> SockState]]
    /\ wire \in [End -> [Session -> Seq(Message)]]

\* The socket operations keep the types of the network.
LEMMA SockTyped ==
    ASSUME NetTypeOK, NEW e \in End, NEW s \in Session, NEW m,
           CloseSock(e, s) \/ (m \in Message /\ WriteSock(e, s, m)) \/ ReadSock(e, s)
    PROVE  SockTypeOK'
<1> USE DEF NetTypeOK, SockTypeOK
<1>0. Peer(e) \in End
  BY DEF End, Peer
<1>1. CASE CloseSock(e, s)
  <2>1. CASE UNCHANGED net
    BY <2>1 DEF net
  <2>2. ASSUME NEW last \in Seq(Message),
               conn' = [conn EXCEPT ![e][s] = "closed"],
               wire' = [wire EXCEPT ![e][s] = << >>, ![Peer(e)][s] = last]
        PROVE  SockTypeOK'
    <3> DEFINE w == [wire EXCEPT ![e][s] = << >>]
    <3>1. w \in [End -> [Session -> Seq(Message)]]
      <4>1. << >> \in Seq(Message)
        OBVIOUS
      <4> QED
        BY <4>1, EndUpdate
    <3>2. wire' = [w EXCEPT ![Peer(e)][s] = last]
      BY <2>2
    <3>3. wire' \in [End -> [Session -> Seq(Message)]]
      <4> HIDE DEF w
      <4> QED
        BY <1>0, <3>1, <3>2, EndUpdate
    <3>4. conn' \in [End -> [Session -> SockState]]
      BY <2>2, EndUpdate DEF SockState
    <3> QED
      BY <3>3, <3>4
  <2>3. << >> \in Seq(Message) /\ wire[Peer(e)][s] \in Seq(Message)
    BY <1>0
  <2> QED
    BY <1>1, <2>1, <2>2, <2>3 DEF CloseSock
<1>2. CASE m \in Message /\ WriteSock(e, s, m)
  <2>1. Append(wire[Peer(e)][s], m) \in Seq(Message)
    BY <1>0, <1>2
  <2>2. [wire EXCEPT ![Peer(e)][s] = Append(wire[Peer(e)][s], m)]
            \in [End -> [Session -> Seq(Message)]]
    BY <1>0, <2>1, EndUpdate
  <2>3. wire' \in [End -> [Session -> Seq(Message)]]
    BY <1>2, <2>2 DEF WriteSock
  <2> QED
    BY <1>2, <2>3 DEF WriteSock
<1>3. CASE ReadSock(e, s)
  <2>1. Tail(wire[e][s]) \in Seq(Message)
    BY <1>3 DEF ReadSock
  <2> QED
    BY <1>3, <2>1 DEF ReadSock
<1> QED
  BY <1>1, <1>2, <1>3

LEMMA Increment ==
    ASSUME NEW n \in Nat, NEW k \in 0 .. n, k < n
    PROVE  k + 1 \in 0 .. n /\ k + 1 \in Nat
  OBVIOUS

\* Every variable keeps its type, with any number of requests, sessions,
\* failures and restarts.
THEOREM TypeCorrect == Spec => []TypeOK
<1>0. MaxUp \in Nat /\ MaxDown \in Nat /\ MaxFail \in Nat /\ MaxRestart \in Nat
  BY NatAssumption
<1>1. Init => TypeOK
  <2> SUFFICES ASSUME Init PROVE TypeOK
    OBVIOUS
  <2>1. SH!HubTypeOK /\ CH!HubTypeOK
    BY DEF Init, SH!HubInit, CH!HubInit, SH!HubTypeOK, CH!HubTypeOK
  <2>2. SB!BridgeTypeOK /\ LB!BridgeTypeOK
    BY DEF Init, SB!BridgeInit, LB!BridgeInit, SB!BridgeTypeOK, LB!BridgeTypeOK,
           SB!Cause, LB!Cause, NoId, Id
  <2>3. NetTypeOK /\ XferTypeOK
    BY <1>0 DEF Init, NetTypeOK, XferTypeOK, SockState, PumpState
  <2>4. LocalTypeOK /\ EnvTypeOK
    BY <1>0 DEF Init, LocalTypeOK, EnvTypeOK, Id
  <2> QED
    BY <2>1, <2>2, <2>3, <2>4 DEF TypeOK
<1>2. ASSUME TypeOK, [Next]_vars
      PROVE  TypeOK'
  <2> USE UnchangedTyped, <1>2
  <2>0. "S" \in End /\ "C" \in End
    BY DEF End
  <2>1. ASSUME NEW s \in Session, SessionNext(s)
        PROVE  TypeOK'
    <3> USE <2>0 DEF TypeOK
    <3>1. CASE Connect(s)
      BY <3>1 DEF Connect, NetTypeOK, SockState, PumpState
    <3>2. CASE Cut(s)
      <4>1. << >> \in Seq(Message)
        OBVIOUS
      <4>2. NetTypeOK'
        BY <3>2, <4>1 DEF Cut, NetTypeOK, SockState, pumps
      <4>3. EnvTypeOK'
        BY <1>0, <3>2 DEF Cut, EnvTypeOK
      <4> QED
        BY <3>2, <4>2, <4>3 DEF Cut
    <3>3. ASSUME NEW e \in End, StartPumps(e, s), UNCHANGED net
          PROVE  NetTypeOK'
      BY <3>3, EndUpdate DEF StartPumps, NetTypeOK, PumpState, net
    <3>4. CASE ServerRegister(s)
      BY <3>3, <3>4, ServerHubTyped DEF ServerRegister
    <3>5. CASE ClientRegister(s)
      BY <3>3, <3>5, ClientHubTyped DEF ClientRegister
    <3>6. CASE ServerWrite(s)
      <4>1. Head(sSend[s]) \in Message
        BY <3>6 DEF ServerWrite, SH!Take, SH!HubTypeOK
      <4> QED
        BY <3>6, <4>1, SockTyped, ServerHubTyped DEF ServerWrite, SockTypeOK, NetTypeOK, pumps
    <3>7. CASE ClientWrite(s)
      <4>1. Head(cSend[s]) \in Message
        BY <3>7 DEF ClientWrite, CH!Take, CH!HubTypeOK
      <4> QED
        BY <3>7, <4>1, SockTyped, ClientHubTyped DEF ClientWrite, SockTypeOK, NetTypeOK, pumps
    <3>8. ASSUME NEW e \in End, NEW drained, WritePumpEnds(e, s, drained)
          PROVE  TypeOK'
      <4>1. wp' \in [End -> [Session -> PumpState]]
        BY <3>8, EndUpdate DEF WritePumpEnds, NetTypeOK, PumpState
      <4>2. SockTypeOK'
        BY <3>8, SockTyped DEF WritePumpEnds
      <4> QED
        BY <3>8, <4>1, <4>2 DEF WritePumpEnds, SockTypeOK, NetTypeOK
    <3>9. CASE ServerWriteEnd(s) \/ ClientWriteEnd(s)
      BY <3>8, <3>9 DEF ServerWriteEnd, ClientWriteEnd
    <3>10. ASSUME NEW e \in End, ReadPumpEnds(e, s), UNCHANGED wp
           PROVE  NetTypeOK'
      <4>1. rp' \in [End -> [Session -> PumpState]]
        BY <3>10, EndUpdate DEF ReadPumpEnds, NetTypeOK, PumpState
      <4>2. SockTypeOK'
        BY <3>10, SockTyped DEF ReadPumpEnds
      <4> QED
        BY <3>10, <4>1, <4>2 DEF SockTypeOK, NetTypeOK
    <3>11. CASE ServerReadEnd(s)
      BY <3>10, <3>11, ServerHubTyped DEF ServerReadEnd
    <3>12. CASE ClientReadEnd(s)
      BY <3>10, <3>12, ClientHubTyped DEF ClientReadEnd
    <3>13. ASSUME NEW e \in End, ReadSock(e, s)
           PROVE  /\ Head(wire[e][s]) \in Message
                  /\ UNCHANGED pumps => NetTypeOK'
      <4>1. Head(wire[e][s]) \in Message
        BY <3>13 DEF ReadSock, NetTypeOK
      <4> QED
        BY <3>13, <4>1, SockTyped DEF SockTypeOK, NetTypeOK, pumps
    <3>14. ASSUME NEW m \in Message
           PROVE  m.id \in Id /\ m.body \in Chunk /\ m.body.req \in Req
      BY DEF Message, Chunk
    <3>15. CASE ServerRead(s)
      BY <3>13, <3>14, <3>15, ServerBridgeTyped DEF ServerRead
    <3>16. CASE ClientRead(s)
      BY <3>13, <3>14, <3>16, LocalBridgeTyped DEF ClientRead, ToLocalBridge
    <3>17. CASE ClientCreate(s)
      <4>1. LB!BridgeTypeOK'
        BY <3>13, <3>14, <3>17, LocalBridgeTyped DEF ClientCreate
      <4>2. LocalTypeOK'
        BY <3>13, <3>14, <3>17 DEF ClientCreate, LocalTypeOK
      <4> QED
        BY <3>13, <3>17, <4>1, <4>2 DEF ClientCreate
    <3> QED
      BY <2>1, <3>1, <3>2, <3>4, <3>5, <3>6, <3>7, <3>9, <3>11, <3>12, <3>15, <3>16, <3>17
      DEF SessionNext, ServerWritePump, ClientWritePump, ServerReadPump, ClientReadPump
  <2>2. ASSUME NEW r \in Req, RequestNext(r)
        PROVE  TypeOK'
    <3> USE DEF TypeOK
    <3>0. \A i \in Id, method \in Method, n \in Nat : Msg(i, method, r, n) \in Message
      BY DEF Msg, Message, Chunk
    <3>1. CASE Begin(r)
      <4>1. XferTypeOK' /\ EnvTypeOK'
        BY <3>1 DEF Begin, XferTypeOK, EnvTypeOK, Id, SH!HubTypeOK
      <4> QED
        BY <3>1, <4>1, ServerBridgeTyped DEF Begin, EnvTypeOK
    <3>2. CASE NotFound(r)
      BY <3>2 DEF NotFound, XferTypeOK, EnvTypeOK, Id
    <3>3. CASE Open(r)
      BY <3>0, <3>3, ServerHubTyped DEF Open, XferTypeOK, Method, SB!BridgeTypeOK
    <3>4. CASE Send(r)
      <4>1. up[r] \in 0 .. MaxUp /\ up[r] < MaxUp
        BY <3>4 DEF Send, XferTypeOK
      <4>2. up[r] + 1 \in 0 .. MaxUp /\ up[r] + 1 \in Nat
        BY <1>0, <4>1, Increment
      <4>3. XferTypeOK'
        BY <3>4, <4>2 DEF Send, XferTypeOK
      <4>4. Msg(sID[r], "", r, up[r] + 1) \in Message
        BY <3>0, <4>2 DEF Method, SB!BridgeTypeOK
      <4> QED
        BY <3>4, <4>3, <4>4, ServerHubTyped DEF Send
    <3>5. CASE SendClose(r)
      <4>1. up[r] + 1 \in Nat
        BY <1>0 DEF XferTypeOK
      <4>2. Msg(sID[r], "close", r, up[r] + 1) \in Message
        BY <3>0, <4>1 DEF Method, SB!BridgeTypeOK
      <4> QED
        BY <3>5, <4>2, ServerHubTyped DEF SendClose, XferTypeOK
    <3>6. CASE Pump(r)
      <4>1. Append(got[r], Head(sBody[r])) \in Seq(Chunk)
        BY <3>6 DEF Pump, SB!Take, SB!BridgeTypeOK, XferTypeOK
      <4> QED
        BY <3>6, <4>1, ServerBridgeTyped DEF Pump, XferTypeOK
    <3>7. CASE PumpEnd(r)
      BY <3>7 DEF PumpEnd, XferTypeOK
    <3>8. CASE Return(r)
      BY <3>8, ServerBridgeTyped DEF Return, XferTypeOK
    <3>9. CASE LocalPump(r)
      <4>1. Append(lgot[r], Head(lBody[r])) \in Seq(Chunk)
        BY <3>9 DEF LocalPump, LB!Take, LB!BridgeTypeOK, LocalTypeOK
      <4> QED
        BY <3>9, <4>1, LocalBridgeTyped DEF LocalPump, LocalTypeOK
    <3>10. CASE LocalPumpEnd(r)
      BY <3>10 DEF LocalPumpEnd, LocalTypeOK
    <3>11. CASE LocalCopy(r)
      <4>1. down[r] \in 0 .. MaxDown /\ down[r] < MaxDown
        BY <3>11 DEF LocalCopy, LocalTypeOK
      <4>2. down[r] + 1 \in 0 .. MaxDown /\ down[r] + 1 \in Nat
        BY <1>0, <4>1, Increment
      <4>3. LocalTypeOK'
        BY <3>11, <4>2 DEF LocalCopy, LocalTypeOK
      <4>4. Msg(lID[r], "", r, down[r] + 1) \in Message
        BY <3>0, <4>2 DEF Method, LB!BridgeTypeOK
      <4> QED
        BY <3>11, <4>3, <4>4, ClientHubTyped DEF LocalCopy
    <3>12. CASE LocalClose(r)
      <4>1. down[r] + 1 \in Nat
        BY <1>0 DEF LocalTypeOK
      <4>2. Msg(lID[r], "close", r, down[r] + 1) \in Message
        BY <3>0, <4>1 DEF Method, LB!BridgeTypeOK
      <4> QED
        BY <3>12, <4>2, ClientHubTyped DEF LocalClose, LocalTypeOK
    <3>13. CASE LocalUnregister(r)
      BY <3>13, LocalBridgeTyped DEF LocalUnregister, LocalTypeOK
    <3> QED
      BY <2>2, <3>1, <3>2, <3>3, <3>4, <3>5, <3>6, <3>7, <3>8, <3>9, <3>10, <3>11, <3>12, <3>13
      DEF RequestNext, Transfer, Sender, LocalWriter, LocalCopier
  <2>3. ASSUME NEW e \in End, ProcessDies(e)
        PROVE  NetTypeOK'
    BY <2>3 DEF ProcessDies, TypeOK, NetTypeOK, SockState, PumpState
  <2>4. CASE ClientCrash
    BY <1>0, <2>0, <2>3, <2>4 DEF ClientCrash, TypeOK, CH!HubTypeOK, LB!BridgeTypeOK, LocalTypeOK,
                            EnvTypeOK
  <2>5. CASE ServerRestart
    BY <1>0, <2>0, <2>3, <2>5 DEF ServerRestart, TypeOK, SH!HubTypeOK, SB!BridgeTypeOK, XferTypeOK,
                            EnvTypeOK, Id
  <2>6. CASE UNCHANGED vars
    BY <2>6 DEF TypeOK, vars, net, pumps
  <2> QED
    BY <2>1, <2>2, <2>4, <2>5, <2>6 DEF Next
<1> QED
  BY <1>1, <1>2, PTL DEF Spec

----------------------------------------------------------------------------
(* Sessions and bridges: what the hubs remember and the goroutines rely on. *)

\* No operation of a hub reopens a channel, and a registered client leaves the
\* hub only by having its channel closed.
LEMMA ServerHubMonotone ==
    ASSUME NEW s,
           \/ SH!Register(s) \/ SH!Unregister(s) \/ SH!Take(s)
           \/ \E m : SH!Broadcast(s, m)
    PROVE  /\ sClosed \subseteq sClosed'
           /\ sClients \cup sClosed \subseteq sClients' \cup sClosed'
           /\ SH!Register(s) => s \in sClients'
           /\ SH!Unregister(s) /\ s \in sClients \cup sClosed => s \in sClosed' \/ s \notin sClients
  BY DEF SH!Register, SH!Unregister, SH!Drop, SH!Take, SH!Broadcast, SH!hubVars

LEMMA ClientHubMonotone ==
    ASSUME NEW s,
           \/ CH!Register(s) \/ CH!Unregister(s) \/ CH!Take(s)
           \/ \E m : CH!Broadcast(s, m)
    PROVE  /\ cClosed \subseteq cClosed'
           /\ cClients \cup cClosed \subseteq cClients' \cup cClosed'
           /\ CH!Register(s) => s \in cClients'
           /\ CH!Unregister(s) /\ s \in cClients \cup cClosed => s \in cClosed' \/ s \notin cClients
  BY DEF CH!Register, CH!Unregister, CH!Drop, CH!Take, CH!Broadcast, CH!hubVars

\* The strengthening: a session whose read pump runs was registered, so that
\* Unregister either finds it or finds its channel closed already.
SessionInv ==
    \A s \in Session :
        /\ rp["S"][s] = "run" => s \in sClients \cup sClosed
        /\ rp["S"][s] = "done" => s \in sClosed
        /\ rp["C"][s] = "run" => s \in cClients \cup cClosed
        /\ rp["C"][s] = "done" => s \in cClosed

\* A session whose read pump has returned has its channel closed: no request
\* picks it any more, and its write pump ends.
THEOREM DeadSessions == Spec => []DeadSessionClosed
<1>1. Init => SessionInv
  BY DEF Init, SessionInv, End
<1>2. ASSUME TypeOK, SessionInv, [Next]_vars
      PROVE  SessionInv'
  <2> USE <1>2 DEF SessionInv
  <2>0. rp \in [End -> [Session -> PumpState]] /\ "S" \in End /\ "C" \in End
    BY DEF TypeOK, NetTypeOK, End
  <2>1. ASSUME NEW s \in Session, SessionNext(s)
        PROVE  SessionInv'
    <3> USE <2>0
    <3>1. CASE Connect(s)
      BY <3>1 DEF Connect, hubS, hubC
    <3>2. CASE Cut(s) \/ ServerRead(s) \/ ClientCreate(s) \/ ClientRead(s)
      BY <3>2 DEF Cut, ServerRead, ClientCreate, ClientRead, pumps, hubS, hubC
    <3>3. CASE ServerWriteEnd(s) \/ ClientWriteEnd(s)
      BY <3>3 DEF ServerWriteEnd, ClientWriteEnd, WritePumpEnds, hubS, hubC
    <3>4. CASE ServerRegister(s)
      BY <3>4, ServerHubMonotone DEF ServerRegister, StartPumps, hubC
    <3>5. CASE ClientRegister(s)
      BY <3>5, ClientHubMonotone DEF ClientRegister, StartPumps, hubS
    <3>6. CASE ServerWrite(s)
      BY <3>6, ServerHubMonotone DEF ServerWrite, pumps, hubC
    <3>7. CASE ClientWrite(s)
      BY <3>7, ClientHubMonotone DEF ClientWrite, pumps, hubS
    <3>8. CASE ServerReadEnd(s)
      <4>1. rp["S"][s] = "run" /\ rp' = [rp EXCEPT !["S"][s] = "done"]
        BY <3>8 DEF ServerReadEnd, ReadPumpEnds
      <4>2. s \in sClosed' /\ sClosed \subseteq sClosed'
        BY <3>8, <4>1 DEF ServerReadEnd, SH!Unregister, SH!Drop, SH!hubVars
      <4> QED
        BY <3>8, <4>1, <4>2, ServerHubMonotone DEF ServerReadEnd, hubC
    <3>9. CASE ClientReadEnd(s)
      <4>1. rp["C"][s] = "run" /\ rp' = [rp EXCEPT !["C"][s] = "done"]
        BY <3>9 DEF ClientReadEnd, ReadPumpEnds
      <4>2. s \in cClosed' /\ cClosed \subseteq cClosed'
        BY <3>9, <4>1 DEF ClientReadEnd, CH!Unregister, CH!Drop, CH!hubVars
      <4> QED
        BY <3>9, <4>1, <4>2, ClientHubMonotone DEF ClientReadEnd, hubS
    <3> QED
      BY <2>1, <3>1, <3>2, <3>3, <3>4, <3>5, <3>6, <3>7, <3>8, <3>9
      DEF SessionNext, ServerWritePump, ClientWritePump, ServerReadPump, ClientReadPump
  <2>2. ASSUME NEW r \in Req, RequestNext(r)
        PROVE  SessionInv'
    <3>1. UNCHANGED rp
      BY <2>2 DEF RequestNext, Transfer, Sender, LocalWriter, LocalCopier, Begin, NotFound,
         Open, Send, SendClose, Pump, PumpEnd, Return, LocalPump, LocalPumpEnd, LocalCopy,
         LocalClose, LocalUnregister, pumps
    <3>2. CASE Open(r) \/ Send(r) \/ SendClose(r)
      BY <3>1, <3>2, ServerHubMonotone DEF Open, Send, SendClose, hubC
    <3>3. CASE LocalCopy(r) \/ LocalClose(r)
      BY <3>1, <3>3, ClientHubMonotone DEF LocalCopy, LocalClose, hubS
    <3>4. CASE Begin(r) \/ NotFound(r) \/ Pump(r) \/ PumpEnd(r) \/ Return(r) \/ LocalPump(r)
               \/ LocalPumpEnd(r) \/ LocalUnregister(r)
      BY <3>1, <3>4 DEF Begin, NotFound, Pump, PumpEnd, Return, LocalPump, LocalPumpEnd,
         LocalUnregister, hubS, hubC
    <3> QED
      BY <2>2, <3>2, <3>3, <3>4 DEF RequestNext, Transfer, Sender, LocalWriter, LocalCopier
  <2>3. CASE ClientCrash
    BY <2>0, <2>3 DEF ClientCrash, ProcessDies, hubS
  <2>4. CASE ServerRestart
    BY <2>0, <2>4 DEF ServerRestart, ProcessDies, hubC
  <2>5. CASE UNCHANGED vars
    BY <2>5 DEF vars, pumps, hubS, hubC
  <2> QED
    BY <2>1, <2>2, <2>3, <2>4, <2>5 DEF Next
<1>3. SessionInv => DeadSessionClosed
  BY DEF SessionInv, DeadSessionClosed
<1> QED
  BY <1>1, <1>2, <1>3, TypeCorrect, PTL DEF Spec

\* Only Register adds a bridge, and Unregister leaves the bridge out.
LEMMA ServerBridgeMembers ==
    ASSUME NEW r, NEW i, NEW body
    PROVE  /\ SB!Register(r, i) => sBridges' \subseteq sBridges \cup {r}
           /\ SB!Unregister(r) => sBridges' \subseteq sBridges \ {r}
           /\ SB!Take(r) \/ SB!BroadcastClose(i) \/ SB!BroadcastBody(i, body)
                => sBridges' \subseteq sBridges
  BY DEF SB!Register, SB!Unregister, SB!Take, SB!BroadcastClose, SB!BroadcastBody, SB!Drop,
         SB!bridgeVars

LEMMA LocalBridgeMembers ==
    ASSUME NEW r, NEW i, NEW body
    PROVE  /\ LB!Register(r, i) => lBridges' \subseteq lBridges \cup {r}
           /\ LB!Unregister(r) => lBridges' \subseteq lBridges \ {r}
           /\ LB!Take(r) \/ LB!BroadcastClose(i) \/ LB!BroadcastBody(i, body)
                => lBridges' \subseteq lBridges
  BY DEF LB!Register, LB!Unregister, LB!Take, LB!BroadcastClose, LB!BroadcastBody, LB!Drop,
         LB!bridgeVars

\* No bridge stays behind: a registered bridge has a goroutine that will
\* unregister it.
THEOREM BridgesHaveOwners == Spec => []NoBridgeLeak
<1>1. Init => NoBridgeLeak
  BY DEF Init, NoBridgeLeak, SB!BridgeInit, LB!BridgeInit
<1>2. ASSUME TypeOK, NoBridgeLeak, [Next]_vars
      PROVE  NoBridgeLeak'
  <2> USE <1>2 DEF NoBridgeLeak
  <2>0. tpc \in [Req -> {"new", "open", "pump", "wait", "ret", "plain", "dead"}]
        /\ lcp \in [Req -> {"off", "copy", "unreg", "done", "dead"}]
    BY DEF TypeOK, XferTypeOK, LocalTypeOK
  <2>1. ASSUME NEW s \in Session, SessionNext(s)
        PROVE  NoBridgeLeak'
    <3>1. CASE Connect(s) \/ Cut(s) \/ ServerRegister(s) \/ ClientRegister(s) \/ ServerWrite(s)
               \/ ClientWrite(s) \/ ServerWriteEnd(s) \/ ClientWriteEnd(s) \/ ServerReadEnd(s)
               \/ ClientReadEnd(s)
      BY <3>1 DEF Connect, Cut, ServerRegister, ClientRegister, ServerWrite, ClientWrite,
         ServerWriteEnd, ClientWriteEnd, WritePumpEnds, ServerReadEnd, ClientReadEnd, brS, brL,
         xfer, local
    <3>2. CASE ServerRead(s)
      BY <3>2, ServerBridgeMembers DEF ServerRead, brL, xfer, local
    <3>3. CASE ClientRead(s)
      BY <3>3, LocalBridgeMembers DEF ClientRead, ToLocalBridge, brS, xfer, local
    <3>4. CASE ClientCreate(s)
      <4>1. PICK r, i : LB!Register(r, i) /\ lcp' = [lcp EXCEPT ![r] = "copy"]
        BY <3>4 DEF ClientCreate
      <4>2. lBridges' \subseteq lBridges \cup {r}
        BY <4>1, LocalBridgeMembers
      <4> QED
        BY <2>0, <3>4, <4>1, <4>2 DEF ClientCreate, brS, xfer
    <3> QED
      BY <2>1, <3>1, <3>2, <3>3, <3>4
      DEF SessionNext, ServerWritePump, ClientWritePump, ServerReadPump, ClientReadPump
  <2>2. ASSUME NEW r \in Req, RequestNext(r)
        PROVE  NoBridgeLeak'
    <3> USE <2>0
    <3>1. CASE Begin(r) \/ Pump(r) \/ Return(r)
      <4>1. CASE Begin(r)
        <5>1. sBridges' \subseteq sBridges \cup {r}
          BY <4>1, ServerBridgeMembers DEF Begin
        <5> QED
          BY <4>1, <5>1 DEF Begin, brL, local
      <4>2. CASE Pump(r)
        BY <4>2, ServerBridgeMembers DEF Pump, brL, local
      <4>3. CASE Return(r)
        BY <4>3, ServerBridgeMembers DEF Return, brL, local
      <4> QED
        BY <3>1, <4>1, <4>2, <4>3
    <3>2. CASE NotFound(r) \/ Open(r) \/ PumpEnd(r)
      BY <3>2 DEF NotFound, Open, PumpEnd, brS, brL, local
    <3>3. CASE Send(r) \/ SendClose(r) \/ LocalPumpEnd(r) \/ LocalCopy(r)
      BY <3>3 DEF Send, SendClose, LocalPumpEnd, LocalCopy, brS, brL, xfer, local
    <3>4. CASE LocalClose(r)
      BY <3>4 DEF LocalClose, brS, brL, xfer
    <3>5. CASE LocalPump(r) \/ LocalUnregister(r)
      BY <3>5, LocalBridgeMembers DEF LocalPump, LocalUnregister, brS, xfer
    <3> QED
      BY <2>2, <3>1, <3>2, <3>3, <3>4, <3>5
      DEF RequestNext, Transfer, Sender, LocalWriter, LocalCopier
  <2>3. CASE ClientCrash
    BY <2>3 DEF ClientCrash, brS, xfer
  <2>4. CASE ServerRestart
    BY <2>4 DEF ServerRestart, brL, local
  <2>5. CASE UNCHANGED vars
    BY <2>5 DEF vars, brS, brL, xfer, local
  <2> QED
    BY <2>1, <2>2, <2>3, <2>4, <2>5 DEF Next
<1> QED
  BY <1>1, <1>2, TypeCorrect, PTL DEF Spec

\* Nothing is added to a closed channel, and it is not opened again.
LEMMA ServerHubFinal ==
    ASSUME SH!HubTypeOK, SH!MembersOpen, NEW s,
           \/ s \in Session /\ (SH!Register(s) \/ SH!Unregister(s) \/ SH!Take(s))
           \/ \E m : SH!Broadcast(s, m),
           NEW c \in sClosed
    PROVE  c \in sClosed' /\ Len(sSend'[c]) <= Len(sSend[c])
<1> USE DEF SH!HubTypeOK, SH!MembersOpen
<1>1. sSend[c] \in Seq(Message)
  OBVIOUS
<1>2. CASE s \in Session /\ SH!Take(s)
  <2>1. CASE c = s
    <3>1. sSend'[c] = Tail(sSend[c]) /\ Len(Tail(sSend[c])) = Len(sSend[c]) - 1
      BY <1>1, <1>2, <2>1 DEF SH!Take
    <3> QED
      BY <1>1, <1>2, <3>1 DEF SH!Take
  <2>2. CASE c # s
    BY <1>1, <1>2, <2>2 DEF SH!Take
  <2> QED
    BY <2>1, <2>2
<1>3. CASE s \in Session /\ (SH!Register(s) \/ SH!Unregister(s))
  BY <1>1, <1>3 DEF SH!Register, SH!Unregister, SH!Drop, SH!hubVars
<1>4. ASSUME NEW m, SH!Broadcast(s, m)
      PROVE  c \in sClosed' /\ Len(sSend'[c]) <= Len(sSend[c])
  BY <1>1, <1>4 DEF SH!Broadcast, SH!Drop, SH!hubVars
<1> QED
  BY <1>2, <1>3, <1>4

LEMMA ClientHubFinal ==
    ASSUME CH!HubTypeOK, CH!MembersOpen, NEW s,
           \/ s \in Session /\ (CH!Register(s) \/ CH!Unregister(s) \/ CH!Take(s))
           \/ \E m : CH!Broadcast(s, m),
           NEW c \in cClosed
    PROVE  c \in cClosed' /\ Len(cSend'[c]) <= Len(cSend[c])
<1> USE DEF CH!HubTypeOK, CH!MembersOpen
<1>1. cSend[c] \in Seq(Message)
  OBVIOUS
<1>2. CASE s \in Session /\ CH!Take(s)
  <2>1. CASE c = s
    <3>1. cSend'[c] = Tail(cSend[c]) /\ Len(Tail(cSend[c])) = Len(cSend[c]) - 1
      BY <1>1, <1>2, <2>1 DEF CH!Take
    <3> QED
      BY <1>1, <1>2, <3>1 DEF CH!Take
  <2>2. CASE c # s
    BY <1>1, <1>2, <2>2 DEF CH!Take
  <2> QED
    BY <2>1, <2>2
<1>3. CASE s \in Session /\ (CH!Register(s) \/ CH!Unregister(s))
  BY <1>1, <1>3 DEF CH!Register, CH!Unregister, CH!Drop, CH!hubVars
<1>4. ASSUME NEW m, CH!Broadcast(s, m)
      PROVE  c \in cClosed' /\ Len(cSend'[c]) <= Len(cSend[c])
  BY <1>1, <1>4 DEF CH!Broadcast, CH!Drop, CH!hubVars
<1> QED
  BY <1>2, <1>3, <1>4

LEMMA ServerBridgeFinal ==
    ASSUME SB!BridgeTypeOK, SB!MembersOpen, NEW r, NEW i, NEW b,
           \/ r \in Req /\ (SB!Register(r, i) \/ SB!Unregister(r) \/ SB!Take(r))
           \/ SB!BroadcastClose(i) \/ SB!BroadcastBody(i, b),
           NEW c \in SB!closed
    PROVE  sCause'[c] = sCause[c] /\ Len(sBody'[c]) <= Len(sBody[c])
<1> USE DEF SB!BridgeTypeOK, SB!MembersOpen, SB!closed
<1>1. c \in Req /\ sBody[c] \in Seq(Chunk)
  OBVIOUS
<1>2. CASE r \in Req /\ SB!Take(r)
  <2>1. CASE c = r
    <3>1. sBody'[c] = Tail(sBody[c]) /\ Len(Tail(sBody[c])) = Len(sBody[c]) - 1
      BY <1>1, <1>2, <2>1 DEF SB!Take
    <3> QED
      BY <1>1, <1>2, <3>1 DEF SB!Take
  <2>2. CASE c # r
    BY <1>1, <1>2, <2>2 DEF SB!Take
  <2> QED
    BY <2>1, <2>2
<1>3. CASE r \in Req /\ (SB!Register(r, i) \/ SB!Unregister(r))
  BY <1>1, <1>3 DEF SB!Register, SB!Unregister, SB!Drop, SB!bridgeVars
<1>4. CASE SB!BroadcastClose(i)
  BY <1>1, <1>4 DEF SB!BroadcastClose, SB!Matching, SB!Drop, SB!bridgeVars
<1>5. CASE SB!BroadcastBody(i, b)
  <2>1. c \notin SB!Matching(i)
    BY DEF SB!Matching
  <2>2. \E B : c \notin B /\ SB!Drop(B, "full")
    BY <1>5, <2>1 DEF SB!BroadcastBody
  <2>3. \/ UNCHANGED sBody
        \/ \E x : x # c /\ sBody' = [sBody EXCEPT ![x] = Append(@, b)]
    BY <1>5, <2>1 DEF SB!BroadcastBody
  <2>4. sBody'[c] = sBody[c]
    BY <1>1, <2>3
  <2> QED
    BY <1>1, <2>2, <2>4 DEF SB!Drop
<1> QED
  BY <1>2, <1>3, <1>4, <1>5

LEMMA LocalBridgeFinal ==
    ASSUME LB!BridgeTypeOK, LB!MembersOpen, NEW r, NEW i, NEW b,
           \/ r \in Req /\ (LB!Register(r, i) \/ LB!Unregister(r) \/ LB!Take(r))
           \/ LB!BroadcastClose(i) \/ LB!BroadcastBody(i, b),
           NEW c \in LB!closed
    PROVE  lCause'[c] = lCause[c] /\ Len(lBody'[c]) <= Len(lBody[c])
<1> USE DEF LB!BridgeTypeOK, LB!MembersOpen, LB!closed
<1>1. c \in Req /\ lBody[c] \in Seq(Chunk)
  OBVIOUS
<1>2. CASE r \in Req /\ LB!Take(r)
  <2>1. CASE c = r
    <3>1. lBody'[c] = Tail(lBody[c]) /\ Len(Tail(lBody[c])) = Len(lBody[c]) - 1
      BY <1>1, <1>2, <2>1 DEF LB!Take
    <3> QED
      BY <1>1, <1>2, <3>1 DEF LB!Take
  <2>2. CASE c # r
    BY <1>1, <1>2, <2>2 DEF LB!Take
  <2> QED
    BY <2>1, <2>2
<1>3. CASE r \in Req /\ (LB!Register(r, i) \/ LB!Unregister(r))
  BY <1>1, <1>3 DEF LB!Register, LB!Unregister, LB!Drop, LB!bridgeVars
<1>4. CASE LB!BroadcastClose(i)
  BY <1>1, <1>4 DEF LB!BroadcastClose, LB!Matching, LB!Drop, LB!bridgeVars
<1>5. CASE LB!BroadcastBody(i, b)
  <2>1. c \notin LB!Matching(i)
    BY DEF LB!Matching
  <2>2. \E B : c \notin B /\ LB!Drop(B, "full")
    BY <1>5, <2>1 DEF LB!BroadcastBody
  <2>3. \/ UNCHANGED lBody
        \/ \E x : x # c /\ lBody' = [lBody EXCEPT ![x] = Append(@, b)]
    BY <1>5, <2>1 DEF LB!BroadcastBody
  <2>4. lBody'[c] = lBody[c]
    BY <1>1, <2>3
  <2> QED
    BY <1>1, <2>2, <2>4 DEF LB!Drop
<1> QED
  BY <1>2, <1>3, <1>4, <1>5

\* What the four hubs closed stays closed and only drains.
THEOREM ChannelsOnlyDrain == Spec => ClosedIsFinal
<1> DEFINE
      ServerFinal == \A c \in sClosed :
          /\ c \in sClosed'
          /\ Len(sSend'[c]) <= Len(sSend[c])
      ClientFinal == \A c \in cClosed :
          /\ c \in cClosed'
          /\ Len(cSend'[c]) <= Len(cSend[c])
      SBFinal == \A b \in SB!closed :
          /\ sCause'[b] = sCause[b]
          /\ Len(sBody'[b]) <= Len(sBody[b])
      LBFinal == \A b \in LB!closed :
          /\ lCause'[b] = lCause[b]
          /\ Len(lBody'[b]) <= Len(lBody[b])
      Final == /\ ServerFinal \/ UNCHANGED hubS
               /\ ClientFinal \/ UNCHANGED hubC
               /\ SBFinal \/ UNCHANGED brS
               /\ LBFinal \/ UNCHANGED brL
<1>1. ASSUME TypeOK, NoPanic, [Next]_vars
      PROVE  Final
  <2> USE <1>1 DEF TypeOK, NoPanic
  <2>0. \A m \in Message : m.id \in Id /\ m.body \in Chunk /\ m.body.req \in Req
    BY DEF Message, Chunk
  <2>1. ASSUME NEW s \in Session, SessionNext(s)
        PROVE  Final
    <3>0. \A e \in End : ReadSock(e, s) => Head(wire[e][s]) \in Message
      BY DEF ReadSock, NetTypeOK
    <3>1. CASE Connect(s) \/ Cut(s) \/ ServerWriteEnd(s) \/ ClientWriteEnd(s)
      BY <3>1 DEF Connect, Cut, ServerWriteEnd, ClientWriteEnd, WritePumpEnds
    <3>2. CASE ServerRegister(s) \/ ServerWrite(s) \/ ServerReadEnd(s)
      <4>1. ServerFinal
        BY <3>2, ServerHubFinal DEF ServerRegister, ServerWrite, ServerReadEnd
      <4> QED
        BY <3>2, <4>1 DEF ServerRegister, ServerWrite, ServerReadEnd
    <3>3. CASE ClientRegister(s) \/ ClientWrite(s) \/ ClientReadEnd(s)
      <4>1. ClientFinal
        BY <3>3, ClientHubFinal DEF ClientRegister, ClientWrite, ClientReadEnd
      <4> QED
        BY <3>3, <4>1 DEF ClientRegister, ClientWrite, ClientReadEnd
    <3>4. CASE ServerRead(s)
      <4>1. SBFinal
        BY <3>4, ServerBridgeFinal DEF ServerRead
      <4> QED
        BY <3>4, <4>1 DEF ServerRead
    <3>5. CASE ClientRead(s)
      <4>1. LBFinal
        BY <3>5, LocalBridgeFinal DEF ClientRead, ToLocalBridge
      <4> QED
        BY <3>5, <4>1 DEF ClientRead
    <3>6. CASE ClientCreate(s)
      <4>1. LBFinal
        BY <2>0, <3>0, <3>6, LocalBridgeFinal DEF ClientCreate, End
      <4> QED
        BY <3>6, <4>1 DEF ClientCreate
    <3> QED
      BY <2>1, <3>1, <3>2, <3>3, <3>4, <3>5, <3>6
      DEF SessionNext, ServerWritePump, ClientWritePump, ServerReadPump, ClientReadPump
  <2>2. ASSUME NEW r \in Req, RequestNext(r)
        PROVE  Final
    <3>1. CASE NotFound(r) \/ PumpEnd(r) \/ LocalPumpEnd(r)
      BY <3>1 DEF NotFound, PumpEnd, LocalPumpEnd
    <3>2. CASE Open(r) \/ Send(r) \/ SendClose(r)
      <4>1. \E m : SH!Broadcast(agent[r], m)
        BY <3>2 DEF Open, Send, SendClose
      <4>2. ServerFinal
        BY <4>1, ServerHubFinal
      <4> QED
        BY <3>2, <4>2 DEF Open, Send, SendClose
    <3>3. CASE LocalCopy(r) \/ LocalClose(r)
      <4>1. \E m : CH!Broadcast(lagent[r], m)
        BY <3>3 DEF LocalCopy, LocalClose
      <4>2. ClientFinal
        BY <4>1, ClientHubFinal
      <4> QED
        BY <3>3, <4>2 DEF LocalCopy, LocalClose
    <3>4. CASE Begin(r) \/ Pump(r) \/ Return(r)
      <4>1. SBFinal
        BY <3>4, ServerBridgeFinal DEF Begin, Pump, Return
      <4> QED
        BY <3>4, <4>1 DEF Begin, Pump, Return
    <3>5. CASE LocalPump(r) \/ LocalUnregister(r)
      <4>1. LBFinal
        BY <3>5, LocalBridgeFinal DEF LocalPump, LocalUnregister
      <4> QED
        BY <3>5, <4>1 DEF LocalPump, LocalUnregister
    <3> QED
      BY <2>2, <3>1, <3>2, <3>3, <3>4, <3>5
      DEF RequestNext, Transfer, Sender, LocalWriter, LocalCopier
  <2>3. CASE ClientCrash
    <4>1. ClientFinal
      BY <2>3, \A c \in Session : Len(cSend[c]) <= Len(cSend[c])
      DEF ClientCrash, CH!HubTypeOK
    <4>2. LBFinal
      BY <2>3, \A c \in Req : Len(lBody[c]) <= Len(lBody[c])
      DEF ClientCrash, LB!BridgeTypeOK, LB!closed
    <4> QED
      BY <2>3, <4>1, <4>2 DEF ClientCrash
  <2>4. CASE ServerRestart
    <4>1. ServerFinal
      BY <2>4 DEF ServerRestart, SH!HubTypeOK
    <4>2. SBFinal
      BY <2>4 DEF ServerRestart, SB!BridgeTypeOK, SB!closed
    <4> QED
      BY <2>4, <4>1, <4>2 DEF ServerRestart
  <2>5. CASE UNCHANGED vars
    BY <2>5 DEF vars
  <2> QED
    BY <2>1, <2>2, <2>3, <2>4, <2>5 DEF Next
<1>2. TypeOK /\ NoPanic /\ [Next]_vars =>
        /\ [ServerFinal]_(SH!hubVars) /\ [ClientFinal]_(CH!hubVars)
        /\ [SBFinal]_(SB!bridgeVars) /\ [LBFinal]_(LB!bridgeVars)
  BY <1>1 DEF hubS, hubC, brS, brL, SH!hubVars, CH!hubVars, SB!bridgeVars, LB!bridgeVars
<1> QED
  BY <1>2, TypeCorrect, ChannelSafety, PTL
  DEF Spec, ClosedIsFinal, SH!ClosedIsFinal, CH!ClosedIsFinal, SB!ClosedIsFinal,
      LB!ClosedIsFinal
=============================================================================
