-------------------------- MODULE NatRelayProofs --------------------------
(***************************************************************************)
(* The NAT relay implements Relay, whatever the number of requests, of     *)
(* sessions and of failures, as long as the server process is not          *)
(* restarted: every step of Nat is a step of Relay for one of the streams, *)
(* a loss of several streams at once, or no step of Relay at all.          *)
(*                                                                         *)
(* Which step of Relay a step of Nat is, is told by what the bridges and   *)
(* the goroutines did; that Relay allows it then, is what UpInv and        *)
(* DownInv say.  Besides, the way in which a stream has ended must not     *)
(* change afterwards: EndedInv.                                            *)
(***************************************************************************)
EXTENDS NatOrderProofs

----------------------------------------------------------------------------
(* How a stream ended.                                                     *)

\* A goroutine that feeds a reader returns only for a reason that lasts: its channel
\* is closed, or it left something in it.
EndedInv ==
    \A r \in Req :
        /\ tpc[r] \in {"wait", "ret"} => sBody[r] # << >> \/ sCause[r] # "open"
        /\ lwp[r] = "done" => lBody[r] # << >> \/ lCause[r] # "open"
        /\ lwp[r] = "off" <=> lcp[r] = "off"

\* For that reason lasts as long as nobody takes from the channel.
Lasts(body, cause, body2, cause2) ==
    body # << >> \/ cause # "open" =>
        /\ body2 = << >> <=> body = << >>
        /\ body = << >> => cause2 = cause
        /\ cause # "open" => cause2 = cause

\* A channel in which something was put is not empty.
LEMMA AppendNotEmpty ==
    ASSUME NEW q \in Seq(Chunk), NEW b \in Chunk
    PROVE  Append(q, b) # << >>
<1>1. Len(Append(q, b)) = Len(q) + 1 /\ Len(q) \in Nat /\ Len(<< >>) = 0
  OBVIOUS
<1> QED
  BY <1>1

\* The operations of ServerBridge but Take.
LEMMA ServerBridgeLasts ==
    ASSUME SB!BridgeTypeOK, SB!MembersOpen, NEW q \in Req, NEW i,
           \/ SB!Register(q, i) \/ SB!Unregister(q)
           \/ SB!BroadcastClose(i) \/ \E b \in Chunk : SB!BroadcastBody(i, b),
           NEW r \in Req
    PROVE  Lasts(sBody[r], sCause[r], sBody'[r], sCause'[r])
<1> USE DEF SB!BridgeTypeOK
<1>1. \A b \in Chunk : Append(sBody[r], b) # << >>
  BY AppendNotEmpty
<1>2. r \in sBridges => sCause[r] = "open"
  BY DEF SB!MembersOpen, SB!closed
<1>3. CASE SB!Register(q, i) \/ SB!Unregister(q)
  BY <1>2, <1>3 DEF SB!Register, SB!Unregister, SB!Drop, SB!bridgeVars, Lasts
<1>4. CASE SB!BroadcastClose(i)
  BY <1>2, <1>4 DEF SB!BroadcastClose, SB!Matching, SB!Drop, SB!bridgeVars, Lasts
<1>5. ASSUME NEW b \in Chunk, SB!BroadcastBody(i, b)
      PROVE  Lasts(sBody[r], sCause[r], sBody'[r], sCause'[r])
  <2>1. SB!Matching(i) \subseteq sBridges
    BY DEF SB!Matching
  <2>2. \E B \in SUBSET SB!Matching(i) : SB!Drop(B, "full")
    BY <1>5 DEF SB!BroadcastBody
  <2>3. \/ sBody' = sBody
        \/ \E x \in SB!Matching(i) : sBody' = [sBody EXCEPT ![x] = Append(@, b)]
    BY <1>5 DEF SB!BroadcastBody
  <2>4. r \notin sBridges => sCause'[r] = sCause[r]
    BY <2>1, <2>2 DEF SB!Drop
  <2>5. \/ sBody'[r] = sBody[r]
        \/ r \in sBridges /\ sBody'[r] = Append(sBody[r], b)
    BY <2>1, <2>3
  <2> QED
    BY <1>1, <1>2, <2>4, <2>5 DEF Lasts
<1> QED
  BY <1>3, <1>4, <1>5

\* The operations of LocalBridge but Take.
LEMMA LocalBridgeLasts ==
    ASSUME LB!BridgeTypeOK, LB!MembersOpen, NEW q \in Req, NEW i,
           \/ LB!Register(q, i) \/ LB!Unregister(q)
           \/ LB!BroadcastClose(i) \/ \E b \in Chunk : LB!BroadcastBody(i, b),
           NEW r \in Req
    PROVE  Lasts(lBody[r], lCause[r], lBody'[r], lCause'[r])
<1> USE DEF LB!BridgeTypeOK
<1>1. \A b \in Chunk : Append(lBody[r], b) # << >>
  BY AppendNotEmpty
<1>2. r \in lBridges => lCause[r] = "open"
  BY DEF LB!MembersOpen, LB!closed
<1>3. CASE LB!Register(q, i) \/ LB!Unregister(q)
  BY <1>2, <1>3 DEF LB!Register, LB!Unregister, LB!Drop, LB!bridgeVars, Lasts
<1>4. CASE LB!BroadcastClose(i)
  BY <1>2, <1>4 DEF LB!BroadcastClose, LB!Matching, LB!Drop, LB!bridgeVars, Lasts
<1>5. ASSUME NEW b \in Chunk, LB!BroadcastBody(i, b)
      PROVE  Lasts(lBody[r], lCause[r], lBody'[r], lCause'[r])
  <2>1. LB!Matching(i) \subseteq lBridges
    BY DEF LB!Matching
  <2>2. \E B \in SUBSET LB!Matching(i) : LB!Drop(B, "full")
    BY <1>5 DEF LB!BroadcastBody
  <2>3. \/ lBody' = lBody
        \/ \E x \in LB!Matching(i) : lBody' = [lBody EXCEPT ![x] = Append(@, b)]
    BY <1>5 DEF LB!BroadcastBody
  <2>4. r \notin lBridges => lCause'[r] = lCause[r]
    BY <2>1, <2>2 DEF LB!Drop
  <2>5. \/ lBody'[r] = lBody[r]
        \/ r \in lBridges /\ lBody'[r] = Append(lBody[r], b)
    BY <2>1, <2>3
  <2> QED
    BY <1>1, <1>2, <2>4, <2>5 DEF Lasts
<1> QED
  BY <1>3, <1>4, <1>5

\* A step that does not touch the channel leaves the reason.
LEMMA SameLasts == \A body, cause : Lasts(body, cause, body, cause)
  BY DEF Lasts

\* A step keeps the end of a stream if the goroutine pc that feeds the reader neither
\* returns nor dies in it, and, if it had returned, its reason lasts.
Returned == {"done", "wait", "ret"}
Running(pc) == pc \notin Returned \cup {"dead"}

KeepsEnd(pc, body, cause, pc2, body2, cause2) ==
    \/ Running(pc) /\ Running(pc2)
    \/ pc = "dead" /\ pc2 = "dead"
    \/ {pc, pc2} \subseteq Returned /\ Lasts(body, cause, body2, cause2)

KeepsUp(r) == KeepsEnd(lwp[r], lBody[r], lCause[r], lwp'[r], lBody'[r], lCause'[r])
KeepsDown(r) == KeepsEnd(tpc[r], sBody[r], sCause[r], tpc'[r], sBody'[r], sCause'[r])
KeepsOff(r) == (lwp[r] = "off" <=> lcp[r] = "off") => (lwp'[r] = "off" <=> lcp'[r] = "off")
Keeps(r) == KeepsUp(r) /\ KeepsDown(r) /\ KeepsOff(r)

\* Then EndedInv holds again for it, and its reader sees the end that it saw before.
LEMMA EndKept ==
    ASSUME NEW pc, NEW body, NEW cause, NEW pc2, NEW body2, NEW cause2,
           KeepsEnd(pc, body, cause, pc2, body2, cause2),
           pc \in Returned => body # << >> \/ cause # "open"
    PROVE  /\ pc2 \in Returned => body2 # << >> \/ cause2 # "open"
           /\ ReaderEnd(pc2, cause2, body2) = ReaderEnd(pc, cause, body)
<1>1. CASE Running(pc) /\ Running(pc2)
  BY <1>1 DEF Running, Returned, ReaderEnd
<1>2. CASE pc = "dead" /\ pc2 = "dead"
  BY <1>2 DEF Returned, ReaderEnd
<1>3. CASE {pc, pc2} \subseteq Returned /\ Lasts(body, cause, body2, cause2)
  BY <1>3 DEF Returned, ReaderEnd, Lasts
<1> QED
  BY <1>1, <1>2, <1>3 DEF KeepsEnd

\* The same for both streams of a request.
LEMMA KeptEnded ==
    ASSUME TypeOK, EndedInv, NEW r \in Req, Keeps(r)
    PROVE  /\ tpc'[r] \in Returned => sBody'[r] # << >> \/ sCause'[r] # "open"
           /\ lwp'[r] \in Returned => lBody'[r] # << >> \/ lCause'[r] # "open"
           /\ lwp'[r] = "off" <=> lcp'[r] = "off"
           /\ ReaderEnd(tpc'[r], sCause'[r], sBody'[r]) = ReaderEnd(tpc[r], sCause[r], sBody[r])
           /\ ReaderEnd(lwp'[r], lCause'[r], lBody'[r]) = ReaderEnd(lwp[r], lCause[r], lBody[r])
<1>1. /\ tpc[r] \in Returned => tpc[r] \in {"wait", "ret"}
      /\ lwp[r] \in Returned => lwp[r] = "done"
  BY DEF TypeOK, XferTypeOK, LocalTypeOK, Returned
<1>2. /\ tpc[r] \in Returned => sBody[r] # << >> \/ sCause[r] # "open"
      /\ lwp[r] \in Returned => lBody[r] # << >> \/ lCause[r] # "open"
      /\ lwp[r] = "off" <=> lcp[r] = "off"
  BY <1>1 DEF EndedInv
<1> QED
  BY <1>2, EndKept DEF Keeps, KeepsUp, KeepsDown, KeepsOff

\* A goroutine that does not move keeps its end if nothing is taken.
LEMMA PcKept ==
    ASSUME NEW pc, NEW body, NEW cause, NEW body2, NEW cause2,
           Lasts(body, cause, body2, cause2)
    PROVE  KeepsEnd(pc, body, cause, pc, body2, cause2)
  BY DEF KeepsEnd, Running

\* The steps of a session end no stream.
LEMMA SessionKeeps ==
    ASSUME TypeOK, NoPanic, NEW s \in Session, SessionNext(s), ~ClientCreate(s),
           NEW q \in Req
    PROVE  Keeps(q)
<1>1. UNCHANGED <<tpc, lwp, lcp>>
  BY DEF SessionNext, ServerWritePump, ClientWritePump, ServerReadPump, ClientReadPump,
         Connect, Cut, ServerRegister, ClientRegister, ServerWrite, ClientWrite,
         ServerWriteEnd, ClientWriteEnd, WritePumpEnds, ServerRead, ServerReadEnd,
         ClientRead, ClientReadEnd, xfer, local
<1>2. Lasts(sBody[q], sCause[q], sBody'[q], sCause'[q])
  <2>1. CASE ServerRead(s)
    <3>1. Head(wire["S"][s]) \in Message
      <4>1. wire["S"][s] \in Seq(Message) /\ wire["S"][s] # << >>
        BY <2>1 DEF ServerRead, ReadSock, TypeOK, NetTypeOK, End
      <4> QED
        BY <4>1
    <3>2. \E i : SB!BroadcastClose(i) \/ \E b \in Chunk : SB!BroadcastBody(i, b)
      BY <2>1, <3>1 DEF ServerRead, Message
    <3> QED
      BY <3>2, ServerBridgeLasts DEF TypeOK, NoPanic
  <2>2. CASE ~ServerRead(s)
    <3>1. UNCHANGED <<sBody, sCause>>
      BY <2>2
      DEF SessionNext, ServerWritePump, ClientWritePump, ServerReadPump, ClientReadPump,
          Connect, Cut, ServerRegister, ClientRegister, ServerWrite, ClientWrite,
          ServerWriteEnd, ClientWriteEnd, WritePumpEnds, ServerReadEnd,
          ClientRead, ClientReadEnd, brS
    <3> QED
      BY <3>1, SameLasts
  <2> QED
    BY <2>1, <2>2
<1>3. Lasts(lBody[q], lCause[q], lBody'[q], lCause'[q])
  <2>1. CASE ClientRead(s)
    <3>1. Head(wire["C"][s]) \in Message
      <4>1. wire["C"][s] \in Seq(Message) /\ wire["C"][s] # << >>
        BY <2>1 DEF ClientRead, ReadSock, TypeOK, NetTypeOK, End
      <4> QED
        BY <4>1
    <3>2. \E i : LB!BroadcastClose(i) \/ \E b \in Chunk : LB!BroadcastBody(i, b)
      BY <2>1, <3>1 DEF ClientRead, ToLocalBridge, Message
    <3> QED
      BY <3>2, LocalBridgeLasts DEF TypeOK, NoPanic
  <2>2. CASE ~ClientRead(s)
    <3>1. UNCHANGED <<lBody, lCause>>
      BY <2>2
      DEF SessionNext, ServerWritePump, ClientWritePump, ServerReadPump, ClientReadPump,
          Connect, Cut, ServerRegister, ClientRegister, ServerWrite, ClientWrite,
          ServerWriteEnd, ClientWriteEnd, WritePumpEnds, ServerRead, ServerReadEnd,
          ClientReadEnd, brL
    <3> QED
      BY <3>1, SameLasts
  <2> QED
    BY <2>1, <2>2
<1> QED
  BY <1>1, <1>2, <1>3, PcKept DEF Keeps, KeepsUp, KeepsDown, KeepsOff

\* Nor do those of a request, but where one of its goroutines returns.
LEMMA RequestKeeps ==
    ASSUME TypeOK, NoPanic, NEW r \in Req, RequestNext(r), NEW q \in Req
    PROVE  /\ ~(PumpEnd(r) /\ q = r) => KeepsDown(q)
           /\ ~(LocalPumpEnd(r) /\ q = r) => KeepsUp(q)
           /\ KeepsOff(q)
<1>0. /\ tpc \in [Req -> {"new", "open", "pump", "wait", "ret", "plain", "dead"}]
      /\ lwp \in [Req -> {"off", "run", "done", "dead"}]
      /\ lcp \in [Req -> {"off", "copy", "unreg", "done", "dead"}]
      /\ sBody \in [Req -> Seq(Chunk)] /\ lBody \in [Req -> Seq(Chunk)]
  BY DEF TypeOK, XferTypeOK, LocalTypeOK, SB!BridgeTypeOK, LB!BridgeTypeOK
<1>1. CASE Begin(r) \/ NotFound(r) \/ Open(r) \/ Send(r) \/ SendClose(r)
  <2>1. UNCHANGED <<lwp, lcp, lBody, lCause>>
    BY <1>1 DEF Begin, NotFound, Open, Send, SendClose, brL, local
  <2>2. Lasts(sBody[q], sCause[q], sBody'[q], sCause'[q])
    <3>1. CASE Begin(r)
      BY <3>1, ServerBridgeLasts DEF Begin, TypeOK, NoPanic
    <3>2. CASE ~Begin(r)
      BY <1>1, <3>2, SameLasts DEF NotFound, Open, Send, SendClose, brS
    <3> QED
      BY <3>1, <3>2
  <2>3. tpc'[q] = tpc[q] \/ {tpc[q], tpc'[q]} \subseteq {"new", "open", "plain", "pump"}
    BY <1>0, <1>1 DEF Begin, NotFound, Open, Send, SendClose
  <2>4. KeepsDown(q)
    BY <2>2, <2>3, PcKept DEF KeepsDown, KeepsEnd, Running, Returned
  <2> QED
    BY <2>1, <2>4, PcKept, SameLasts DEF KeepsUp, KeepsOff
<1>2. CASE Pump(r)
  <2>1. UNCHANGED <<lwp, lcp, lBody, lCause, tpc, sCause>> /\ tpc[r] = "pump"
        /\ sBody' = [sBody EXCEPT ![r] = Tail(sBody[r])]
    BY <1>2 DEF Pump, SB!Take, brL, local
  <2>2. CASE q = r
    BY <2>1, <2>2, PcKept, SameLasts DEF KeepsUp, KeepsDown, KeepsOff, KeepsEnd, Running, Returned
  <2>3. CASE q # r
    <3>1. sBody'[q] = sBody[q]
      BY <1>0, <2>1, <2>3
    <3> QED
      BY <2>1, <3>1, PcKept, SameLasts DEF KeepsUp, KeepsDown, KeepsOff
  <2> QED
    BY <2>2, <2>3
<1>3. CASE PumpEnd(r)
  <2>1. UNCHANGED <<lwp, lcp, lBody, lCause, sBody, sCause>>
        /\ tpc' = [tpc EXCEPT ![r] = "wait"]
    BY <1>3 DEF PumpEnd, brS, brL, local
  <2>2. q # r => tpc'[q] = tpc[q]
    BY <1>0, <2>1
  <2> QED
    BY <1>3, <2>1, <2>2, PcKept, SameLasts DEF KeepsUp, KeepsDown, KeepsOff
<1>4. CASE Return(r)
  <2>1. UNCHANGED <<lwp, lcp, lBody, lCause>> /\ SB!Unregister(r)
        /\ tpc[r] = "wait" /\ tpc' = [tpc EXCEPT ![r] = "ret"]
    BY <1>4 DEF Return, brL, local
  <2>2. Lasts(sBody[q], sCause[q], sBody'[q], sCause'[q])
    BY <2>1, ServerBridgeLasts DEF TypeOK, NoPanic
  <2>3. tpc'[q] = tpc[q] \/ {tpc[q], tpc'[q]} \subseteq Returned
    BY <1>0, <2>1 DEF Returned
  <2>4. KeepsDown(q)
    BY <2>2, <2>3, PcKept DEF KeepsDown, KeepsEnd
  <2> QED
    BY <2>1, <2>4, PcKept, SameLasts DEF KeepsUp, KeepsOff
<1>5. CASE LocalPump(r)
  <2>1. UNCHANGED <<lwp, lcp, sBody, sCause, tpc, lCause>> /\ lwp[r] = "run"
        /\ lBody' = [lBody EXCEPT ![r] = Tail(lBody[r])]
    BY <1>5 DEF LocalPump, LB!Take, brS, xfer
  <2>2. CASE q = r
    BY <2>1, <2>2, PcKept, SameLasts DEF KeepsUp, KeepsDown, KeepsOff, KeepsEnd, Running, Returned
  <2>3. CASE q # r
    <3>1. lBody'[q] = lBody[q]
      BY <1>0, <2>1, <2>3
    <3> QED
      BY <2>1, <3>1, PcKept, SameLasts DEF KeepsUp, KeepsDown, KeepsOff
  <2> QED
    BY <2>2, <2>3
<1>6. CASE LocalPumpEnd(r)
  <2>1. UNCHANGED <<tpc, lcp, lBody, lCause, sBody, sCause>>
        /\ lwp[r] = "run" /\ lwp' = [lwp EXCEPT ![r] = "done"]
    BY <1>6 DEF LocalPumpEnd, brS, brL, xfer
  <2>2. /\ q # r => lwp'[q] = lwp[q]
        /\ lwp'[q] = "off" <=> lwp[q] = "off"
    BY <1>0, <2>1
  <2> QED
    BY <1>6, <2>1, <2>2, PcKept, SameLasts DEF KeepsUp, KeepsDown, KeepsOff
<1>7. CASE LocalCopy(r) \/ LocalClose(r) \/ LocalUnregister(r)
  <2>1. UNCHANGED <<tpc, lwp, sBody, sCause>>
    BY <1>7 DEF LocalCopy, LocalClose, LocalUnregister, brS, xfer
  <2>2. Lasts(lBody[q], lCause[q], lBody'[q], lCause'[q])
    <3>1. CASE LocalUnregister(r)
      BY <3>1, LocalBridgeLasts DEF LocalUnregister, TypeOK, NoPanic
    <3>2. CASE ~LocalUnregister(r)
      BY <1>7, <3>2, SameLasts DEF LocalCopy, LocalClose, brL
    <3> QED
      BY <3>1, <3>2
  <2>3. lcp'[q] = "off" <=> lcp[q] = "off"
    BY <1>0, <1>7 DEF LocalCopy, LocalClose, LocalUnregister
  <2> QED
    BY <2>1, <2>2, <2>3, PcKept, SameLasts DEF KeepsUp, KeepsDown, KeepsOff
<1> QED
  BY <1>1, <1>2, <1>3, <1>4, <1>5, <1>6, <1>7
  DEF RequestNext, Transfer, Sender, LocalWriter, LocalCopier

\* What a goroutine that has returned leaves behind does not change any more: how a
\* request or an answer ended, cut or complete, is settled when its WritePump returns.
THEOREM EndsLast == Spec => []EndedInv
<1>1. Init => EndedInv
  BY DEF Init, EndedInv
<1>2. ASSUME TypeOK, NoPanic, EndedInv, [Next]_vars
      PROVE  EndedInv'
  <2>0. /\ tpc \in [Req -> {"new", "open", "pump", "wait", "ret", "plain", "dead"}]
        /\ lwp \in [Req -> {"off", "run", "done", "dead"}]
        /\ lcp \in [Req -> {"off", "copy", "unreg", "done", "dead"}]
    BY <1>2 DEF TypeOK, XferTypeOK, LocalTypeOK
  <2>1. ASSUME \A q \in Req : Keeps(q)
        PROVE  EndedInv'
    <3>1. \A q \in Req : /\ tpc'[q] \in Returned => sBody'[q] # << >> \/ sCause'[q] # "open"
                         /\ lwp'[q] \in Returned => lBody'[q] # << >> \/ lCause'[q] # "open"
                         /\ lwp'[q] = "off" <=> lcp'[q] = "off"
      BY <1>2, <2>1, KeptEnded
    <3> QED
      BY <3>1 DEF EndedInv, Returned
  <2>2. ASSUME NEW s \in Session, SessionNext(s)
        PROVE  EndedInv'
    <3>1. CASE ClientCreate(s)
      <4>1. PICK r : /\ lwp' = [lwp EXCEPT ![r] = "run"] /\ lcp' = [lcp EXCEPT ![r] = "copy"]
        BY <3>1 DEF ClientCreate
      <4>2. UNCHANGED <<tpc, sBody, sCause, lBody, lCause>>
        BY <3>1 DEF ClientCreate, LB!Register, brS, xfer
      <4> QED
        BY <1>2, <2>0, <4>1, <4>2 DEF EndedInv
    <3>2. CASE ~ClientCreate(s)
      BY <1>2, <2>1, <2>2, <3>2, SessionKeeps
    <3> QED
      BY <3>1, <3>2
  <2>3. ASSUME NEW r \in Req, RequestNext(r)
        PROVE  EndedInv'
    <3>1. CASE PumpEnd(r)
      <4>1. /\ UNCHANGED <<lwp, lcp, lBody, lCause, sBody, sCause>>
            /\ tpc' = [tpc EXCEPT ![r] = "wait"]
            /\ sBody[r] # << >> \/ sCause[r] # "open"
        BY <3>1 DEF PumpEnd, SB!Drained, SB!closed, brS, brL, local
      <4> QED
        BY <1>2, <2>0, <4>1 DEF EndedInv
    <3>2. CASE LocalPumpEnd(r)
      <4>1. /\ UNCHANGED <<tpc, lcp, lBody, lCause, sBody, sCause>>
            /\ lwp[r] = "run" /\ lwp' = [lwp EXCEPT ![r] = "done"]
            /\ lBody[r] # << >> \/ lCause[r] # "open"
        BY <3>2 DEF LocalPumpEnd, LB!Drained, LB!closed, brS, brL, xfer
      <4> QED
        BY <1>2, <2>0, <4>1 DEF EndedInv
    <3>3. CASE ~PumpEnd(r) /\ ~LocalPumpEnd(r)
      BY <1>2, <2>1, <2>3, <3>3, RequestKeeps DEF Keeps
    <3> QED
      BY <3>1, <3>2, <3>3
  <2>4. CASE ClientCrash
    BY <1>2, <2>0, <2>4 DEF ClientCrash, EndedInv, brS, xfer
  <2>5. CASE ServerRestart
    BY <1>2, <2>0, <2>5 DEF ServerRestart, EndedInv, brL, local
  <2>6. CASE UNCHANGED vars
    BY <1>2, <2>6 DEF vars, brS, brL, xfer, local, EndedInv
  <2> QED
    BY <1>2, <2>2, <2>3, <2>4, <2>5, <2>6 DEF Next
<1> QED
  BY <1>1, <1>2, TypeCorrect, ChannelSafety, PTL DEF Spec

----------------------------------------------------------------------------
(* Steps of Relay.                                                         *)

Up(r) == <<"up", r>>
Down(r) == <<"down", r>>

\* The streams, and what they are made of, before and after a step.
LEMMA Streams ==
    /\ \A r \in Req : Up(r) \in Stream /\ Down(r) \in Stream
    /\ \A x \in Stream : \E r \in Req : x = Up(r) \/ x = Down(r)
    /\ \A q, r : Up(q) # Down(r) /\ (Up(q) = Up(r) => q = r) /\ (Down(q) = Down(r) => q = r)
  BY DEF Stream, Up, Down

\* The stream of the request.
LEMMA StreamOfUp ==
    ASSUME NEW r \in Req
    PROVE  /\ StreamIn[Up(r)] = up[r] /\ StreamIn'[Up(r)] = up'[r]
           /\ StreamShut[Up(r)] = (snd[r] = "done") /\ StreamShut'[Up(r)] = (snd'[r] = "done")
           /\ StreamOut[Up(r)] = lgot[r] /\ StreamOut'[Up(r)] = lgot'[r]
           /\ StreamEnd[Up(r)] = ReaderEnd(lwp[r], lCause[r], lBody[r])
           /\ StreamEnd'[Up(r)] = ReaderEnd(lwp'[r], lCause'[r], lBody'[r])
<1>1. Up(r) \in Stream /\ Up(r)[1] = "up" /\ Up(r)[2] = r
  BY DEF Stream, Up
<1> QED
  BY <1>1 DEF StreamIn, StreamShut, StreamOut, StreamEnd

\* The stream of the answer.
LEMMA StreamOfDown ==
    ASSUME NEW r \in Req
    PROVE  /\ StreamIn[Down(r)] = down[r] /\ StreamIn'[Down(r)] = down'[r]
           /\ StreamShut[Down(r)] = (lcp[r] \in {"unreg", "done"})
           /\ StreamShut'[Down(r)] = (lcp'[r] \in {"unreg", "done"})
           /\ StreamOut[Down(r)] = got[r] /\ StreamOut'[Down(r)] = got'[r]
           /\ StreamEnd[Down(r)] = ReaderEnd(tpc[r], sCause[r], sBody[r])
           /\ StreamEnd'[Down(r)] = ReaderEnd(tpc'[r], sCause'[r], sBody'[r])
<1>1. Down(r) \in Stream /\ Down(r)[1] = "down" /\ Down(r)[2] = r
  BY DEF Stream, Down
<1> QED
  BY <1>1 DEF StreamIn, StreamShut, StreamOut, StreamEnd

Still(x) ==
    /\ StreamIn'[x] = StreamIn[x] /\ StreamShut'[x] = StreamShut[x]
    /\ StreamOut'[x] = StreamOut[x] /\ StreamEnd'[x] = StreamEnd[x]

\* A step that leaves every stream as it is, is none of Relay.
LEMMA RelayStutters ==
    ASSUME \A x \in Stream : Still(x)
    PROVE  UNCHANGED RelayOf!relayVars
<1>1. /\ StreamIn' = StreamIn /\ StreamShut' = StreamShut
      /\ StreamOut' = StreamOut /\ StreamEnd' = StreamEnd
  BY DEF Still, StreamIn, StreamShut, StreamOut, StreamEnd
<1> QED
  BY <1>1 DEF RelayOf!relayVars

\* A chunk goes into one stream.
LEMMA RelayWrites ==
    ASSUME NEW x \in Stream, \A y \in Stream : y # x => Still(y),
           ~StreamShut[x], StreamIn'[x] = StreamIn[x] + 1,
           StreamShut'[x] = StreamShut[x], StreamOut'[x] = StreamOut[x],
           StreamEnd'[x] = StreamEnd[x]
    PROVE  RelayOf!Write(x)
<1>1. StreamIn' = [StreamIn EXCEPT ![x] = @ + 1]
  BY DEF Still, StreamIn
<1>2. StreamShut' = StreamShut /\ StreamOut' = StreamOut /\ StreamEnd' = StreamEnd
  BY DEF Still, StreamShut, StreamOut, StreamEnd
<1> QED
  BY <1>1, <1>2 DEF RelayOf!Write

\* The writer of one stream closes it.
LEMMA RelayShuts ==
    ASSUME NEW x \in Stream, \A y \in Stream : y # x => Still(y),
           ~StreamShut[x], StreamShut'[x] = TRUE,
           StreamIn'[x] = StreamIn[x], StreamOut'[x] = StreamOut[x], StreamEnd'[x] = StreamEnd[x]
    PROVE  RelayOf!Shut(x)
<1>1. StreamShut' = [StreamShut EXCEPT ![x] = TRUE]
  BY DEF Still, StreamShut
<1>2. StreamIn' = StreamIn /\ StreamOut' = StreamOut /\ StreamEnd' = StreamEnd
  BY DEF Still, StreamIn, StreamOut, StreamEnd
<1> QED
  BY <1>1, <1>2 DEF RelayOf!Shut

\* The next chunk comes out of one stream.
LEMMA RelayReads ==
    ASSUME NEW x \in Stream, \A y \in Stream : y # x => Still(y),
           StreamEnd[x] = "open", Len(StreamOut[x]) < StreamIn[x],
           StreamOut'[x] = Append(StreamOut[x], StreamChunk(x, Len(StreamOut[x]) + 1)),
           StreamIn'[x] = StreamIn[x], StreamShut'[x] = StreamShut[x], StreamEnd'[x] = StreamEnd[x]
    PROVE  RelayOf!Read(x)
<1>1. StreamOut' = [StreamOut EXCEPT ![x] = Append(@, StreamChunk(x, Len(@) + 1))]
  BY DEF Still, StreamOut
<1>2. StreamIn' = StreamIn /\ StreamShut' = StreamShut /\ StreamEnd' = StreamEnd
  BY DEF Still, StreamIn, StreamShut, StreamEnd
<1> QED
  BY <1>1, <1>2 DEF RelayOf!Read

\* A stream that ends, ends in order or is cut.
LEMMA RelayEnds ==
    ASSUME NEW x \in Stream, \A y \in Stream : y # x => Still(y),
           StreamEnd[x] = "open",
           \/ StreamEnd'[x] = "cut"
           \/ StreamEnd'[x] = "eof" /\ StreamShut[x] /\ Len(StreamOut[x]) = StreamIn[x],
           StreamIn'[x] = StreamIn[x], StreamShut'[x] = StreamShut[x], StreamOut'[x] = StreamOut[x]
    PROVE  RelayOf!RelayNext
<1>1. StreamIn' = StreamIn /\ StreamShut' = StreamShut /\ StreamOut' = StreamOut
  BY DEF Still, StreamIn, StreamShut, StreamOut
<1>2. CASE StreamEnd'[x] = "cut"
  <2>1. StreamEnd' = [y \in Stream |-> IF y \in {x} THEN "cut" ELSE StreamEnd[y]]
    BY <1>2 DEF Still, StreamEnd
  <2>2. RelayOf!Cut({x})
    BY <1>1, <2>1 DEF RelayOf!Cut
  <2>3. {x} \in SUBSET Stream
    OBVIOUS
  <2> QED
    BY <2>2, <2>3 DEF RelayOf!RelayNext
<1>3. CASE StreamEnd'[x] = "eof" /\ StreamShut[x] /\ Len(StreamOut[x]) = StreamIn[x]
  <2>1. StreamEnd' = [StreamEnd EXCEPT ![x] = "eof"]
    BY <1>3 DEF Still, StreamEnd
  <2>2. RelayOf!Eof(x)
    BY <1>1, <1>3, <2>1 DEF RelayOf!Eof
  <2> QED
    BY <2>2 DEF RelayOf!RelayNext
<1> QED
  BY <1>2, <1>3

\* The loss of the client process cuts many at once.
LEMMA RelayCuts ==
    ASSUME NEW X \in SUBSET Stream,
           \A x \in X : StreamEnd[x] = "open" /\ StreamEnd'[x] = "cut",
           \A y \in Stream : /\ y \notin X => StreamEnd'[y] = StreamEnd[y]
                             /\ StreamIn'[y] = StreamIn[y] /\ StreamShut'[y] = StreamShut[y]
                             /\ StreamOut'[y] = StreamOut[y]
    PROVE  RelayOf!RelayNext
<1>1. StreamIn' = StreamIn /\ StreamShut' = StreamShut /\ StreamOut' = StreamOut
  BY DEF StreamIn, StreamShut, StreamOut
<1>2. StreamEnd' = [y \in Stream |-> IF y \in X THEN "cut" ELSE StreamEnd[y]]
  BY DEF StreamEnd
<1>3. RelayOf!Cut(X)
  BY <1>1, <1>2 DEF RelayOf!Cut
<1> QED
  BY <1>3 DEF RelayOf!RelayNext

\* The two streams of a request in a step that does not touch them.
SameUpEnd(r) == ReaderEnd(lwp'[r], lCause'[r], lBody'[r]) = ReaderEnd(lwp[r], lCause[r], lBody[r])
SameDownEnd(r) == ReaderEnd(tpc'[r], sCause'[r], sBody'[r]) = ReaderEnd(tpc[r], sCause[r], sBody[r])

SameUp(r) ==
    /\ up'[r] = up[r] /\ (snd'[r] = "done" <=> snd[r] = "done") /\ lgot'[r] = lgot[r]
    /\ SameUpEnd(r)

SameDown(r) ==
    /\ down'[r] = down[r] /\ (lcp'[r] \in {"unreg", "done"} <=> lcp[r] \in {"unreg", "done"})
    /\ got'[r] = got[r] /\ SameDownEnd(r)

\* A stream is still when what it is made of is.
LEMMA StillStreams ==
    ASSUME NEW r \in Req
    PROVE  /\ SameUp(r) => Still(Up(r))
           /\ SameDown(r) => Still(Down(r))
<1>1. SameUp(r) => Still(Up(r))
  <2> SUFFICES ASSUME SameUp(r)
               PROVE  Still(Up(r))
    OBVIOUS
  <2>1. (snd'[r] = "done") = (snd[r] = "done")
    BY DEF SameUp
  <2> QED
    BY <2>1, StreamOfUp DEF SameUp, SameUpEnd, Still
<1>2. SameDown(r) => Still(Down(r))
  <2> SUFFICES ASSUME SameDown(r)
               PROVE  Still(Down(r))
    OBVIOUS
  <2>1. (lcp'[r] \in {"unreg", "done"}) = (lcp[r] \in {"unreg", "done"})
    BY DEF SameDown
  <2> QED
    BY <2>1, StreamOfDown DEF SameDown, SameDownEnd, Still
<1> QED
  BY <1>1, <1>2

\* Where a step touches one stream of one request only, the others are still.
LEMMA OthersStill ==
    ASSUME NEW r \in Req
    PROVE  /\ (\A q \in Req : (q # r => SameUp(q)) /\ SameDown(q))
                => \A y \in Stream : y # Up(r) => Still(y)
           /\ (\A q \in Req : SameUp(q) /\ (q # r => SameDown(q)))
                => \A y \in Stream : y # Down(r) => Still(y)
           /\ (\A q \in Req : SameUp(q) /\ SameDown(q)) => \A y \in Stream : Still(y)
  BY Streams, StillStreams

\* A step that ends no stream leaves the end of each of them as it was.
LEMMA SameEnds ==
    ASSUME TypeOK, EndedInv, NEW r \in Req, KeepsOff(r)
    PROVE  /\ KeepsUp(r) => SameUpEnd(r)
           /\ KeepsDown(r) => SameDownEnd(r)
<1>1. /\ tpc[r] \in Returned => tpc[r] \in {"wait", "ret"}
      /\ lwp[r] \in Returned => lwp[r] = "done"
  BY DEF TypeOK, XferTypeOK, LocalTypeOK, Returned
<1>2. /\ tpc[r] \in Returned => sBody[r] # << >> \/ sCause[r] # "open"
      /\ lwp[r] \in Returned => lBody[r] # << >> \/ lCause[r] # "open"
  BY <1>1 DEF EndedInv
<1> QED
  BY <1>2, EndKept DEF KeepsUp, KeepsDown, SameUpEnd, SameDownEnd

\* The goroutine that feeds a reader takes from its bridge the next chunk of the stream.
LEMMA NextChunk ==
    ASSUME NEW r \in Req, NEW out \in Seq(Chunk), NEW body \in Seq(Chunk), body # << >>,
           Received(r, out, body), NEW n \in Nat, Len(out) + Len(body) <= n
    PROVE  /\ Len(out) < n
           /\ Head(body) = [req |-> r, n |-> Len(out) + 1]
<1>1. Len(out) \in Nat /\ Len(body) \in Nat \ {0} /\ Head(body) = body[1] /\ 1 \in 1 .. Len(body)
  OBVIOUS
<1>2. body[1] = [req |-> r, n |-> Len(out) + 1]
  BY <1>1 DEF Received
<1>3. Len(out) < n
  BY <1>1
<1> QED
  BY <1>1, <1>2, <1>3

\* A CREATE message is for a request that the client has not met.
LEMMA CreateOnce ==
    ASSUME Known, UpInv, restarts = 0, NEW s \in Session, ClientCreate(s)
    PROVE  Head(wire["C"][s]).body.req \in Req /\ ~Created(Head(wire["C"][s]).body.req)
<1> DEFINE h == Head(wire["C"][s])
<1>0. /\ "C" \in End /\ TypeOK /\ NetTypeOK /\ sSend[s] \in Seq(Message)
  BY DEF Known, End, TypeOK, SH!HubTypeOK
<1>1. ReadSock("C", s) /\ h.method = "create" /\ sSend' = sSend
  BY DEF ClientCreate, hubS
<1>2. Without(UpRoad(s)', UpRoad(s), h)
  <2>1. UpRoad(s)' = IF conn'["C"][s] # "open" THEN << >>
                     ELSE IF conn'[Peer("C")][s] # "open" THEN wire'["C"][s]
                          ELSE wire'["C"][s] \o sSend[s]
    BY <1>1 DEF UpRoad, Road
  <2> QED
    BY <1>0, <1>1, <2>1, RoadRead DEF UpRoad
<1>3. UpRoad(s) \in Seq(Message)
  BY <1>0, UpTyped
<1>4. h = UpRoad(s)[1] /\ 1 \in 1 .. Len(UpRoad(s)) /\ h \in Message
  BY <1>2, <1>3 DEF Without
<1>5. UpMsg(UpRoad(s)[1], s)
  BY <1>4 DEF UpInv, UpRoadInv
<1>6. UpMsg(h, s) /\ h.body.req \in Req
  BY <1>4, <1>5, MessageTyped
<1> HIDE DEF h
<1>7. ~Created(h.body.req)
  BY <1>1, <1>6 DEF UpMsg
<1> QED
  BY <1>6, <1>7 DEF h

----------------------------------------------------------------------------
(* Every step of Nat, as a step of Relay.                                  *)

Ordered == Known /\ UpInv /\ DownInv /\ EndedInv

RelayStep == RelayOf!RelayNext \/ UNCHANGED RelayOf!relayVars

\* The types of what the streams are made of.
LEMMA OrderedTyped ==
    ASSUME Ordered, NEW r \in Req
    PROVE  /\ TypeOK /\ NoPanic /\ EndedInv
           /\ tpc \in [Req -> {"new", "open", "pump", "wait", "ret", "plain", "dead"}]
           /\ snd \in [Req -> {"off", "head", "copy", "done", "dead"}]
           /\ lwp \in [Req -> {"off", "run", "done", "dead"}]
           /\ lcp \in [Req -> {"off", "copy", "unreg", "done", "dead"}]
           /\ up \in [Req -> Nat] /\ down \in [Req -> Nat]
           /\ got \in [Req -> Seq(Chunk)] /\ lgot \in [Req -> Seq(Chunk)]
           /\ sBody[r] \in Seq(Chunk) /\ lBody[r] \in Seq(Chunk)
<1>1. TypeOK /\ NoPanic /\ EndedInv
  BY DEF Ordered, Known
<1>2. XferTypeOK /\ LocalTypeOK /\ SB!BridgeTypeOK /\ LB!BridgeTypeOK
  BY <1>1 DEF TypeOK
<1>3. sBody[r] \in Seq(Chunk) /\ lBody[r] \in Seq(Chunk)
  BY <1>2 DEF SB!BridgeTypeOK, LB!BridgeTypeOK
<1>4. 0 .. MaxUp \subseteq Nat /\ 0 .. MaxDown \subseteq Nat
  BY NatAssumption
<1>5. /\ tpc \in [Req -> {"new", "open", "pump", "wait", "ret", "plain", "dead"}]
      /\ snd \in [Req -> {"off", "head", "copy", "done", "dead"}]
      /\ up \in [Req -> Nat] /\ got \in [Req -> Seq(Chunk)]
  BY <1>2, <1>4 DEF XferTypeOK
<1>6. /\ lwp \in [Req -> {"off", "run", "done", "dead"}]
      /\ lcp \in [Req -> {"off", "copy", "unreg", "done", "dead"}]
      /\ down \in [Req -> Nat] /\ lgot \in [Req -> Seq(Chunk)]
  BY <1>2, <1>4 DEF LocalTypeOK
<1> QED
  BY <1>1, <1>3, <1>5, <1>6

\* Messages on their way, the pumps and the hubs are not seen by Relay; a request
\* that the client learns of has nothing to show yet.
LEMMA SessionRelay ==
    ASSUME Ordered, restarts = 0, NEW s \in Session, SessionNext(s)
    PROVE  RelayStep
<1>0. UNCHANGED <<up, snd, lgot, down, got>>
  BY DEF SessionNext, ServerWritePump, ClientWritePump, ServerReadPump, ClientReadPump,
         Connect, Cut, ServerRegister, ClientRegister, ServerWrite, ClientWrite,
         ServerWriteEnd, ClientWriteEnd, WritePumpEnds, ServerRead, ServerReadEnd,
         ClientRead, ClientReadEnd, ClientCreate, xfer, local
<1>1. ASSUME NEW q \in Req
      PROVE  SameUp(q) /\ SameDown(q)
  <2>0. TypeOK /\ NoPanic /\ EndedInv
    BY OrderedTyped
  <2>1. CASE ClientCreate(s)
    <3>1. PICK r \in Req : /\ ~Created(r) /\ lwp' = [lwp EXCEPT ![r] = "run"]
                           /\ lcp' = [lcp EXCEPT ![r] = "copy"]
      BY <2>1, CreateOnce DEF ClientCreate, Ordered
    <3>2. UNCHANGED <<tpc, sBody, sCause, lBody, lCause>>
      BY <2>1 DEF ClientCreate, LB!Register, brS, xfer
    <3>3. lcp[r] = "off" /\ lwp[r] = "off"
      BY <2>0, <3>1 DEF Created, EndedInv
    <3>4. /\ lwp'[q] = lwp[q] \/ (lwp[q] = "off" /\ lwp'[q] = "run")
          /\ lcp'[q] \in {"unreg", "done"} <=> lcp[q] \in {"unreg", "done"}
      BY <3>1, <3>3, OrderedTyped
    <3>5. SameUpEnd(q) /\ SameDownEnd(q)
      BY <3>2, <3>4 DEF SameUpEnd, SameDownEnd, ReaderEnd
    <3> QED
      BY <1>0, <3>4, <3>5 DEF SameUp, SameDown
  <2>2. CASE ~ClientCreate(s)
    <3>1. Keeps(q)
      BY <2>0, <2>2, SessionKeeps
    <3>2. SameUpEnd(q) /\ SameDownEnd(q)
      BY <2>0, <3>1, SameEnds DEF Keeps
    <3>3. lcp' = lcp
      BY <2>2
      DEF SessionNext, ServerWritePump, ClientWritePump, ServerReadPump, ClientReadPump,
          Connect, Cut, ServerRegister, ClientRegister, ServerWrite, ClientWrite,
          ServerWriteEnd, ClientWriteEnd, WritePumpEnds, ServerRead, ServerReadEnd,
          ClientRead, ClientReadEnd, local
    <3> QED
      BY <1>0, <3>2, <3>3 DEF SameUp, SameDown
  <2> QED
    BY <2>1, <2>2
<1>2. \A y \in Stream : Still(y)
  BY <1>1, Streams, StillStreams
<1> QED
  BY <1>2, RelayStutters DEF RelayStep

\* The steps of a request that Relay does not see: it is accepted, announced to the
\* client, and forgotten by either end.
LEMMA QuietRelay ==
    ASSUME Ordered, restarts = 0, NEW r \in Req,
           Begin(r) \/ NotFound(r) \/ Open(r) \/ Return(r) \/ LocalUnregister(r)
    PROVE  RelayStep
<1>1. ASSUME NEW q \in Req
      PROVE  SameUp(q) /\ SameDown(q)
  <2>1. RequestNext(r) /\ ~PumpEnd(r) /\ ~LocalPumpEnd(r)
    BY OrderedTyped
    DEF RequestNext, Transfer, LocalCopier, Begin, NotFound, Open, Return, LocalUnregister,
        PumpEnd, LocalPumpEnd, local, xfer
  <2>2. SameUpEnd(q) /\ SameDownEnd(q)
    BY <2>1, OrderedTyped, RequestKeeps, SameEnds
  <2>3. /\ snd \in [Req -> {"off", "head", "copy", "done", "dead"}]
        /\ lcp \in [Req -> {"off", "copy", "unreg", "done", "dead"}]
    BY OrderedTyped
  <2>4. UNCHANGED <<up, lgot, down, got>>
    BY DEF Begin, NotFound, Open, Return, LocalUnregister, xfer, local
  <2>5. snd'[q] = "done" <=> snd[q] = "done"
    <3>1. CASE Open(r)
      <4>1. snd' = [snd EXCEPT ![r] = "head"] /\ snd[r] # "done"
        BY <3>1 DEF Open, Ordered, Known, RequestInv, Opened
      <4> QED
        BY <2>3, <4>1
    <3>2. CASE ~Open(r)
      BY <3>2 DEF Begin, NotFound, Return, LocalUnregister, xfer
    <3> QED
      BY <3>1, <3>2
  <2>6. lcp'[q] \in {"unreg", "done"} <=> lcp[q] \in {"unreg", "done"}
    BY <2>3 DEF Begin, NotFound, Open, Return, LocalUnregister, local
  <2> QED
    BY <2>2, <2>4, <2>5, <2>6 DEF SameUp, SameDown
<1>2. \A y \in Stream : Still(y)
  BY <1>1, Streams, StillStreams
<1> QED
  BY <1>2, RelayStutters DEF RelayStep

\* A chunk or a CLOSE goes into the stream that its sender feeds.
LEMMA SendRelay ==
    ASSUME Ordered, NEW r \in Req, Send(r) \/ SendClose(r)
    PROVE  RelayStep
<1>0. /\ snd \in [Req -> {"off", "head", "copy", "done", "dead"}] /\ up \in [Req -> Nat]
      /\ snd[r] \in {"head", "copy"}
      /\ UNCHANGED <<lgot, down, got, lcp>>
  BY OrderedTyped DEF Send, SendClose, local
<1>1. \A q \in Req : SameUpEnd(q) /\ SameDownEnd(q)
  <2>1. RequestNext(r) /\ UNCHANGED <<tpc, lwp, lcp>>
    BY DEF RequestNext, Sender, Send, SendClose, local
  <2>2. UNCHANGED <<sBody, sCause, lBody, lCause>>
    BY DEF Send, SendClose, brS, brL
  <2> QED
    BY <2>1, <2>2 DEF SameUpEnd, SameDownEnd
<1>2. Up(r) \in Stream /\ ~StreamShut[Up(r)] /\ StreamOut'[Up(r)] = StreamOut[Up(r)]
      /\ StreamEnd'[Up(r)] = StreamEnd[Up(r)]
  <2>1. StreamShut[Up(r)] = (snd[r] = "done") /\ snd[r] # "done"
    BY <1>0, StreamOfUp
  <2>2. ~StreamShut[Up(r)]
    BY <2>1
  <2>3. Up(r) \in Stream /\ StreamOut'[Up(r)] = StreamOut[Up(r)]
    BY <1>0, StreamOfUp, Streams
  <2>4. StreamEnd'[Up(r)] = StreamEnd[Up(r)]
    BY <1>1, StreamOfUp DEF SameUpEnd
  <2> QED
    BY <2>2, <2>3, <2>4
<1>3. CASE Send(r)
  <2>1. up' = [up EXCEPT ![r] = up[r] + 1] /\ snd' = [snd EXCEPT ![r] = "copy"]
    BY <1>3 DEF Send
  <2>2. \A q \in Req : (q # r => SameUp(q)) /\ SameDown(q)
    BY <1>0, <1>1, <2>1 DEF SameUp, SameDown
  <2>3. \A y \in Stream : y # Up(r) => Still(y)
    BY <2>2, OthersStill
  <2>4. StreamIn'[Up(r)] = StreamIn[Up(r)] + 1
    BY <1>0, <2>1, StreamOfUp
  <2>5. StreamShut'[Up(r)] = (snd'[r] = "done") /\ snd'[r] # "done"
        /\ StreamShut[Up(r)] = (snd[r] = "done") /\ snd[r] # "done"
    BY <1>0, <2>1, StreamOfUp
  <2>6. StreamShut'[Up(r)] = StreamShut[Up(r)]
    BY <2>5
  <2>7. RelayOf!Write(Up(r))
    BY <1>2, <2>3, <2>4, <2>6, RelayWrites
  <2> QED
    BY <1>2, <2>7 DEF RelayStep, RelayOf!RelayNext
<1>4. CASE SendClose(r)
  <2>1. up' = up /\ snd' = [snd EXCEPT ![r] = "done"]
    BY <1>4 DEF SendClose
  <2>2. \A q \in Req : (q # r => SameUp(q)) /\ SameDown(q)
    BY <1>0, <1>1, <2>1 DEF SameUp, SameDown
  <2>3. \A y \in Stream : y # Up(r) => Still(y)
    BY <2>2, OthersStill
  <2>4. StreamIn'[Up(r)] = StreamIn[Up(r)]
    BY <1>0, <2>1, StreamOfUp
  <2>5. StreamShut'[Up(r)] = (snd'[r] = "done") /\ snd'[r] = "done"
    BY <1>0, <2>1, StreamOfUp
  <2>6. StreamShut'[Up(r)] = TRUE
    BY <2>5
  <2>7. RelayOf!Shut(Up(r))
    BY <1>2, <2>3, <2>4, <2>6, RelayShuts
  <2> QED
    BY <1>2, <2>7 DEF RelayStep, RelayOf!RelayNext
<1> QED
  BY <1>3, <1>4

\* The same in the client, for the answer.
LEMMA AnswerRelay ==
    ASSUME Ordered, NEW r \in Req, LocalCopy(r) \/ LocalClose(r)
    PROVE  RelayStep
<1>0. /\ lcp \in [Req -> {"off", "copy", "unreg", "done", "dead"}] /\ down \in [Req -> Nat]
      /\ lcp[r] = "copy"
      /\ UNCHANGED <<lgot, up, snd, got>>
  BY OrderedTyped DEF LocalCopy, LocalClose, xfer
<1>1. \A q \in Req : SameUpEnd(q) /\ SameDownEnd(q)
  <2>1. UNCHANGED <<tpc, lwp>>
    BY DEF LocalCopy, LocalClose, xfer
  <2>2. UNCHANGED <<sBody, sCause, lBody, lCause>>
    BY DEF LocalCopy, LocalClose, brS, brL
  <2> QED
    BY <2>1, <2>2 DEF SameUpEnd, SameDownEnd
<1>2. Down(r) \in Stream /\ ~StreamShut[Down(r)] /\ StreamOut'[Down(r)] = StreamOut[Down(r)]
      /\ StreamEnd'[Down(r)] = StreamEnd[Down(r)]
  <2>1. StreamShut[Down(r)] = (lcp[r] \in {"unreg", "done"}) /\ lcp[r] \notin {"unreg", "done"}
    BY <1>0, StreamOfDown
  <2>2. ~StreamShut[Down(r)]
    BY <2>1
  <2>3. Down(r) \in Stream /\ StreamOut'[Down(r)] = StreamOut[Down(r)]
    BY <1>0, StreamOfDown, Streams
  <2>4. StreamEnd'[Down(r)] = StreamEnd[Down(r)]
    BY <1>1, StreamOfDown DEF SameDownEnd
  <2> QED
    BY <2>2, <2>3, <2>4
<1>3. CASE LocalCopy(r)
  <2>1. down' = [down EXCEPT ![r] = down[r] + 1] /\ lcp' = lcp
    BY <1>3 DEF LocalCopy
  <2>2. \A q \in Req : SameUp(q) /\ (q # r => SameDown(q))
    BY <1>0, <1>1, <2>1 DEF SameUp, SameDown
  <2>3. \A y \in Stream : y # Down(r) => Still(y)
    BY <2>2, OthersStill
  <2>4. StreamIn'[Down(r)] = StreamIn[Down(r)] + 1
    BY <1>0, <2>1, StreamOfDown
  <2>5. StreamShut'[Down(r)] = StreamShut[Down(r)]
    BY <2>1, StreamOfDown
  <2>6. RelayOf!Write(Down(r))
    BY <1>2, <2>3, <2>4, <2>5, RelayWrites
  <2> QED
    BY <1>2, <2>6 DEF RelayStep, RelayOf!RelayNext
<1>4. CASE LocalClose(r)
  <2>1. down' = down /\ lcp' = [lcp EXCEPT ![r] = "unreg"]
    BY <1>4 DEF LocalClose
  <2>2. \A q \in Req : SameUp(q) /\ (q # r => SameDown(q))
    BY <1>0, <1>1, <2>1 DEF SameUp, SameDown
  <2>3. \A y \in Stream : y # Down(r) => Still(y)
    BY <2>2, OthersStill
  <2>4. StreamIn'[Down(r)] = StreamIn[Down(r)]
    BY <1>0, <2>1, StreamOfDown
  <2>5. StreamShut'[Down(r)] = (lcp'[r] \in {"unreg", "done"}) /\ lcp'[r] \in {"unreg", "done"}
    BY <1>0, <2>1, StreamOfDown
  <2>6. StreamShut'[Down(r)] = TRUE
    BY <2>5
  <2>7. RelayOf!Shut(Down(r))
    BY <1>2, <2>3, <2>4, <2>6, RelayShuts
  <2> QED
    BY <1>2, <2>7 DEF RelayStep, RelayOf!RelayNext
<1> QED
  BY <1>3, <1>4

\* What WritePump takes from its bridge is the next chunk of its stream.
LEMMA PumpRelay ==
    ASSUME Ordered, restarts = 0, NEW r \in Req, Pump(r)
    PROVE  RelayStep
<1>0. /\ got \in [Req -> Seq(Chunk)] /\ down \in [Req -> Nat] /\ sBody[r] \in Seq(Chunk)
      /\ TypeOK /\ NoPanic /\ EndedInv
  BY OrderedTyped
<1>1. /\ tpc[r] = "pump" /\ sBody[r] # << >>
      /\ got' = [got EXCEPT ![r] = Append(got[r], Head(sBody[r]))]
      /\ UNCHANGED <<up, snd, lgot, down, lcp, tpc>>
  BY DEF Pump, SB!Take, local
<1>2. \A q \in Req : SameUpEnd(q) /\ SameDownEnd(q)
  <2>1. RequestNext(r) /\ ~PumpEnd(r) /\ ~LocalPumpEnd(r)
    <3>1. lwp \in [Req -> {"off", "run", "done", "dead"}]
          /\ tpc \in [Req -> {"new", "open", "pump", "wait", "ret", "plain", "dead"}]
          /\ lwp' = lwp
      BY OrderedTyped DEF Pump, local
    <3> QED
      BY <1>1, <3>1 DEF RequestNext, Transfer, PumpEnd, LocalPumpEnd
  <2> QED
    BY <1>0, <2>1, RequestKeeps, SameEnds
<1>3. \A y \in Stream : y # Down(r) => Still(y)
  <2>1. \A q \in Req : SameUp(q) /\ (q # r => SameDown(q))
    BY <1>0, <1>1, <1>2 DEF SameUp, SameDown
  <2> QED
    BY <2>1, OthersStill
<1>4. /\ Len(got[r]) < down[r] /\ Head(sBody[r]) = [req |-> r, n |-> Len(got[r]) + 1]
  <2>1. Received(r, got[r], sBody[r]) /\ Len(got[r]) + Len(sBody[r]) <= down[r]
    BY DEF Ordered, DownInv, RemoteInv
  <2>2. got[r] \in Seq(Chunk) /\ down[r] \in Nat
    BY <1>0
  <2> QED
    BY <1>0, <1>1, <2>1, <2>2, NextChunk
<1>5. StreamEnd[Down(r)] = "open"
  BY <1>1, StreamOfDown DEF ReaderEnd
<1>6. Len(StreamOut[Down(r)]) < StreamIn[Down(r)]
  BY <1>4, StreamOfDown
<1>7. StreamOut'[Down(r)] =
        Append(StreamOut[Down(r)], StreamChunk(Down(r), Len(StreamOut[Down(r)]) + 1))
  <2>1. StreamChunk(Down(r), Len(got[r]) + 1) = Head(sBody[r])
    BY <1>4 DEF StreamChunk, Down
  <2>2. got'[r] = Append(got[r], Head(sBody[r]))
    BY <1>0, <1>1
  <2> QED
    BY <2>1, <2>2, StreamOfDown
<1>8. /\ StreamIn'[Down(r)] = StreamIn[Down(r)]
      /\ StreamShut'[Down(r)] = StreamShut[Down(r)]
      /\ StreamEnd'[Down(r)] = StreamEnd[Down(r)]
  BY <1>1, <1>2, StreamOfDown DEF SameDownEnd
<1>9. RelayOf!Read(Down(r))
  BY <1>3, <1>5, <1>6, <1>7, <1>8, RelayReads, Streams
<1> QED
  BY <1>9, Streams DEF RelayStep, RelayOf!RelayNext

\* The same in the client, for the request.
LEMMA LocalPumpRelay ==
    ASSUME Ordered, restarts = 0, NEW r \in Req, LocalPump(r)
    PROVE  RelayStep
<1>0. /\ lgot \in [Req -> Seq(Chunk)] /\ up \in [Req -> Nat] /\ lBody[r] \in Seq(Chunk)
      /\ TypeOK /\ NoPanic /\ EndedInv
  BY OrderedTyped
<1>1. /\ lwp[r] = "run" /\ lBody[r] # << >>
      /\ lgot' = [lgot EXCEPT ![r] = Append(lgot[r], Head(lBody[r]))]
      /\ UNCHANGED <<up, snd, got, down, lcp, lwp, tpc>>
  BY DEF LocalPump, LB!Take, xfer
<1>2. \A q \in Req : SameUpEnd(q) /\ SameDownEnd(q)
  <2>1. RequestNext(r) /\ ~PumpEnd(r) /\ ~LocalPumpEnd(r)
    <3>1. lwp \in [Req -> {"off", "run", "done", "dead"}]
          /\ tpc \in [Req -> {"new", "open", "pump", "wait", "ret", "plain", "dead"}]
      BY OrderedTyped
    <3> QED
      BY <1>1, <3>1 DEF RequestNext, LocalWriter, PumpEnd, LocalPumpEnd
  <2> QED
    BY <1>0, <2>1, RequestKeeps, SameEnds
<1>3. \A y \in Stream : y # Up(r) => Still(y)
  <2>1. \A q \in Req : (q # r => SameUp(q)) /\ SameDown(q)
    BY <1>0, <1>1, <1>2 DEF SameUp, SameDown
  <2> QED
    BY <2>1, OthersStill
<1>4. /\ Len(lgot[r]) < up[r] /\ Head(lBody[r]) = [req |-> r, n |-> Len(lgot[r]) + 1]
  <2>1. Received(r, lgot[r], lBody[r]) /\ Len(lgot[r]) + Len(lBody[r]) <= up[r]
    BY DEF Ordered, UpInv, LocalInv
  <2>2. lgot[r] \in Seq(Chunk) /\ up[r] \in Nat
    BY <1>0
  <2> QED
    BY <1>0, <1>1, <2>1, <2>2, NextChunk
<1>5. StreamEnd[Up(r)] = "open"
  BY <1>1, StreamOfUp DEF ReaderEnd
<1>6. Len(StreamOut[Up(r)]) < StreamIn[Up(r)]
  BY <1>4, StreamOfUp
<1>7. StreamOut'[Up(r)] =
        Append(StreamOut[Up(r)], StreamChunk(Up(r), Len(StreamOut[Up(r)]) + 1))
  <2>1. StreamChunk(Up(r), Len(lgot[r]) + 1) = Head(lBody[r])
    BY <1>4 DEF StreamChunk, Up
  <2>2. lgot'[r] = Append(lgot[r], Head(lBody[r]))
    BY <1>0, <1>1
  <2> QED
    BY <2>1, <2>2, StreamOfUp
<1>8. /\ StreamIn'[Up(r)] = StreamIn[Up(r)]
      /\ StreamShut'[Up(r)] = StreamShut[Up(r)]
      /\ StreamEnd'[Up(r)] = StreamEnd[Up(r)]
  BY <1>1, <1>2, StreamOfUp DEF SameUpEnd
<1>9. RelayOf!Read(Up(r))
  BY <1>3, <1>5, <1>6, <1>7, <1>8, RelayReads, Streams
<1> QED
  BY <1>9, Streams DEF RelayStep, RelayOf!RelayNext

\* When WritePump returns, its stream ends: in order if CLOSE has closed the bridge
\* and it is drained, for then all that was sent has come out.
LEMMA PumpEndRelay ==
    ASSUME Ordered, restarts = 0, NEW r \in Req, PumpEnd(r)
    PROVE  RelayStep
<1>0. /\ tpc \in [Req -> {"new", "open", "pump", "wait", "ret", "plain", "dead"}]
      /\ TypeOK /\ NoPanic /\ EndedInv
      /\ got[r] \in Seq(Chunk) /\ down[r] \in Nat
  BY OrderedTyped
<1>1. /\ tpc[r] = "pump" /\ tpc' = [tpc EXCEPT ![r] = "wait"]
      /\ UNCHANGED <<up, snd, lgot, got, down, lcp, lwp, sBody, sCause, lBody, lCause>>
  BY DEF PumpEnd, brS, brL, local
<1>2. \A y \in Stream : y # Down(r) => Still(y)
  <2>1. \A q \in Req : SameUp(q) /\ (q # r => SameDown(q))
    BY <1>0, <1>1 DEF SameUp, SameDown, SameUpEnd, SameDownEnd
  <2> QED
    BY <2>1, OthersStill
<1>3. StreamEnd[Down(r)] = "open"
  BY <1>1, StreamOfDown DEF ReaderEnd
<1>4. StreamEnd'[Down(r)] = IF sCause[r] = "close" /\ sBody[r] = << >> THEN "eof" ELSE "cut"
  <2>1. tpc'[r] = "wait" /\ sCause'[r] = sCause[r] /\ sBody'[r] = sBody[r]
    BY <1>0, <1>1
  <2> QED
    BY <2>1, StreamOfDown DEF ReaderEnd
<1>5. /\ StreamIn'[Down(r)] = StreamIn[Down(r)]
      /\ StreamShut'[Down(r)] = StreamShut[Down(r)]
      /\ StreamOut'[Down(r)] = StreamOut[Down(r)]
  BY <1>1, StreamOfDown
<1>6. ASSUME sCause[r] = "close", sBody[r] = << >>
      PROVE  StreamShut[Down(r)] /\ Len(StreamOut[Down(r)]) = StreamIn[Down(r)]
  <2>1. lcp[r] \in {"unreg", "done"} /\ Len(got[r]) + Len(sBody[r]) = down[r]
    BY <1>6 DEF Ordered, DownInv, RemoteInv
  <2>2. Len(got[r]) = down[r]
    BY <1>0, <1>6, <2>1
  <2>3. StreamShut[Down(r)] = (lcp[r] \in {"unreg", "done"})
    BY StreamOfDown
  <2>4. StreamShut[Down(r)]
    BY <2>1, <2>3
  <2> QED
    BY <2>2, <2>4, StreamOfDown
<1>7. RelayOf!RelayNext
  <2>1. CASE sCause[r] = "close" /\ sBody[r] = << >>
    BY <1>2, <1>3, <1>4, <1>5, <1>6, <2>1, RelayEnds, Streams
  <2>2. CASE ~(sCause[r] = "close" /\ sBody[r] = << >>)
    BY <1>2, <1>3, <1>4, <1>5, <2>2, RelayEnds, Streams
  <2> QED
    BY <2>1, <2>2
<1> QED
  BY <1>7 DEF RelayStep

\* The same in the client.
LEMMA LocalPumpEndRelay ==
    ASSUME Ordered, restarts = 0, NEW r \in Req, LocalPumpEnd(r)
    PROVE  RelayStep
<1>0. /\ lwp \in [Req -> {"off", "run", "done", "dead"}]
      /\ TypeOK /\ NoPanic /\ EndedInv
      /\ lgot[r] \in Seq(Chunk) /\ up[r] \in Nat
  BY OrderedTyped
<1>1. /\ lwp[r] = "run" /\ lwp' = [lwp EXCEPT ![r] = "done"]
      /\ UNCHANGED <<up, snd, lgot, got, down, lcp, tpc, sBody, sCause, lBody, lCause>>
  BY DEF LocalPumpEnd, brS, brL, xfer
<1>2. \A y \in Stream : y # Up(r) => Still(y)
  <2>1. \A q \in Req : (q # r => SameUp(q)) /\ SameDown(q)
    BY <1>0, <1>1 DEF SameUp, SameDown, SameUpEnd, SameDownEnd
  <2> QED
    BY <2>1, OthersStill
<1>3. StreamEnd[Up(r)] = "open"
  BY <1>1, StreamOfUp DEF ReaderEnd
<1>4. StreamEnd'[Up(r)] = IF lCause[r] = "close" /\ lBody[r] = << >> THEN "eof" ELSE "cut"
  <2>1. lwp'[r] = "done" /\ lCause'[r] = lCause[r] /\ lBody'[r] = lBody[r]
    BY <1>0, <1>1
  <2> QED
    BY <2>1, StreamOfUp DEF ReaderEnd
<1>5. /\ StreamIn'[Up(r)] = StreamIn[Up(r)]
      /\ StreamShut'[Up(r)] = StreamShut[Up(r)]
      /\ StreamOut'[Up(r)] = StreamOut[Up(r)]
  BY <1>1, StreamOfUp
<1>6. ASSUME lCause[r] = "close", lBody[r] = << >>
      PROVE  StreamShut[Up(r)] /\ Len(StreamOut[Up(r)]) = StreamIn[Up(r)]
  <2>1. snd[r] = "done" /\ Len(lgot[r]) + Len(lBody[r]) = up[r]
    BY <1>6 DEF Ordered, UpInv, LocalInv
  <2>2. Len(lgot[r]) = up[r]
    BY <1>0, <1>6, <2>1
  <2>3. StreamShut[Up(r)] = (snd[r] = "done")
    BY StreamOfUp
  <2>4. StreamShut[Up(r)]
    BY <2>1, <2>3
  <2> QED
    BY <2>2, <2>4, StreamOfUp
<1>7. RelayOf!RelayNext
  <2>1. CASE lCause[r] = "close" /\ lBody[r] = << >>
    BY <1>2, <1>3, <1>4, <1>5, <1>6, <2>1, RelayEnds, Streams
  <2>2. CASE ~(lCause[r] = "close" /\ lBody[r] = << >>)
    BY <1>2, <1>3, <1>4, <1>5, <2>2, RelayEnds, Streams
  <2> QED
    BY <2>1, <2>2
<1> QED
  BY <1>7 DEF RelayStep

\* The loss of the client process cuts the requests whose WritePump was running.
LEMMA CrashRelay ==
    ASSUME Ordered, ClientCrash
    PROVE  RelayStep
<1>0. /\ lwp \in [Req -> {"off", "run", "done", "dead"}]
      /\ lcp \in [Req -> {"off", "copy", "unreg", "done", "dead"}]
  BY DEF Ordered, Known, TypeOK, LocalTypeOK
<1>1. /\ UNCHANGED <<up, snd, lgot, got, down, tpc, sBody, sCause, lBody, lCause>>
      /\ lwp' = [r \in Req |-> IF lwp[r] = "run" THEN "dead" ELSE lwp[r]]
      /\ lcp' = [r \in Req |-> IF lcp[r] = "copy" THEN "dead"
                              ELSE IF lcp[r] = "unreg" THEN "done" ELSE lcp[r]]
  BY DEF ClientCrash, brS, xfer
<1>2. \A q \in Req : lcp'[q] \in {"unreg", "done"} <=> lcp[q] \in {"unreg", "done"}
  BY <1>0, <1>1
<1>3. \A q \in Req : Still(Down(q))
  BY <1>1, <1>2, StillStreams DEF SameDown, SameDownEnd
<1>4. \A q \in Req : lwp[q] # "run" => Still(Up(q))
  BY <1>1, StillStreams DEF SameUp, SameUpEnd
<1>5. ASSUME NEW q \in Req, lwp[q] = "run"
      PROVE  /\ StreamEnd[Up(q)] = "open" /\ StreamEnd'[Up(q)] = "cut"
             /\ StreamIn'[Up(q)] = StreamIn[Up(q)] /\ StreamShut'[Up(q)] = StreamShut[Up(q)]
             /\ StreamOut'[Up(q)] = StreamOut[Up(q)]
  <2>1. lwp'[q] = "dead"
    BY <1>1, <1>5
  <2> QED
    BY <1>1, <1>5, <2>1, StreamOfUp DEF ReaderEnd
<1> DEFINE X == {x \in Stream : \E q \in Req : x = Up(q) /\ lwp[q] = "run"}
<1>6. X \in SUBSET Stream
  OBVIOUS
<1>7. \A x \in X : StreamEnd[x] = "open" /\ StreamEnd'[x] = "cut"
  BY <1>5
<1>8. \A y \in Stream : /\ y \notin X => StreamEnd'[y] = StreamEnd[y]
                        /\ StreamIn'[y] = StreamIn[y] /\ StreamShut'[y] = StreamShut[y]
                        /\ StreamOut'[y] = StreamOut[y]
  BY <1>3, <1>4, <1>5, Streams DEF Still
<1> HIDE DEF X
<1> QED
  BY <1>6, <1>7, <1>8, RelayCuts DEF RelayStep

\* As long as the server process lives, the relay is for each direction of each
\* request a pipe that may be cut and never lies: no chunk is lost before one that
\* comes out, and a clean end means that everything has come out.
THEOREM RelayRefined == Spec /\ [](restarts = 0) => ImplementsRelay
<1>1. Init => RelayOf!RelayInit
  <2> SUFFICES ASSUME Init
               PROVE  RelayOf!RelayInit
    OBVIOUS
  <2>1. \A x \in Stream : StreamIn[x] = 0 /\ StreamShut[x] = FALSE
                          /\ StreamOut[x] = << >> /\ StreamEnd[x] = "open"
    <3>1. ASSUME NEW r \in Req
          PROVE  /\ up[r] = 0 /\ down[r] = 0 /\ lgot[r] = << >> /\ got[r] = << >>
                 /\ snd[r] = "off" /\ lcp[r] = "off" /\ tpc[r] = "new" /\ lwp[r] = "off"
      BY DEF Init
    <3>2. ASSUME NEW r \in Req
          PROVE  /\ StreamIn[Up(r)] = 0 /\ StreamShut[Up(r)] = FALSE
                 /\ StreamOut[Up(r)] = << >> /\ StreamEnd[Up(r)] = "open"
      <4>1. (snd[r] = "done") = FALSE
        BY <3>1
      <4> QED
        BY <3>1, <4>1, StreamOfUp DEF ReaderEnd
    <3>3. ASSUME NEW r \in Req
          PROVE  /\ StreamIn[Down(r)] = 0 /\ StreamShut[Down(r)] = FALSE
                 /\ StreamOut[Down(r)] = << >> /\ StreamEnd[Down(r)] = "open"
      <4>1. (lcp[r] \in {"unreg", "done"}) = FALSE
        BY <3>1
      <4>2. ReaderEnd(tpc[r], sCause[r], sBody[r]) = "open"
        BY <3>1 DEF ReaderEnd
      <4> QED
        BY <3>1, <4>1, <4>2, StreamOfDown
    <3> SUFFICES ASSUME NEW x \in Stream
                 PROVE  /\ StreamIn[x] = 0 /\ StreamShut[x] = FALSE
                        /\ StreamOut[x] = << >> /\ StreamEnd[x] = "open"
      OBVIOUS
    <3>4. PICK r \in Req : x = Up(r) \/ x = Down(r)
      BY Streams
    <3> QED
      BY <3>2, <3>3, <3>4
  <2>2. /\ StreamIn = [x \in Stream |-> 0] /\ StreamShut = [x \in Stream |-> FALSE]
        /\ StreamOut = [x \in Stream |-> << >>] /\ StreamEnd = [x \in Stream |-> "open"]
    BY <2>1 DEF StreamIn, StreamShut, StreamOut, StreamEnd
  <2> QED
    BY <2>2 DEF RelayOf!RelayInit
<1>2. ASSUME Ordered, [Next]_vars, restarts = 0, (restarts = 0)'
      PROVE  RelayStep
  <2>1. ASSUME NEW s \in Session, SessionNext(s)
        PROVE  RelayStep
    BY <1>2, <2>1, SessionRelay
  <2>2. ASSUME NEW r \in Req, RequestNext(r)
        PROVE  RelayStep
    BY <1>2, <2>2, QuietRelay, SendRelay, AnswerRelay, PumpRelay, LocalPumpRelay,
       PumpEndRelay, LocalPumpEndRelay
    DEF RequestNext, Transfer, Sender, LocalWriter, LocalCopier
  <2>3. CASE ClientCrash
    BY <1>2, <2>3, CrashRelay
  <2>4. ~ServerRestart
    BY <1>2, RestartsCount DEF Ordered, Known
  <2>5. CASE UNCHANGED vars
    <3>1. \A q \in Req : SameUp(q) /\ SameDown(q)
      BY <2>5 DEF vars, brS, brL, xfer, local, SameUp, SameDown, SameUpEnd, SameDownEnd
    <3>2. \A y \in Stream : Still(y)
      <4> SUFFICES ASSUME NEW y \in Stream
                   PROVE  Still(y)
        OBVIOUS
      <4>1. PICK q \in Req : y = Up(q) \/ y = Down(q)
        BY Streams
      <4> QED
        BY <3>1, <4>1, StillStreams
    <3> QED
      BY <3>2, RelayStutters DEF RelayStep
  <2> QED
    BY <1>2, <2>1, <2>2, <2>3, <2>4, <2>5 DEF Next
<1>3. RelayStep => [RelayOf!RelayNext]_(RelayOf!relayVars)
  BY DEF RelayStep
<1>4. Spec => []Ordered
  <2>1. Spec => []Known
    BY TypeCorrect, ChannelSafety, BridgesHaveOwners, SessionsAreFresh, IdsAreUnique, PTL DEF Known
  <2> QED
    BY <2>1, UpInOrder, DownInOrder, EndsLast, PTL DEF Ordered
<1> QED
  BY <1>1, <1>2, <1>3, <1>4, PTL DEF Spec, ImplementsRelay, RelayOf!RelaySpec
=============================================================================
