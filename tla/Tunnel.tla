------------------------------- MODULE Tunnel -------------------------------
(***************************************************************************)
(* The plain forwarding path of one client connection: tunnel.transfer and  *)
(* tunnel.copyBuffer (proto/tunnel.go) with HTTP keep-alive (proto/keep.go). *)
(*                                                                         *)
(* A transfer joins the client's connection to one connection to a server.  *)
(* It runs two goroutines: the request copier, client -> server, and the    *)
(* server copier, server -> client, which is the goroutine that called      *)
(* transfer.  When the request copier recognises the header of a further    *)
(* request it closes the server's write side and stops; the server copier   *)
(* takes the EOF that the server answers with as the end of the response    *)
(* and calls KeepHandler, which serves the further request by a transfer of *)
(* its own, one level deeper, to a server of its own.                       *)
(*                                                                         *)
(* Level 0 is ClientHandler, which is to the first request what KeepHandler *)
(* is to the others.  The goroutines share curState, buf and the sockets    *)
(* without synchronisation, so each access to them is a step.               *)
(*                                                                         *)
(* Data is cut into parts: part 0 of a request is its header, the others    *)
(* are what follows it.  A Read returns any number of the parts that have   *)
(* arrived.  That a header may arrive in two Reads is left out here.        *)
(***************************************************************************)
EXTENDS Integers, Sequences

CONSTANTS
    MaxReq,         \* bound: requests the client sends on the connection
    MaxBody,        \* bound: parts that follow a header
    Pipelining,     \* TRUE if the client may send a request before the last is answered
    MaxReset        \* bound: server connections that break or cannot be made

ASSUME TunnelAssumption ==
    /\ MaxReq \in Nat \ {0} /\ MaxBody \in Nat /\ MaxReset \in Nat
    /\ Pipelining \in BOOLEAN

Reqs == 1 .. MaxReq
Level == 0 .. MaxReq        \* the transfer at level k > 0 has s.conn = server k
Part == [req : Reqs, part : 0 .. MaxBody]

VARIABLES
    kind,       \* kind[i]: "plain", "long" or "upgrade", see the client below
    len,        \* len[i]: the Content-Length of a plain request, in parts
    sent,       \* the last part the client has sent
    inbox,      \* parts that have arrived on the client's connection
    cfin,       \* the client has closed its side
    copen,      \* the proxy has not closed the client's connection
    got,        \* the requests whose responses the client has received
    rpc,        \* rpc[k]: the request copier of level k
    spc,        \* spc[k]: the goroutine of transfer, of KeepHandler, at level k
    curState,   \* curState[k]
    unread,     \* unread[k]: clientUnRead
    data,       \* data[k]: buf[0:nr], what the request copier read last
    buf,        \* buf[k]: s.buf as "nil", "blank" (made, not copied to) or "full"
    toSrv,      \* toSrv[k]: what was written to server k
    wfin,       \* wfin[k]: s.conn.CloseWrite() was called
    answered,   \* answered[k]: the requests server k has answered
    fromSrv,    \* fromSrv[k]: responses on their way from server k
    srv,        \* srv[k]: "open", "fin" (it closed) or "reset" (the connection broke)
    resets      \* connections to servers that broke or could not be made

client == <<kind, len, sent>>
wires  == <<inbox, cfin, copen, got>>
procs  == <<rpc, spc, curState, unread, data, buf>>
server == <<toSrv, wfin, answered, fromSrv, srv, resets>>
vars   == <<client, wires, procs, server>>

NoPart == [req |-> 0, part |-> 0]

TypeOK ==
    /\ kind \in [Reqs -> {"plain", "long", "upgrade"}]
    /\ len \in [Reqs -> 0 .. MaxBody]
    /\ sent \in Part \cup {NoPart}
    /\ inbox \in Seq(Part) /\ cfin \in BOOLEAN /\ copen \in BOOLEAN
    /\ got \in Seq(Reqs) /\ Len(got) <= MaxReq
    /\ rpc \in [Level -> {"off", "read", "idle", "make", "copy", "close", "done"}]
    /\ spc \in [Level -> {"off", "read", "keep", "nested", "wait", "ret"}]
    /\ curState \in [Level -> {"new", "active", "closed", "idle"}]
    /\ unread \in [Level -> Int]
    /\ data \in [Level -> Seq(Part)]
    /\ buf \in [Level -> {"nil", "blank", "full"}]
    /\ toSrv \in [Level -> Seq(Part)]
    /\ wfin \in [Level -> BOOLEAN]
    /\ answered \in [Level -> SUBSET Reqs]
    /\ fromSrv \in [Level -> Seq(Reqs)]
    /\ srv \in [Level -> {"open", "fin", "reset"}]
    /\ resets \in 0 .. MaxReset

Init ==
    /\ kind = [i \in Reqs |-> "plain"] /\ len = [i \in Reqs |-> 0]
    /\ sent = NoPart
    /\ inbox = << >> /\ cfin = FALSE /\ copen = TRUE /\ got = << >>
    /\ rpc = [k \in Level |-> IF k = 0 THEN "done" ELSE "off"]
    /\ spc = [k \in Level |-> IF k = 0 THEN "keep" ELSE "off"]
    /\ curState = [k \in Level |-> "new"]
    /\ unread = [k \in Level |-> 0]
    /\ data = [k \in Level |-> << >>]
    /\ buf = [k \in Level |-> "nil"]
    /\ toSrv = [k \in Level |-> << >>]
    /\ wfin = [k \in Level |-> FALSE]
    /\ answered = [k \in Level |-> {}]
    /\ fromSrv = [k \in Level |-> << >>]
    /\ srv = [k \in Level |-> "open"]
    /\ resets = 0

----------------------------------------------------------------------------
(* The client.  It sends its requests in order, each of one of three kinds: *)
(* "plain" has a Content-Length (0 if it has none); "long" is one that      *)
(* readBody takes for a long connection (chunked, Upgrade, HTTP/1.0);       *)
(* "upgrade" looks like a plain request without body, but once it is        *)
(* answered the connection carries raw data.                                *)

Answered(i) == \E j \in DOMAIN got : got[j] = i

\* The number of parts after the header that the client may send by now.
Following(i) ==
    CASE kind[i] = "plain" -> len[i]
      [] kind[i] = "long" -> MaxBody
      [] OTHER -> IF Answered(i) THEN MaxBody ELSE 0

Arrive(p) ==
    /\ ~cfin /\ copen
    /\ sent' = p
    /\ inbox' = Append(inbox, p)
    /\ UNCHANGED <<cfin, copen, got, procs, server>>

SendHeader ==
    /\ sent.req < MaxReq
    /\ sent.req > 0 =>
        /\ kind[sent.req] = "plain" /\ sent.part = len[sent.req]
        /\ Pipelining \/ Answered(sent.req)
    /\ \E kd \in {"plain", "long", "upgrade"}, n \in 0 .. MaxBody :
        /\ kd # "plain" => n = 0
        /\ kind' = [kind EXCEPT ![sent.req + 1] = kd]
        /\ len' = [len EXCEPT ![sent.req + 1] = n]
    /\ Arrive([req |-> sent.req + 1, part |-> 0])

SendPart ==
    /\ sent.req > 0 /\ sent.part < Following(sent.req)
    /\ Arrive([sent EXCEPT !.part = @ + 1])
    /\ UNCHANGED <<kind, len>>

ClientClose ==
    /\ ~cfin /\ cfin' = TRUE
    /\ UNCHANGED <<client, inbox, copen, got, procs, server>>

----------------------------------------------------------------------------
(* The servers.                                                            *)

Has(k, p) == \E j \in DOMAIN toSrv[k] : toSrv[k][j] = p

\* The requests that have arrived at server k as far as it needs to answer.
Complete(k) ==
    {i \in Reqs : /\ Has(k, [req |-> i, part |-> 0])
                  /\ kind[i] = "plain" => Has(k, [req |-> i, part |-> len[i]])}

Answer(k) ==
    /\ srv[k] = "open"
    /\ \E i \in Complete(k) \ answered[k] :
        /\ \A j \in Complete(k) \ answered[k] : i <= j
        /\ answered' = [answered EXCEPT ![k] = @ \cup {i}]
        /\ fromSrv' = [fromSrv EXCEPT ![k] = Append(@, i)]
    /\ UNCHANGED <<client, wires, procs, toSrv, wfin, srv, resets>>

\* A server may close when it likes, before it has answered too.
ServerClose(k) ==
    /\ srv[k] = "open" /\ toSrv[k] # << >>
    /\ srv' = [srv EXCEPT ![k] = "fin"]
    /\ UNCHANGED <<client, wires, procs, toSrv, wfin, answered, fromSrv, resets>>

\* The connection to a server breaks: what was on its way is lost.
Break(k) ==
    /\ resets < MaxReset /\ srv[k] = "open" /\ toSrv[k] # << >>
    /\ resets' = resets + 1
    /\ srv' = [srv EXCEPT ![k] = "reset"]
    /\ fromSrv' = [fromSrv EXCEPT ![k] = << >>]
    /\ UNCHANGED <<client, wires, procs, toSrv, wfin, answered>>

----------------------------------------------------------------------------
(* ClientHandler (level 0) and KeepHandler: serve the request that d begins *)
(* with by a transfer one level deeper.                                    *)

IsHttp(d) == d[1].part = 0

\* readBody: how many of the parts in the reader's buffer go out with the
\* header, and clientUnRead.
BodyBuf(d) ==
    LET i == d[1].req
    IN  CASE kind[i] = "long" -> Len(d) - 1
          [] kind[i] = "plain" -> IF len[i] < Len(d) - 1 THEN len[i] ELSE Len(d) - 1
          [] OTHER -> 0

ClientUnRead(d) ==
    LET i == d[1].req
    IN  IF kind[i] = "long" THEN -1 ELSE len[i] - BodyBuf(d)

Rest(d, n) == SubSeq(d, n + 1, Len(d))

\* Wrong variant: what the reader has buffered beyond the request is dropped.
Serve_DropsRest(k, d, more) ==
    /\ spc' = [spc EXCEPT ![k] = "nested", ![k + 1] = "read"]
    /\ rpc' = [rpc EXCEPT ![k + 1] = "read"]
    /\ curState' = [curState EXCEPT ![k + 1] = "active"]
    /\ unread' = [unread EXCEPT ![k + 1] = ClientUnRead(d)]
    /\ toSrv' = [toSrv EXCEPT ![k + 1] = SubSeq(d, 1, BodyBuf(d) + 1)]
    /\ inbox' = more
    /\ UNCHANGED <<client, cfin, copen, got, data, buf, wfin, answered, fromSrv, srv, resets>>

\* httpStream.response: handshake, header and buffered body, transfer.  What is
\* left of d stays in the reader that the request copier goes on with.
Serve(k, d, more) ==
    /\ spc' = [spc EXCEPT ![k] = "nested", ![k + 1] = "read"]
    /\ rpc' = [rpc EXCEPT ![k + 1] = "read"]
    /\ curState' = [curState EXCEPT ![k + 1] = "active"]
    /\ unread' = [unread EXCEPT ![k + 1] = ClientUnRead(d)]
    /\ toSrv' = [toSrv EXCEPT ![k + 1] = SubSeq(d, 1, BodyBuf(d) + 1)]
    /\ inbox' = Rest(d, BodyBuf(d) + 1) \o more
    /\ UNCHANGED <<client, cfin, copen, got, data, buf, wfin, answered, fromSrv, srv, resets>>

\* The handler returns without a transfer; transfer then waits for done.
GiveUp(k, more) ==
    /\ spc' = [spc EXCEPT ![k] = "wait"]
    /\ inbox' = more
    /\ UNCHANGED <<client, cfin, copen, got, rpc, curState, unread, data, buf, server>>

\* KeepHandler with the copy of what the request copier had read.
HandleBuf(k) ==
    /\ spc[k] = "keep" /\ buf[k] = "full"
    /\ Serve(k, data[k], inbox)

\* KeepHandler came too early.  If s.buf has been made but not filled it sees
\* zeros, which are no HTTP; if s.buf is still nil its reader has no room, and
\* Peek(1) fails without a look at the connection.
HandleBlank(k) ==
    /\ k > 0 /\ spc[k] = "keep" /\ buf[k] # "full"
    /\ GiveUp(k, inbox)

\* ClientHandler: the first request is read from the connection.
HandleConn(k) ==
    /\ k = 0 /\ spc[k] = "keep"
    /\ \/ \E n \in 1 .. Len(inbox) :
            LET d == SubSeq(inbox, 1, n)
                more == Rest(inbox, n)
            IN  IF IsHttp(d) THEN Serve(k, d, more) ELSE GiveUp(k, more)
       \/ inbox = << >> /\ cfin /\ GiveUp(k, inbox)

\* The handshake fails, and the handler gives the request up.
HandshakeFails(k) ==
    /\ spc[k] = "keep" /\ resets < MaxReset
    /\ resets' = resets + 1
    /\ \/ buf[k] = "full" /\ UNCHANGED inbox
       \/ /\ k = 0
          /\ \E n \in 1 .. Len(inbox) :
                IsHttp(SubSeq(inbox, 1, n)) /\ inbox' = Rest(inbox, n)
    /\ spc' = [spc EXCEPT ![k] = "wait"]
    /\ UNCHANGED <<client, cfin, copen, got, rpc, curState, unread, data, buf, toSrv, wfin,
                   answered, fromSrv, srv>>

\* The transfer one level deeper, and with it KeepHandler, has returned.
NestedReturns(k) ==
    /\ spc[k] = "nested" /\ spc[k + 1] = "ret"
    /\ spc' = [spc EXCEPT ![k] = "wait"]
    /\ UNCHANGED <<client, wires, rpc, curState, unread, data, buf, server>>

\* `<-done`.  When the handler of the connection returns, conn.serve closes it.
Return(k) ==
    /\ spc[k] = "wait" /\ rpc[k] = "done"
    /\ spc' = [spc EXCEPT ![k] = "ret"]
    /\ copen' = (copen /\ k > 0)
    /\ UNCHANGED <<client, inbox, cfin, got, rpc, curState, unread, data, buf, server>>

----------------------------------------------------------------------------
(* copyBuffer(s.conn, s.req.reader, "request").                            *)

\* A write to server k, and the loop goes on or breaks.  A write to a connection
\* that is gone may still seem to succeed.
Forward(k, d) ==
    \/ /\ srv[k] = "open"
       /\ toSrv' = [toSrv EXCEPT ![k] = @ \o d]
       /\ UNCHANGED rpc
    \/ /\ srv[k] # "open"
       /\ rpc' \in {rpc, [rpc EXCEPT ![k] = "done"]}
       /\ UNCHANGED toSrv

\* Wrong variant: a part too few is subtracted.
Count_OffByOne(u, n) == IF u > 0 THEN u - n + 1 ELSE IF u = 0 THEN -1 ELSE u

\* clientUnRead after a Read of n parts that is no further request.
Count(u, n) == IF u > 0 THEN u - n ELSE IF u = 0 THEN -1 ELSE u

ReadBody(k) ==
    /\ rpc[k] = "read" /\ copen
    /\ \E n \in 1 .. Len(inbox) :
        LET d == SubSeq(inbox, 1, n)
        IN  /\ ~(unread[k] = 0 /\ IsHttp(d))
            /\ inbox' = Rest(inbox, n)
            /\ unread' = [unread EXCEPT ![k] = Count(@, n)]
            /\ Forward(k, d)
    /\ UNCHANGED <<client, cfin, copen, got, spc, curState, data, buf, wfin, answered,
                   fromSrv, srv, resets>>

\* The body has been read and a header follows: s.conn.CloseWrite() ...
ReadNext(k) ==
    /\ rpc[k] = "read" /\ copen /\ unread[k] = 0
    /\ \E n \in 1 .. Len(inbox) :
        LET d == SubSeq(inbox, 1, n)
        IN  /\ IsHttp(d)
            /\ inbox' = Rest(inbox, n)
            /\ data' = [data EXCEPT ![k] = d]
    /\ wfin' = [wfin EXCEPT ![k] = TRUE]
    /\ rpc' = [rpc EXCEPT ![k] = "idle"]
    /\ UNCHANGED <<client, cfin, copen, got, spc, curState, unread, buf, toSrv, answered,
                   fromSrv, srv, resets>>

\* ... s.curState = stateIdle ...
SetIdle(k) ==
    /\ rpc[k] = "idle"
    /\ curState' = [curState EXCEPT ![k] = "idle"]
    /\ rpc' = [rpc EXCEPT ![k] = "make"]
    /\ UNCHANGED <<client, wires, spc, unread, data, buf, server>>

\* ... s.buf = make([]byte, nr) ...
MakeBuf(k) ==
    /\ rpc[k] = "make"
    /\ buf' = [buf EXCEPT ![k] = "blank"]
    /\ rpc' = [rpc EXCEPT ![k] = "copy"]
    /\ UNCHANGED <<client, wires, spc, curState, unread, data, server>>

\* Wrong variant: without the break.
CopyBuf_GoesOn(k) ==
    /\ rpc[k] = "copy"
    /\ buf' = [buf EXCEPT ![k] = "full"]
    /\ rpc' = [rpc EXCEPT ![k] = "read"]
    /\ UNCHANGED <<client, wires, spc, curState, unread, data, server>>

\* ... copy(s.buf, buf[0:nr]), break, and done is closed.
CopyBuf(k) ==
    /\ rpc[k] = "copy"
    /\ buf' = [buf EXCEPT ![k] = "full"]
    /\ rpc' = [rpc EXCEPT ![k] = "done"]
    /\ UNCHANGED <<client, wires, spc, curState, unread, data, server>>

\* Wrong variant: the server is not told that the request has ended.
ReadEnds_NoCloseWrite(k) ==
    /\ rpc[k] = "read"
    /\ (inbox = << >> /\ cfin) \/ ~copen
    /\ rpc' = [rpc EXCEPT ![k] = "close"]
    /\ UNCHANGED <<client, wires, spc, curState, unread, data, buf, server>>

\* Read returns EOF or an error: s.conn.CloseWrite() ...
ReadEnds(k) ==
    /\ rpc[k] = "read"
    /\ (inbox = << >> /\ cfin) \/ ~copen
    /\ wfin' = [wfin EXCEPT ![k] = TRUE]
    /\ rpc' = [rpc EXCEPT ![k] = "close"]
    /\ UNCHANGED <<client, wires, spc, curState, unread, data, buf, toSrv, answered, fromSrv,
                   srv, resets>>

\* ... s.curState = stateClosed, break, and done is closed.
SetClosed(k) ==
    /\ rpc[k] = "close"
    /\ curState' = [curState EXCEPT ![k] = "closed"]
    /\ rpc' = [rpc EXCEPT ![k] = "done"]
    /\ UNCHANGED <<client, wires, spc, unread, data, buf, server>>

----------------------------------------------------------------------------
(* copyBuffer(s.req.conn, tcp.NewReader(s.conn), "server").                *)

\* Wrong variant: a response is written and stays in the buffer.
Response_Repeats(k) ==
    /\ spc[k] = "read" /\ fromSrv[k] # << >> /\ copen
    /\ got' = Append(got, Head(fromSrv[k]))
    /\ UNCHANGED <<client, inbox, cfin, copen, procs, server>>

\* A response to the client.  The write fails when the client has gone.
Response(k) ==
    /\ spc[k] = "read" /\ fromSrv[k] # << >>
    /\ fromSrv' = [fromSrv EXCEPT ![k] = Tail(@)]
    /\ \/ copen /\ got' = Append(got, Head(fromSrv[k])) /\ UNCHANGED spc
       \/ cfin /\ spc' = [spc EXCEPT ![k] = "wait"] /\ UNCHANGED got
    /\ UNCHANGED <<client, inbox, cfin, copen, rpc, curState, unread, data, buf, toSrv, wfin,
                   answered, srv, resets>>

AtEof(k) == spc[k] = "read" /\ fromSrv[k] = << >> /\ srv[k] = "fin"

\* Wrong variant: the connection is reused as soon as the request copier asks.
EofIdle_Early(k) ==
    /\ spc[k] = "read" /\ curState[k] = "idle"
    /\ spc' = [spc EXCEPT ![k] = "keep"]
    /\ UNCHANGED <<client, wires, rpc, curState, unread, data, buf, server>>

\* EOF, stateIdle: KeepHandler.
EofIdle(k) ==
    /\ AtEof(k) /\ curState[k] = "idle"
    /\ spc' = [spc EXCEPT ![k] = "keep"]
    /\ UNCHANGED <<client, wires, rpc, curState, unread, data, buf, server>>

\* Wrong variant: the client's connection stays open.
EofActive_NoClose(k) ==
    /\ AtEof(k) /\ curState[k] = "active"
    /\ spc' = [spc EXCEPT ![k] = "wait"]
    /\ UNCHANGED <<client, wires, rpc, curState, unread, data, buf, server>>

\* EOF that the client did not cause: its connection is closed, which ends the
\* request copier's Read.
EofActive(k) ==
    /\ AtEof(k) /\ curState[k] = "active"
    /\ copen' = FALSE
    /\ spc' = [spc EXCEPT ![k] = "wait"]
    /\ UNCHANGED <<client, inbox, cfin, got, rpc, curState, unread, data, buf, server>>

\* EOF after the client has closed, or any other error: nothing is done.
ServerEnds(k) ==
    /\ \/ AtEof(k) /\ curState[k] = "closed"
       \/ spc[k] = "read" /\ srv[k] = "reset"
    /\ spc' = [spc EXCEPT ![k] = "wait"]
    /\ UNCHANGED <<client, wires, rpc, curState, unread, data, buf, server>>

----------------------------------------------------------------------------
RequestCopier(k) ==
    \/ ReadBody(k) \/ ReadNext(k) \/ SetIdle(k) \/ MakeBuf(k) \/ CopyBuf(k)
    \/ ReadEnds(k) \/ SetClosed(k)

\* The goroutine of transfer, and of the handler it calls.
Transfer(k) ==
    \/ Response(k) \/ EofIdle(k) \/ EofActive(k) \/ ServerEnds(k)
    \/ (k < MaxReq /\ (HandleBuf(k) \/ HandleConn(k) \/ HandshakeFails(k) \/ NestedReturns(k)))
    \/ HandleBlank(k) \/ Return(k)

Client == SendHeader \/ SendPart \/ ClientClose
Server(k) == Answer(k) \/ ServerClose(k) \/ Break(k)

Next == Client \/ \E k \in Level : RequestCopier(k) \/ Transfer(k) \/ Server(k)

Spec == Init /\ [][Next]_vars

\* The proxy's goroutines run.  A server answers what it has received, and when
\* the proxy has closed its side and everything is answered the server closes.
\* Clients owe nothing: they may stay connected and silent for ever.
Fairness ==
    \A k \in Level :
        /\ WF_vars(RequestCopier(k)) /\ WF_vars(Transfer(k))
        /\ WF_vars(Answer(k))
        /\ WF_vars(wfin[k] /\ Complete(k) \subseteq answered[k] /\ ServerClose(k))

FairSpec == Spec /\ Fairness

----------------------------------------------------------------------------
\* At most one goroutine reads the client's connection: the request copiers of
\* the nested transfers and the handlers of the next request take turns.
SingleReader ==
    LET copiers == {k \in Level : rpc[k] = "read"}
        handlers == {k \in Level : spc[k] = "keep" /\ (k = 0 \/ buf[k] = "full")}
    IN  /\ copiers # {} => handlers = {}
        /\ \A j, k \in copiers : j = k
        /\ \A j, k \in handlers : j = k

\* A server sees a piece of the client's stream without a gap, a repetition or a
\* permutation, beginning with a header; no part goes to two servers.
WholeRequests ==
    /\ \A k \in Level : toSrv[k] # << >> => IsHttp(toSrv[k])
    /\ \A k \in Level : \A j \in 1 .. Len(toSrv[k]) - 1 :
        LET p == toSrv[k][j]  q == toSrv[k][j + 1]
        IN  \/ q.req = p.req /\ q.part = p.part + 1
            \/ q.req = p.req + 1 /\ q.part = 0
    /\ \A j, k \in Level : \A p \in Part : Has(j, p) /\ Has(k, p) => j = k

\* tunnel.go:154: the EOF that starts the reuse means that the response is
\* complete.  Whatever a server answered has been passed on before a transfer one
\* level deeper may write to the client.
HandoverAfterResponse ==
    \A k \in Level \ {0} :
        spc[k] \in {"keep", "nested"} =>
            fromSrv[k] = << >> /\ \A i \in answered[k] : Answered(i)

\* clientUnRead counts what is left of the request's body: the part that is read
\* next is the one the counter stands for.
BodyCounted ==
    \A k \in Level :
        (rpc[k] = "read" /\ unread[k] > 0 /\ inbox # << >>) =>
            LET i == toSrv[k][1].req
            IN  Head(inbox) = [req |-> i, part |-> len[i] - unread[k] + 1]

\* When the client has closed, the handler returns: no goroutine is left waiting
\* for a server that waits for the client (tunnel.go:171).
ClientGoneReturns == cfin ~> spc[0] = "ret"

\* When a server closes, its transfer returns or reuses the client's connection,
\* even if the client stays silent.
ServerClosedReturns ==
    \A k \in Level : srv[k] = "fin" ~> (spc[k] \in {"keep", "nested", "ret"})

\* tunnel.go:210 says of transfer: whether it ends normally or not, once the
\* server has ended the function returns and the connection is closed.
ReturnsOnceServerEnded ==
    \A k \in Level : srv[k] = "reset" ~> spc[k] \in {"nested", "ret"}

\* tunnel.go:108 and 156: while a connection is being reused the client is not
\* closed, and the reuse carries the buffer read before.
ReuseServed ==
    \A k \in Level :
        /\ rpc[k] \in {"idle", "make", "copy"} => copen
        /\ (k > 0 /\ spc[k] = "keep") => buf[k] = "full"

\* README.md:172: one connection may carry requests to different hosts.  A server
\* gets the request it was dialled for and no other.
OwnServer ==
    \A k \in Level : \A j \in DOMAIN toSrv[k] : toSrv[k][j].req = toSrv[k][1].req
=============================================================================
