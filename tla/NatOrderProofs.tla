-------------------------- MODULE NatOrderProofs --------------------------
(***************************************************************************)
(* Order and ownership in the NAT relay: what either end of a request gets *)
(* is a prefix of what the other sent, whatever the number of requests,    *)
(* sessions, failures and messages, as long as the server process is not   *)
(* restarted (its ids start again from 1 then).                            *)
(*                                                                         *)
(* A message on its way waits in the channel of its session or on the      *)
(* wire.  The two together are the road of the session towards one end.     *)
(* A road is lost as a whole or from its rear only, and what remains of a   *)
(* request on it are consecutive messages, the first of which is the one    *)
(* that the bridge at the end of the road expects.                         *)
(***************************************************************************)
EXTENDS NatProofs

----------------------------------------------------------------------------
(* Roads, of any messages.                                                 *)

\* What may still arrive at end e of session s, when q waits in the channel of the
\* other end: nothing once e has closed its socket, and nothing more once the other
\* end has.
Road(e, s, q) ==
    IF conn[e][s] # "open" THEN << >>
    ELSE IF conn[Peer(e)][s] # "open" THEN wire[e][s] ELSE wire[e][s] \o q

Of(Q, i, r) == i \in 1 .. Len(Q) /\ Q[i].body.req = r

\* A message of request r with number k can come at place i of the road Q: its
\* predecessor is on the road before it, or it is the one that is expected, seen[r],
\* if anybody expects something of r, which is then in live.
Follows(Q, i, r, k, seen, live) ==
    \/ \E j \in 1 .. i - 1 : Of(Q, j, r) /\ Q[j].body.n + 1 = k
    \/ r \in live => seen[r] = k

RoadOK(Q, seen, live) ==
    /\ \A r \in Req : \A i, j \in 1 .. Len(Q) :
            i < j /\ Of(Q, i, r) /\ Of(Q, j, r) => Q[i].body.n < Q[j].body.n
    /\ \A i \in 1 .. Len(Q) : Follows(Q, i, Q[i].body.req, Q[i].body.n, seen, live)

\* P is what is left of the road Q when its rear, or all of it, is lost.
Cuts(P, Q) ==
    /\ P \in Seq(Message) /\ Len(P) <= Len(Q)
    /\ \A i \in 1 .. Len(P) : P[i] = Q[i]

\* P is what is left of the road Q when its first message, h, has been taken.
Without(P, Q, h) ==
    /\ P \in Seq(Message) /\ Len(P) + 1 = Len(Q)
    /\ h \in Message /\ h = Q[1]
    /\ \A i \in 1 .. Len(P) : P[i] = Q[i + 1]

\* What a message of a road carries.
LEMMA MessageTyped ==
    ASSUME NEW m \in Message
    PROVE  /\ m.body.req \in Req /\ m.body.n \in Nat /\ m.method \in Method
           /\ m.body = [req |-> m.body.req, n |-> m.body.n]
  BY DEF Message, Chunk

\* The next message of a request can be put at the end of a road (Broadcast),
\* and the one after it could follow.
LEMMA RoadAppend ==
    ASSUME NEW Q \in Seq(Message), NEW m \in Message, NEW seen, NEW live,
           RoadOK(Q, seen, live),
           Follows(Q, Len(Q) + 1, m.body.req, m.body.n, seen, live),
           \A i \in 1 .. Len(Q) : Of(Q, i, m.body.req) => Q[i].body.n < m.body.n
    PROVE  /\ RoadOK(Append(Q, m), seen, live)
           /\ Follows(Append(Q, m), Len(Q) + 2, m.body.req, m.body.n + 1, seen, live)
           /\ \A r, k : Follows(Q, Len(Q) + 1, r, k, seen, live) =>
                            Follows(Append(Q, m), Len(Q) + 2, r, k, seen, live)
<1> DEFINE P == Append(Q, m)
<1>1. /\ Len(Q) \in Nat /\ Len(P) = Len(Q) + 1
      /\ \A i \in 1 .. Len(Q) : P[i] = Q[i]
      /\ P[Len(Q) + 1] = m
  OBVIOUS
<1>2. \A i, r : Of(Q, i, r) => Of(P, i, r) /\ P[i].body.n = Q[i].body.n
  BY <1>1 DEF Of
<1>3. \A i, r : Of(P, i, r) => Of(Q, i, r) \/ (i = Len(Q) + 1 /\ r = m.body.req)
  BY <1>1 DEF Of
<1> HIDE DEF P
<1>4. \A r, k : \A i \in 1 .. Len(Q) + 1 :
            Follows(Q, i, r, k, seen, live) => Follows(P, i, r, k, seen, live)
  BY <1>1, <1>2 DEF Follows
<1>5. \A r, k : Follows(Q, Len(Q) + 1, r, k, seen, live) =>
                    Follows(P, Len(Q) + 2, r, k, seen, live)
  BY <1>1, <1>2 DEF Follows
<1>6. Follows(P, Len(Q) + 2, m.body.req, m.body.n + 1, seen, live)
  BY <1>1 DEF Follows, Of
<1>7. ASSUME NEW r \in Req, NEW i \in 1 .. Len(P), NEW j \in 1 .. Len(P),
             i < j, Of(P, i, r), Of(P, j, r)
      PROVE  P[i].body.n < P[j].body.n
  <2>1. CASE j \in 1 .. Len(Q)
    BY <1>1, <1>7, <2>1 DEF RoadOK, Of
  <2>2. CASE j = Len(Q) + 1
    BY <1>1, <1>7, <2>2 DEF Of
  <2> QED
    BY <1>1, <2>1, <2>2
<1>8. ASSUME NEW i \in 1 .. Len(P)
      PROVE  Follows(P, i, P[i].body.req, P[i].body.n, seen, live)
  <2>1. CASE i \in 1 .. Len(Q)
    BY <1>1, <1>4, <2>1 DEF RoadOK
  <2>2. CASE i = Len(Q) + 1
    BY <1>1, <1>4, <2>2
  <2> QED
    BY <1>1, <2>1, <2>2
<1>9. RoadOK(P, seen, live)
  BY <1>7, <1>8 DEF RoadOK
<1> QED
  BY <1>5, <1>6, <1>9 DEF P

\* What is left of a road, when fewer requests expect something, is still in order.
LEMMA RoadCut ==
    ASSUME NEW Q, NEW P, Cuts(P, Q), NEW seen, NEW live, RoadOK(Q, seen, live),
           Len(Q) \in Nat,
           NEW seen2, NEW live2 \in SUBSET live,
           \A r \in live2, i \in 1 .. Len(Q) : Of(Q, i, r) => seen2[r] = seen[r]
    PROVE  RoadOK(P, seen2, live2)
<1>1. /\ Len(P) \in Nat /\ 1 .. Len(P) \subseteq 1 .. Len(Q)
      /\ \A i \in 1 .. Len(P) : P[i] = Q[i]
  BY DEF Cuts
<1>2. ASSUME NEW i \in 1 .. Len(P)
      PROVE  Follows(P, i, P[i].body.req, P[i].body.n, seen2, live2)
  <2>1. Follows(Q, i, P[i].body.req, P[i].body.n, seen, live) /\ Of(Q, i, P[i].body.req)
    BY <1>1 DEF RoadOK, Of
  <2> QED
    BY <1>1, <2>1 DEF Follows, Of
<1>3. ASSUME NEW r \in Req, NEW i \in 1 .. Len(P), NEW j \in 1 .. Len(P),
             i < j, Of(P, i, r), Of(P, j, r)
      PROVE  P[i].body.n < P[j].body.n
  BY <1>1, <1>3 DEF RoadOK, Of
<1> QED
  BY <1>2, <1>3 DEF RoadOK

\* The first message of a road is the one that its request expects.
LEMMA RoadHead ==
    ASSUME NEW Q \in Seq(Message), NEW P, NEW h, Without(P, Q, h),
           NEW seen, NEW live, RoadOK(Q, seen, live), h.body.req \in live
    PROVE  seen[h.body.req] = h.body.n
<1>1. Len(Q) \in Nat /\ 1 \in 1 .. Len(Q) /\ h = Q[1]
  BY DEF Without
<1> QED
  BY <1>1 DEF RoadOK, Follows

\* What comes after it of the same request has a greater number.
LEMMA RoadBehind ==
    ASSUME NEW Q \in Seq(Message), NEW P, NEW h, Without(P, Q, h),
           NEW seen, NEW live, RoadOK(Q, seen, live),
           NEW i \in 1 .. Len(P), P[i].body.req = h.body.req
    PROVE  h.body.n < P[i].body.n
<1>1. /\ 1 \in 1 .. Len(Q) /\ i + 1 \in 1 .. Len(Q) /\ 1 < i + 1
      /\ P[i] = Q[i + 1] /\ Q[1] = h /\ h \in Message
  BY DEF Without
<1>2. Of(Q, 1, h.body.req) /\ Of(Q, i + 1, h.body.req)
  BY <1>1 DEF Of
<1>3. h.body.req \in Req
  BY <1>1, MessageTyped
<1> QED
  BY <1>1, <1>2, <1>3 DEF RoadOK

\* When it has been taken, the next one of its request is expected: a message
\* keeps its predecessor.
LEMMA RoadNext ==
    ASSUME NEW Q \in Seq(Message), NEW P, NEW h, Without(P, Q, h),
           NEW seen, NEW live, RoadOK(Q, seen, live),
           NEW seen2, NEW live2 \in SUBSET live,
           \A x \in live2 : seen2[x] = IF x = h.body.req THEN h.body.n + 1 ELSE seen[x],
           NEW i \in 1 .. Len(Q), NEW r, NEW k, Follows(Q, i + 1, r, k, seen, live),
           r = h.body.req => h.body.n < k
    PROVE  Follows(P, i, r, k, seen2, live2)
<1>1. /\ Len(Q) \in Nat \ {0} /\ Len(P) \in Nat /\ Len(P) + 1 = Len(Q)
      /\ \A j \in 1 .. Len(P) : P[j] = Q[j + 1] /\ j + 1 \in 1 .. Len(Q)
      /\ h = Q[1] /\ h \in Message
  BY DEF Without
<1>2. h.body.req \in Req /\ h.body.n \in Nat
  BY <1>1, MessageTyped
<1>3. \A x \in live2 : seen2[x] = IF x = h.body.req THEN h.body.n + 1 ELSE seen[x]
  OBVIOUS
<1>4. h.body.req \in live => seen[h.body.req] = h.body.n
  BY RoadHead
<1>5. ASSUME NEW j \in 1 .. i, Of(Q, j, r), Q[j].body.n + 1 = k
      PROVE  Follows(P, i, r, k, seen2, live2)
  <2>1. CASE j = 1
    <3>1. r = h.body.req /\ h.body.n + 1 = k
      BY <1>1, <1>5, <2>1 DEF Of
    <3> QED
      BY <1>3, <3>1 DEF Follows
  <2>2. CASE j # 1
    <3>1. /\ j - 1 \in 1 .. i - 1 /\ j - 1 \in 1 .. Len(P)
          /\ P[j - 1] = Q[(j - 1) + 1] /\ (j - 1) + 1 = j
      BY <1>1, <2>2
    <3>2. Of(P, j - 1, r) /\ P[j - 1].body.n + 1 = k
      BY <1>5, <3>1 DEF Of
    <3> QED
      BY <3>1, <3>2 DEF Follows
  <2> QED
    BY <2>1, <2>2
<1>6. ASSUME r \in live => seen[r] = k
      PROVE  r \in live2 => seen2[r] = k
  BY <1>2, <1>3, <1>4, <1>6
<1>7. (i + 1) - 1 = i
  BY <1>1
<1> QED
  BY <1>5, <1>6, <1>7 DEF Follows

\* What is left of the road is still in order.
LEMMA RoadTail ==
    ASSUME NEW Q \in Seq(Message), NEW P, NEW h, Without(P, Q, h),
           NEW seen, NEW live, RoadOK(Q, seen, live),
           NEW seen2, NEW live2 \in SUBSET live,
           \A r \in live2 : seen2[r] = IF r = h.body.req THEN h.body.n + 1 ELSE seen[r]
    PROVE  RoadOK(P, seen2, live2)
<1>1. /\ Len(Q) \in Nat \ {0} /\ Len(P) \in Nat /\ Len(P) + 1 = Len(Q)
      /\ \A i \in 1 .. Len(P) : P[i] = Q[i + 1] /\ i + 1 \in 1 .. Len(Q)
      /\ h = Q[1] /\ h \in Message
  BY DEF Without
<1>2. ASSUME NEW r \in Req, NEW i \in 1 .. Len(P), NEW j \in 1 .. Len(P),
             i < j, Of(P, i, r), Of(P, j, r)
      PROVE  P[i].body.n < P[j].body.n
  <2>1. i + 1 < j + 1 /\ Of(Q, i + 1, r) /\ Of(Q, j + 1, r)
    BY <1>1, <1>2 DEF Of
  <2> QED
    BY <1>1, <2>1 DEF RoadOK
<1>3. ASSUME NEW i \in 1 .. Len(P)
      PROVE  Follows(P, i, P[i].body.req, P[i].body.n, seen2, live2)
  <2>1. Follows(Q, i + 1, P[i].body.req, P[i].body.n, seen, live)
    BY <1>1 DEF RoadOK
  <2>2. i \in 1 .. Len(Q)
    BY <1>1
  <2>3. P[i].body.req = h.body.req => h.body.n < P[i].body.n
    BY RoadBehind
  <2> QED
    BY <2>1, <2>2, <2>3, RoadNext
<1> QED
  BY <1>2, <1>3 DEF RoadOK

----------------------------------------------------------------------------
(* Sockets.                                                                *)

\* Each end has the other as its peer.
LEMMA Ends == \A e \in End : Peer(e) \in End /\ Peer(e) # e /\ Peer(Peer(e)) = e
  BY DEF End, Peer

\* Updates at one end and one session reach no other.
LEMMA EndFrame ==
    ASSUME NEW S, NEW f \in [End -> [Session -> S]], NEW e \in End, NEW s \in Session, NEW v,
           NEW x \in End, NEW t \in Session
    PROVE  [f EXCEPT ![e][s] = v][x][t] = IF x = e /\ t = s THEN v ELSE f[x][t]
  OBVIOUS

\* What an operation on a socket of session s does to the sockets and to what is
\* on the wire, at either end and for every session.
LEMMA CloseSockEffect ==
    ASSUME NetTypeOK, NEW e \in End, NEW s \in Session, CloseSock(e, s)
    PROVE  \/ UNCHANGED <<conn, wire>>
           \/ /\ conn[e][s] = "open"
              /\ \A x \in End, t \in Session :
                    conn'[x][t] = IF x = e /\ t = s THEN "closed" ELSE conn[x][t]
              /\ \A x \in End, t \in Session :
                    \/ wire'[x][t] = wire[x][t] /\ (x # e \/ t # s)
                    \/ wire'[x][t] = << >> /\ t = s
<1>0. Peer(e) \in End /\ Peer(e) # e
  BY Ends
<1>1. CASE conn[e][s] # "open"
  BY <1>1 DEF CloseSock, net
<1>2. CASE conn[e][s] = "open"
  <2>1. PICK last \in {<< >>, wire[Peer(e)][s]} :
            wire' = [wire EXCEPT ![e][s] = << >>, ![Peer(e)][s] = last]
    BY <1>2 DEF CloseSock
  <2>2. \A x \in End, t \in Session :
            wire'[x][t] = IF t # s THEN wire[x][t] ELSE IF x = e THEN << >>
                          ELSE IF x = Peer(e) THEN last ELSE wire[x][t]
    BY <1>0, <2>1 DEF NetTypeOK
  <2>3. conn' = [conn EXCEPT ![e][s] = "closed"]
    BY <1>2 DEF CloseSock
  <2>4. \A x \in End, t \in Session :
            conn'[x][t] = IF x = e /\ t = s THEN "closed" ELSE conn[x][t]
    BY <2>3 DEF NetTypeOK
  <2>5. \A x \in End, t \in Session :
            \/ wire'[x][t] = wire[x][t] /\ (x # e \/ t # s)
            \/ wire'[x][t] = << >> /\ t = s
    BY <1>0, <2>2
  <2> QED
    BY <1>2, <2>4, <2>5
<1> QED
  BY <1>1, <1>2

\* A write of a pump goes to the peer's end of the wire, if the peer has its socket.
LEMMA WriteSockEffect ==
    ASSUME NetTypeOK, NEW e \in End, NEW s \in Session, NEW m, WriteSock(e, s, m)
    PROVE  /\ conn' = conn /\ conn[e][s] = "open"
           /\ \A x \in End, t \in Session :
                wire'[x][t] = IF x = Peer(e) /\ t = s /\ conn[x][t] = "open"
                              THEN Append(wire[x][t], m) ELSE wire[x][t]
<1>0. Peer(e) \in End
  BY Ends
<1>1. conn' = conn /\ conn[e][s] = "open"
  BY DEF WriteSock
<1>2. CASE conn[Peer(e)][s] = "open"
  <2>1. wire' = [wire EXCEPT ![Peer(e)][s] = Append(wire[Peer(e)][s], m)]
    BY <1>2 DEF WriteSock
  <2> QED
    BY <1>0, <1>1, <1>2, <2>1 DEF NetTypeOK
<1>3. CASE conn[Peer(e)][s] # "open"
  BY <1>0, <1>1, <1>3 DEF WriteSock
<1> QED
  BY <1>2, <1>3

\* A read of a pump takes the first message off its own end of the wire.
LEMMA ReadSockEffect ==
    ASSUME NetTypeOK, NEW e \in End, NEW s \in Session, ReadSock(e, s)
    PROVE  /\ conn' = conn /\ conn[e][s] = "open" /\ wire[e][s] # << >>
           /\ \A x \in End, t \in Session :
                wire'[x][t] = IF x = e /\ t = s THEN Tail(wire[x][t]) ELSE wire[x][t]
  BY DEF ReadSock, NetTypeOK

\* Roads are sequences of messages.
LEMMA RoadTyped ==
    ASSUME NetTypeOK, NEW e \in End, NEW s \in Session, NEW q \in Seq(Message)
    PROVE  Road(e, s, q) \in Seq(Message)
<1>1. wire[e][s] \in Seq(Message) /\ << >> \in Seq(Message)
  BY DEF NetTypeOK
<1>2. wire[e][s] \o q \in Seq(Message)
  BY <1>1
<1> QED
  BY <1>1, <1>2 DEF Road

\* Session t keeps its sockets and what is on the wire, or an end of it has lost
\* its socket and with it what had not been read from it, if not more.
Loses(t) ==
    \/ \A y \in End : conn'[y][t] = conn[y][t] /\ wire'[y][t] = wire[y][t]
    \/ /\ \E y \in End : conn'[y][t] # "open"
       /\ \A y \in End : /\ conn'[y][t] = "open" => conn[y][t] = "open"
                         /\ wire'[y][t] \in {wire[y][t], << >>}

Joined(s) == conn["S"][s] = "open" /\ conn["C"][s] = "open"

\* Whatever happens to sockets between two writes only loses messages.
LEMMA NetLoses ==
    ASSUME NetTypeOK, NEW t \in Session,
           \/ UNCHANGED net
           \/ \E e \in End, s \in Session : CloseSock(e, s)
           \/ \E s \in Session : Cut(s)
           \/ \E e \in End : ProcessDies(e)
    PROVE  Loses(t)
<1>0. "S" \in End /\ "C" \in End
  BY DEF End
<1>1. CASE UNCHANGED net
  BY <1>1 DEF Loses, net
<1>2. ASSUME NEW e \in End, NEW s \in Session, CloseSock(e, s)
      PROVE  Loses(t)
  <2>1. CASE UNCHANGED <<conn, wire>>
    BY <2>1 DEF Loses
  <2>2. CASE /\ \A x \in End : conn'[x][t] = IF x = e /\ t = s THEN "closed" ELSE conn[x][t]
             /\ \A x \in End :
                    \/ wire'[x][t] = wire[x][t] /\ (x # e \/ t # s)
                    \/ wire'[x][t] = << >> /\ t = s
    BY <2>2 DEF Loses
  <2> QED
    BY <1>2, <2>1, <2>2, CloseSockEffect
<1>3. ASSUME NEW s \in Session, Cut(s)
      PROVE  Loses(t)
  BY <1>0, <1>3 DEF Loses, Cut, NetTypeOK
<1>4. ASSUME NEW e \in End, ProcessDies(e)
      PROVE  Loses(t)
  <2>1. \A y \in End : /\ conn'[y][t] = IF y = e /\ conn[y][t] = "open" THEN "closed"
                                        ELSE conn[y][t]
                       /\ wire'[y][t] = IF y = e THEN << >> ELSE wire[y][t]
    BY <1>4 DEF ProcessDies, NetTypeOK
  <2>2. conn'[e][t] # "open"
    BY <2>1
  <2> QED
    BY <2>1, <2>2 DEF Loses
<1> QED
  BY <1>1, <1>2, <1>3, <1>4

\* The rear of a road is lost, if anything, and a session that still has both of
\* its sockets has lost nothing.
LEMMA RoadLoses ==
    ASSUME NetTypeOK, NEW x \in End, NEW t \in Session, Loses(t), NEW q \in Seq(Message),
           NEW P, P = IF conn'[x][t] # "open" THEN << >>
                      ELSE IF conn'[Peer(x)][t] # "open" THEN wire'[x][t] ELSE wire'[x][t] \o q
    PROVE  /\ Cuts(P, Road(x, t, q))
           /\ Joined(t)' => Joined(t) /\ P = Road(x, t, q)
<1>0. Peer(x) \in End /\ \A y \in End : y = x \/ y = Peer(x)
  BY DEF End, Peer
<1>1. wire[x][t] \in Seq(Message) /\ << >> \in Seq(Message)
  BY DEF NetTypeOK
<1>2. \A Q \in Seq(Message) : Cuts(Q, Q) /\ Cuts(<< >>, Q) /\ Cuts(Q, Q \o q)
  BY DEF Cuts
<1>3. Road(x, t, q) \in Seq(Message)
  BY RoadTyped
<1>4. Joined(t) <=> conn[x][t] = "open" /\ conn[Peer(x)][t] = "open"
  BY DEF Joined, End, Peer
<1>5. Joined(t)' <=> conn'[x][t] = "open" /\ conn'[Peer(x)][t] = "open"
  BY DEF Joined, End, Peer
<1>6. CASE \A y \in End : conn'[y][t] = conn[y][t] /\ wire'[y][t] = wire[y][t]
  <2>1. P = Road(x, t, q) /\ (Joined(t)' => Joined(t))
    BY <1>0, <1>4, <1>5, <1>6 DEF Road
  <2> QED
    BY <1>2, <1>3, <2>1
<1>7. CASE /\ \E y \in End : conn'[y][t] # "open"
           /\ \A y \in End : /\ conn'[y][t] = "open" => conn[y][t] = "open"
                             /\ wire'[y][t] \in {wire[y][t], << >>}
  <2>1. ~Joined(t)'
    BY <1>0, <1>5, <1>7
  <2>2. P = << >> \/ (P = wire[x][t] /\ conn[x][t] = "open")
    BY <1>0, <1>7
  <2>3. conn[x][t] = "open" => Road(x, t, q) \in {wire[x][t], wire[x][t] \o q}
    BY DEF Road
  <2> QED
    BY <1>1, <1>2, <1>3, <2>1, <2>2, <2>3
<1> QED
  BY <1>6, <1>7 DEF Loses

\* A write pump moves a message along the road.
LEMMA RoadMoves ==
    ASSUME NetTypeOK, NEW e \in End, NEW s \in Session, NEW q \in Seq(Message), q # << >>,
           WriteSock(e, s, Head(q)),
           NEW P, P = IF conn'[Peer(e)][s] # "open" THEN << >>
                      ELSE IF conn'[e][s] # "open" THEN wire'[Peer(e)][s]
                           ELSE wire'[Peer(e)][s] \o Tail(q)
    PROVE  P = Road(Peer(e), s, q)
<1>0. Peer(e) \in End /\ Peer(Peer(e)) = e
  BY Ends
<1>1. wire[Peer(e)][s] \in Seq(Message) /\ Head(q) \in Message /\ Tail(q) \in Seq(Message)
  BY <1>0 DEF NetTypeOK
<1>2. /\ conn' = conn /\ conn[e][s] = "open"
      /\ wire'[Peer(e)][s] = IF conn[Peer(e)][s] = "open"
                             THEN Append(wire[Peer(e)][s], Head(q)) ELSE wire[Peer(e)][s]
  BY <1>0, WriteSockEffect
<1>3. \A w \in Seq(Message) : Append(w, Head(q)) \o Tail(q) = w \o q
  OBVIOUS
<1> QED
  BY <1>0, <1>1, <1>2, <1>3 DEF Road

\* A read pump takes the first message of the road.
LEMMA RoadRead ==
    ASSUME NetTypeOK, NEW e \in End, NEW s \in Session, NEW q \in Seq(Message), ReadSock(e, s),
           NEW P, P = IF conn'[e][s] # "open" THEN << >>
                      ELSE IF conn'[Peer(e)][s] # "open" THEN wire'[e][s] ELSE wire'[e][s] \o q
    PROVE  Without(P, Road(e, s, q), Head(wire[e][s]))
<1>0. Peer(e) \in End
  BY Ends
<1>1. wire[e][s] \in Seq(Message) /\ wire[e][s] # << >>
  BY DEF ReadSock, NetTypeOK
<1>2. conn' = conn /\ conn[e][s] = "open" /\ wire'[e][s] = Tail(wire[e][s])
  BY ReadSockEffect
<1>3. \A w \in Seq(Message) : w # << >> => Without(Tail(w), w, Head(w))
  BY DEF Without
<1>4. \A w \in Seq(Message) : w # << >> =>
        w \o q # << >> /\ Head(w \o q) = Head(w) /\ Tail(w \o q) = Tail(w) \o q
  OBVIOUS
<1>5. CASE conn[Peer(e)][s] # "open"
  BY <1>0, <1>1, <1>2, <1>3, <1>5 DEF Road
<1>6. CASE conn[Peer(e)][s] = "open"
  <2>1. Road(e, s, q) = wire[e][s] \o q /\ P = Tail(wire[e][s]) \o q
    BY <1>0, <1>2, <1>6 DEF Road
  <2>2. wire[e][s] \o q \in Seq(Message)
    BY <1>1
  <2> QED
    BY <1>1, <1>3, <1>4, <2>1, <2>2
<1> QED
  BY <1>5, <1>6

----------------------------------------------------------------------------
(* Sessions and ids.                                                       *)

\* Nothing of a session is there before its client has connected.
UnusedSession ==
    \A s \in Session : conn["C"][s] = "none" =>
        /\ conn["S"][s] = "none" /\ wire["C"][s] = << >> /\ wire["S"][s] = << >>
        /\ sSend[s] = << >> /\ cSend[s] = << >>
        /\ s \notin sClients \cup sClosed \cup cClients \cup cClosed
        /\ rp["S"][s] = "off" /\ rp["C"][s] = "off"

\* A hub touches the client object that it is asked about only, and Broadcast
\* leaves an unknown one alone.
LEMMA ServerHubFrame ==
    ASSUME SH!HubTypeOK, NEW s,
           \/ SH!Register(s) \/ SH!Unregister(s) \/ SH!Take(s)
           \/ \E m : SH!Broadcast(s, m),
           NEW t \in Session
    PROVE  /\ t # s => /\ sSend'[t] = sSend[t]
                       /\ t \in sClients' <=> t \in sClients
                       /\ t \in sClosed' <=> t \in sClosed
           /\ t \in sClients' => t \in sClients \/ (SH!Register(s) /\ t = s)
           /\ ~SH!Take(s) /\ t \notin sClients => sSend'[t] = sSend[t]
           /\ ~SH!Register(s) /\ t \notin sClients =>
                /\ t \notin sClients'
                /\ t \in sClosed' <=> t \in sClosed
  BY DEF SH!HubTypeOK, SH!Register, SH!Unregister, SH!Drop, SH!Take, SH!Broadcast, SH!hubVars

\* ClientHub touches only the session an operation is about.
LEMMA ClientHubFrame ==
    ASSUME CH!HubTypeOK, NEW s,
           \/ CH!Register(s) \/ CH!Unregister(s) \/ CH!Take(s)
           \/ \E m : CH!Broadcast(s, m),
           NEW t \in Session
    PROVE  /\ t # s => /\ cSend'[t] = cSend[t]
                       /\ t \in cClients' <=> t \in cClients
                       /\ t \in cClosed' <=> t \in cClosed
           /\ t \in cClients' => t \in cClients \/ (CH!Register(s) /\ t = s)
           /\ ~CH!Take(s) /\ t \notin cClients => cSend'[t] = cSend[t]
           /\ ~CH!Register(s) /\ t \notin cClients =>
                /\ t \notin cClients'
                /\ t \in cClosed' <=> t \in cClosed
  BY DEF CH!HubTypeOK, CH!Register, CH!Unregister, CH!Drop, CH!Take, CH!Broadcast, CH!hubVars

\* Before a client has connected, no goroutine of either process has anything to
\* do with the session it will use.
THEOREM SessionsAreFresh == Spec => []UnusedSession
<1>1. Init => UnusedSession
  BY DEF Init, UnusedSession, SH!HubInit, CH!HubInit, End
<1>2. ASSUME TypeOK, UnusedSession, [Next]_vars
      PROVE  UnusedSession'
  <2> USE <1>2 DEF TypeOK
  <2>0. "S" \in End /\ "C" \in End /\ Peer("S") = "C" /\ Peer("C") = "S"
    BY DEF End, Peer
  <2> SUFFICES ASSUME NEW t \in Session, conn'["C"][t] = "none"
               PROVE  /\ conn'["S"][t] = "none" /\ wire'["C"][t] = << >> /\ wire'["S"][t] = << >>
                      /\ sSend'[t] = << >> /\ cSend'[t] = << >>
                      /\ t \notin sClients' \cup sClosed' \cup cClients' \cup cClosed'
                      /\ rp'["S"][t] = "off" /\ rp'["C"][t] = "off"
    BY DEF UnusedSession
  <2> DEFINE Net == /\ conn["S"][t] = "none" /\ wire["C"][t] = << >> /\ wire["S"][t] = << >>
             Serv == sSend[t] = << >> /\ t \notin sClients \cup sClosed
             Clnt == cSend[t] = << >> /\ t \notin cClients \cup cClosed
             Reads == rp["S"][t] = "off" /\ rp["C"][t] = "off"
  <2>1. conn["C"][t] = "none" => Net /\ Serv /\ Clnt /\ Reads
    BY DEF UnusedSession
  <2> SUFFICES conn["C"][t] = "none" /\ Net' /\ Serv' /\ Clnt' /\ Reads'
    OBVIOUS
  <2>2. /\ UNCHANGED net /\ conn["C"][t] = "none" => Net'
        /\ UNCHANGED hubS /\ Serv => Serv'
        /\ UNCHANGED hubC /\ Clnt => Clnt'
        /\ UNCHANGED rp /\ Reads => Reads'
    BY <2>1 DEF net, hubS, hubC
  <2>3. ASSUME NEW s \in Session, SessionNext(s)
        PROVE  conn["C"][t] = "none" /\ Net' /\ Serv' /\ Clnt' /\ Reads'
    <3>1. CASE Connect(s)
      <4>1. t # s
        BY <2>0, <3>1 DEF Connect, NetTypeOK
      <4> QED
        BY <2>0, <2>1, <3>1, <4>1 DEF Connect, NetTypeOK, hubS, hubC
    <3>2. CASE Cut(s)
      <4>1. t # s
        BY <2>0, <3>2 DEF Cut, NetTypeOK
      <4> QED
        BY <2>0, <2>1, <3>2, <4>1 DEF Cut, NetTypeOK, hubS, hubC, pumps
    <3>3. CASE ServerRegister(s)
      <4>1. UNCHANGED <<net, hubC>> /\ conn["C"][t] = "none"
        BY <3>3 DEF ServerRegister, net
      <4>2. t # s /\ Reads'
        BY <2>0, <2>1, <3>3, <4>1 DEF ServerRegister, StartPumps, NetTypeOK
      <4>3. Serv'
        BY <2>1, <3>3, <4>1, <4>2, ServerHubFrame DEF ServerRegister
      <4> QED
        BY <2>1, <2>2, <4>1, <4>2, <4>3
    <3>4. CASE ClientRegister(s)
      <4>1. UNCHANGED <<net, hubS>> /\ conn["C"][t] = "none"
        BY <3>4 DEF ClientRegister, net
      <4>2. t # s /\ Reads'
        BY <2>0, <2>1, <3>4, <4>1 DEF ClientRegister, StartPumps, NetTypeOK
      <4>3. Clnt'
        BY <2>1, <3>4, <4>1, <4>2, ClientHubFrame DEF ClientRegister
      <4> QED
        BY <2>1, <2>2, <4>1, <4>2, <4>3
    <3>5. CASE ServerWrite(s)
      <4>1. UNCHANGED <<pumps, hubC>> /\ WriteSock("S", s, Head(sSend[s])) /\ SH!Take(s)
        BY <3>5 DEF ServerWrite
      <4>2. conn["C"][t] = "none" /\ t # s /\ Net'
        BY <2>0, <2>1, <4>1, WriteSockEffect
      <4>3. Serv'
        BY <2>1, <4>1, <4>2, ServerHubFrame
      <4> QED
        BY <2>1, <2>2, <4>1, <4>2, <4>3 DEF pumps
    <3>6. CASE ClientWrite(s)
      <4>1. UNCHANGED <<pumps, hubS>> /\ WriteSock("C", s, Head(cSend[s])) /\ CH!Take(s)
        BY <3>6 DEF ClientWrite
      <4>2. conn["C"][t] = "none" /\ t # s /\ Net'
        BY <2>0, <2>1, <4>1, WriteSockEffect
      <4>3. Clnt'
        BY <2>1, <4>1, <4>2, ClientHubFrame
      <4> QED
        BY <2>1, <2>2, <4>1, <4>2, <4>3 DEF pumps
    <3>7. CASE ServerRead(s) \/ ClientRead(s) \/ ClientCreate(s)
      <4>1. PICK e \in End : UNCHANGED <<pumps, hubS, hubC>> /\ ReadSock(e, s)
        BY <2>0, <3>7 DEF ServerRead, ClientRead, ClientCreate
      <4>2. conn["C"][t] = "none" /\ Net'
        BY <2>0, <2>1, <4>1, ReadSockEffect
      <4> QED
        BY <2>1, <2>2, <4>1, <4>2 DEF pumps
    <3>8. ASSUME NEW e \in End, CloseSock(e, s)
          PROVE  conn["C"][t] = "none" /\ Net'
      <4>1. CASE UNCHANGED <<conn, wire>>
        BY <2>1, <4>1
      <4>2. CASE /\ conn[e][s] = "open"
                 /\ \A x \in End : conn'[x][t] = IF x = e /\ t = s THEN "closed" ELSE conn[x][t]
                 /\ \A x \in End : wire'[x][t] \in {wire[x][t], << >>}
        BY <2>0, <2>1, <4>2
      <4> QED
        BY <3>8, <4>1, <4>2, CloseSockEffect
    <3>9. CASE ServerWriteEnd(s) \/ ClientWriteEnd(s)
      BY <2>0, <2>1, <2>2, <3>8, <3>9 DEF ServerWriteEnd, ClientWriteEnd, WritePumpEnds
    <3>10. CASE ServerReadEnd(s)
      <4>1. conn["C"][t] = "none" /\ Net' /\ Clnt'
        BY <2>0, <2>1, <2>2, <3>8, <3>10 DEF ServerReadEnd, ReadPumpEnds
      <4>2. Serv'
        BY <2>1, <3>10, <4>1 DEF ServerReadEnd, SH!Unregister, SH!Drop, SH!hubVars, SH!HubTypeOK
      <4>3. Reads'
        BY <2>0, <2>1, <3>10, <4>1 DEF ServerReadEnd, ReadPumpEnds, NetTypeOK
      <4> QED
        BY <4>1, <4>2, <4>3
    <3>11. CASE ClientReadEnd(s)
      <4>1. conn["C"][t] = "none" /\ Net' /\ Serv'
        BY <2>0, <2>1, <2>2, <3>8, <3>11 DEF ClientReadEnd, ReadPumpEnds
      <4>2. Clnt'
        BY <2>1, <3>11, <4>1 DEF ClientReadEnd, CH!Unregister, CH!Drop, CH!hubVars, CH!HubTypeOK
      <4>3. Reads'
        BY <2>0, <2>1, <3>11, <4>1 DEF ClientReadEnd, ReadPumpEnds, NetTypeOK
      <4> QED
        BY <4>1, <4>2, <4>3
    <3> QED
      BY <2>3, <3>1, <3>2, <3>3, <3>4, <3>5, <3>6, <3>7, <3>9, <3>10, <3>11
      DEF SessionNext, ServerWritePump, ClientWritePump, ServerReadPump, ClientReadPump
  <2>4. ASSUME NEW r \in Req, RequestNext(r)
        PROVE  conn["C"][t] = "none" /\ Net' /\ Serv' /\ Clnt' /\ Reads'
    <3>0. UNCHANGED <<net, rp>>
      BY <2>4 DEF RequestNext, Transfer, Sender, LocalWriter, LocalCopier, Begin, NotFound, Open,
         Send, SendClose, Pump, PumpEnd, Return, LocalPump, LocalPumpEnd, LocalCopy, LocalClose,
         LocalUnregister, pumps
    <3> SUFFICES Serv' /\ Clnt'
      BY <2>1, <2>2, <3>0 DEF net
    <3>1. CASE Open(r) \/ Send(r) \/ SendClose(r)
      <4>1. UNCHANGED hubC /\ \E m : SH!Broadcast(agent[r], m)
        BY <3>1 DEF Open, Send, SendClose
      <4>2. Serv'
        BY <2>1, <3>0, <4>1 DEF net, SH!Broadcast, SH!Drop, SH!hubVars, SH!HubTypeOK
      <4> QED
        BY <2>1, <2>2, <3>0, <4>1, <4>2 DEF net
    <3>2. CASE LocalCopy(r) \/ LocalClose(r)
      <4>1. UNCHANGED hubS /\ \E m : CH!Broadcast(lagent[r], m)
        BY <3>2 DEF LocalCopy, LocalClose
      <4>2. Clnt'
        BY <2>1, <3>0, <4>1 DEF net, CH!Broadcast, CH!Drop, CH!hubVars, CH!HubTypeOK
      <4> QED
        BY <2>1, <2>2, <3>0, <4>1, <4>2 DEF net
    <3>3. CASE Begin(r) \/ NotFound(r) \/ Pump(r) \/ PumpEnd(r) \/ Return(r) \/ LocalPump(r)
               \/ LocalPumpEnd(r) \/ LocalUnregister(r)
      BY <2>1, <2>2, <3>0, <3>3 DEF net, Begin, NotFound, Pump, PumpEnd, Return, LocalPump,
         LocalPumpEnd, LocalUnregister
    <3> QED
      BY <2>4, <3>1, <3>2, <3>3 DEF RequestNext, Transfer, Sender, LocalWriter, LocalCopier
  <2>5. CASE ClientCrash
    BY <2>0, <2>1, <2>5 DEF ClientCrash, ProcessDies, NetTypeOK, hubS
  <2>6. CASE ServerRestart
    BY <2>0, <2>1, <2>6 DEF ServerRestart, ProcessDies, NetTypeOK, hubC
  <2>7. CASE UNCHANGED vars
    BY <2>1, <2>7 DEF vars, hubS, hubC, net, pumps
  <2> QED
    BY <2>3, <2>4, <2>5, <2>6, <2>7 DEF Next
<1> QED
  BY <1>1, <1>2, TypeCorrect, PTL DEF Spec

Begun(r) == tpc[r] \notin {"new", "plain"}
Opened(r) == tpc[r] \notin {"new", "plain", "open"}

\* A request that was begun has a session that was registered and an id of its
\* own; one that was not opened has sent nothing.
RequestInv == restarts = 0 =>
    /\ \A r \in Req :
        /\ Begun(r) => agent[r] \in sClients \cup sClosed /\ sID[r] < nextId
        /\ ~Begun(r) => agent[r] = NoSession
        /\ ~Opened(r) => snd[r] = "off"
        /\ snd[r] = "off" => up[r] = 0
    /\ \A r, q \in Req : Begun(r) /\ Begun(q) /\ sID[r] = sID[q] => r = q

\* No operation of the server's bridge hub but Register gives a bridge its id.
LEMMA ServerBridgeIds ==
    ASSUME NEW r, NEW i, NEW body,
           SB!Unregister(r) \/ SB!Take(r) \/ SB!BroadcastClose(i) \/ SB!BroadcastBody(i, body)
    PROVE  UNCHANGED sID
  BY DEF SB!Unregister, SB!Take, SB!BroadcastClose, SB!BroadcastBody, SB!bridgeVars

\* In one life of the server process no two requests have the same id, and each
\* knows its session before it sends anything.
THEOREM IdsAreUnique == Spec => []RequestInv
<1>1. Init => RequestInv
  BY DEF Init, RequestInv, Begun, Opened
<1>2. ASSUME TypeOK, RequestInv, [Next]_vars
      PROVE  RequestInv'
  <2> USE <1>2 DEF RequestInv, Begun, Opened
  <2>0. /\ tpc \in [Req -> {"new", "open", "pump", "wait", "ret", "plain", "dead"}]
        /\ snd \in [Req -> {"off", "head", "copy", "done", "dead"}]
        /\ agent \in [Req -> Session \cup {NoSession}]
        /\ up \in [Req -> 0 .. MaxUp] /\ sID \in [Req -> Nat] /\ nextId \in Nat
        /\ restarts \in Nat /\ sClients \subseteq Session
    BY DEF TypeOK, XferTypeOK, EnvTypeOK, SB!BridgeTypeOK, SH!HubTypeOK, Id
  <2>1. ASSUME UNCHANGED <<tpc, snd, agent, up, sID, nextId, restarts>>,
               sClients \cup sClosed \subseteq sClients' \cup sClosed'
        PROVE  RequestInv'
    BY <2>1
  <2>2. ASSUME NEW s \in Session, SessionNext(s)
        PROVE  RequestInv'
    <3>1. UNCHANGED <<xfer, env>> \/ Cut(s)
      BY <2>2 DEF SessionNext, ServerWritePump, ClientWritePump, ServerReadPump, ClientReadPump,
         Connect, ServerRegister, ServerWrite, ServerWriteEnd, ServerRead, ServerReadEnd,
         ClientRegister, ClientWrite, ClientWriteEnd, ClientCreate, ClientRead, ClientReadEnd,
         WritePumpEnds, local
    <3>2. UNCHANGED <<tpc, snd, agent, up, nextId, restarts>>
      BY <3>1 DEF Cut, xfer, env
    <3>3. CASE ServerRegister(s) \/ ServerWrite(s) \/ ServerReadEnd(s)
      <4>1. sClients \cup sClosed \subseteq sClients' \cup sClosed' /\ UNCHANGED sID
        BY <3>3, ServerHubMonotone DEF ServerRegister, ServerWrite, ServerReadEnd, brS
      <4> QED
        BY <2>1, <3>2, <4>1
    <3>4. CASE ServerRead(s)
      <4>1. UNCHANGED <<hubS, sID>>
        BY <3>4, ServerBridgeIds DEF ServerRead
      <4> QED
        BY <2>1, <3>2, <4>1 DEF hubS
    <3>5. CASE Connect(s) \/ Cut(s) \/ ServerWriteEnd(s) \/ ClientRegister(s) \/ ClientWrite(s)
               \/ ClientWriteEnd(s) \/ ClientCreate(s) \/ ClientRead(s) \/ ClientReadEnd(s)
      <4>1. UNCHANGED <<hubS, brS>>
        BY <3>5 DEF Connect, Cut, ServerWriteEnd, ClientRegister, ClientWrite, ClientWriteEnd,
           WritePumpEnds, ClientCreate, ClientRead, ClientReadEnd
      <4> QED
        BY <2>1, <3>2, <4>1 DEF hubS, brS
    <3> QED
      BY <2>2, <3>3, <3>4, <3>5
      DEF SessionNext, ServerWritePump, ClientWritePump, ServerReadPump, ClientReadPump
  <2>3. ASSUME NEW r \in Req, RequestNext(r)
        PROVE  RequestInv'
    <3>1. CASE Begin(r)
      <4>1. PICK s \in sClients : agent' = [agent EXCEPT ![r] = s]
        BY <3>1 DEF Begin
      <4>2. /\ sID' = [sID EXCEPT ![r] = nextId] /\ nextId' = nextId + 1 /\ tpc[r] = "new"
            /\ tpc' = [tpc EXCEPT ![r] = "open"] /\ UNCHANGED <<snd, up, restarts, hubS>>
        BY <3>1 DEF Begin, SB!Register
      <4>3. restarts = 0 => \A x \in Req :
                /\ Begun(x)' => agent'[x] \in sClients' \cup sClosed' /\ sID'[x] < nextId'
                /\ ~Begun(x)' => agent'[x] = NoSession
        BY <2>0, <4>1, <4>2 DEF hubS
      <4>4. restarts = 0 => \A x \in Req :
                /\ ~Opened(x)' => snd'[x] = "off"
                /\ snd'[x] = "off" => up'[x] = 0
        BY <2>0, <4>2
      <4>5. restarts = 0 => \A x, q \in Req :
                Begun(x)' /\ Begun(q)' /\ sID'[x] = sID'[q] => x = q
        BY <2>0, <4>2
      <4> QED
        BY <4>2, <4>3, <4>4, <4>5
    <3>2. CASE NotFound(r)
      BY <2>0, <3>2 DEF NotFound, hubS, brS
    <3>3. CASE Open(r) \/ Send(r) \/ SendClose(r)
      <4>1. sClients \cup sClosed \subseteq sClients' \cup sClosed'
        BY <3>3, ServerHubMonotone DEF Open, Send, SendClose
      <4>2. UNCHANGED <<agent, sID, nextId, restarts>>
        BY <3>3 DEF Open, Send, SendClose, brS, env
      <4>3. \A x \in Req \ {r} : snd'[x] = snd[x] /\ tpc'[x] = tpc[x] /\ up'[x] = up[x]
        BY <2>0, <3>3 DEF Open, Send, SendClose
      <4>4. snd'[r] # "off" /\ (Begun(r) => Begun(r)') /\ (Begun(r)' => Begun(r))
                /\ (restarts = 0 => Opened(r)')
        BY <2>0, <3>3 DEF Open, Send, SendClose
      <4> QED
        BY <2>0, <4>1, <4>2, <4>3, <4>4
    <3>4. CASE Pump(r) \/ PumpEnd(r) \/ Return(r)
      <4>1. UNCHANGED <<hubS, snd, agent, up, nextId, restarts, sID>>
        BY <3>4, ServerBridgeIds DEF Pump, PumpEnd, Return, brS, env
      <4>2. \A x \in Req : tpc'[x] = tpc[x] \/ (Opened(x) /\ Opened(x)')
        BY <2>0, <3>4 DEF Pump, PumpEnd, Return
      <4> QED
        BY <2>0, <4>1, <4>2 DEF hubS
    <3>5. CASE LocalPump(r) \/ LocalPumpEnd(r) \/ LocalCopy(r) \/ LocalClose(r) \/ LocalUnregister(r)
      BY <2>1, <3>5 DEF LocalPump, LocalPumpEnd, LocalCopy, LocalClose, LocalUnregister, hubS, brS,
         xfer, env
    <3> QED
      BY <2>3, <3>1, <3>2, <3>3, <3>4, <3>5
      DEF RequestNext, Transfer, Sender, LocalWriter, LocalCopier
  <2>4. CASE ClientCrash
    BY <2>1, <2>4 DEF ClientCrash, hubS, brS, xfer
  <2>5. CASE ServerRestart
    BY <2>0, <2>5 DEF ServerRestart
  <2>6. CASE UNCHANGED vars
    BY <2>1, <2>6 DEF vars, hubS, brS, xfer, env
  <2> QED
    BY <2>2, <2>3, <2>4, <2>5, <2>6 DEF Next
<1> QED
  BY <1>1, <1>2, TypeCorrect, PTL DEF Spec

----------------------------------------------------------------------------
(* From the requester to the application.                                  *)

Created(r) == lcp[r] # "off"

\* What the client knows of a request is what the server sent.
CreatedInv == restarts = 0 =>
    \A r \in Req :
        /\ ~Created(r) => down[r] = 0
        /\ Created(r) => /\ Opened(r) /\ lID[r] = sID[r] /\ lagent[r] = agent[r]
                         /\ rp["C"][agent[r]] \notin {"off", "register"}

\* The number that the next message of r has, the one that is expected at the end
\* of the road, and the requests of which one is expected.
UpNext(r) == IF ~Opened(r) THEN 0 ELSE IF snd[r] = "done" THEN up[r] + 2 ELSE up[r] + 1
UpSeen == [r \in Req |-> IF ~Created(r) THEN 0 ELSE Len(lgot[r]) + Len(lBody[r]) + 1]
UpLive == {r \in Req : ~Created(r) \/ r \in lBridges}

UpMsg(m, s) ==
    LET r == m.body.req
    IN  /\ agent[r] = s /\ m.id = sID[r] /\ m.body.n < UpNext(r)
        /\ m.method = "create" <=> m.body.n = 0
        /\ Created(r) => m.body.n # 0
        /\ m.method = "close" => snd[r] = "done" /\ m.body.n = up[r] + 1
        /\ m.method = "" => m.body.n <= up[r]

UpRoad(s) == Road("C", s, sSend[s])

\* The messages to the client are in order, and the next one of every request
\* will be, too.
UpRoadInv == restarts = 0 =>
    \A s \in Session :
        /\ RoadOK(UpRoad(s), UpSeen, UpLive)
        /\ \A i \in 1 .. Len(UpRoad(s)) : UpMsg(UpRoad(s)[i], s)
        /\ \A r \in Req : (s \in sClients /\ Joined(s) /\ agent[r] = s) =>
                Follows(UpRoad(s), Len(UpRoad(s)) + 1, r, UpNext(r), UpSeen, UpLive)

\* A stream that was received up to out and is buffered up to body.
Received(r, out, body) ==
    /\ \A i \in 1 .. Len(out) : out[i] = [req |-> r, n |-> i]
    /\ \A i \in 1 .. Len(body) : body[i] = [req |-> r, n |-> Len(out) + i]

\* What the application and its bridge have got.
LocalInv == restarts = 0 =>
    \A r \in Req :
        /\ Received(r, lgot[r], lBody[r])
        /\ Len(lgot[r]) + Len(lBody[r]) <= up[r]
        /\ ~Created(r) => lgot[r] = << >> /\ lBody[r] = << >>
        /\ lCause[r] = "close" => snd[r] = "done" /\ Len(lgot[r]) + Len(lBody[r]) = up[r]

UpInv == CreatedInv /\ UpRoadInv /\ LocalInv

\* The road to the client is a sequence of messages.
LEMMA UpTyped ==
    ASSUME TypeOK, NEW s \in Session
    PROVE  UpRoad(s) \in Seq(Message) /\ Len(UpRoad(s)) \in Nat
<1>1. UpRoad(s) \in Seq(Message)
  BY RoadTyped DEF TypeOK, UpRoad, End, SH!HubTypeOK
<1> QED
  BY <1>1

\* A step that sends and takes nothing, and loses the rear of roads at most,
\* keeps the messages to the client in order.
LEMMA UpKept ==
    ASSUME TypeOK, UpRoadInv, restarts = 0,
           \A t \in Session : Cuts(UpRoad(t)', UpRoad(t)),
           UpLive' \subseteq UpLive, \A r \in UpLive' : UpSeen'[r] = UpSeen[r],
           \A t \in Session, m \in Message : UpMsg(m, t) => UpMsg(m, t)',
           \A t \in Session, r \in Req : (t \in sClients' /\ Joined(t)' /\ agent'[r] = t) =>
               \/ /\ t \in sClients /\ Joined(t) /\ agent[r] = t
                  /\ UpRoad(t)' = UpRoad(t) /\ UpNext(r)' = UpNext(r)
               \/ r \in UpLive' => UpSeen'[r] = UpNext(r)'
    PROVE  UpRoadInv'
<1> SUFFICES ASSUME NEW t \in Session
             PROVE  /\ RoadOK(UpRoad(t)', UpSeen', UpLive')
                    /\ \A i \in 1 .. Len(UpRoad(t)') : UpMsg(UpRoad(t)[i], t)'
                    /\ \A r \in Req : (t \in sClients' /\ Joined(t)' /\ agent'[r] = t) =>
                         Follows(UpRoad(t)', Len(UpRoad(t)') + 1, r, UpNext(r)', UpSeen', UpLive')
  BY DEF UpRoadInv
<1>0. UpRoad(t) \in Seq(Message) /\ Len(UpRoad(t)) \in Nat
  BY UpTyped
<1>1. /\ RoadOK(UpRoad(t), UpSeen, UpLive)
      /\ \A i \in 1 .. Len(UpRoad(t)) : UpMsg(UpRoad(t)[i], t)
      /\ \A r \in Req : (t \in sClients /\ Joined(t) /\ agent[r] = t) =>
            Follows(UpRoad(t), Len(UpRoad(t)) + 1, r, UpNext(r), UpSeen, UpLive)
  BY DEF UpRoadInv
<1>2. RoadOK(UpRoad(t)', UpSeen', UpLive')
  BY <1>0, <1>1, RoadCut
<1>3. \A i \in 1 .. Len(UpRoad(t)') : UpMsg(UpRoad(t)[i], t)'
  <2> SUFFICES ASSUME NEW i \in 1 .. Len(UpRoad(t)')
               PROVE  UpMsg(UpRoad(t)[i], t)'
    OBVIOUS
  <2>1. PICK m \in Message : m = UpRoad(t)'[i] /\ UpMsg(m, t)
    <3>1. i \in 1 .. Len(UpRoad(t)) /\ UpRoad(t)'[i] = UpRoad(t)[i]
      BY <1>0 DEF Cuts
    <3> QED
      BY <1>0, <1>1, <3>1
  <2>2. UpMsg(m, t)'
    BY <2>1
  <2> QED
    BY <2>1, <2>2 DEF UpMsg
<1>4. ASSUME NEW r \in Req, t \in sClients', Joined(t)', agent'[r] = t
      PROVE  Follows(UpRoad(t)', Len(UpRoad(t)') + 1, r, UpNext(r)', UpSeen', UpLive')
  <2>1. CASE /\ t \in sClients /\ Joined(t) /\ agent[r] = t
             /\ UpRoad(t)' = UpRoad(t) /\ UpNext(r)' = UpNext(r)
    <3>1. Follows(UpRoad(t), Len(UpRoad(t)) + 1, r, UpNext(r)', UpSeen, UpLive)
      BY <1>1, <2>1
    <3> QED
      BY <2>1, <3>1 DEF Follows
  <2>2. CASE r \in UpLive' => UpSeen'[r] = UpNext(r)'
    BY <2>2 DEF Follows
  <2> QED
    BY <1>4, <2>1, <2>2
<1> QED
  BY <1>2, <1>3, <1>4

\* What the sender of request r hands to the hub goes to the end of its road, and
\* the hub drops the session or does not know it otherwise.
LEMMA UpSend ==
    ASSUME TypeOK, UpRoadInv, restarts = 0, NEW r \in Req, NEW m \in Message,
           m.body.req = r, m.body.n = UpNext(r), UpNext(r)' = UpNext(r) + 1,
           SH!Broadcast(agent[r], m), agent[r] \in Session,
           UNCHANGED <<conn, wire, agent, UpSeen, UpLive>>,
           \A q \in Req \ {r} : UpNext(q)' = UpNext(q),
           \A x \in Message, t \in Session : UpMsg(x, t) => UpMsg(x, t)',
           UpMsg(m, agent[r])'
    PROVE  UpRoadInv'
<1> SUFFICES ASSUME NEW t \in Session
             PROVE  /\ RoadOK(UpRoad(t)', UpSeen', UpLive')
                    /\ \A i \in 1 .. Len(UpRoad(t)') : UpMsg(UpRoad(t)[i], t)'
                    /\ \A q \in Req : (t \in sClients' /\ Joined(t)' /\ agent'[q] = t) =>
                         Follows(UpRoad(t)', Len(UpRoad(t)') + 1, q, UpNext(q)', UpSeen', UpLive')
  BY DEF UpRoadInv
<1>0. UpRoad(t) \in Seq(Message) /\ Len(UpRoad(t)) \in Nat
  BY UpTyped
<1>1. /\ RoadOK(UpRoad(t), UpSeen, UpLive)
      /\ \A i \in 1 .. Len(UpRoad(t)) : UpMsg(UpRoad(t)[i], t)
      /\ \A q \in Req : (t \in sClients /\ Joined(t) /\ agent[q] = t) =>
            Follows(UpRoad(t), Len(UpRoad(t)) + 1, q, UpNext(q), UpSeen, UpLive)
  BY DEF UpRoadInv
<1>2. Joined(t)' <=> Joined(t)
  BY DEF Joined
<1>3. \A i \in 1 .. Len(UpRoad(t)) : \E x \in Message : x = UpRoad(t)[i] /\ UpMsg(x, t)
  BY <1>0, <1>1
<1>4. CASE /\ UpRoad(t)' = UpRoad(t)
           /\ t \in sClients' /\ Joined(t)' => t \in sClients /\ t # agent[r]
  <2>1. \A i \in 1 .. Len(UpRoad(t)') : UpMsg(UpRoad(t)[i], t)'
    <3> SUFFICES ASSUME NEW i \in 1 .. Len(UpRoad(t)')
                 PROVE  UpMsg(UpRoad(t)[i], t)'
      OBVIOUS
    <3>1. PICK x \in Message : x = UpRoad(t)'[i] /\ UpMsg(x, t)
      BY <1>3, <1>4
    <3>2. UpMsg(x, t)'
      BY <3>1
    <3> QED
      BY <3>1, <3>2 DEF UpMsg
  <2>2. ASSUME NEW q \in Req, t \in sClients', Joined(t)', agent'[q] = t
        PROVE  Follows(UpRoad(t), Len(UpRoad(t)) + 1, q, UpNext(q)', UpSeen, UpLive)
    <3>1. q # r
      BY <1>4, <2>2
    <3> QED
      BY <1>1, <1>2, <1>4, <2>2, <3>1
  <2> QED
    BY <1>1, <1>4, <2>1, <2>2
<1>5. CASE /\ UpRoad(t)' = Append(UpRoad(t), m)
           /\ t = agent[r] /\ t \in sClients /\ Joined(t)
  <2>1. Follows(UpRoad(t), Len(UpRoad(t)) + 1, r, m.body.n, UpSeen, UpLive)
    BY <1>1, <1>5
  <2>2. ASSUME NEW i \in 1 .. Len(UpRoad(t)), Of(UpRoad(t), i, r)
        PROVE  UpRoad(t)[i].body.n < m.body.n
    <3>1. UpMsg(UpRoad(t)[i], t) /\ UpRoad(t)[i].body.req = r
      BY <1>1, <2>2 DEF Of
    <3> QED
      BY <1>1, <3>1 DEF UpMsg
  <2>3. /\ RoadOK(UpRoad(t)', UpSeen, UpLive)
        /\ Follows(UpRoad(t)', Len(UpRoad(t)) + 2, r, m.body.n + 1, UpSeen, UpLive)
        /\ \A q, k : Follows(UpRoad(t), Len(UpRoad(t)) + 1, q, k, UpSeen, UpLive) =>
                        Follows(UpRoad(t)', Len(UpRoad(t)) + 2, q, k, UpSeen, UpLive)
    BY <1>0, <1>1, <1>5, <2>1, <2>2, RoadAppend
  <2>4. Len(UpRoad(t)') + 1 = Len(UpRoad(t)) + 2
    BY <1>0, <1>5
  <2>5. \A i \in 1 .. Len(UpRoad(t)') : UpMsg(UpRoad(t)[i], t)'
    <3> SUFFICES ASSUME NEW i \in 1 .. Len(UpRoad(t)')
                 PROVE  UpMsg(UpRoad(t)[i], t)'
      OBVIOUS
    <3>1. UpRoad(t)'[i] = m \/ \E x \in Message : x = UpRoad(t)'[i] /\ UpMsg(x, t)
      BY <1>0, <1>3, <1>5
    <3>2. PICK x \in Message : x = UpRoad(t)'[i] /\ UpMsg(x, t)'
      BY <1>5, <3>1
    <3> QED
      BY <3>2 DEF UpMsg
  <2>6. ASSUME NEW q \in Req, t \in sClients', Joined(t)', agent'[q] = t
        PROVE  Follows(UpRoad(t)', Len(UpRoad(t)') + 1, q, UpNext(q)', UpSeen, UpLive)
    <3>1. CASE q = r
      BY <2>3, <2>4, <3>1
    <3>2. CASE q # r
      BY <1>1, <1>5, <2>3, <2>4, <2>6, <3>2
    <3> QED
      BY <3>1, <3>2
  <2> QED
    BY <2>3, <2>5, <2>6
<1>6. sSend[t] \in Seq(Message) /\ wire["C"][t] \in Seq(Message) /\ sSend \in [Session -> Seq(Message)]
  BY DEF TypeOK, SH!HubTypeOK, NetTypeOK, End
<1>7. \/ /\ sSend'[t] = sSend[t]
         /\ t \in sClients' => t \in sClients /\ t # agent[r]
      \/ /\ t = agent[r] /\ t \in sClients
         /\ sSend'[t] = Append(sSend[t], m)
  BY <1>6 DEF SH!Broadcast, SH!Drop, SH!hubVars
<1>8. CASE /\ sSend'[t] = sSend[t]
           /\ t \in sClients' => t \in sClients /\ t # agent[r]
  <2>1. UpRoad(t)' = UpRoad(t)
    BY <1>8 DEF UpRoad, Road
  <2> QED
    BY <1>2, <1>4, <1>8, <2>1
<1>9. CASE t = agent[r] /\ t \in sClients /\ sSend'[t] = Append(sSend[t], m)
  <2>1. CASE Joined(t)
    <3>1. UpRoad(t) = wire["C"][t] \o sSend[t] /\ UpRoad(t)' = wire["C"][t] \o sSend'[t]
      BY <1>2, <2>1 DEF UpRoad, Road, Joined, Peer
    <3>2. \A w, q \in Seq(Message) : w \o Append(q, m) = Append(w \o q, m)
      OBVIOUS
    <3> QED
      BY <1>5, <1>6, <1>9, <2>1, <3>1, <3>2
  <2>2. CASE ~Joined(t)
    <3>1. UpRoad(t)' = UpRoad(t)
      BY <2>2 DEF UpRoad, Road, Joined, Peer
    <3> QED
      BY <1>2, <1>4, <2>2, <3>1
  <2> QED
    BY <2>1, <2>2
<1> QED
  BY <1>7, <1>8, <1>9

\* The client's read pump takes the message that the request expects.
LEMMA UpTake ==
    ASSUME TypeOK, UpRoadInv, restarts = 0, NEW s \in Session, ReadSock("C", s),
           NEW h, h = Head(wire["C"][s]),
           UNCHANGED <<sSend, sClients, agent>>, \A q \in Req : UpNext(q)' = UpNext(q),
           UpLive' \subseteq UpLive,
           \A r \in UpLive' : UpSeen'[r] = IF r = h.body.req THEN h.body.n + 1 ELSE UpSeen[r],
           \A x \in Message, t \in Session :
                UpMsg(x, t) /\ (x.body.req = h.body.req => h.body.n < x.body.n) => UpMsg(x, t)'
    PROVE  UpRoadInv'
<1> SUFFICES ASSUME NEW t \in Session
             PROVE  /\ RoadOK(UpRoad(t)', UpSeen', UpLive')
                    /\ \A i \in 1 .. Len(UpRoad(t)') : UpMsg(UpRoad(t)[i], t)'
                    /\ \A q \in Req : (t \in sClients' /\ Joined(t)' /\ agent'[q] = t) =>
                         Follows(UpRoad(t)', Len(UpRoad(t)') + 1, q, UpNext(q)', UpSeen', UpLive')
  BY DEF UpRoadInv
<1>0. "C" \in End /\ UpRoad(t) \in Seq(Message) /\ Len(UpRoad(t)) \in Nat
      /\ UpRoad(s) \in Seq(Message) /\ sSend[s] \in Seq(Message)
  BY UpTyped DEF End, TypeOK, SH!HubTypeOK
<1>1. /\ RoadOK(UpRoad(t), UpSeen, UpLive)
      /\ \A i \in 1 .. Len(UpRoad(t)) : UpMsg(UpRoad(t)[i], t)
      /\ \A q \in Req : (t \in sClients /\ Joined(t) /\ agent[q] = t) =>
            Follows(UpRoad(t), Len(UpRoad(t)) + 1, q, UpNext(q), UpSeen, UpLive)
  BY DEF UpRoadInv
<1>2. Without(UpRoad(s)', UpRoad(s), h)
  <2>1. UpRoad(s)' = IF conn'["C"][s] # "open" THEN << >>
                     ELSE IF conn'[Peer("C")][s] # "open" THEN wire'["C"][s]
                          ELSE wire'["C"][s] \o sSend[s]
    BY DEF UpRoad, Road
  <2> QED
    BY <1>0, <2>1, RoadRead DEF UpRoad, TypeOK
<1>3. conn' = conn /\ (t # s => wire'["C"][t] = wire["C"][t])
  BY <1>0, ReadSockEffect DEF TypeOK
<1>4. Joined(t)' <=> Joined(t)
  BY <1>3 DEF Joined
<1>5. h \in Message /\ UpMsg(h, s) /\ h.body.req \in Req
  <2>1. h = UpRoad(s)[1] /\ 1 \in 1 .. Len(UpRoad(s)) /\ h \in Message
    BY <1>0, <1>2 DEF Without
  <2>2. UpMsg(UpRoad(s)[1], s)
    BY <2>1 DEF UpRoadInv
  <2> QED
    BY <2>1, <2>2, MessageTyped
<1>6. agent[h.body.req] = s
  BY <1>5 DEF UpMsg
<1>7. CASE t # s
  <2>1. UpRoad(t)' = UpRoad(t)
    BY <1>3, <1>7 DEF UpRoad, Road
  <2>2. \A i \in 1 .. Len(UpRoad(t)) : UpRoad(t)[i].body.req # h.body.req
    <3>1. \A i \in 1 .. Len(UpRoad(t)) : agent[UpRoad(t)[i].body.req] = t
      BY <1>1 DEF UpMsg
    <3> QED
      BY <1>6, <1>7, <3>1
  <2>3. RoadOK(UpRoad(t)', UpSeen', UpLive')
    <3>1. Cuts(UpRoad(t), UpRoad(t))
      BY <1>0 DEF Cuts
    <3> QED
      BY <1>0, <1>1, <2>1, <2>2, <3>1, RoadCut DEF Of
  <2>4. \A i \in 1 .. Len(UpRoad(t)') : UpMsg(UpRoad(t)[i], t)'
    <3> SUFFICES ASSUME NEW i \in 1 .. Len(UpRoad(t)')
                 PROVE  UpMsg(UpRoad(t)[i], t)'
      OBVIOUS
    <3>1. PICK x \in Message : x = UpRoad(t)'[i] /\ UpMsg(x, t) /\ x.body.req # h.body.req
      BY <1>0, <1>1, <2>1, <2>2
    <3>2. UpMsg(x, t)'
      BY <3>1
    <3> QED
      BY <3>1, <3>2 DEF UpMsg
  <2>5. ASSUME NEW q \in Req, t \in sClients', Joined(t)', agent'[q] = t
        PROVE  Follows(UpRoad(t), Len(UpRoad(t)) + 1, q, UpNext(q)', UpSeen', UpLive')
    <3>1. q # h.body.req /\ Follows(UpRoad(t), Len(UpRoad(t)) + 1, q, UpNext(q), UpSeen, UpLive)
      BY <1>1, <1>4, <1>6, <1>7, <2>5
    <3> QED
      BY <3>1 DEF Follows
  <2> QED
    BY <2>1, <2>3, <2>4, <2>5
<1>8. CASE t = s
  <2>1. RoadOK(UpRoad(s), UpSeen, UpLive) /\ UpLive' \in SUBSET UpLive
    BY <1>1, <1>8
  <2>2. \A i \in 1 .. Len(UpRoad(s)') :
            UpRoad(s)'[i].body.req = h.body.req => h.body.n < UpRoad(s)'[i].body.n
    BY <1>0, <1>2, <2>1, RoadBehind
  <2>3. RoadOK(UpRoad(s)', UpSeen', UpLive')
    BY <1>0, <1>2, <2>1, RoadTail
  <2>4. ASSUME NEW q, NEW k, Follows(UpRoad(s), Len(UpRoad(s)) + 1, q, k, UpSeen, UpLive),
               q = h.body.req => h.body.n < k
        PROVE  Follows(UpRoad(s)', Len(UpRoad(s)') + 1, q, k, UpSeen', UpLive')
    <3>1. Len(UpRoad(s)) \in 1 .. Len(UpRoad(s)) /\ Len(UpRoad(s)') + 1 = Len(UpRoad(s))
      BY <1>0, <1>2 DEF Without
    <3> QED
      BY <1>0, <1>2, <2>1, <2>4, <3>1, RoadNext
  <2>5. \A i \in 1 .. Len(UpRoad(s)') : UpMsg(UpRoad(s)[i], s)'
    <3> SUFFICES ASSUME NEW i \in 1 .. Len(UpRoad(s)')
                 PROVE  UpMsg(UpRoad(s)[i], s)'
      OBVIOUS
    <3>1. /\ UpRoad(s)'[i] = UpRoad(s)[i + 1] /\ i + 1 \in 1 .. Len(UpRoad(s))
          /\ UpRoad(s)[i + 1] \in Message
      BY <1>0, <1>2 DEF Without
    <3>2. PICK x \in Message : x = UpRoad(s)'[i] /\ UpMsg(x, s)
      BY <1>1, <1>8, <3>1
    <3>3. UpMsg(x, s)'
      BY <2>2, <3>2
    <3> QED
      BY <3>2, <3>3 DEF UpMsg
  <2>6. ASSUME NEW q \in Req, s \in sClients', Joined(s)', agent'[q] = s
        PROVE  Follows(UpRoad(s)', Len(UpRoad(s)') + 1, q, UpNext(q)', UpSeen', UpLive')
    <3>1. Follows(UpRoad(s), Len(UpRoad(s)) + 1, q, UpNext(q), UpSeen, UpLive)
      BY <1>1, <1>4, <1>8, <2>6
    <3>2. q = h.body.req => h.body.n < UpNext(q)
      BY <1>5 DEF UpMsg
    <3> QED
      BY <2>4, <3>1, <3>2
  <2> QED
    BY <1>8, <2>3, <2>5, <2>6
<1> QED
  BY <1>7, <1>8

\* Steps of the sockets lose the rear of a road at most, and a write to the
\* websocket leaves the road as it is.
LEMMA UpLoses ==
    ASSUME TypeOK, UNCHANGED sSend, NEW t \in Session, Loses(t)
    PROVE  Cuts(UpRoad(t)', UpRoad(t)) /\ (Joined(t)' => Joined(t) /\ UpRoad(t)' = UpRoad(t))
<1>1. UpRoad(t)' = IF conn'["C"][t] # "open" THEN << >>
                   ELSE IF conn'[Peer("C")][t] # "open" THEN wire'["C"][t]
                        ELSE wire'["C"][t] \o sSend[t]
  BY DEF UpRoad, Road
<1>2. "C" \in End /\ sSend[t] \in Seq(Message)
  BY DEF End, TypeOK, SH!HubTypeOK
<1> QED
  BY <1>1, <1>2, RoadLoses DEF UpRoad, TypeOK

\* writePump of the server moves a message along the road to the client.
LEMMA UpMoves ==
    ASSUME TypeOK, NEW s \in Session, SH!Take(s), WriteSock("S", s, Head(sSend[s])),
           NEW t \in Session
    PROVE  UpRoad(t)' = UpRoad(t) /\ (Joined(t)' <=> Joined(t))
<1>1. conn' = conn /\ (t # s => wire'["C"][t] = wire["C"][t])
  BY WriteSockEffect DEF End, TypeOK
<1>2. sSend[s] \in Seq(Message) /\ sSend[s] # << >> /\ sSend'[s] = Tail(sSend[s])
      /\ (t # s => sSend'[t] = sSend[t])
  BY DEF SH!Take, TypeOK, SH!HubTypeOK
<1>3. "S" \in End /\ Peer("S") = "C" /\ Peer("C") = "S"
  BY DEF End, Peer
<1>4. CASE t # s
  BY <1>1, <1>2, <1>4 DEF UpRoad, Road, Joined
<1>5. CASE t = s
  <2>1. UpRoad(s)' = IF conn'[Peer("S")][s] # "open" THEN << >>
                     ELSE IF conn'["S"][s] # "open" THEN wire'[Peer("S")][s]
                          ELSE wire'[Peer("S")][s] \o Tail(sSend[s])
    BY <1>2, <1>3 DEF UpRoad, Road
  <2>2. UpRoad(s)' = Road(Peer("S"), s, sSend[s])
    BY <1>2, <1>3, <2>1, RoadMoves DEF TypeOK
  <2> QED
    BY <1>1, <1>3, <1>5, <2>2 DEF UpRoad, Joined
<1> QED
  BY <1>4, <1>5

\* A step that leaves the requests of the server as they are.
LEMMA UpSame ==
    ASSUME TypeOK, UpRoadInv, restarts = 0, UNCHANGED <<agent, sID, snd, up>>,
           \A r \in Req : (Opened(r)' <=> Opened(r)) /\ (Created(r)' <=> Created(r)),
           sClients' \subseteq sClients,
           \A t \in Session : /\ Cuts(UpRoad(t)', UpRoad(t))
                              /\ Joined(t)' => Joined(t) /\ UpRoad(t)' = UpRoad(t),
           UpLive' \subseteq UpLive, \A r \in UpLive' : UpSeen'[r] = UpSeen[r]
    PROVE  UpRoadInv'
<1>1. \A r \in Req : UpNext(r)' = UpNext(r)
  BY DEF UpNext
<1>2. ASSUME NEW t \in Session, NEW m \in Message, UpMsg(m, t)
      PROVE  UpMsg(m, t)'
  <2>1. m.body.req \in Req
    BY MessageTyped
  <2> QED
    BY <1>1, <1>2, <2>1 DEF UpMsg
<1> QED
  BY <1>1, <1>2, UpKept

\* The client knows a request by the id that the server gave it.
LEMMA LocalMatch ==
    ASSUME TypeOK, RequestInv, CreatedInv, NoBridgeLeak, restarts = 0, NEW r \in Req, Begun(r)
    PROVE  LB!Matching(sID[r]) = lBridges \cap {r}
<1>1. \A b \in lBridges : b \in Req /\ Begun(b) /\ lID[b] = sID[b]
  BY DEF CreatedInv, NoBridgeLeak, Created, Opened, Begun, TypeOK, LB!BridgeTypeOK
<1> QED
  BY <1>1 DEF RequestInv, LB!Matching

\* What a message for request r does to the client's bridges.
LEMMA LocalDelivers ==
    ASSUME LB!BridgeTypeOK, NEW r \in Req, NEW i, LB!Matching(i) = lBridges \cap {r}, NEW b,
           LB!BroadcastClose(i) \/ LB!BroadcastBody(i, b)
    PROVE  /\ lID' = lID /\ lBridges' \subseteq lBridges
           /\ \A q \in Req : q # r => lBody'[q] = lBody[q] /\ lCause'[q] = lCause[q]
           /\ LB!BroadcastClose(i) =>
                /\ r \notin lBridges' /\ lBody'[r] = lBody[r]
                /\ r \in lBridges \/ lCause'[r] = lCause[r]
           /\ LB!BroadcastBody(i, b) =>
                \/ /\ r \notin lBridges' /\ lBody'[r] = lBody[r]
                   /\ lCause'[r] \in {lCause[r], "full"}
                \/ /\ r \in lBridges /\ lCause'[r] = lCause[r]
                   /\ lBody'[r] = Append(lBody[r], b)
<1>1. ASSUME LB!BroadcastClose(i)
      PROVE  /\ lID' = lID /\ lBridges' \subseteq lBridges
             /\ \A q \in Req : q # r => lBody'[q] = lBody[q] /\ lCause'[q] = lCause[q]
             /\ r \notin lBridges' /\ lBody'[r] = lBody[r]
             /\ r \in lBridges \/ lCause'[r] = lCause[r]
  BY <1>1 DEF LB!BroadcastClose, LB!Drop, LB!bridgeVars, LB!BridgeTypeOK
<1>2. ASSUME LB!BroadcastBody(i, b)
      PROVE  /\ lID' = lID /\ lBridges' \subseteq lBridges
             /\ \A q \in Req : q # r => lBody'[q] = lBody[q] /\ lCause'[q] = lCause[q]
             /\ \/ /\ r \notin lBridges' /\ lBody'[r] = lBody[r]
                   /\ lCause'[r] \in {lCause[r], "full"}
                \/ /\ r \in lBridges /\ lCause'[r] = lCause[r]
                   /\ lBody'[r] = Append(lBody[r], b)
  <2>1. /\ lID' = lID
        /\ \/ \E full : full \subseteq {r} /\ lBridges \cap {r} \subseteq full /\ LB!Drop(full, "full")
                         /\ UNCHANGED lBody
           \/ r \in lBridges /\ LB!Drop({}, "full") /\ lBody' = [lBody EXCEPT ![r] = Append(@, b)]
    BY <1>2 DEF LB!BroadcastBody
  <2>2. ASSUME r \in lBridges, LB!Drop({}, "full"), lBody' = [lBody EXCEPT ![r] = Append(@, b)]
        PROVE  /\ lBridges' \subseteq lBridges /\ lCause' = lCause
               /\ lBody'[r] = Append(lBody[r], b)
               /\ \A q \in Req : q # r => lBody'[q] = lBody[q]
    <3>1. lCause' = lCause /\ lBridges' \subseteq lBridges
      BY <2>2 DEF LB!Drop, LB!BridgeTypeOK
    <3>2. lBody'[r] = Append(lBody[r], b) /\ \A q \in Req : q # r => lBody'[q] = lBody[q]
      BY <2>2 DEF LB!BridgeTypeOK
    <3> QED
      BY <3>1, <3>2
  <2>3. ASSUME NEW full, full \subseteq {r}, lBridges \cap {r} \subseteq full,
               LB!Drop(full, "full"), UNCHANGED lBody
        PROVE  /\ lBridges' \subseteq lBridges /\ r \notin lBridges'
               /\ lCause'[r] \in {lCause[r], "full"}
               /\ \A q \in Req : q # r => lCause'[q] = lCause[q]
    BY <2>3 DEF LB!Drop, LB!BridgeTypeOK
  <2> QED
    BY <2>1, <2>2, <2>3
<1> QED
  BY <1>1, <1>2

\* A stream grows at the end of its buffer, and moves from there to the connection.
LEMMA ReceivedGrows ==
    ASSUME NEW r \in Req, NEW out \in Seq(Chunk), NEW body \in Seq(Chunk), Received(r, out, body),
           NEW b, b = [req |-> r, n |-> Len(out) + Len(body) + 1]
    PROVE  Received(r, out, Append(body, b)) /\ Len(Append(body, b)) = Len(body) + 1
<1> DEFINE P == Append(body, b)
<1>1. /\ Len(P) = Len(body) + 1 /\ Len(body) \in Nat /\ Len(out) \in Nat
      /\ P[Len(body) + 1] = b /\ \A i \in 1 .. Len(body) : P[i] = body[i]
  OBVIOUS
<1> HIDE DEF P
<1>2. ASSUME NEW i \in 1 .. Len(P) PROVE P[i] = [req |-> r, n |-> Len(out) + i]
  <2>1. CASE i \in 1 .. Len(body)
    BY <1>1, <2>1 DEF Received
  <2>2. CASE i = Len(body) + 1
    <3>1. Len(out) + i = Len(out) + Len(body) + 1
      BY <1>1, <2>2
    <3> QED
      BY <1>1, <2>2, <3>1
  <2> QED
    BY <1>1, <2>1, <2>2
<1>3. Received(r, out, P)
  BY <1>2 DEF Received
<1> QED
  BY <1>1, <1>3 DEF P

Moves(out, body, out2, body2) ==
    body # << >> /\ out2 = Append(out, Head(body)) /\ body2 = Tail(body)

\* WritePump moves the next chunk from a bridge to its connection.
LEMMA ReceivedMoves ==
    ASSUME NEW r \in Req, NEW out \in Seq(Chunk), NEW body \in Seq(Chunk), Received(r, out, body),
           NEW out2 \in Seq(Chunk), NEW body2 \in Seq(Chunk),
           Moves(out, body, out2, body2)
    PROVE  /\ Received(r, out2, body2)
           /\ Len(out2) + Len(body2) = Len(out) + Len(body)
<1>1. /\ Len(out) \in Nat /\ Len(body) \in Nat \ {0} /\ Len(out2) = Len(out) + 1
      /\ Len(body2) = Len(body) - 1
      /\ \A i \in 1 .. Len(out) : out2[i] = out[i]
      /\ out2[Len(out) + 1] = body[1]
      /\ \A i \in 1 .. Len(body2) : body2[i] = body[i + 1] /\ i + 1 \in 1 .. Len(body)
  BY DEF Moves
<1>2. \A i \in 1 .. Len(body2) : body2[i] = [req |-> r, n |-> Len(out2) + i]
  <2> SUFFICES ASSUME NEW i \in 1 .. Len(body2)
               PROVE  body2[i] = [req |-> r, n |-> Len(out2) + i]
    OBVIOUS
  <2>1. body2[i] = [req |-> r, n |-> Len(out) + (i + 1)]
    BY <1>1 DEF Received
  <2>2. Len(out) + (i + 1) = Len(out2) + i
    BY <1>1
  <2> QED
    BY <2>1, <2>2
<1>3. \A i \in 1 .. Len(out2) : out2[i] = [req |-> r, n |-> i]
  <2>1. body[1] = [req |-> r, n |-> Len(out) + 1] /\ \A i \in 1 .. Len(out) : out[i] = [req |-> r, n |-> i]
    BY <1>1 DEF Received
  <2>2. \A i \in 1 .. Len(out2) : i \in 1 .. Len(out) \/ i = Len(out) + 1
    BY <1>1
  <2> QED
    BY <1>1, <2>1, <2>2
<1> QED
  BY <1>1, <1>2, <1>3 DEF Received

\* What was shown before of every state.
Known == TypeOK /\ NoPanic /\ NoBridgeLeak /\ UnusedSession /\ RequestInv

\* Only a restart of the server counts as one.
LEMMA RestartsCount ==
    ASSUME TypeOK, [Next]_vars, restarts' = 0
    PROVE  restarts = 0 /\ ~ServerRestart
<1>1. restarts \in Nat
  BY DEF TypeOK, EnvTypeOK
<1>2. ~ServerRestart
  BY <1>1 DEF ServerRestart
<1>3. ASSUME NEW s \in Session, SessionNext(s)
      PROVE  UNCHANGED restarts
  BY <1>3 DEF SessionNext, ServerWritePump, ClientWritePump, ServerReadPump, ClientReadPump,
     Connect, Cut, ServerRegister, ServerWrite, ServerWriteEnd, ServerRead, ServerReadEnd,
     ClientRegister, ClientWrite, ClientWriteEnd, ClientCreate, ClientRead, ClientReadEnd,
     WritePumpEnds, env
<1>4. ASSUME NEW r \in Req, RequestNext(r)
      PROVE  UNCHANGED restarts
  BY <1>4 DEF RequestNext, Transfer, Sender, LocalWriter, LocalCopier, Begin, NotFound, Open,
     Send, SendClose, Pump, PumpEnd, Return, LocalPump, LocalPumpEnd, LocalCopy, LocalClose,
     LocalUnregister, env
<1>5. ClientCrash \/ UNCHANGED vars => UNCHANGED restarts
  BY DEF ClientCrash, vars, env
<1> QED
  BY <1>2, <1>3, <1>4, <1>5 DEF Next

\* A step that does not touch the client's side of a request.
LEMMA CreatedSame ==
    ASSUME TypeOK, CreatedInv, restarts = 0,
           UNCHANGED <<agent, sID, lID, lagent, down>>,
           \A r \in Req : (Opened(r) => Opened(r)') /\ (Created(r)' <=> Created(r)),
           \A r \in Req : Created(r) /\ rp["C"][agent[r]] \notin {"off", "register"} =>
                            rp'["C"][agent[r]] \notin {"off", "register"}
    PROVE  CreatedInv'
  BY DEF CreatedInv

\* What the client has received stays in order when nothing is received.
LEMMA LocalSame ==
    ASSUME TypeOK, LocalInv, restarts = 0, UNCHANGED <<up, lgot, lBody>>,
           \A r \in Req : /\ Created(r)' <=> Created(r)
                          /\ snd[r] = "done" => snd'[r] = "done"
                          /\ lCause'[r] = "close" => lCause[r] = "close"
    PROVE  LocalInv'
  BY DEF LocalInv, Received

\* The steps of the session's sockets and goroutines that take no message.
LEMMA UpSession ==
    ASSUME Known, UpInv, restarts = 0, NEW s \in Session,
           \/ Connect(s) \/ Cut(s) \/ ServerWritePump(s) \/ ClientWritePump(s)
           \/ ServerReadPump(s) \/ ClientRegister(s) \/ ClientReadEnd(s)
    PROVE  UpInv'
<1> USE DEF Known, UpInv
<1>0. /\ "S" \in End /\ "C" \in End /\ Peer("S") = "C" /\ Peer("C") = "S"
      /\ TypeOK /\ NetTypeOK /\ sSend \in [Session -> Seq(Message)]
  BY DEF End, Peer, TypeOK, SH!HubTypeOK
<1>1. /\ UNCHANGED <<xfer, local, brL>>
      /\ UNCHANGED sID
  BY ServerBridgeIds
  DEF Connect, Cut, ServerWritePump, ClientWritePump, ServerReadPump, ServerRegister, ServerWrite,
      ServerWriteEnd, WritePumpEnds, ServerRead, ServerReadEnd, ClientRegister, ClientWrite,
      ClientWriteEnd, ClientReadEnd, brS
<1>2. /\ UNCHANGED <<agent, sID, snd, up, down, lID, lagent, lgot, lBody, lCause>>
      /\ UpLive' = UpLive /\ UpSeen' = UpSeen
      /\ \A r \in Req : (Opened(r)' <=> Opened(r)) /\ (Created(r)' <=> Created(r))
  BY <1>1 DEF xfer, local, brL, UpLive, UpSeen, Opened, Created
<1>3. LocalInv'
  BY <1>0, <1>2, LocalSame
<1>4. CreatedInv'
  <2>1. \A r \in Req : Created(r) => agent[r] \in Session /\ conn["C"][agent[r]] # "none"
    BY DEF CreatedInv, RequestInv, UnusedSession, Opened, Begun, TypeOK, SH!HubTypeOK
  <2>2. \A t \in Session : /\ rp["C"][t] \notin {"off", "register"}
                           /\ conn["C"][t] # "none"
                           => rp'["C"][t] \notin {"off", "register"}
    <3>1. ASSUME NEW e \in End, StartPumps(e, s) \/ ReadPumpEnds(e, s), NEW t \in Session
          PROVE  rp'["C"][t] \in {rp["C"][t], "run", "done"}
      <4>1. \E v \in {"run", "done"} : rp' = [rp EXCEPT ![e][s] = v]
        BY <3>1 DEF StartPumps, ReadPumpEnds
      <4> QED
        BY <1>0, <4>1, EndFrame DEF NetTypeOK
    <3>2. ASSUME Connect(s), NEW t \in Session
          PROVE  conn["C"][t] # "none" => rp'["C"][t] = rp["C"][t]
      BY <1>0, <3>2 DEF Connect, NetTypeOK
    <3>3. \/ \E e \in End : StartPumps(e, s) \/ ReadPumpEnds(e, s)
          \/ Connect(s)
          \/ rp' = rp
      BY <1>0
      DEF Cut, ServerWritePump, ClientWritePump, ServerReadPump, ServerRegister, ServerWrite,
          ServerWriteEnd, WritePumpEnds, ServerRead, ServerReadEnd, ClientRegister, ClientWrite,
          ClientWriteEnd, ClientReadEnd, pumps
    <3> QED
      BY <3>1, <3>2, <3>3
  <2> QED
    BY <1>0, <1>2, <2>1, <2>2, CreatedSame
<1>5. CASE Cut(s) \/ ServerWriteEnd(s) \/ ClientWriteEnd(s) \/ ServerReadEnd(s) \/ ClientRegister(s)
           \/ ClientReadEnd(s)
  <2>1. \A t \in Session : Loses(t)
    BY <1>0, <1>5, NetLoses
    DEF ServerWriteEnd, ClientWriteEnd, WritePumpEnds, ServerReadEnd, ClientReadEnd, ReadPumpEnds,
        ClientRegister
  <2>2. UNCHANGED sSend /\ sClients' \subseteq sClients
    BY <1>5 DEF Cut, ServerWriteEnd, ClientWriteEnd, WritePumpEnds, ServerReadEnd, ClientReadEnd,
       ClientRegister, SH!Unregister, SH!Drop, SH!hubVars, hubS
  <2> QED
    BY <1>0, <1>2, <1>3, <1>4, <2>1, <2>2, UpLoses, UpSame
<1>6. CASE ServerWrite(s)
  <2>1. SH!Take(s) /\ WriteSock("S", s, Head(sSend[s]))
    BY <1>6 DEF ServerWrite
  <2>2. \A t \in Session : UpRoad(t)' = UpRoad(t) /\ (Joined(t)' <=> Joined(t))
    BY <1>0, <2>1, UpMoves
  <2>3. \A t \in Session : Cuts(UpRoad(t)', UpRoad(t))
    BY <1>0, <2>2, UpTyped DEF Cuts
  <2>4. sClients' = sClients
    BY <2>1 DEF SH!Take
  <2> QED
    BY <1>0, <1>2, <1>3, <1>4, <2>2, <2>3, <2>4, UpSame
<1>7. CASE ClientWrite(s) \/ ServerRead(s)
  <2>1. \A t \in Session : conn' = conn /\ wire'["C"][t] = wire["C"][t]
    BY <1>0, <1>7, WriteSockEffect, ReadSockEffect DEF ClientWrite, ServerRead
  <2>2. UNCHANGED <<sSend, sClients>>
    BY <1>7 DEF ClientWrite, ServerRead, hubS
  <2>3. \A t \in Session : UpRoad(t)' = UpRoad(t) /\ (Joined(t)' <=> Joined(t))
    BY <1>0, <2>1, <2>2 DEF UpRoad, Road, Joined
  <2>4. \A t \in Session : Cuts(UpRoad(t)', UpRoad(t))
    BY <1>0, <2>3, UpTyped DEF Cuts
  <2> QED
    BY <1>0, <1>2, <1>3, <1>4, <2>2, <2>3, <2>4, UpSame
<1>8. ASSUME \A t \in Session : /\ Cuts(UpRoad(t)', UpRoad(t))
                                /\ t # s => /\ UpRoad(t)' = UpRoad(t) /\ (Joined(t)' <=> Joined(t))
                                            /\ (t \in sClients' <=> t \in sClients),
             s \in sClients' => \A r \in Req : agent[r] # s
      PROVE  UpInv'
  <2>1. \A r \in Req : UpNext(r)' = UpNext(r)
    BY <1>2 DEF UpNext
  <2>2. ASSUME NEW t \in Session, NEW m \in Message, UpMsg(m, t)
        PROVE  UpMsg(m, t)'
    <3>1. m.body.req \in Req
      BY MessageTyped
    <3> QED
      BY <1>2, <2>1, <2>2, <3>1 DEF UpMsg
  <2> QED
    BY <1>0, <1>2, <1>3, <1>4, <1>8, <2>1, <2>2, UpKept
<1>9. CASE Connect(s)
  <2>1. /\ wire' = wire /\ UNCHANGED <<sSend, sClients>> /\ conn["C"][s] = "none"
        /\ \A t \in Session, e \in End : conn'[e][t] = IF t = s THEN "open" ELSE conn[e][t]
    BY <1>0, <1>9 DEF Connect, NetTypeOK, hubS
  <2>2. wire["C"][s] = << >> /\ sSend[s] = << >> /\ s \notin sClients
    BY <2>1 DEF UnusedSession
  <2>3. UpRoad(s)' = << >>
    BY <1>0, <2>1, <2>2 DEF UpRoad, Road
  <2>4. \A t \in Session : t # s => UpRoad(t)' = UpRoad(t) /\ (Joined(t)' <=> Joined(t))
    BY <1>0, <2>1 DEF UpRoad, Road, Joined
  <2>5. \A t \in Session : Cuts(UpRoad(t), UpRoad(t)) /\ Cuts(<< >>, UpRoad(t))
    BY <1>0, UpTyped DEF Cuts
  <2> QED
    BY <1>8, <2>1, <2>2, <2>3, <2>4, <2>5
<1>10. CASE ServerRegister(s)
  <2>1. UNCHANGED net /\ UNCHANGED sSend /\ SH!Fresh(s) /\ sClients' = sClients \cup {s}
    BY <1>10 DEF ServerRegister, SH!Register
  <2>2. \A t \in Session : UpRoad(t)' = UpRoad(t) /\ (Joined(t)' <=> Joined(t))
    BY <1>0, <2>1 DEF UpRoad, Road, Joined, net
  <2>3. \A t \in Session : Cuts(UpRoad(t), UpRoad(t))
    BY <1>0, UpTyped DEF Cuts
  <2>4. \A r \in Req : agent[r] # s
    BY <2>1, NatAssumption DEF RequestInv, SH!Fresh
  <2> QED
    BY <1>8, <2>1, <2>2, <2>3, <2>4
<1> QED
  BY <1>5, <1>6, <1>7, <1>9, <1>10 DEF ServerWritePump, ClientWritePump, ServerReadPump

\* The client's read pump takes a message.
LEMMA UpReceive ==
    ASSUME Known, UpInv, restarts = 0, NEW s \in Session, ClientCreate(s) \/ ClientRead(s)
    PROVE  UpInv'
<1> USE DEF Known, UpInv
<1>0. /\ "C" \in End /\ TypeOK /\ NetTypeOK /\ LB!BridgeTypeOK /\ sSend[s] \in Seq(Message)
      /\ lBody \in [Req -> Seq(Chunk)] /\ lgot \in [Req -> Seq(Chunk)] /\ up \in [Req -> 0 .. MaxUp]
      /\ lcp \in [Req -> {"off", "copy", "unreg", "done", "dead"}]
      /\ lagent \in [Req -> Session \cup {NoSession}] /\ lID \in [Req -> Id]
      /\ MaxUp \in Nat
  BY NatAssumption
  DEF End, TypeOK, SH!HubTypeOK, LB!BridgeTypeOK, LocalTypeOK, XferTypeOK
<1> DEFINE h == Head(wire["C"][s])
           r == h.body.req
<1>1. /\ ReadSock("C", s) /\ rp["C"][s] = "run"
      /\ UNCHANGED <<sSend, sClients, agent, sID, snd, up, tpc, down, rp, lgot>>
  BY DEF ClientCreate, ClientRead, hubS, brS, xfer, local, pumps
<1>2. Without(UpRoad(s)', UpRoad(s), h)
  <2>1. UpRoad(s)' = IF conn'["C"][s] # "open" THEN << >>
                     ELSE IF conn'[Peer("C")][s] # "open" THEN wire'["C"][s]
                          ELSE wire'["C"][s] \o sSend[s]
    BY <1>1 DEF UpRoad, Road
  <2> QED
    BY <1>0, <1>1, <2>1, RoadRead DEF UpRoad
<1>3. UpRoad(s) \in Seq(Message) /\ RoadOK(UpRoad(s), UpSeen, UpLive)
  BY UpTyped DEF UpRoadInv
<1>4. h \in Message /\ UpMsg(h, s)
  <2>1. h = UpRoad(s)[1] /\ 1 \in 1 .. Len(UpRoad(s)) /\ h \in Message
    BY <1>2, <1>3 DEF Without
  <2>2. UpMsg(UpRoad(s)[1], s)
    BY <2>1 DEF UpRoadInv
  <2> QED
    BY <2>1, <2>2
<1>5. r \in Req /\ h.body.n \in Nat /\ h.body = [req |-> r, n |-> h.body.n] /\ h.method \in Method
  BY <1>4, MessageTyped
<1>6. r \in UpLive => UpSeen[r] = h.body.n
  BY <1>2, <1>3, RoadHead
<1>7. /\ agent[r] = s /\ h.id = sID[r] /\ h.body.n < UpNext(r)
      /\ h.method = "create" <=> h.body.n = 0
      /\ Created(r) => h.body.n # 0
      /\ h.method = "close" => snd[r] = "done" /\ h.body.n = up[r] + 1
      /\ h.method = "" => h.body.n <= up[r]
  BY <1>4 DEF UpMsg
<1> HIDE DEF h, r
<1>8. Opened(r)
  <2>1. h.body.n < UpNext(r) /\ h.body.n \in Nat
    BY <1>5, <1>7
  <2> QED
    BY <2>1 DEF UpNext
<1>9. \A q \in Req : UpNext(q)' = UpNext(q)
  BY <1>1 DEF UpNext, Opened
<1>10. ASSUME \A q \in Req : Created(q)' <=> (Created(q) \/ (q = r /\ h.body.n = 0)),
              NEW x \in Message, NEW t \in Session, UpMsg(x, t),
              x.body.req = r => h.body.n < x.body.n
       PROVE  UpMsg(x, t)'
  <2>1. x.body.req \in Req /\ x.body.n \in Nat
    BY MessageTyped
  <2>2. Created(x.body.req)' => x.body.n # 0
    <3>1. Created(x.body.req)' <=> (Created(x.body.req) \/ (x.body.req = r /\ h.body.n = 0))
      BY <1>10, <2>1
    <3>2. Created(x.body.req) => x.body.n # 0
      BY <1>10 DEF UpMsg
    <3> QED
      BY <1>5, <1>10, <2>1, <3>1, <3>2
  <2>3. UpNext(x.body.req)' = UpNext(x.body.req)
    BY <1>9, <2>1
  <2>4. /\ agent'[x.body.req] = agent[x.body.req] /\ sID'[x.body.req] = sID[x.body.req]
        /\ snd'[x.body.req] = snd[x.body.req] /\ up'[x.body.req] = up[x.body.req]
    BY <1>1
  <2> QED
    BY <1>10, <2>2, <2>3, <2>4 DEF UpMsg
<1>11. ASSUME UpLive' \subseteq UpLive,
              \A q \in UpLive' : UpSeen'[q] = IF q = r THEN h.body.n + 1 ELSE UpSeen[q],
              \A q \in Req : Created(q)' <=> (Created(q) \/ (q = r /\ h.body.n = 0))
       PROVE  UpRoadInv'
  BY <1>0, <1>1, <1>9, <1>10, <1>11, UpTake DEF h, r
<1>12. CASE ClientCreate(s)
  <2>1. /\ h.method = "create" /\ r \notin lBridges /\ lBridges' = lBridges \cup {r}
        /\ lID' = [lID EXCEPT ![r] = h.id] /\ UNCHANGED <<lBody, lCause>>
        /\ lcp' = [lcp EXCEPT ![r] = "copy"] /\ lagent' = [lagent EXCEPT ![r] = s]
    BY <1>12 DEF ClientCreate, LB!Register, h, r
  <2>2. h.body.n = 0 /\ ~Created(r)
    BY <1>7, <2>1
  <2>3. \A q \in Req : Created(q)' <=> (Created(q) \/ q = r)
    BY <1>0, <1>5, <2>1 DEF Created
  <2>4. UpLive' \subseteq UpLive
    BY <2>1, <2>2, <2>3 DEF UpLive
  <2>5. ASSUME NEW q \in UpLive'
        PROVE  UpSeen'[q] = IF q = r THEN h.body.n + 1 ELSE UpSeen[q]
    <3>1. q \in Req /\ UpSeen'[q] = IF ~Created(q)' THEN 0 ELSE Len(lgot'[q]) + Len(lBody'[q]) + 1
      BY DEF UpSeen, UpLive
    <3>2. UpSeen[q] = IF ~Created(q) THEN 0 ELSE Len(lgot[q]) + Len(lBody[q]) + 1
      BY <3>1 DEF UpSeen
    <3>3. lgot'[q] = lgot[q] /\ lBody'[q] = lBody[q]
      BY <1>1, <2>1
    <3>4. CASE q = r
      <4>1. lgot[r] = << >> /\ lBody[r] = << >>
        BY <1>5, <2>2 DEF LocalInv
      <4>2. UpSeen'[q] = Len(<< >>) + Len(<< >>) + 1
        BY <2>3, <3>1, <3>3, <3>4, <4>1
      <4> QED
        BY <2>2, <3>4, <4>2
    <3>5. CASE q # r
      BY <2>3, <3>1, <3>2, <3>3, <3>5
    <3> QED
      BY <3>4, <3>5
  <2>6. UpRoadInv'
    BY <1>11, <2>2, <2>3, <2>4, <2>5
  <2>7. CreatedInv'
    BY <1>0, <1>1, <1>5, <1>7, <1>8, <2>1, <2>3 DEF CreatedInv, Opened
  <2>8. LocalInv'
    BY <1>1, <2>1, <2>3 DEF LocalInv, Received
  <2> QED
    BY <2>6, <2>7, <2>8
<1>13. CASE ClientRead(s)
  <2>1. UNCHANGED <<lwp, lcp, lagent>> /\ h.method # "create" /\ ToLocalBridge(h)
    BY <1>13 DEF ClientRead, h, local
  <2>2. Created(r) /\ h.body.n # 0
    BY <1>5, <1>6, <1>7, <2>1 DEF UpLive, UpSeen
  <2>3. Begun(r)
    BY <1>8 DEF Opened, Begun
  <2>4. LB!Matching(h.id) = lBridges \cap {r}
    BY <1>0, <1>5, <1>7, <2>3, LocalMatch
  <2>5. /\ h.method = "close" => LB!BroadcastClose(h.id)
        /\ h.method # "close" => LB!BroadcastBody(h.id, h.body)
    BY <2>1 DEF ToLocalBridge
  <2> DEFINE Lost == r \notin lBridges' /\ lBody'[r] = lBody[r] /\ lCause'[r] \in {lCause[r], "full"}
             Ended == h.method = "close" /\ r \in lBridges /\ r \notin lBridges'
                        /\ lBody'[r] = lBody[r]
             Grown == h.method = "" /\ r \in lBridges /\ lCause'[r] = lCause[r]
                        /\ lBody'[r] = Append(lBody[r], h.body)
  <2>6. /\ lID' = lID /\ lBridges' \subseteq lBridges
        /\ \A q \in Req : q # r => lBody'[q] = lBody[q] /\ lCause'[q] = lCause[q]
        /\ Lost \/ Ended \/ Grown
    <3>1. \/ h.method = "close" /\ LB!BroadcastClose(h.id)
          \/ h.method = "" /\ LB!BroadcastBody(h.id, h.body)
      BY <1>5, <2>1, <2>5 DEF Method
    <3>2. CASE h.method = "close" /\ LB!BroadcastClose(h.id)
      BY <1>0, <1>5, <2>4, <3>2, LocalDelivers
    <3>3. CASE h.method = "" /\ LB!BroadcastBody(h.id, h.body)
      BY <1>0, <1>5, <2>4, <3>3, LocalDelivers
    <3> QED
      BY <3>1, <3>2, <3>3
  <2> HIDE DEF Lost, Ended, Grown
  <2>7. \A q \in Req : Created(q)' <=> Created(q)
    BY <2>1 DEF Created
  <2>8. UpLive' \subseteq UpLive
    BY <2>6, <2>7 DEF UpLive
  <2>9. r \in lBridges => h.body.n = Len(lgot[r]) + Len(lBody[r]) + 1
    BY <1>5, <1>6, <2>2 DEF UpLive, UpSeen
  <2>10. ASSUME NEW q \in UpLive'
         PROVE  UpSeen'[q] = IF q = r THEN h.body.n + 1 ELSE UpSeen[q]
    <3>1. q \in Req /\ UpSeen'[q] = IF ~Created(q)' THEN 0 ELSE Len(lgot'[q]) + Len(lBody'[q]) + 1
      BY DEF UpSeen, UpLive
    <3>2. UpSeen[q] = IF ~Created(q) THEN 0 ELSE Len(lgot[q]) + Len(lBody[q]) + 1
      BY <3>1 DEF UpSeen
    <3>3. lgot'[q] = lgot[q]
      BY <1>1
    <3>4. CASE q = r
      <4>0. Created(q)' /\ r \in Req
        BY <1>5, <2>2, <2>7, <3>4
      <4>1. r \in lBridges'
        BY <3>4, <4>0 DEF UpLive
      <4>2. lBody'[r] = Append(lBody[r], h.body) /\ r \in lBridges
        BY <2>6, <4>1 DEF Lost, Ended, Grown
      <4>3. PICK out \in Seq(Chunk), body \in Seq(Chunk) : out = lgot[r] /\ body = lBody[r]
        BY <1>0, <1>5
      <4>4. UpSeen'[q] = Len(out) + Len(Append(body, h.body)) + 1
        BY <3>1, <3>3, <3>4, <4>0, <4>2, <4>3
      <4>5. h.body.n = Len(out) + Len(body) + 1
        BY <2>9, <4>2, <4>3
      <4>6. Len(out) + Len(Append(body, h.body)) + 1 = Len(out) + Len(body) + 1 + 1
        OBVIOUS
      <4> QED
        BY <3>4, <4>4, <4>5, <4>6
    <3>5. CASE q # r
      BY <2>6, <2>7, <3>1, <3>2, <3>3, <3>5
    <3> QED
      BY <3>4, <3>5
  <2>11. UpRoadInv'
    BY <1>11, <2>2, <2>7, <2>8, <2>10
  <2>12. CreatedInv'
    BY <1>1, <2>1, <2>6, <2>7, CreatedSame DEF Opened
  <2>13. LocalInv'
    <3> SUFFICES ASSUME NEW q \in Req
                 PROVE  /\ Received(q, lgot'[q], lBody'[q])
                        /\ Len(lgot'[q]) + Len(lBody'[q]) <= up'[q]
                        /\ ~Created(q)' => lgot'[q] = << >> /\ lBody'[q] = << >>
                        /\ lCause'[q] = "close" =>
                              snd'[q] = "done" /\ Len(lgot'[q]) + Len(lBody'[q]) = up'[q]
      BY DEF LocalInv, Received
    <3>1. /\ Received(q, lgot[q], lBody[q])
          /\ Len(lgot[q]) + Len(lBody[q]) <= up[q]
          /\ ~Created(q) => lgot[q] = << >> /\ lBody[q] = << >>
          /\ lCause[q] = "close" => snd[q] = "done" /\ Len(lgot[q]) + Len(lBody[q]) = up[q]
      BY DEF LocalInv
    <3>2. /\ lgot'[q] = lgot[q] /\ up'[q] = up[q] /\ snd'[q] = snd[q]
          /\ lgot[q] \in Seq(Chunk) /\ lBody[q] \in Seq(Chunk) /\ up[q] \in Nat
          /\ Len(lgot[q]) \in Nat /\ Len(lBody[q]) \in Nat
      BY <1>0, <1>1
    <3>3. CASE q # r
      BY <2>6, <2>7, <3>1, <3>2, <3>3
    <3>4. CASE q = r /\ Lost
      <4>1. lBody'[q] = lBody[q] /\ (lCause'[q] = "close" => lCause[q] = "close")
        BY <3>4 DEF Lost
      <4> QED
        BY <2>7, <3>1, <3>2, <4>1
    <3>5. CASE q = r /\ Ended
      <4>1. /\ lBody'[q] = lBody[q] /\ h.body.n = Len(lgot[q]) + Len(lBody[q]) + 1
            /\ snd[q] = "done" /\ h.body.n = up[q] + 1
        BY <1>7, <2>9, <3>5 DEF Ended
      <4>2. Len(lgot[q]) + Len(lBody[q]) = up[q]
        <5>1. PICK out \in Seq(Chunk), body \in Seq(Chunk), u \in Nat :
                    out = lgot[q] /\ body = lBody[q] /\ u = up[q]
          BY <3>2
        <5>2. Len(out) + Len(body) + 1 = u + 1
          BY <4>1, <5>1
        <5>3. Len(out) + Len(body) = u
          BY <5>2
        <5> QED
          BY <5>1, <5>3
      <4>3. Created(q)' <=> Created(q)
        BY <2>7
      <4> QED
        BY <3>1, <3>2, <4>1, <4>2, <4>3
    <3>6. CASE q = r /\ Grown
      <4>1. /\ lBody'[q] = Append(lBody[q], h.body) /\ lCause'[q] = lCause[q] /\ q \in lBridges
            /\ h.body.n = Len(lgot[q]) + Len(lBody[q]) + 1 /\ h.body.n <= up[q]
        BY <1>7, <2>9, <3>6 DEF Grown
      <4>2. lCause[q] = "open"
        BY <4>1 DEF NoPanic, LB!MembersOpen, LB!closed
      <4>3. h.body = [req |-> q, n |-> Len(lgot[q]) + Len(lBody[q]) + 1]
        BY <1>5, <3>6, <4>1
      <4>4. Received(q, lgot[q], Append(lBody[q], h.body)) /\ Len(Append(lBody[q], h.body)) = Len(lBody[q]) + 1
        <5>1. PICK out \in Seq(Chunk), body \in Seq(Chunk) : out = lgot[q] /\ body = lBody[q]
          BY <3>2
        <5>2. Received(q, out, body) /\ h.body = [req |-> q, n |-> Len(out) + Len(body) + 1]
          BY <3>1, <4>3, <5>1
        <5>3. Received(q, out, Append(body, h.body)) /\ Len(Append(body, h.body)) = Len(body) + 1
          BY <5>2, ReceivedGrows
        <5> QED
          BY <5>1, <5>3
      <4>5. Created(q)'
        BY <2>2, <2>7, <3>6
      <4>6. Len(lgot'[q]) + Len(lBody'[q]) = h.body.n
        <5>1. PICK out \in Seq(Chunk), body \in Seq(Chunk), n \in Nat :
                    out = lgot[q] /\ body = lBody[q] /\ n = h.body.n
          BY <1>5, <3>2
        <5>2. n = Len(out) + Len(body) + 1
          BY <4>1, <5>1
        <5>3. Len(out) + Len(Append(body, h.body)) = n
          BY <5>2
        <5> QED
          BY <3>2, <4>1, <5>1, <5>3
      <4> QED
        BY <3>2, <4>1, <4>2, <4>4, <4>5, <4>6
    <3> QED
      BY <2>6, <3>3, <3>4, <3>5, <3>6
  <2> QED
    BY <2>11, <2>12, <2>13
<1> QED
  BY <1>12, <1>13

\* The steps of a request that are neither messages from the requester nor their
\* way to the application.
LEMMA UpOther ==
    ASSUME Known, UpInv, restarts = 0, NEW r \in Req,
           \/ NotFound(r) \/ Pump(r) \/ PumpEnd(r) \/ Return(r) \/ LocalPumpEnd(r)
           \/ LocalCopy(r) \/ LocalClose(r) \/ LocalUnregister(r)
    PROVE  UpInv'
<1> USE DEF Known, UpInv
<1>0. /\ TypeOK /\ tpc \in [Req -> {"new", "open", "pump", "wait", "ret", "plain", "dead"}]
      /\ lcp \in [Req -> {"off", "copy", "unreg", "done", "dead"}] /\ lBridges \subseteq Req
      /\ down \in [Req -> 0 .. MaxDown] /\ lCause \in [Req -> LB!Cause]
  BY DEF TypeOK, XferTypeOK, LocalTypeOK, LB!BridgeTypeOK
<1>1. UNCHANGED <<conn, wire, rp, hubS, agent, snd, up, lID, lagent, lgot, lBody, sID>>
  <2>1. UNCHANGED <<conn, wire, rp, hubS, agent, snd, up, lagent, lgot>>
    BY DEF NotFound, Pump, PumpEnd, Return, LocalPumpEnd, LocalCopy, LocalClose, LocalUnregister,
       net, pumps, xfer, local
  <2>2. UNCHANGED <<lID, lBody>>
    BY DEF NotFound, Pump, PumpEnd, Return, LocalPumpEnd, LocalCopy, LocalClose, LocalUnregister,
       brL, LB!Unregister, LB!Drop, LB!bridgeVars
  <2>3. UNCHANGED brS \/ SB!Take(r) \/ SB!Unregister(r)
    BY DEF NotFound, Pump, PumpEnd, Return, LocalPumpEnd, LocalCopy, LocalClose, LocalUnregister
  <2>4. UNCHANGED sID
    BY <2>3 DEF brS, SB!Take, SB!Unregister, SB!Drop, SB!bridgeVars
  <2> QED
    BY <2>1, <2>2, <2>4
<1>2. \A q \in Req : (Opened(q)' <=> Opened(q)) /\ (Created(q)' <=> Created(q))
  <2>1. \/ tpc' = tpc
        \/ tpc[r] = "new" /\ tpc' = [tpc EXCEPT ![r] = "plain"]
        \/ tpc[r] = "pump" /\ tpc' = [tpc EXCEPT ![r] = "wait"]
        \/ tpc[r] = "wait" /\ tpc' = [tpc EXCEPT ![r] = "ret"]
    BY DEF NotFound, Pump, PumpEnd, Return, LocalPumpEnd, LocalCopy, LocalClose, LocalUnregister,
       xfer
  <2>2. lcp' = lcp \/ \E v \in {"unreg", "done"} : lcp' = [lcp EXCEPT ![r] = v] /\ lcp[r] # "off"
    BY DEF NotFound, Pump, PumpEnd, Return, LocalPumpEnd, LocalCopy, LocalClose, LocalUnregister,
       local
  <2>3. \A q \in Req : Opened(q)' <=> Opened(q)
    BY <1>0, <2>1 DEF Opened
  <2>4. \A q \in Req : Created(q)' <=> Created(q)
    BY <1>0, <2>2 DEF Created
  <2> QED
    BY <2>3, <2>4
<1>3. /\ lBridges' \subseteq lBridges
      /\ \A q \in Req : lCause'[q] = "close" => lCause[q] = "close"
      /\ \A q \in Req : down'[q] = down[q] \/ Created(q)
  <2>1. lBridges' \subseteq lBridges /\ \A q \in Req : lCause'[q] = "close" => lCause[q] = "close"
    <3>1. CASE UNCHANGED brL
      BY <3>1 DEF brL
    <3>2. CASE LB!Unregister(r)
      BY <1>0, <3>2 DEF LB!Unregister, LB!Drop, LB!bridgeVars
    <3> QED
      BY <3>1, <3>2 DEF NotFound, Pump, PumpEnd, Return, LocalPumpEnd, LocalCopy, LocalClose,
         LocalUnregister
  <2>2. \A q \in Req : down'[q] = down[q] \/ Created(q)
    BY <1>0 DEF NotFound, Pump, PumpEnd, Return, LocalPumpEnd, LocalCopy, LocalClose,
       LocalUnregister, local, Created
  <2> QED
    BY <2>1, <2>2
<1>4. \A t \in Session : /\ UpRoad(t)' = UpRoad(t) /\ Cuts(UpRoad(t)', UpRoad(t))
                         /\ Joined(t)' <=> Joined(t)
  <2>1. \A t \in Session : UpRoad(t)' = UpRoad(t) /\ (Joined(t)' <=> Joined(t))
    BY <1>1 DEF UpRoad, Road, Joined, hubS
  <2> QED
    BY <1>0, <2>1, UpTyped DEF Cuts
<1>5. UpLive' \subseteq UpLive /\ \A q \in UpLive' : UpSeen'[q] = UpSeen[q]
  BY <1>1, <1>2, <1>3 DEF UpLive, UpSeen
<1>6. UpRoadInv'
  BY <1>0, <1>1, <1>2, <1>4, <1>5, UpSame DEF hubS
<1>7. CreatedInv'
  BY <1>1, <1>2, <1>3 DEF CreatedInv
<1>8. LocalInv'
  BY <1>0, <1>1, <1>2, <1>3, LocalSame
<1> QED
  BY <1>6, <1>7, <1>8

\* transfer starts: no message of the request is on any road.
LEMMA UpBegin ==
    ASSUME Known, UpInv, restarts = 0, NEW r \in Req, Begin(r)
    PROVE  UpInv'
<1> USE DEF Known, UpInv
<1>0. /\ TypeOK /\ tpc \in [Req -> {"new", "open", "pump", "wait", "ret", "plain", "dead"}]
      /\ agent \in [Req -> Session \cup {NoSession}] /\ sID \in [Req -> Id]
  BY DEF TypeOK, XferTypeOK, SB!BridgeTypeOK
<1>1. /\ UNCHANGED <<conn, wire, rp, hubS, snd, up, brL, local>>
      /\ tpc[r] = "new" /\ tpc' = [tpc EXCEPT ![r] = "open"]
      /\ \E s \in sClients : agent' = [agent EXCEPT ![r] = s]
      /\ sID' = [sID EXCEPT ![r] = nextId]
  BY DEF Begin, SB!Register, net, pumps
<1>2. /\ \A q \in Req : (Opened(q)' <=> Opened(q)) /\ (Created(q)' <=> Created(q))
      /\ \A q \in Req \ {r} : agent'[q] = agent[q] /\ sID'[q] = sID[q]
      /\ ~Opened(r) /\ agent[r] = NoSession
  BY <1>0, <1>1 DEF Opened, Created, local, RequestInv, Begun
<1>3. ~Created(r)
  BY <1>2 DEF CreatedInv
<1>4. UpLive' = UpLive /\ UpSeen' = UpSeen /\ \A q \in Req : UpNext(q)' = UpNext(q)
  BY <1>1, <1>2 DEF UpLive, UpSeen, UpNext, Created, brL, local
<1>5. \A t \in Session : /\ UpRoad(t)' = UpRoad(t) /\ Cuts(UpRoad(t)', UpRoad(t))
                         /\ Joined(t)' <=> Joined(t)
  <2>1. \A t \in Session : UpRoad(t)' = UpRoad(t) /\ (Joined(t)' <=> Joined(t))
    BY <1>1 DEF UpRoad, Road, Joined, hubS
  <2> QED
    BY <1>0, <2>1, UpTyped DEF Cuts
<1>6. ASSUME NEW t \in Session, NEW m \in Message, UpMsg(m, t)
      PROVE  UpMsg(m, t)'
  <2>1. m.body.req \in Req \ {r}
    BY <1>2, <1>6, MessageTyped, NatAssumption DEF UpMsg
  <2> QED
    BY <1>1, <1>2, <1>4, <1>6, <2>1 DEF UpMsg
<1>7. UpSeen'[r] = UpNext(r)'
  BY <1>2, <1>3, <1>4 DEF UpSeen, UpNext
<1>8. UpRoadInv'
  <2>1. \A t \in Session, q \in Req : (t \in sClients' /\ Joined(t)' /\ agent'[q] = t) =>
           \/ /\ t \in sClients /\ Joined(t) /\ agent[q] = t
              /\ UpRoad(t)' = UpRoad(t) /\ UpNext(q)' = UpNext(q)
           \/ q \in UpLive' => UpSeen'[q] = UpNext(q)'
    BY <1>1, <1>2, <1>4, <1>5, <1>7 DEF hubS
  <2> QED
    BY <1>0, <1>4, <1>5, <1>6, <2>1, UpKept
<1>9. CreatedInv'
  BY <1>1, <1>2, <1>3 DEF CreatedInv, brL, local
<1>10. LocalInv'
  BY <1>0, <1>1, <1>2, LocalSame DEF brL, local
<1> QED
  BY <1>8, <1>9, <1>10

\* The client's WritePump hands a chunk to the application.
LEMMA UpPump ==
    ASSUME Known, UpInv, restarts = 0, NEW r \in Req, LocalPump(r)
    PROVE  UpInv'
<1> USE DEF Known, UpInv
<1>0. /\ TypeOK /\ lBody \in [Req -> Seq(Chunk)] /\ lgot \in [Req -> Seq(Chunk)]
  BY DEF TypeOK, LocalTypeOK, LB!BridgeTypeOK
<1>1. /\ UNCHANGED <<conn, wire, rp, hubS, agent, sID, tpc, snd, up, lID, lagent, lcp, down,
                     lBridges, lCause>>
      /\ lBody[r] # << >>
      /\ lBody' = [lBody EXCEPT ![r] = Tail(@)]
      /\ lgot' = [lgot EXCEPT ![r] = Append(@, Head(lBody[r]))]
  BY DEF LocalPump, LB!Take, net, pumps, brS, xfer
<1>2. \A q \in Req : (Opened(q)' <=> Opened(q)) /\ (Created(q)' <=> Created(q))
  BY <1>1 DEF Opened, Created
<1>3. Received(r, lgot[r], lBody[r])
  BY DEF LocalInv
<1>4. /\ Received(r, lgot'[r], lBody'[r])
      /\ Len(lgot'[r]) + Len(lBody'[r]) = Len(lgot[r]) + Len(lBody[r])
  <2>1. /\ lgot'[r] = Append(lgot[r], Head(lBody[r])) /\ lBody'[r] = Tail(lBody[r])
        /\ lgot[r] \in Seq(Chunk) /\ lBody[r] \in Seq(Chunk)
        /\ lgot'[r] \in Seq(Chunk) /\ lBody'[r] \in Seq(Chunk)
    BY <1>0, <1>1
  <2>2. PICK out, body, out2, body2 \in Seq(Chunk) :
            /\ out = lgot[r] /\ body = lBody[r] /\ out2 = lgot'[r] /\ body2 = lBody'[r]
    BY <2>1
  <2>3. Received(r, out2, body2) /\ Len(out2) + Len(body2) = Len(out) + Len(body)
    <3>1. Received(r, out, body) /\ Moves(out, body, out2, body2)
      BY <1>1, <1>3, <2>1, <2>2 DEF Moves
    <3> QED
      BY <3>1, ReceivedMoves
  <2> QED
    BY <2>2, <2>3
<1>5. \A q \in Req : q # r => lgot'[q] = lgot[q] /\ lBody'[q] = lBody[q]
  BY <1>0, <1>1
<1>6. \A q \in Req : Len(lgot'[q]) + Len(lBody'[q]) = Len(lgot[q]) + Len(lBody[q])
  BY <1>4, <1>5
<1>7. UpLive' \subseteq UpLive /\ \A q \in UpLive' : UpSeen'[q] = UpSeen[q]
  <2>1. UpLive' \subseteq UpLive /\ UpLive \subseteq Req
    BY <1>1, <1>2 DEF UpLive
  <2>2. \A q \in Req : /\ UpSeen[q] = IF ~Created(q) THEN 0 ELSE Len(lgot[q]) + Len(lBody[q]) + 1
                      /\ UpSeen'[q] = IF ~Created(q)' THEN 0
                                     ELSE Len(lgot'[q]) + Len(lBody'[q]) + 1
    BY DEF UpSeen
  <2> QED
    BY <1>2, <1>6, <2>1, <2>2
<1>8. \A t \in Session : /\ UpRoad(t)' = UpRoad(t) /\ Cuts(UpRoad(t)', UpRoad(t))
                         /\ Joined(t)' <=> Joined(t)
  <2>1. \A t \in Session : UpRoad(t)' = UpRoad(t) /\ (Joined(t)' <=> Joined(t))
    BY <1>1 DEF UpRoad, Road, Joined, hubS
  <2> QED
    BY <1>0, <2>1, UpTyped DEF Cuts
<1>9. UpRoadInv'
  BY <1>0, <1>1, <1>2, <1>7, <1>8, UpSame DEF hubS
<1>10. CreatedInv'
  BY <1>1, <1>2, CreatedSame
<1>11. Created(r)
  BY <1>1 DEF LocalInv
<1>12. LocalInv'
  BY <1>1, <1>2, <1>4, <1>5, <1>6, <1>11 DEF LocalInv
<1> QED
  BY <1>9, <1>10, <1>12

\* transfer and the sender put a message on the road: CREATE, a chunk, CLOSE.
LEMMA UpSends ==
    ASSUME Known, UpInv, restarts = 0, NEW r \in Req, Open(r) \/ Send(r) \/ SendClose(r)
    PROVE  UpInv'
<1> USE DEF Known, UpInv
<1>0. /\ TypeOK /\ tpc \in [Req -> {"new", "open", "pump", "wait", "ret", "plain", "dead"}]
      /\ agent \in [Req -> Session \cup {NoSession}] /\ sID \in [Req -> Id]
      /\ snd \in [Req -> {"off", "head", "copy", "done", "dead"}] /\ up \in [Req -> 0 .. MaxUp]
      /\ MaxUp \in Nat
  BY NatAssumption DEF TypeOK, XferTypeOK, SB!BridgeTypeOK
<1>1. UNCHANGED <<conn, wire, rp, agent, sID, brL, local>>
  BY DEF Open, Send, SendClose, brS, net, pumps
<1>2. PICK meth \in Method, n \in Nat :
         /\ SH!Broadcast(agent[r], Msg(sID[r], meth, r, n))
         /\ \/ /\ meth = "create" /\ n = 0 /\ Open(r) /\ tpc[r] = "open"
               /\ tpc' = [tpc EXCEPT ![r] = "pump"] /\ snd' = [snd EXCEPT ![r] = "head"] /\ up' = up
            \/ /\ meth = "" /\ n = up[r] + 1 /\ Send(r) /\ snd[r] \in {"head", "copy"} /\ tpc' = tpc
               /\ snd' = [snd EXCEPT ![r] = "copy"] /\ up' = [up EXCEPT ![r] = @ + 1]
            \/ /\ meth = "close" /\ n = up[r] + 1 /\ SendClose(r) /\ snd[r] = "copy" /\ tpc' = tpc
               /\ snd' = [snd EXCEPT ![r] = "done"] /\ up' = up
  <2>1. CASE Open(r)
    BY <2>1 DEF Open, Method
  <2>2. CASE Send(r)
    <3>1. up[r] + 1 \in Nat
      BY <1>0
    <3> QED
      BY <2>2, <3>1 DEF Send, Method
  <2>3. CASE SendClose(r)
    <3>1. up[r] + 1 \in Nat
      BY <1>0
    <3> QED
      BY <2>3, <3>1 DEF SendClose, Method
  <2> QED
    BY <2>1, <2>2, <2>3
<1>m. PICK m \in Message : m = Msg(sID[r], meth, r, n)
  BY <1>0 DEF Msg, Message, Chunk
<1>3. m.body.req = r /\ m.body.n = n /\ m.method = meth /\ m.id = sID[r]
  BY <1>m DEF Msg
<1>4. /\ \A q \in Req \ {r} : snd'[q] = snd[q] /\ up'[q] = up[q] /\ tpc'[q] = tpc[q]
      /\ \A q \in Req \ {r} : (Opened(q)' <=> Opened(q)) /\ UpNext(q)' = UpNext(q)
      /\ \A q \in Req : Created(q)' <=> Created(q)
  <2>1. \A q \in Req \ {r} : snd'[q] = snd[q] /\ up'[q] = up[q] /\ tpc'[q] = tpc[q]
    BY <1>0, <1>2
  <2> QED
    BY <1>1, <2>1 DEF Opened, UpNext, Created, local
<1>a. /\ \A i, j \in Nat : i < j => i < j + 1
      /\ \A i, j, k \in Nat : i <= j /\ j <= k => i <= k
      /\ \A i \in Nat : i + 1 # 0 /\ i <= i + 1 /\ i <= i
  OBVIOUS
<1>5. /\ snd[r] # "done" /\ up[r] \in Nat /\ up'[r] \in Nat /\ up[r] <= up'[r]
      /\ tpc'[r] \notin {"new", "plain", "open"}
      /\ tpc[r] \in {"new", "plain", "open"} => tpc[r] = "open" /\ meth = "create"
      /\ meth = "create" => tpc[r] = "open" /\ up[r] = 0
      /\ meth = "create" <=> n = 0
      /\ meth = "close" => snd'[r] = "done" /\ n = up'[r] + 1
      /\ meth = "" => n <= up'[r]
  <2>0. up[r] \in Nat /\ up[r] + 1 \in Nat /\ up[r] + 1 # 0 /\ up[r] <= up[r] /\ up[r] <= up[r] + 1
        /\ up[r] + 1 <= up[r] + 1
    BY <1>0, <1>a
  <2>1. ~Opened(r) => snd[r] = "off" /\ up[r] = 0
    BY DEF RequestInv
  <2>2. CASE /\ meth = "create" /\ n = 0 /\ Open(r) /\ tpc[r] = "open"
             /\ tpc' = [tpc EXCEPT ![r] = "pump"] /\ snd' = [snd EXCEPT ![r] = "head"] /\ up' = up
    BY <1>0, <2>0, <2>1, <2>2 DEF Opened
  <2>3. CASE /\ meth = "" /\ n = up[r] + 1 /\ Send(r) /\ snd[r] \in {"head", "copy"} /\ tpc' = tpc
             /\ snd' = [snd EXCEPT ![r] = "copy"] /\ up' = [up EXCEPT ![r] = @ + 1]
    <3>1. up'[r] = up[r] + 1 /\ Opened(r)
      BY <1>0, <2>1, <2>3
    <3> QED
      BY <1>0, <2>0, <2>3, <3>1 DEF Opened
  <2>4. CASE /\ meth = "close" /\ n = up[r] + 1 /\ SendClose(r) /\ snd[r] = "copy" /\ tpc' = tpc
             /\ snd' = [snd EXCEPT ![r] = "done"] /\ up' = up
    <3>1. Opened(r) /\ snd'[r] = "done"
      BY <1>0, <2>1, <2>4
    <3> QED
      BY <1>0, <2>0, <2>4, <3>1 DEF Opened
  <2> QED
    BY <1>2, <2>2, <2>3, <2>4
<1>6. UpNext(r) = n
  BY <1>2, <1>5 DEF UpNext, Opened
<1>7. UpNext(r)' = n + 1
  <2>1. CASE meth = "close"
    BY <1>0, <1>2, <1>5, <2>1 DEF UpNext, Opened
  <2>2. CASE meth # "close"
    <3>1. snd'[r] # "done" /\ up'[r] + 1 = n + 1
      BY <1>0, <1>2, <1>5, <2>2
    <3> QED
      BY <1>5, <3>1 DEF UpNext, Opened
  <2> QED
    BY <2>1, <2>2
<1>8. ASSUME NEW x \in Message, NEW t \in Session, UpMsg(x, t)
      PROVE  UpMsg(x, t)'
  <2>1. x.body.req \in Req /\ x.body.n \in Nat
    BY MessageTyped
  <2>2. CASE x.body.req # r
    <3>1. /\ UpNext(x.body.req)' = UpNext(x.body.req) /\ (Created(x.body.req)' <=> Created(x.body.req))
          /\ snd'[x.body.req] = snd[x.body.req] /\ up'[x.body.req] = up[x.body.req]
      BY <1>4, <2>1, <2>2
    <3> QED
      BY <1>1, <1>8, <3>1 DEF UpMsg
  <2>3. CASE x.body.req = r
    <3>1. /\ agent[r] = t /\ x.id = sID[r] /\ x.body.n < n
          /\ x.method = "create" <=> x.body.n = 0
          /\ Created(r) => x.body.n # 0
          /\ x.method # "close"
          /\ x.method = "" => x.body.n <= up[r]
      BY <1>5, <1>6, <1>8, <2>3 DEF UpMsg
    <3>2. x.body.n < n + 1 /\ (x.method = "" => x.body.n <= up'[r])
      BY <1>5, <1>a, <2>1, <3>1
    <3>3. Created(r)' <=> Created(r)
      BY <1>4
    <3> QED
      BY <1>1, <1>7, <2>3, <3>1, <3>2, <3>3 DEF UpMsg
  <2> QED
    BY <2>2, <2>3
<1>9. UpMsg(m, agent[r])'
  <2>1. m.method = "create" <=> m.body.n = 0
    BY <1>3, <1>5
  <2>2. Created(r)' => m.body.n # 0
    <3>1. Created(r)' => Opened(r)
      BY <1>4 DEF CreatedInv
    <3> QED
      BY <1>3, <1>5, <3>1 DEF Opened
  <2>3. /\ m.method = "close" => snd'[r] = "done" /\ m.body.n = up'[r] + 1
        /\ m.method = "" => m.body.n <= up'[r]
    BY <1>3, <1>5
  <2>4. m.body.n < UpNext(r)'
    BY <1>3, <1>7
  <2> QED
    BY <1>1, <1>3, <2>1, <2>2, <2>3, <2>4 DEF UpMsg
<1>10. agent[r] \in Session
  BY <1>0, <1>2, <1>5 DEF RequestInv, Begun, Opened, TypeOK, SH!HubTypeOK
<1>11. UNCHANGED <<UpSeen, UpLive>>
  BY <1>1 DEF UpSeen, UpLive, Created, local, brL
<1>12. UpRoadInv'
  <2>1. m.body.n = UpNext(r) /\ UpNext(r)' = UpNext(r) + 1 /\ SH!Broadcast(agent[r], m)
    BY <1>2, <1>3, <1>6, <1>7, <1>m
  <2> QED
    BY <1>0, <1>1, <1>3, <1>4, <1>8, <1>9, <1>10, <1>11, <2>1, UpSend
<1>13. CreatedInv'
  BY <1>1, <1>4, <1>5, CreatedSame DEF Opened, local, brL
<1>14. LocalInv'
  <2> SUFFICES ASSUME NEW q \in Req
               PROVE  /\ Received(q, lgot'[q], lBody'[q])
                      /\ Len(lgot'[q]) + Len(lBody'[q]) <= up'[q]
                      /\ ~Created(q)' => lgot'[q] = << >> /\ lBody'[q] = << >>
                      /\ lCause'[q] = "close" =>
                            snd'[q] = "done" /\ Len(lgot'[q]) + Len(lBody'[q]) = up'[q]
    BY DEF LocalInv, Received
  <2>1. /\ Received(q, lgot[q], lBody[q])
        /\ Len(lgot[q]) + Len(lBody[q]) <= up[q]
        /\ ~Created(q) => lgot[q] = << >> /\ lBody[q] = << >>
        /\ lCause[q] = "close" => snd[q] = "done" /\ Len(lgot[q]) + Len(lBody[q]) = up[q]
    BY DEF LocalInv
  <2>2. lgot'[q] = lgot[q] /\ lBody'[q] = lBody[q] /\ lCause'[q] = lCause[q] /\ (Created(q)' <=> Created(q))
    BY <1>1, <1>4 DEF local, brL
  <2>3. CASE q # r
    BY <1>4, <2>1, <2>2, <2>3
  <2>4. CASE q = r
    <3>1. lCause[q] # "close"
      BY <1>5, <2>1, <2>4
    <3>2. PICK out, body \in Seq(Chunk) : out = lgot[q] /\ body = lBody[q]
      BY <1>0 DEF TypeOK, LocalTypeOK, LB!BridgeTypeOK
    <3>3. Len(out) + Len(body) <= up'[q]
      <4>1. PICK u, v \in Nat : u = up[q] /\ v = up'[q] /\ u <= v /\ Len(out) + Len(body) <= u
        BY <1>5, <2>1, <2>4, <3>2
      <4>2. Len(out) + Len(body) <= v
        BY <4>1
      <4> QED
        BY <4>1, <4>2
    <3> QED
      BY <2>1, <2>2, <3>1, <3>2, <3>3
  <2> QED
    BY <2>3, <2>4
<1> QED
  BY <1>12, <1>13, <1>14

\* The client process ends: nobody expects anything of its bridges any more.
LEMMA UpCrash ==
    ASSUME Known, UpInv, restarts = 0, ClientCrash
    PROVE  UpInv'
<1> USE DEF Known, UpInv
<1>0. /\ TypeOK /\ NetTypeOK /\ "C" \in End
      /\ lcp \in [Req -> {"off", "copy", "unreg", "done", "dead"}]
  BY DEF TypeOK, LocalTypeOK, End
<1>1. /\ UNCHANGED <<hubS, agent, sID, tpc, snd, up, lID, lagent, lgot, lBody, lCause, down>>
      /\ lBridges' = {} /\ ProcessDies("C")
      /\ \A q \in Req : (Opened(q)' <=> Opened(q)) /\ (Created(q)' <=> Created(q))
  BY <1>0 DEF ClientCrash, brS, xfer, Opened, Created
<1>2. \A t \in Session : Loses(t)
  BY <1>0, <1>1, NetLoses
<1>3. UpLive' \subseteq UpLive /\ \A q \in UpLive' : UpSeen'[q] = UpSeen[q]
  BY <1>1 DEF UpLive, UpSeen
<1>4. UpRoadInv'
  BY <1>0, <1>1, <1>2, <1>3, UpLoses, UpSame DEF hubS
<1>5. CreatedInv'
  <2>1. \A t \in Session : rp["C"][t] \notin {"off", "register"} => rp'["C"][t] \notin {"off", "register"}
    BY <1>0, <1>1 DEF ProcessDies, NetTypeOK
  <2>2. \A q \in Req : Created(q) => agent[q] \in Session
    BY DEF CreatedInv, RequestInv, Opened, Begun, TypeOK, SH!HubTypeOK
  <2> QED
    BY <1>1, <2>1, <2>2 DEF CreatedInv
<1>6. LocalInv'
  BY <1>0, <1>1, LocalSame
<1> QED
  BY <1>4, <1>5, <1>6

\* As long as the server process lives, every message to the client comes in the
\* order in which its request sent it, and what the application gets is a prefix
\* of what the requester sent.
THEOREM UpInOrder == Spec => []UpInv
<1>1. Init => UpInv
  <2> SUFFICES ASSUME Init
               PROVE  UpInv
    OBVIOUS
  <2>1. CreatedInv
    BY DEF Init, CreatedInv, Created
  <2>2. UpRoadInv
    <3>1. \A s \in Session : UpRoad(s) = << >> /\ s \notin sClients
      BY DEF Init, UpRoad, Road, SH!HubInit, End
    <3> QED
      BY <3>1 DEF UpRoadInv, RoadOK
  <2>3. LocalInv
    <3>1. \A r \in Req : lgot[r] = << >> /\ lBody[r] = << >> /\ up[r] = 0 /\ lCause[r] = "open"
      BY DEF Init, LB!BridgeInit
    <3>2. \A r \in Req : Received(r, << >>, << >>) /\ Len(<< >>) + Len(<< >>) <= 0
      BY DEF Received
    <3> QED
      BY <3>1, <3>2 DEF LocalInv
  <2> QED
    BY <2>1, <2>2, <2>3 DEF UpInv
<1>2. ASSUME Known, UpInv, [Next]_vars
      PROVE  UpInv'
  <2>1. CASE restarts' # 0
    BY <2>1 DEF UpInv, CreatedInv, UpRoadInv, LocalInv
  <2>2. CASE restarts' = 0
    <3>0. restarts = 0 /\ ~ServerRestart
      BY <1>2, <2>2, RestartsCount DEF Known
    <3>1. ASSUME NEW s \in Session, SessionNext(s)
          PROVE  UpInv'
      BY <1>2, <3>0, <3>1, UpSession, UpReceive DEF SessionNext, ClientReadPump
    <3>2. ASSUME NEW r \in Req, RequestNext(r)
          PROVE  UpInv'
      BY <1>2, <3>0, <3>2, UpBegin, UpOther, UpPump, UpSends
      DEF RequestNext, Transfer, Sender, LocalWriter, LocalCopier
    <3>3. CASE ClientCrash
      BY <1>2, <3>0, <3>3, UpCrash
    <3>4. CASE UNCHANGED vars
      <4>1. /\ UNCHANGED <<UpSeen, UpLive, agent, sID, snd, up, down, lID, lagent, lgot, lBody, lCause,
                           sClients, sSend, rp>>
            /\ \A r \in Req : (Opened(r)' <=> Opened(r)) /\ (Created(r)' <=> Created(r))
            /\ \A t \in Session : Loses(t)
        BY <3>4 DEF vars, hubS, brS, brL, net, pumps, xfer, local, UpSeen, UpLive, Opened, Created, Loses
      <4>2. TypeOK /\ UpRoadInv /\ CreatedInv /\ LocalInv
        BY <1>2 DEF Known, UpInv
      <4>3. UpRoadInv' /\ CreatedInv' /\ LocalInv'
        BY <3>0, <4>1, <4>2, UpLoses, UpSame, CreatedSame, LocalSame
      <4> QED
        BY <4>3 DEF UpInv
    <3> QED
      BY <1>2, <3>0, <3>1, <3>2, <3>3, <3>4 DEF Next
  <2> QED
    BY <2>1, <2>2
<1>3. Spec => []Known
  BY TypeCorrect, ChannelSafety, BridgesHaveOwners, SessionsAreFresh, IdsAreUnique, PTL DEF Known
<1> QED
  BY <1>1, <1>2, <1>3, PTL DEF Spec

----------------------------------------------------------------------------
(* From the application to the requester, the other way round.             *)

DownNext(r) == IF lcp[r] \in {"unreg", "done"} THEN down[r] + 2 ELSE down[r] + 1
DownSeen == [r \in Req |-> Len(got[r]) + Len(sBody[r]) + 1]
DownLive == {r \in Req : tpc[r] = "new" \/ r \in sBridges}

DownMsg(m, s) ==
    LET r == m.body.req
    IN  /\ Created(r) /\ agent[r] = s /\ m.id = sID[r] /\ m.body.n < DownNext(r)
        /\ m.method # "create"
        /\ m.method = "close" => lcp[r] \in {"unreg", "done"} /\ m.body.n = down[r] + 1
        /\ m.method = "" => m.body.n <= down[r]

DownRoad(s) == Road("S", s, cSend[s])

\* The messages to the server are in order, and the next one of every request
\* whose bridge the client has made will be, too.
DownRoadInv == restarts = 0 =>
    \A s \in Session :
        /\ RoadOK(DownRoad(s), DownSeen, DownLive)
        /\ \A i \in 1 .. Len(DownRoad(s)) : DownMsg(DownRoad(s)[i], s)
        /\ \A r \in Req : (s \in cClients /\ Joined(s) /\ Created(r) /\ agent[r] = s) =>
                Follows(DownRoad(s), Len(DownRoad(s)) + 1, r, DownNext(r), DownSeen, DownLive)

\* What the requester and its bridge have got.
RemoteInv == restarts = 0 =>
    \A r \in Req :
        /\ Received(r, got[r], sBody[r])
        /\ Len(got[r]) + Len(sBody[r]) <= down[r]
        /\ sCause[r] = "close" => /\ lcp[r] \in {"unreg", "done"}
                                  /\ Len(got[r]) + Len(sBody[r]) = down[r]

DownInv == DownRoadInv /\ RemoteInv

\* The road to the server is a sequence of messages.
LEMMA DownTyped ==
    ASSUME TypeOK, NEW s \in Session
    PROVE  DownRoad(s) \in Seq(Message) /\ Len(DownRoad(s)) \in Nat
<1>1. DownRoad(s) \in Seq(Message)
  BY RoadTyped DEF TypeOK, DownRoad, End, CH!HubTypeOK
<1> QED
  BY <1>1

\* A step that sends and takes nothing, and loses the rear of roads at most,
\* keeps the messages to the server in order.
LEMMA DownKept ==
    ASSUME TypeOK, DownRoadInv, restarts = 0,
           \A t \in Session : Cuts(DownRoad(t)', DownRoad(t)),
           DownLive' \subseteq DownLive, \A r \in DownLive' : DownSeen'[r] = DownSeen[r],
           \A t \in Session, m \in Message : DownMsg(m, t) => DownMsg(m, t)',
           \A t \in Session, r \in Req : (t \in cClients' /\ Joined(t)' /\ Created(r)' /\ agent'[r] = t) =>
               \/ /\ t \in cClients /\ Joined(t) /\ Created(r) /\ agent[r] = t
                  /\ DownRoad(t)' = DownRoad(t) /\ DownNext(r)' = DownNext(r)
               \/ r \in DownLive' => DownSeen'[r] = DownNext(r)'
    PROVE  DownRoadInv'
<1> SUFFICES ASSUME NEW t \in Session
             PROVE  /\ RoadOK(DownRoad(t)', DownSeen', DownLive')
                    /\ \A i \in 1 .. Len(DownRoad(t)') : DownMsg(DownRoad(t)[i], t)'
                    /\ \A r \in Req : (t \in cClients' /\ Joined(t)' /\ Created(r)' /\ agent'[r] = t) =>
                         Follows(DownRoad(t)', Len(DownRoad(t)') + 1, r, DownNext(r)', DownSeen', DownLive')
  BY DEF DownRoadInv
<1>0. DownRoad(t) \in Seq(Message) /\ Len(DownRoad(t)) \in Nat
  BY DownTyped
<1>1. /\ RoadOK(DownRoad(t), DownSeen, DownLive)
      /\ \A i \in 1 .. Len(DownRoad(t)) : DownMsg(DownRoad(t)[i], t)
      /\ \A r \in Req : (t \in cClients /\ Joined(t) /\ Created(r) /\ agent[r] = t) =>
            Follows(DownRoad(t), Len(DownRoad(t)) + 1, r, DownNext(r), DownSeen, DownLive)
  BY DEF DownRoadInv
<1>2. RoadOK(DownRoad(t)', DownSeen', DownLive')
  BY <1>0, <1>1, RoadCut
<1>3. \A i \in 1 .. Len(DownRoad(t)') : DownMsg(DownRoad(t)[i], t)'
  <2> SUFFICES ASSUME NEW i \in 1 .. Len(DownRoad(t)')
               PROVE  DownMsg(DownRoad(t)[i], t)'
    OBVIOUS
  <2>1. PICK m \in Message : m = DownRoad(t)'[i] /\ DownMsg(m, t)
    <3>1. i \in 1 .. Len(DownRoad(t)) /\ DownRoad(t)'[i] = DownRoad(t)[i]
      BY <1>0 DEF Cuts
    <3> QED
      BY <1>0, <1>1, <3>1
  <2>2. DownMsg(m, t)'
    BY <2>1
  <2> QED
    BY <2>1, <2>2 DEF DownMsg
<1>4. ASSUME NEW r \in Req, t \in cClients', Joined(t)', Created(r)', agent'[r] = t
      PROVE  Follows(DownRoad(t)', Len(DownRoad(t)') + 1, r, DownNext(r)', DownSeen', DownLive')
  <2>1. CASE /\ t \in cClients /\ Joined(t) /\ Created(r) /\ agent[r] = t
             /\ DownRoad(t)' = DownRoad(t) /\ DownNext(r)' = DownNext(r)
    <3>1. Follows(DownRoad(t), Len(DownRoad(t)) + 1, r, DownNext(r)', DownSeen, DownLive)
      BY <1>1, <2>1
    <3> QED
      BY <2>1, <3>1 DEF Follows
  <2>2. CASE r \in DownLive' => DownSeen'[r] = DownNext(r)'
    BY <2>2 DEF Follows
  <2> QED
    BY <1>4, <2>1, <2>2
<1> QED
  BY <1>2, <1>3, <1>4

\* What the copier of request r hands to the hub goes to the end of its road, and
\* the hub drops the session or does not know it otherwise.
LEMMA DownSend ==
    ASSUME TypeOK, DownRoadInv, restarts = 0, NEW r \in Req, NEW m \in Message,
           m.body.req = r, m.body.n = DownNext(r), DownNext(r)' = DownNext(r) + 1,
           CH!Broadcast(agent[r], m), Created(r), agent[r] \in Session,
           UNCHANGED <<conn, wire, agent, DownSeen, DownLive>>,
           \A q \in Req : Created(q)' <=> Created(q),
           \A q \in Req \ {r} : DownNext(q)' = DownNext(q),
           \A x \in Message, t \in Session : DownMsg(x, t) => DownMsg(x, t)',
           DownMsg(m, agent[r])'
    PROVE  DownRoadInv'
<1> SUFFICES ASSUME NEW t \in Session
             PROVE  /\ RoadOK(DownRoad(t)', DownSeen', DownLive')
                    /\ \A i \in 1 .. Len(DownRoad(t)') : DownMsg(DownRoad(t)[i], t)'
                    /\ \A q \in Req : (t \in cClients' /\ Joined(t)' /\ Created(q)' /\ agent'[q] = t) =>
                         Follows(DownRoad(t)', Len(DownRoad(t)') + 1, q, DownNext(q)', DownSeen', DownLive')
  BY DEF DownRoadInv
<1>0. DownRoad(t) \in Seq(Message) /\ Len(DownRoad(t)) \in Nat
  BY DownTyped
<1>1. /\ RoadOK(DownRoad(t), DownSeen, DownLive)
      /\ \A i \in 1 .. Len(DownRoad(t)) : DownMsg(DownRoad(t)[i], t)
      /\ \A q \in Req : (t \in cClients /\ Joined(t) /\ Created(q) /\ agent[q] = t) =>
            Follows(DownRoad(t), Len(DownRoad(t)) + 1, q, DownNext(q), DownSeen, DownLive)
  BY DEF DownRoadInv
<1>2. Joined(t)' <=> Joined(t)
  BY DEF Joined
<1>3. \A i \in 1 .. Len(DownRoad(t)) : \E x \in Message : x = DownRoad(t)[i] /\ DownMsg(x, t)
  BY <1>0, <1>1
<1>4. CASE /\ DownRoad(t)' = DownRoad(t)
           /\ t \in cClients' /\ Joined(t)' => t \in cClients /\ t # agent[r]
  <2>1. \A i \in 1 .. Len(DownRoad(t)') : DownMsg(DownRoad(t)[i], t)'
    <3> SUFFICES ASSUME NEW i \in 1 .. Len(DownRoad(t)')
                 PROVE  DownMsg(DownRoad(t)[i], t)'
      OBVIOUS
    <3>1. PICK x \in Message : x = DownRoad(t)'[i] /\ DownMsg(x, t)
      BY <1>3, <1>4
    <3>2. DownMsg(x, t)'
      BY <3>1
    <3> QED
      BY <3>1, <3>2 DEF DownMsg
  <2>2. ASSUME NEW q \in Req, t \in cClients', Joined(t)', Created(q)', agent'[q] = t
        PROVE  Follows(DownRoad(t), Len(DownRoad(t)) + 1, q, DownNext(q)', DownSeen, DownLive)
    <3>1. q # r
      BY <1>4, <2>2
    <3> QED
      BY <1>1, <1>2, <1>4, <2>2, <3>1
  <2> QED
    BY <1>1, <1>4, <2>1, <2>2
<1>5. CASE /\ DownRoad(t)' = Append(DownRoad(t), m)
           /\ t = agent[r] /\ t \in cClients /\ Joined(t)
  <2>1. Follows(DownRoad(t), Len(DownRoad(t)) + 1, r, m.body.n, DownSeen, DownLive)
    BY <1>1, <1>5
  <2>2. \A i \in 1 .. Len(DownRoad(t)) : Of(DownRoad(t), i, r) => DownRoad(t)[i].body.n < m.body.n
    <3> SUFFICES ASSUME NEW i \in 1 .. Len(DownRoad(t)), DownRoad(t)[i].body.req = r
                 PROVE  DownRoad(t)[i].body.n < m.body.n
      BY DEF Of
    <3>1. DownMsg(DownRoad(t)[i], t)
      BY <1>1
    <3>2. DownRoad(t)[i].body.n < DownNext(DownRoad(t)[i].body.req)
      BY <3>1 DEF DownMsg
    <3> QED
      BY <3>2
  <2>3. /\ RoadOK(DownRoad(t)', DownSeen, DownLive)
        /\ Follows(DownRoad(t)', Len(DownRoad(t)) + 2, r, m.body.n + 1, DownSeen, DownLive)
        /\ \A q, k : Follows(DownRoad(t), Len(DownRoad(t)) + 1, q, k, DownSeen, DownLive) =>
                        Follows(DownRoad(t)', Len(DownRoad(t)) + 2, q, k, DownSeen, DownLive)
    BY <1>0, <1>1, <1>5, <2>1, <2>2, RoadAppend
  <2>4. Len(DownRoad(t)') + 1 = Len(DownRoad(t)) + 2
    BY <1>0, <1>5
  <2>5. \A i \in 1 .. Len(DownRoad(t)') : DownMsg(DownRoad(t)[i], t)'
    <3> SUFFICES ASSUME NEW i \in 1 .. Len(DownRoad(t)')
                 PROVE  DownMsg(DownRoad(t)[i], t)'
      OBVIOUS
    <3>1. DownRoad(t)'[i] = m \/ \E x \in Message : x = DownRoad(t)'[i] /\ DownMsg(x, t)
      BY <1>0, <1>3, <1>5
    <3>2. PICK x \in Message : x = DownRoad(t)'[i] /\ DownMsg(x, t)'
      BY <1>5, <3>1
    <3> QED
      BY <3>2 DEF DownMsg
  <2>6. ASSUME NEW q \in Req, t \in cClients', Joined(t)', Created(q)', agent'[q] = t
        PROVE  Follows(DownRoad(t)', Len(DownRoad(t)') + 1, q, DownNext(q)', DownSeen, DownLive)
    <3>1. CASE q = r
      BY <2>3, <2>4, <3>1
    <3>2. CASE q # r
      BY <1>1, <1>5, <2>3, <2>4, <2>6, <3>2
    <3> QED
      BY <3>1, <3>2
  <2> QED
    BY <2>3, <2>5, <2>6
<1>6. cSend[t] \in Seq(Message) /\ wire["S"][t] \in Seq(Message) /\ cSend \in [Session -> Seq(Message)]
  BY DEF TypeOK, CH!HubTypeOK, NetTypeOK, End
<1>7. \/ /\ cSend'[t] = cSend[t]
         /\ t \in cClients' => t \in cClients /\ t # agent[r]
      \/ /\ t = agent[r] /\ t \in cClients
         /\ cSend'[t] = Append(cSend[t], m)
  BY <1>6 DEF CH!Broadcast, CH!Drop, CH!hubVars
<1>8. CASE /\ cSend'[t] = cSend[t]
           /\ t \in cClients' => t \in cClients /\ t # agent[r]
  <2>1. DownRoad(t)' = DownRoad(t)
    BY <1>8 DEF DownRoad, Road
  <2> QED
    BY <1>2, <1>4, <1>8, <2>1
<1>9. CASE t = agent[r] /\ t \in cClients /\ cSend'[t] = Append(cSend[t], m)
  <2>1. CASE Joined(t)
    <3>1. DownRoad(t) = wire["S"][t] \o cSend[t] /\ DownRoad(t)' = wire["S"][t] \o cSend'[t]
      BY <1>2, <2>1 DEF DownRoad, Road, Joined, Peer
    <3>2. \A w, q \in Seq(Message) : w \o Append(q, m) = Append(w \o q, m)
      OBVIOUS
    <3> QED
      BY <1>5, <1>6, <1>9, <2>1, <3>1, <3>2
  <2>2. CASE ~Joined(t)
    <3>1. DownRoad(t)' = DownRoad(t)
      BY <2>2 DEF DownRoad, Road, Joined, Peer
    <3> QED
      BY <1>2, <1>4, <2>2, <3>1
  <2> QED
    BY <2>1, <2>2
<1> QED
  BY <1>7, <1>8, <1>9

\* The server's read pump takes the message that the request expects.
LEMMA DownTake ==
    ASSUME TypeOK, DownRoadInv, restarts = 0, NEW s \in Session, ReadSock("S", s),
           NEW h, h = Head(wire["S"][s]),
           UNCHANGED <<cSend, cClients, agent>>,
           \A q \in Req : Created(q)' <=> Created(q),
           \A q \in Req : DownNext(q)' = DownNext(q),
           DownLive' \subseteq DownLive,
           \A r \in DownLive' : DownSeen'[r] = IF r = h.body.req THEN h.body.n + 1 ELSE DownSeen[r],
           \A x \in Message, t \in Session :
                DownMsg(x, t) /\ (x.body.req = h.body.req => h.body.n < x.body.n) => DownMsg(x, t)'
    PROVE  DownRoadInv'
<1> SUFFICES ASSUME NEW t \in Session
             PROVE  /\ RoadOK(DownRoad(t)', DownSeen', DownLive')
                    /\ \A i \in 1 .. Len(DownRoad(t)') : DownMsg(DownRoad(t)[i], t)'
                    /\ \A q \in Req : (t \in cClients' /\ Joined(t)' /\ Created(q)' /\ agent'[q] = t) =>
                         Follows(DownRoad(t)', Len(DownRoad(t)') + 1, q, DownNext(q)', DownSeen', DownLive')
  BY DEF DownRoadInv
<1>0. "S" \in End /\ DownRoad(t) \in Seq(Message) /\ Len(DownRoad(t)) \in Nat
      /\ DownRoad(s) \in Seq(Message) /\ cSend[s] \in Seq(Message)
  BY DownTyped DEF End, TypeOK, CH!HubTypeOK
<1>1. /\ RoadOK(DownRoad(t), DownSeen, DownLive)
      /\ \A i \in 1 .. Len(DownRoad(t)) : DownMsg(DownRoad(t)[i], t)
      /\ \A q \in Req : (t \in cClients /\ Joined(t) /\ Created(q) /\ agent[q] = t) =>
            Follows(DownRoad(t), Len(DownRoad(t)) + 1, q, DownNext(q), DownSeen, DownLive)
  BY DEF DownRoadInv
<1>2. Without(DownRoad(s)', DownRoad(s), h)
  <2>1. DownRoad(s)' = IF conn'["S"][s] # "open" THEN << >>
                     ELSE IF conn'[Peer("S")][s] # "open" THEN wire'["S"][s]
                          ELSE wire'["S"][s] \o cSend[s]
    BY DEF DownRoad, Road
  <2> QED
    BY <1>0, <2>1, RoadRead DEF DownRoad, TypeOK
<1>3. conn' = conn /\ (t # s => wire'["S"][t] = wire["S"][t])
  BY <1>0, ReadSockEffect DEF TypeOK
<1>4. Joined(t)' <=> Joined(t)
  BY <1>3 DEF Joined
<1>5. h \in Message /\ DownMsg(h, s) /\ h.body.req \in Req
  <2>1. h = DownRoad(s)[1] /\ 1 \in 1 .. Len(DownRoad(s)) /\ h \in Message
    BY <1>0, <1>2 DEF Without
  <2>2. DownMsg(DownRoad(s)[1], s)
    BY <2>1 DEF DownRoadInv
  <2> QED
    BY <2>1, <2>2, MessageTyped
<1>6. agent[h.body.req] = s
  BY <1>5 DEF DownMsg
<1>7. CASE t # s
  <2>1. DownRoad(t)' = DownRoad(t)
    BY <1>3, <1>7 DEF DownRoad, Road
  <2>2. \A i \in 1 .. Len(DownRoad(t)) : DownRoad(t)[i].body.req # h.body.req
    <3>1. \A i \in 1 .. Len(DownRoad(t)) : agent[DownRoad(t)[i].body.req] = t
      BY <1>1 DEF DownMsg
    <3> QED
      BY <1>6, <1>7, <3>1
  <2>3. RoadOK(DownRoad(t)', DownSeen', DownLive')
    <3>1. Cuts(DownRoad(t), DownRoad(t))
      BY <1>0 DEF Cuts
    <3> QED
      BY <1>0, <1>1, <2>1, <2>2, <3>1, RoadCut DEF Of
  <2>4. \A i \in 1 .. Len(DownRoad(t)') : DownMsg(DownRoad(t)[i], t)'
    <3> SUFFICES ASSUME NEW i \in 1 .. Len(DownRoad(t)')
                 PROVE  DownMsg(DownRoad(t)[i], t)'
      OBVIOUS
    <3>1. PICK x \in Message : x = DownRoad(t)'[i] /\ DownMsg(x, t) /\ x.body.req # h.body.req
      BY <1>0, <1>1, <2>1, <2>2
    <3>2. DownMsg(x, t)'
      BY <3>1
    <3> QED
      BY <3>1, <3>2 DEF DownMsg
  <2>5. ASSUME NEW q \in Req, t \in cClients', Joined(t)', Created(q)', agent'[q] = t
        PROVE  Follows(DownRoad(t), Len(DownRoad(t)) + 1, q, DownNext(q)', DownSeen', DownLive')
    <3>1. q # h.body.req /\ Follows(DownRoad(t), Len(DownRoad(t)) + 1, q, DownNext(q), DownSeen, DownLive)
      BY <1>1, <1>4, <1>6, <1>7, <2>5
    <3> QED
      BY <3>1 DEF Follows
  <2> QED
    BY <2>1, <2>3, <2>4, <2>5
<1>8. CASE t = s
  <2>1. RoadOK(DownRoad(s), DownSeen, DownLive) /\ DownLive' \in SUBSET DownLive
    BY <1>1, <1>8
  <2>2. \A i \in 1 .. Len(DownRoad(s)') :
            DownRoad(s)'[i].body.req = h.body.req => h.body.n < DownRoad(s)'[i].body.n
    BY <1>0, <1>2, <2>1, RoadBehind
  <2>3. RoadOK(DownRoad(s)', DownSeen', DownLive')
    BY <1>0, <1>2, <2>1, RoadTail
  <2>4. ASSUME NEW q, NEW k, Follows(DownRoad(s), Len(DownRoad(s)) + 1, q, k, DownSeen, DownLive),
               q = h.body.req => h.body.n < k
        PROVE  Follows(DownRoad(s)', Len(DownRoad(s)') + 1, q, k, DownSeen', DownLive')
    <3>1. Len(DownRoad(s)) \in 1 .. Len(DownRoad(s)) /\ Len(DownRoad(s)') + 1 = Len(DownRoad(s))
      BY <1>0, <1>2 DEF Without
    <3> QED
      BY <1>0, <1>2, <2>1, <2>4, <3>1, RoadNext
  <2>5. \A i \in 1 .. Len(DownRoad(s)') : DownMsg(DownRoad(s)[i], s)'
    <3> SUFFICES ASSUME NEW i \in 1 .. Len(DownRoad(s)')
                 PROVE  DownMsg(DownRoad(s)[i], s)'
      OBVIOUS
    <3>1. /\ DownRoad(s)'[i] = DownRoad(s)[i + 1] /\ i + 1 \in 1 .. Len(DownRoad(s))
          /\ DownRoad(s)[i + 1] \in Message
      BY <1>0, <1>2 DEF Without
    <3>2. PICK x \in Message : x = DownRoad(s)'[i] /\ DownMsg(x, s)
      BY <1>1, <1>8, <3>1
    <3>3. DownMsg(x, s)'
      BY <2>2, <3>2
    <3> QED
      BY <3>2, <3>3 DEF DownMsg
  <2>6. ASSUME NEW q \in Req, s \in cClients', Joined(s)', Created(q)', agent'[q] = s
        PROVE  Follows(DownRoad(s)', Len(DownRoad(s)') + 1, q, DownNext(q)', DownSeen', DownLive')
    <3>1. Follows(DownRoad(s), Len(DownRoad(s)) + 1, q, DownNext(q), DownSeen, DownLive)
      BY <1>1, <1>4, <1>8, <2>6
    <3>2. q = h.body.req => h.body.n < DownNext(q)
      BY <1>5 DEF DownMsg
    <3> QED
      BY <2>4, <3>1, <3>2
  <2> QED
    BY <1>8, <2>3, <2>5, <2>6
<1> QED
  BY <1>7, <1>8

\* Steps of the sockets lose the rear of a road at most, and a write to the
\* websocket leaves the road as it is.
LEMMA DownLoses ==
    ASSUME TypeOK, UNCHANGED cSend, NEW t \in Session, Loses(t)
    PROVE  Cuts(DownRoad(t)', DownRoad(t)) /\ (Joined(t)' => Joined(t) /\ DownRoad(t)' = DownRoad(t))
<1>1. DownRoad(t)' = IF conn'["S"][t] # "open" THEN << >>
                   ELSE IF conn'[Peer("S")][t] # "open" THEN wire'["S"][t]
                        ELSE wire'["S"][t] \o cSend[t]
  BY DEF DownRoad, Road
<1>2. "S" \in End /\ cSend[t] \in Seq(Message)
  BY DEF End, TypeOK, CH!HubTypeOK
<1> QED
  BY <1>1, <1>2, RoadLoses DEF DownRoad, TypeOK

\* writePump of the client moves a message along the road to the server.
LEMMA DownMoves ==
    ASSUME TypeOK, NEW s \in Session, CH!Take(s), WriteSock("C", s, Head(cSend[s])),
           NEW t \in Session
    PROVE  DownRoad(t)' = DownRoad(t) /\ (Joined(t)' <=> Joined(t))
<1>1. conn' = conn /\ (t # s => wire'["S"][t] = wire["S"][t])
  BY WriteSockEffect DEF End, TypeOK
<1>2. cSend[s] \in Seq(Message) /\ cSend[s] # << >> /\ cSend'[s] = Tail(cSend[s])
      /\ (t # s => cSend'[t] = cSend[t])
  BY DEF CH!Take, TypeOK, CH!HubTypeOK
<1>3. "C" \in End /\ Peer("C") = "S" /\ Peer("S") = "C"
  BY DEF End, Peer
<1>4. CASE t # s
  BY <1>1, <1>2, <1>4 DEF DownRoad, Road, Joined
<1>5. CASE t = s
  <2>1. DownRoad(s)' = IF conn'[Peer("C")][s] # "open" THEN << >>
                     ELSE IF conn'["C"][s] # "open" THEN wire'[Peer("C")][s]
                          ELSE wire'[Peer("C")][s] \o Tail(cSend[s])
    BY <1>2, <1>3 DEF DownRoad, Road
  <2>2. DownRoad(s)' = Road(Peer("C"), s, cSend[s])
    BY <1>2, <1>3, <2>1, RoadMoves DEF TypeOK
  <2> QED
    BY <1>1, <1>3, <1>5, <2>2 DEF DownRoad, Joined
<1> QED
  BY <1>4, <1>5

\* A step that leaves the copiers of the client as they are.
LEMMA DownSame ==
    ASSUME TypeOK, DownRoadInv, restarts = 0, UNCHANGED <<agent, sID, down>>,
           \A r \in Req : /\ Created(r)' <=> Created(r)
                          /\ lcp'[r] \in {"unreg", "done"} <=> lcp[r] \in {"unreg", "done"},
           cClients' \subseteq cClients,
           \A t \in Session : /\ Cuts(DownRoad(t)', DownRoad(t))
                              /\ Joined(t)' => Joined(t) /\ DownRoad(t)' = DownRoad(t),
           DownLive' \subseteq DownLive, \A r \in DownLive' : DownSeen'[r] = DownSeen[r]
    PROVE  DownRoadInv'
<1>1. \A r \in Req : DownNext(r)' = DownNext(r)
  BY DEF DownNext
<1>2. ASSUME NEW t \in Session, NEW m \in Message, DownMsg(m, t)
      PROVE  DownMsg(m, t)'
  <2>1. m.body.req \in Req
    BY MessageTyped
  <2> QED
    BY <1>1, <1>2, <2>1 DEF DownMsg
<1> QED
  BY <1>1, <1>2, DownKept

\* The server knows a request by the id that it gave it.
LEMMA ServerMatch ==
    ASSUME TypeOK, RequestInv, NoBridgeLeak, restarts = 0, NEW r \in Req, Begun(r)
    PROVE  SB!Matching(sID[r]) = sBridges \cap {r}
<1>1. \A b \in sBridges : b \in Req /\ Begun(b)
  BY DEF NoBridgeLeak, Begun, TypeOK, SB!BridgeTypeOK
<1> QED
  BY <1>1 DEF RequestInv, SB!Matching

\* What a message for request r does to the server's bridges.
LEMMA ServerDelivers ==
    ASSUME SB!BridgeTypeOK, NEW r \in Req, NEW i, SB!Matching(i) = sBridges \cap {r}, NEW b,
           SB!BroadcastClose(i) \/ SB!BroadcastBody(i, b)
    PROVE  /\ sID' = sID /\ sBridges' \subseteq sBridges
           /\ \A q \in Req : q # r => sBody'[q] = sBody[q] /\ sCause'[q] = sCause[q]
           /\ SB!BroadcastClose(i) =>
                /\ r \notin sBridges' /\ sBody'[r] = sBody[r]
                /\ r \in sBridges \/ sCause'[r] = sCause[r]
           /\ SB!BroadcastBody(i, b) =>
                \/ /\ r \notin sBridges' /\ sBody'[r] = sBody[r]
                   /\ sCause'[r] \in {sCause[r], "full"}
                \/ /\ r \in sBridges /\ sCause'[r] = sCause[r]
                   /\ sBody'[r] = Append(sBody[r], b)
<1>1. ASSUME SB!BroadcastClose(i)
      PROVE  /\ sID' = sID /\ sBridges' \subseteq sBridges
             /\ \A q \in Req : q # r => sBody'[q] = sBody[q] /\ sCause'[q] = sCause[q]
             /\ r \notin sBridges' /\ sBody'[r] = sBody[r]
             /\ r \in sBridges \/ sCause'[r] = sCause[r]
  BY <1>1 DEF SB!BroadcastClose, SB!Drop, SB!bridgeVars, SB!BridgeTypeOK
<1>2. ASSUME SB!BroadcastBody(i, b)
      PROVE  /\ sID' = sID /\ sBridges' \subseteq sBridges
             /\ \A q \in Req : q # r => sBody'[q] = sBody[q] /\ sCause'[q] = sCause[q]
             /\ \/ /\ r \notin sBridges' /\ sBody'[r] = sBody[r]
                   /\ sCause'[r] \in {sCause[r], "full"}
                \/ /\ r \in sBridges /\ sCause'[r] = sCause[r]
                   /\ sBody'[r] = Append(sBody[r], b)
  <2>1. /\ sID' = sID
        /\ \/ \E full : full \subseteq {r} /\ sBridges \cap {r} \subseteq full /\ SB!Drop(full, "full")
                         /\ UNCHANGED sBody
           \/ r \in sBridges /\ SB!Drop({}, "full") /\ sBody' = [sBody EXCEPT ![r] = Append(@, b)]
    BY <1>2 DEF SB!BroadcastBody
  <2>2. ASSUME r \in sBridges, SB!Drop({}, "full"), sBody' = [sBody EXCEPT ![r] = Append(@, b)]
        PROVE  /\ sBridges' \subseteq sBridges /\ sCause' = sCause
               /\ sBody'[r] = Append(sBody[r], b)
               /\ \A q \in Req : q # r => sBody'[q] = sBody[q]
    <3>1. sCause' = sCause /\ sBridges' \subseteq sBridges
      BY <2>2 DEF SB!Drop, SB!BridgeTypeOK
    <3>2. sBody'[r] = Append(sBody[r], b) /\ \A q \in Req : q # r => sBody'[q] = sBody[q]
      BY <2>2 DEF SB!BridgeTypeOK
    <3> QED
      BY <3>1, <3>2
  <2>3. ASSUME NEW full, full \subseteq {r}, sBridges \cap {r} \subseteq full,
               SB!Drop(full, "full"), UNCHANGED sBody
        PROVE  /\ sBridges' \subseteq sBridges /\ r \notin sBridges'
               /\ sCause'[r] \in {sCause[r], "full"}
               /\ \A q \in Req : q # r => sCause'[q] = sCause[q]
    BY <2>3 DEF SB!Drop, SB!BridgeTypeOK
  <2> QED
    BY <2>1, <2>2, <2>3
<1> QED
  BY <1>1, <1>2

\* What the server has received stays in order when nothing is received.
LEMMA RemoteSame ==
    ASSUME TypeOK, RemoteInv, restarts = 0, UNCHANGED <<down, got, sBody>>,
           \A r \in Req : /\ lcp[r] \in {"unreg", "done"} => lcp'[r] \in {"unreg", "done"}
                          /\ sCause'[r] = "close" => sCause[r] = "close"
    PROVE  RemoteInv'
<1> SUFFICES ASSUME NEW r \in Req
             PROVE  /\ Received(r, got'[r], sBody'[r])
                    /\ Len(got'[r]) + Len(sBody'[r]) <= down'[r]
                    /\ sCause'[r] = "close" => /\ lcp'[r] \in {"unreg", "done"}
                                              /\ Len(got'[r]) + Len(sBody'[r]) = down'[r]
  BY DEF RemoteInv, Received
<1>1. /\ Received(r, got[r], sBody[r])
      /\ Len(got[r]) + Len(sBody[r]) <= down[r]
      /\ sCause[r] = "close" => /\ lcp[r] \in {"unreg", "done"}
                                /\ Len(got[r]) + Len(sBody[r]) = down[r]
  BY DEF RemoteInv
<1>2. /\ lcp[r] \in {"unreg", "done"} => lcp'[r] \in {"unreg", "done"}
      /\ sCause'[r] = "close" => sCause[r] = "close"
      /\ got'[r] = got[r] /\ sBody'[r] = sBody[r] /\ down'[r] = down[r]
  OBVIOUS
<1> QED
  BY <1>1, <1>2, Zenon

\* The steps of the session's sockets and goroutines that take no message, and
\* those that take one to the client.
LEMMA DownSession ==
    ASSUME Known, CreatedInv, DownInv, restarts = 0, NEW s \in Session,
           \/ Connect(s) \/ Cut(s) \/ ServerWritePump(s) \/ ClientWritePump(s)
           \/ ServerRegister(s) \/ ServerReadEnd(s)
           \/ ClientRegister(s) \/ ClientRead(s) \/ ClientReadEnd(s)
    PROVE  DownInv'
<1> USE DEF Known, DownInv
<1>0. /\ "S" \in End /\ "C" \in End /\ Peer("S") = "C" /\ Peer("C") = "S"
      /\ TypeOK /\ NetTypeOK /\ cSend \in [Session -> Seq(Message)]
  BY DEF End, Peer, TypeOK, CH!HubTypeOK
<1>1. UNCHANGED <<xfer, local, brS>>
  BY DEF Connect, Cut, ServerWritePump, ClientWritePump, ServerRegister, ServerWrite,
      ServerWriteEnd, WritePumpEnds, ServerReadEnd, ClientRegister, ClientWrite,
      ClientWriteEnd, ClientRead, ClientReadEnd
<1>2. /\ UNCHANGED <<agent, sID, down, lcp, tpc, got, sBody, sCause, sBridges>>
      /\ DownLive' = DownLive /\ DownSeen' = DownSeen
      /\ \A r \in Req : Created(r)' <=> Created(r)
  BY <1>1 DEF xfer, local, brS, DownLive, DownSeen, Created
<1>3. RemoteInv'
  BY <1>0, <1>2, RemoteSame
<1>4. CASE Cut(s) \/ ServerWriteEnd(s) \/ ClientWriteEnd(s) \/ ServerReadEnd(s) \/ ServerRegister(s)
           \/ ClientReadEnd(s)
  <2>1. \A t \in Session : Loses(t)
    BY <1>0, <1>4, NetLoses
    DEF ServerWriteEnd, ClientWriteEnd, WritePumpEnds, ServerReadEnd, ClientReadEnd, ReadPumpEnds,
        ServerRegister
  <2>2. UNCHANGED cSend /\ cClients' \subseteq cClients
    BY <1>4 DEF Cut, ServerWriteEnd, ClientWriteEnd, WritePumpEnds, ServerReadEnd, ClientReadEnd,
       ServerRegister, CH!Unregister, CH!Drop, CH!hubVars, hubC
  <2> QED
    BY <1>0, <1>2, <1>3, <2>1, <2>2, DownLoses, DownSame
<1>5. CASE ClientWrite(s)
  <2>1. CH!Take(s) /\ WriteSock("C", s, Head(cSend[s]))
    BY <1>5 DEF ClientWrite
  <2>2. \A t \in Session : DownRoad(t)' = DownRoad(t) /\ (Joined(t)' <=> Joined(t))
    BY <1>0, <2>1, DownMoves
  <2>3. \A t \in Session : Cuts(DownRoad(t)', DownRoad(t))
    BY <1>0, <2>2, DownTyped DEF Cuts
  <2>4. cClients' = cClients
    BY <2>1 DEF CH!Take
  <2> QED
    BY <1>0, <1>2, <1>3, <2>2, <2>3, <2>4, DownSame
<1>6. CASE ServerWrite(s) \/ ClientRead(s)
  <2>1. \A t \in Session : conn' = conn /\ wire'["S"][t] = wire["S"][t]
    BY <1>0, <1>6, WriteSockEffect, ReadSockEffect DEF ServerWrite, ClientRead
  <2>2. UNCHANGED <<cSend, cClients>>
    BY <1>6 DEF ServerWrite, ClientRead, hubC
  <2>3. \A t \in Session : DownRoad(t)' = DownRoad(t) /\ (Joined(t)' <=> Joined(t))
    BY <1>0, <2>1, <2>2 DEF DownRoad, Road, Joined
  <2>4. \A t \in Session : Cuts(DownRoad(t)', DownRoad(t))
    BY <1>0, <2>3, DownTyped DEF Cuts
  <2> QED
    BY <1>0, <1>2, <1>3, <2>2, <2>3, <2>4, DownSame
<1>7. ASSUME \A t \in Session : /\ Cuts(DownRoad(t)', DownRoad(t))
                                /\ t # s => /\ DownRoad(t)' = DownRoad(t) /\ (Joined(t)' <=> Joined(t))
                                            /\ (t \in cClients' <=> t \in cClients),
             s \in cClients' => \A r \in Req : Created(r) => agent[r] # s
      PROVE  DownInv'
  <2>1. \A r \in Req : DownNext(r)' = DownNext(r)
    BY <1>2 DEF DownNext
  <2>2. ASSUME NEW t \in Session, NEW m \in Message, DownMsg(m, t)
        PROVE  DownMsg(m, t)'
    <3>1. m.body.req \in Req
      BY MessageTyped
    <3> QED
      BY <1>2, <2>1, <2>2, <3>1 DEF DownMsg
  <2> QED
    BY <1>0, <1>2, <1>3, <1>7, <2>1, <2>2, DownKept
<1>8. CASE Connect(s)
  <2>1. /\ wire' = wire /\ UNCHANGED <<cSend, cClients>> /\ conn["C"][s] = "none"
        /\ \A t \in Session, e \in End : conn'[e][t] = IF t = s THEN "open" ELSE conn[e][t]
    BY <1>0, <1>8 DEF Connect, NetTypeOK, hubC
  <2>2. wire["S"][s] = << >> /\ cSend[s] = << >> /\ s \notin cClients
    BY <2>1 DEF UnusedSession
  <2>3. DownRoad(s)' = << >>
    BY <1>0, <2>1, <2>2 DEF DownRoad, Road
  <2>4. \A t \in Session : t # s => DownRoad(t)' = DownRoad(t) /\ (Joined(t)' <=> Joined(t))
    BY <1>0, <2>1 DEF DownRoad, Road, Joined
  <2>5. \A t \in Session : Cuts(DownRoad(t), DownRoad(t)) /\ Cuts(<< >>, DownRoad(t))
    BY <1>0, DownTyped DEF Cuts
  <2> QED
    BY <1>7, <2>1, <2>2, <2>3, <2>4, <2>5
<1>9. CASE ClientRegister(s)
  <2>1. UNCHANGED net /\ UNCHANGED cSend /\ rp["C"][s] = "register" /\ cClients' = cClients \cup {s}
    BY <1>9 DEF ClientRegister, CH!Register, StartPumps
  <2>2. \A t \in Session : DownRoad(t)' = DownRoad(t) /\ (Joined(t)' <=> Joined(t))
    BY <1>0, <2>1 DEF DownRoad, Road, Joined, net
  <2>3. \A t \in Session : Cuts(DownRoad(t), DownRoad(t))
    BY <1>0, DownTyped DEF Cuts
  <2>4. \A r \in Req : Created(r) => agent[r] # s
    BY <2>1 DEF CreatedInv
  <2> QED
    BY <1>7, <2>1, <2>2, <2>3, <2>4
<1> QED
  BY <1>4, <1>5, <1>6, <1>8, <1>9 DEF ServerWritePump, ClientWritePump

\* The client makes the bridge of a request: nothing was sent from it yet.
LEMMA DownCreate ==
    ASSUME Known, UpInv, DownInv, restarts = 0, NEW s \in Session, ClientCreate(s)
    PROVE  DownInv'
<1> USE DEF Known, DownInv
<1>0. /\ "S" \in End /\ "C" \in End /\ TypeOK /\ NetTypeOK
      /\ lcp \in [Req -> {"off", "copy", "unreg", "done", "dead"}]
      /\ got \in [Req -> Seq(Chunk)] /\ sBody \in [Req -> Seq(Chunk)]
  BY DEF End, TypeOK, LocalTypeOK, XferTypeOK, SB!BridgeTypeOK
<1>1. /\ ReadSock("C", s)
      /\ UNCHANGED <<cSend, cClients, agent, sID, tpc, down, got, sBody, sCause, sBridges>>
  BY DEF ClientCreate, hubC, xfer, brS
<1>2. PICK r \in Req : lcp' = [lcp EXCEPT ![r] = "copy"] /\ ~Created(r)
  <2>1. wire["C"][s] \in Seq(Message) /\ wire["C"][s] # << >>
    BY <1>0, <1>1 DEF ReadSock, NetTypeOK
  <2>2. PICK h \in Message : h = Head(wire["C"][s])
    BY <2>1
  <2>3. h.body.req \in Req
    BY MessageTyped
  <2>4. lcp' = [lcp EXCEPT ![h.body.req] = "copy"] /\ h.method = "create"
    BY <2>2 DEF ClientCreate
  <2>5. UpMsg(h, s)
    <3>1. sSend[s] \in Seq(Message)
      BY DEF TypeOK, SH!HubTypeOK
    <3>2. UpRoad(s)' = IF conn'["C"][s] # "open" THEN << >>
                       ELSE IF conn'[Peer("C")][s] # "open" THEN wire'["C"][s]
                            ELSE wire'["C"][s] \o sSend[s]
      BY DEF ClientCreate, hubS, UpRoad, Road
    <3>3. Without(UpRoad(s)', UpRoad(s), h)
      BY <1>0, <1>1, <2>2, <3>1, <3>2, RoadRead DEF UpRoad
    <3>4. UpRoad(s)[1] = h /\ 1 \in 1 .. Len(UpRoad(s))
      BY <1>0, <3>3, UpTyped DEF Without
    <3> QED
      BY <3>4 DEF UpInv, UpRoadInv
  <2>6. ~Created(h.body.req)
    BY <2>3, <2>4, <2>5 DEF UpMsg
  <2> QED
    BY <2>3, <2>4, <2>6
<1>3. /\ \A q \in Req : Created(q)' <=> (Created(q) \/ q = r)
      /\ \A q \in Req \ {r} : lcp'[q] = lcp[q]
      /\ lcp[r] = "off" /\ lcp'[r] = "copy"
  BY <1>0, <1>2 DEF Created
<1>4. DownLive' = DownLive /\ DownSeen' = DownSeen
  BY <1>1 DEF DownLive, DownSeen
<1>5. \A q \in Req : DownNext(q)' = DownNext(q)
  BY <1>1, <1>3 DEF DownNext
<1>6. RemoteInv'
  BY <1>0, <1>1, <1>3, RemoteSame
<1>7. \A t \in Session : /\ DownRoad(t)' = DownRoad(t) /\ Cuts(DownRoad(t)', DownRoad(t))
                         /\ Joined(t)' <=> Joined(t)
  <2>1. \A t \in Session : conn' = conn /\ wire'["S"][t] = wire["S"][t]
    BY <1>0, <1>1, ReadSockEffect
  <2>2. \A t \in Session : DownRoad(t)' = DownRoad(t) /\ (Joined(t)' <=> Joined(t))
    BY <1>0, <1>1, <2>1 DEF DownRoad, Road, Joined
  <2> QED
    BY <1>0, <2>2, DownTyped DEF Cuts
<1>8. ASSUME NEW t \in Session, NEW m \in Message, DownMsg(m, t)
      PROVE  DownMsg(m, t)'
  <2>1. m.body.req \in Req \ {r}
    BY <1>2, <1>8, MessageTyped DEF DownMsg
  <2> QED
    BY <1>1, <1>3, <1>5, <1>8, <2>1 DEF DownMsg
<1>9. DownSeen[r] = DownNext(r)
  <2>1. PICK out, body \in Seq(Chunk) : out = got[r] /\ body = sBody[r]
    BY <1>0
  <2>2. Len(out) + Len(body) <= 0
    BY <1>2, <2>1 DEF CreatedInv, RemoteInv, UpInv
  <2>3. Len(out) + Len(body) + 1 = 1
    BY <2>2
  <2>4. DownNext(r) = down[r] + 1 /\ down[r] = 0
    BY <1>2, <1>3 DEF DownNext, CreatedInv, UpInv
  <2>5. DownSeen[r] = Len(got[r]) + Len(sBody[r]) + 1
    BY DEF DownSeen
  <2>6. DownSeen[r] = 1
    BY <2>1, <2>3, <2>5
  <2>7. DownNext(r) = 1
    BY <2>4
  <2> QED
    BY <2>6, <2>7
<1>10. DownRoadInv'
  <2>1. \A t \in Session, q \in Req : (t \in cClients' /\ Joined(t)' /\ Created(q)' /\ agent'[q] = t) =>
           \/ /\ t \in cClients /\ Joined(t) /\ Created(q) /\ agent[q] = t
              /\ DownRoad(t)' = DownRoad(t) /\ DownNext(q)' = DownNext(q)
           \/ q \in DownLive' => DownSeen'[q] = DownNext(q)'
    BY <1>1, <1>3, <1>4, <1>5, <1>7, <1>9
  <2> QED
    BY <1>0, <1>4, <1>7, <1>8, <2>1, DownKept
<1> QED
  BY <1>6, <1>10

\* The server's read pump takes a message.
LEMMA DownReceive ==
    ASSUME Known, CreatedInv, DownInv, restarts = 0, NEW s \in Session, ServerRead(s)
    PROVE  DownInv'
<1> USE DEF Known, DownInv
<1>0. /\ "S" \in End /\ TypeOK /\ NetTypeOK /\ SB!BridgeTypeOK /\ cSend[s] \in Seq(Message)
      /\ sBody \in [Req -> Seq(Chunk)] /\ got \in [Req -> Seq(Chunk)]
      /\ down \in [Req -> 0 .. MaxDown] /\ MaxDown \in Nat
  BY NatAssumption
  DEF End, TypeOK, CH!HubTypeOK, SB!BridgeTypeOK, LocalTypeOK, XferTypeOK
<1>1. /\ ReadSock("S", s)
      /\ UNCHANGED <<cSend, cClients, agent, snd, up, tpc, lcp, down, got>>
  BY DEF ServerRead, hubC, xfer, local
<1>h. PICK h \in Message : h = Head(wire["S"][s])
  BY <1>0, <1>1 DEF ReadSock, NetTypeOK
<1>r. PICK r \in Req : r = h.body.req
  BY MessageTyped
<1>2. Without(DownRoad(s)', DownRoad(s), h)
  <2>1. DownRoad(s)' = IF conn'["S"][s] # "open" THEN << >>
                       ELSE IF conn'[Peer("S")][s] # "open" THEN wire'["S"][s]
                            ELSE wire'["S"][s] \o cSend[s]
    BY <1>1 DEF DownRoad, Road
  <2> QED
    BY <1>0, <1>1, <1>h, <2>1, RoadRead DEF DownRoad
<1>3. DownRoad(s) \in Seq(Message) /\ RoadOK(DownRoad(s), DownSeen, DownLive)
  BY DownTyped DEF DownRoadInv
<1>4. DownMsg(h, s)
  <2>1. h = DownRoad(s)[1] /\ 1 \in 1 .. Len(DownRoad(s))
    BY <1>2, <1>3 DEF Without
  <2>2. DownMsg(DownRoad(s)[1], s)
    BY <2>1 DEF DownRoadInv
  <2> QED
    BY <2>1, <2>2
<1>5. h.body.n \in Nat /\ h.body = [req |-> r, n |-> h.body.n] /\ h.method \in Method
  BY <1>r, MessageTyped
<1>6. r \in DownLive => DownSeen[r] = h.body.n
  BY <1>2, <1>3, <1>r, RoadHead
<1>7. /\ Created(r) /\ agent[r] = s /\ h.id = sID[r] /\ h.body.n < DownNext(r)
      /\ h.method # "create"
      /\ h.method = "close" => lcp[r] \in {"unreg", "done"} /\ h.body.n = down[r] + 1
      /\ h.method = "" => h.body.n <= down[r]
  BY <1>4, <1>r DEF DownMsg
<1>8. Opened(r) /\ Begun(r) /\ tpc[r] # "new"
  BY <1>7 DEF CreatedInv, Opened, Begun
<1>9. SB!Matching(h.id) = sBridges \cap {r}
  BY <1>0, <1>7, <1>8, ServerMatch
<1> DEFINE Lost == r \notin sBridges' /\ sBody'[r] = sBody[r] /\ sCause'[r] \in {sCause[r], "full"}
           Ended == h.method = "close" /\ r \in sBridges /\ r \notin sBridges'
                      /\ sBody'[r] = sBody[r]
           Grown == h.method = "" /\ r \in sBridges /\ sCause'[r] = sCause[r]
                      /\ sBody'[r] = Append(sBody[r], h.body)
<1>10. /\ sID' = sID /\ sBridges' \subseteq sBridges
       /\ \A q \in Req : q # r => sBody'[q] = sBody[q] /\ sCause'[q] = sCause[q]
       /\ Lost \/ Ended \/ Grown
  <2>1. \/ h.method = "close" /\ SB!BroadcastClose(h.id)
        \/ h.method = "" /\ SB!BroadcastBody(h.id, h.body)
    BY <1>5, <1>7, <1>h DEF ServerRead, Method
  <2>2. CASE h.method = "close" /\ SB!BroadcastClose(h.id)
    BY <1>0, <1>9, <2>2, ServerDelivers
  <2>3. CASE h.method = "" /\ SB!BroadcastBody(h.id, h.body)
    BY <1>0, <1>9, <2>3, ServerDelivers
  <2> QED
    BY <2>1, <2>2, <2>3
<1> HIDE DEF Lost, Ended, Grown
<1>11. \A q \in Req : (Created(q)' <=> Created(q)) /\ DownNext(q)' = DownNext(q)
  BY <1>1 DEF Created, DownNext
<1>12. DownLive' \subseteq DownLive
  BY <1>1, <1>10 DEF DownLive
<1>13. r \in sBridges => h.body.n = Len(got[r]) + Len(sBody[r]) + 1
  BY <1>6 DEF DownLive, DownSeen
<1>14. ASSUME NEW q \in DownLive'
       PROVE  DownSeen'[q] = IF q = r THEN h.body.n + 1 ELSE DownSeen[q]
  <2>1. q \in Req /\ DownSeen'[q] = Len(got'[q]) + Len(sBody'[q]) + 1
    BY DEF DownSeen, DownLive
  <2>2. DownSeen[q] = Len(got[q]) + Len(sBody[q]) + 1
    BY <2>1 DEF DownSeen
  <2>3. got'[q] = got[q]
    BY <1>1
  <2>4. CASE q = r
    <3>1. r \in sBridges'
      BY <1>1, <1>8, <2>4 DEF DownLive
    <3>2. sBody'[r] = Append(sBody[r], h.body) /\ r \in sBridges
      BY <1>10, <3>1 DEF Lost, Ended, Grown
    <3>3. PICK out, body \in Seq(Chunk) : out = got[r] /\ body = sBody[r]
      BY <1>0
    <3>4. DownSeen'[q] = Len(out) + Len(Append(body, h.body)) + 1
      BY <2>1, <2>3, <2>4, <3>2, <3>3
    <3>5. h.body.n = Len(out) + Len(body) + 1
      BY <1>13, <3>2, <3>3
    <3>6. Len(out) + Len(Append(body, h.body)) + 1 = Len(out) + Len(body) + 1 + 1
      OBVIOUS
    <3> QED
      BY <2>4, <3>4, <3>5, <3>6
  <2>5. CASE q # r
    BY <1>10, <2>1, <2>2, <2>3, <2>5
  <2> QED
    BY <2>4, <2>5
<1>15. ASSUME NEW x \in Message, NEW t \in Session, DownMsg(x, t)
       PROVE  DownMsg(x, t)'
  <2>1. x.body.req \in Req
    BY MessageTyped
  <2> QED
    BY <1>1, <1>10, <1>11, <1>15, <2>1 DEF DownMsg
<1>16. DownRoadInv'
  BY <1>0, <1>1, <1>h, <1>r, <1>11, <1>12, <1>14, <1>15, DownTake
<1>17. RemoteInv'
  <2> SUFFICES ASSUME NEW q \in Req
               PROVE  /\ Received(q, got'[q], sBody'[q])
                      /\ Len(got'[q]) + Len(sBody'[q]) <= down'[q]
                      /\ sCause'[q] = "close" => /\ lcp'[q] \in {"unreg", "done"}
                                                 /\ Len(got'[q]) + Len(sBody'[q]) = down'[q]
    BY DEF RemoteInv, Received
  <2>1. /\ Received(q, got[q], sBody[q])
        /\ Len(got[q]) + Len(sBody[q]) <= down[q]
        /\ sCause[q] = "close" => /\ lcp[q] \in {"unreg", "done"}
                                  /\ Len(got[q]) + Len(sBody[q]) = down[q]
    BY DEF RemoteInv
  <2>2. got'[q] = got[q] /\ down'[q] = down[q] /\ lcp'[q] = lcp[q]
    BY <1>1
  <2>3. PICK out, body \in Seq(Chunk), d, n \in Nat :
            out = got[q] /\ body = sBody[q] /\ d = down[q] /\ n = h.body.n
    BY <1>0, <1>5
  <2>4. CASE q # r
    BY <1>10, <2>1, <2>2, <2>4
  <2>5. CASE q = r /\ Lost
    <3>1. sBody'[q] = sBody[q] /\ (sCause'[q] = "close" => sCause[q] = "close")
      BY <2>5 DEF Lost
    <3> QED
      BY <2>1, <2>2, <3>1
  <2>6. CASE q = r /\ Ended
    <3>1. /\ sBody'[q] = sBody[q] /\ lcp[q] \in {"unreg", "done"}
          /\ n = Len(out) + Len(body) + 1 /\ n = d + 1
      BY <1>7, <1>13, <2>3, <2>6 DEF Ended
    <3>2. Len(out) + Len(body) = d
      BY <3>1
    <3> QED
      BY <2>1, <2>2, <2>3, <3>1, <3>2
  <2>7. CASE q = r /\ Grown
    <3>1. /\ sBody'[q] = Append(body, h.body) /\ sCause'[q] = sCause[q] /\ q \in sBridges
          /\ n = Len(out) + Len(body) + 1 /\ n <= d
      BY <1>7, <1>13, <2>3, <2>7 DEF Grown
    <3>2. sCause[q] = "open"
      BY <3>1 DEF NoPanic, SB!MembersOpen, SB!closed
    <3>3. h.body = [req |-> q, n |-> Len(out) + Len(body) + 1]
      BY <1>5, <2>3, <2>7, <3>1
    <3>4. Received(q, out, Append(body, h.body))
      BY <2>1, <2>3, <3>3, ReceivedGrows
    <3>5. Len(out) + Len(Append(body, h.body)) = n
      BY <3>1
    <3> QED
      BY <2>2, <2>3, <3>1, <3>2, <3>4, <3>5
  <2> QED
    BY <1>10, <2>4, <2>5, <2>6, <2>7
<1> QED
  BY <1>16, <1>17

\* The steps of a request that are neither messages from the application nor
\* their way to the requester.
LEMMA DownOther ==
    ASSUME Known, CreatedInv, DownInv, restarts = 0, NEW r \in Req,
           \/ NotFound(r) \/ Open(r) \/ Send(r) \/ SendClose(r) \/ PumpEnd(r) \/ Return(r)
           \/ LocalPump(r) \/ LocalPumpEnd(r) \/ LocalUnregister(r)
    PROVE  DownInv'
<1> USE DEF Known, DownInv
<1>0. /\ TypeOK /\ tpc \in [Req -> {"new", "open", "pump", "wait", "ret", "plain", "dead"}]
      /\ lcp \in [Req -> {"off", "copy", "unreg", "done", "dead"}] /\ sBridges \subseteq Req
      /\ sCause \in [Req -> SB!Cause]
  BY DEF TypeOK, XferTypeOK, LocalTypeOK, SB!BridgeTypeOK
<1>1. UNCHANGED <<conn, wire, hubC, agent, down, got, sID, sBody>>
  <2>1. UNCHANGED <<conn, wire, hubC, agent, down, got>>
    BY DEF NotFound, Open, Send, SendClose, PumpEnd, Return, LocalPump, LocalPumpEnd,
       LocalUnregister, net, xfer, local
  <2>2. UNCHANGED <<sID, sBody>>
    BY DEF NotFound, Open, Send, SendClose, PumpEnd, Return, LocalPump, LocalPumpEnd,
       LocalUnregister, brS, SB!Unregister, SB!Drop, SB!bridgeVars
  <2> QED
    BY <2>1, <2>2
<1>2. \A q \in Req : /\ Created(q)' <=> Created(q)
                     /\ lcp'[q] \in {"unreg", "done"} <=> lcp[q] \in {"unreg", "done"}
  <2>1. lcp' = lcp \/ (lcp[r] = "unreg" /\ lcp' = [lcp EXCEPT ![r] = "done"])
    BY DEF NotFound, Open, Send, SendClose, PumpEnd, Return, LocalPump, LocalPumpEnd,
       LocalUnregister, local
  <2> QED
    BY <1>0, <2>1 DEF Created
<1>3. sBridges' \subseteq sBridges /\ \A q \in Req : sCause'[q] = "close" => sCause[q] = "close"
  <2>1. CASE UNCHANGED brS
    BY <2>1 DEF brS
  <2>2. CASE SB!Unregister(r)
    BY <1>0, <2>2 DEF SB!Unregister, SB!Drop, SB!bridgeVars
  <2> QED
    BY <2>1, <2>2 DEF NotFound, Open, Send, SendClose, PumpEnd, Return, LocalPump, LocalPumpEnd,
       LocalUnregister
<1>4. \A q \in Req : tpc'[q] = "new" => tpc[q] = "new"
  <2>1. \E v \in {"plain", "pump", "wait", "ret"} : tpc' \in {tpc, [tpc EXCEPT ![r] = v]}
    BY DEF NotFound, Open, Send, SendClose, PumpEnd, Return, LocalPump, LocalPumpEnd,
       LocalUnregister, xfer
  <2> QED
    BY <1>0, <2>1
<1>5. \A t \in Session : /\ DownRoad(t)' = DownRoad(t) /\ Cuts(DownRoad(t)', DownRoad(t))
                         /\ Joined(t)' <=> Joined(t)
  <2>1. \A t \in Session : DownRoad(t)' = DownRoad(t) /\ (Joined(t)' <=> Joined(t))
    BY <1>1 DEF DownRoad, Road, Joined, hubC
  <2> QED
    BY <1>0, <2>1, DownTyped DEF Cuts
<1>6. DownLive' \subseteq DownLive /\ \A q \in DownLive' : DownSeen'[q] = DownSeen[q]
  BY <1>1, <1>3, <1>4 DEF DownLive, DownSeen
<1>7. DownRoadInv'
  BY <1>0, <1>1, <1>2, <1>5, <1>6, DownSame DEF hubC
<1>8. RemoteInv'
  BY <1>0, <1>1, <1>2, <1>3, RemoteSame
<1> QED
  BY <1>7, <1>8

\* transfer starts: no message of the request is on any road.
LEMMA DownBegin ==
    ASSUME Known, CreatedInv, DownInv, restarts = 0, NEW r \in Req, Begin(r)
    PROVE  DownInv'
<1> USE DEF Known, DownInv
<1>0. /\ TypeOK /\ tpc \in [Req -> {"new", "open", "pump", "wait", "ret", "plain", "dead"}]
      /\ agent \in [Req -> Session \cup {NoSession}] /\ sID \in [Req -> Id]
  BY DEF TypeOK, XferTypeOK, SB!BridgeTypeOK
<1>1. /\ UNCHANGED <<conn, wire, hubC, sBody, sCause, got, local>>
      /\ tpc[r] = "new" /\ tpc' = [tpc EXCEPT ![r] = "open"]
      /\ \E s \in sClients : agent' = [agent EXCEPT ![r] = s]
      /\ sID' = [sID EXCEPT ![r] = nextId] /\ sBridges' = sBridges \cup {r}
  BY DEF Begin, SB!Register, net
<1>2. ~Created(r)
  BY <1>1 DEF CreatedInv, Opened
<1>3. /\ \A q \in Req : (Created(q)' <=> Created(q)) /\ DownNext(q)' = DownNext(q)
      /\ \A q \in Req \ {r} : agent'[q] = agent[q] /\ sID'[q] = sID[q]
      /\ UNCHANGED <<lcp, down>>
  BY <1>0, <1>1 DEF Created, DownNext, local
<1>4. DownLive' \subseteq DownLive /\ \A q \in DownLive' : DownSeen'[q] = DownSeen[q]
  BY <1>0, <1>1 DEF DownLive, DownSeen
<1>5. \A t \in Session : /\ DownRoad(t)' = DownRoad(t) /\ Cuts(DownRoad(t)', DownRoad(t))
                         /\ Joined(t)' <=> Joined(t)
  <2>1. \A t \in Session : DownRoad(t)' = DownRoad(t) /\ (Joined(t)' <=> Joined(t))
    BY <1>1 DEF DownRoad, Road, Joined, hubC
  <2> QED
    BY <1>0, <2>1, DownTyped DEF Cuts
<1>6. ASSUME NEW t \in Session, NEW m \in Message, DownMsg(m, t)
      PROVE  DownMsg(m, t)'
  <2>1. m.body.req \in Req \ {r}
    BY <1>2, <1>6, MessageTyped DEF DownMsg
  <2> QED
    BY <1>3, <1>6, <2>1 DEF DownMsg
<1>7. DownRoadInv'
  <2>1. \A t \in Session, q \in Req : (t \in cClients' /\ Joined(t)' /\ Created(q)' /\ agent'[q] = t) =>
           /\ t \in cClients /\ Joined(t) /\ Created(q) /\ agent[q] = t
           /\ DownRoad(t)' = DownRoad(t) /\ DownNext(q)' = DownNext(q)
    BY <1>1, <1>2, <1>3, <1>5 DEF hubC
  <2> QED
    BY <1>0, <1>4, <1>5, <1>6, <2>1, DownKept
<1>8. RemoteInv'
  BY <1>0, <1>1, <1>3, RemoteSame
<1> QED
  BY <1>7, <1>8

\* The server's WritePump hands a chunk to the requester.
LEMMA DownPump ==
    ASSUME Known, CreatedInv, DownInv, restarts = 0, NEW r \in Req, Pump(r)
    PROVE  DownInv'
<1> USE DEF Known, DownInv
<1>0. /\ TypeOK /\ sBody \in [Req -> Seq(Chunk)] /\ got \in [Req -> Seq(Chunk)]
  BY DEF TypeOK, XferTypeOK, SB!BridgeTypeOK
<1>1. /\ UNCHANGED <<conn, wire, hubC, agent, sID, tpc, lcp, down, sBridges, sCause>>
      /\ sBody[r] # << >>
      /\ sBody' = [sBody EXCEPT ![r] = Tail(@)]
      /\ got' = [got EXCEPT ![r] = Append(@, Head(sBody[r]))]
  BY DEF Pump, SB!Take, net, local
<1>2. \A q \in Req : Created(q)' <=> Created(q)
  BY <1>1 DEF Created
<1>3. Received(r, got[r], sBody[r])
  BY DEF RemoteInv
<1>4. /\ Received(r, got'[r], sBody'[r])
      /\ Len(got'[r]) + Len(sBody'[r]) = Len(got[r]) + Len(sBody[r])
  <2>1. /\ got'[r] = Append(got[r], Head(sBody[r])) /\ sBody'[r] = Tail(sBody[r])
        /\ got[r] \in Seq(Chunk) /\ sBody[r] \in Seq(Chunk)
        /\ got'[r] \in Seq(Chunk) /\ sBody'[r] \in Seq(Chunk)
    BY <1>0, <1>1
  <2>2. PICK out, body, out2, body2 \in Seq(Chunk) :
            /\ out = got[r] /\ body = sBody[r] /\ out2 = got'[r] /\ body2 = sBody'[r]
    BY <2>1
  <2>3. Received(r, out2, body2) /\ Len(out2) + Len(body2) = Len(out) + Len(body)
    <3>1. Received(r, out, body) /\ Moves(out, body, out2, body2)
      BY <1>1, <1>3, <2>1, <2>2 DEF Moves
    <3> QED
      BY <3>1, ReceivedMoves
  <2> QED
    BY <2>2, <2>3
<1>5. \A q \in Req : q # r => got'[q] = got[q] /\ sBody'[q] = sBody[q]
  BY <1>0, <1>1
<1>6. \A q \in Req : Len(got'[q]) + Len(sBody'[q]) = Len(got[q]) + Len(sBody[q])
  BY <1>4, <1>5
<1>7. DownLive' \subseteq DownLive /\ \A q \in DownLive' : DownSeen'[q] = DownSeen[q]
  <2>1. DownLive' \subseteq DownLive /\ DownLive \subseteq Req
    BY <1>1 DEF DownLive
  <2>2. \A q \in Req : /\ DownSeen[q] = Len(got[q]) + Len(sBody[q]) + 1
                       /\ DownSeen'[q] = Len(got'[q]) + Len(sBody'[q]) + 1
    BY DEF DownSeen
  <2> QED
    BY <1>6, <2>1, <2>2
<1>8. \A t \in Session : /\ DownRoad(t)' = DownRoad(t) /\ Cuts(DownRoad(t)', DownRoad(t))
                         /\ Joined(t)' <=> Joined(t)
  <2>1. \A t \in Session : DownRoad(t)' = DownRoad(t) /\ (Joined(t)' <=> Joined(t))
    BY <1>1 DEF DownRoad, Road, Joined, hubC
  <2> QED
    BY <1>0, <2>1, DownTyped DEF Cuts
<1>9. DownRoadInv'
  BY <1>0, <1>1, <1>2, <1>7, <1>8, DownSame DEF hubC
<1>10. RemoteInv'
  BY <1>1, <1>4, <1>5, <1>6 DEF RemoteInv
<1> QED
  BY <1>9, <1>10

\* The copier puts a message on the road: a chunk, or CLOSE.
LEMMA DownSends ==
    ASSUME Known, CreatedInv, DownInv, restarts = 0, NEW r \in Req, LocalCopy(r) \/ LocalClose(r)
    PROVE  DownInv'
<1> USE DEF Known, DownInv
<1>0. /\ TypeOK /\ lcp \in [Req -> {"off", "copy", "unreg", "done", "dead"}]
      /\ sID \in [Req -> Id] /\ down \in [Req -> 0 .. MaxDown] /\ MaxDown \in Nat
      /\ lcp[r] = "copy" /\ Created(r)
  BY NatAssumption DEF TypeOK, LocalTypeOK, SB!BridgeTypeOK, LocalCopy, LocalClose, Created
<1>1. /\ UNCHANGED <<conn, wire, agent, sID, brS, tpc, got>>
      /\ lagent[r] = agent[r] /\ lID[r] = sID[r]
  BY <1>0 DEF LocalCopy, LocalClose, CreatedInv, brS, net, xfer
<1>2. PICK meth \in Method, n \in Nat :
         /\ CH!Broadcast(agent[r], Msg(sID[r], meth, r, n)) /\ n = down[r] + 1
         /\ \/ meth = "" /\ lcp' = lcp /\ down' = [down EXCEPT ![r] = @ + 1]
            \/ meth = "close" /\ lcp' = [lcp EXCEPT ![r] = "unreg"] /\ down' = down
  <2>0. down[r] + 1 \in Nat
    BY <1>0
  <2>1. CASE LocalCopy(r)
    BY <1>1, <2>0, <2>1 DEF LocalCopy, Method
  <2>2. CASE LocalClose(r)
    BY <1>1, <2>0, <2>2 DEF LocalClose, Method
  <2> QED
    BY <2>1, <2>2
<1>m. PICK m \in Message : m = Msg(sID[r], meth, r, n)
  BY <1>0 DEF Msg, Message, Chunk
<1>3. m.body.req = r /\ m.body.n = n /\ m.method = meth /\ m.id = sID[r]
  BY <1>m DEF Msg
<1>4. /\ \A q \in Req \ {r} : lcp'[q] = lcp[q] /\ down'[q] = down[q] /\ DownNext(q)' = DownNext(q)
      /\ \A q \in Req : Created(q)' <=> Created(q)
  <2>1. \A q \in Req \ {r} : lcp'[q] = lcp[q] /\ down'[q] = down[q]
    BY <1>0, <1>2
  <2>2. lcp'[r] \in {"copy", "unreg"}
    BY <1>0, <1>2
  <2> QED
    BY <1>0, <2>1, <2>2 DEF DownNext, Created
<1>a. /\ \A i, j \in Nat : i < j => i < j + 1
      /\ \A i, j, k \in Nat : i <= j /\ j <= k => i <= k
      /\ \A i \in Nat : i <= i + 1 /\ i <= i /\ i + 1 \in Nat
  OBVIOUS
<1>5. PICK d, e \in Nat : d = down[r] /\ e = down'[r]
  <2>1. down[r] \in Nat /\ down[r] + 1 \in Nat
    BY <1>0
  <2>2. down'[r] \in {down[r], down[r] + 1}
    BY <1>0, <1>2
  <2> QED
    BY <2>1, <2>2
<1>6. /\ n = d + 1 /\ d <= e /\ meth \in {"", "close"}
      /\ meth = "close" => lcp'[r] = "unreg" /\ n = e + 1
      /\ meth = "" => n <= e /\ n = e /\ lcp'[r] = "copy"
  <2>1. CASE meth = "" /\ lcp' = lcp /\ down' = [down EXCEPT ![r] = @ + 1]
    <3>1. e = d + 1 /\ n = d + 1
      BY <1>0, <1>2, <1>5, <2>1
    <3>2. d <= e /\ n <= e /\ n = e
      BY <1>a, <3>1
    <3> QED
      BY <1>0, <2>1, <3>1, <3>2
  <2>2. CASE meth = "close" /\ lcp' = [lcp EXCEPT ![r] = "unreg"] /\ down' = down
    <3>1. e = d /\ n = d + 1
      BY <1>0, <1>2, <1>5, <2>2
    <3> QED
      BY <1>0, <2>2, <3>1
  <2> QED
    BY <1>2, <2>1, <2>2
<1>7. DownNext(r) = n
  BY <1>0, <1>5, <1>6 DEF DownNext
<1>8. DownNext(r)' = n + 1
  <2>1. CASE meth = "close"
    <3>1. DownNext(r)' = e + 2
      BY <1>5, <1>6, <2>1 DEF DownNext
    <3>2. e + 2 = n + 1
      BY <1>6, <2>1
    <3> QED
      BY <3>1, <3>2
  <2>2. CASE meth = ""
    BY <1>5, <1>6, <2>2 DEF DownNext
  <2> QED
    BY <1>6, <2>1, <2>2
<1>9. ASSUME NEW x \in Message, NEW t \in Session, DownMsg(x, t)
      PROVE  DownMsg(x, t)'
  <2>1. PICK k \in Nat, q \in Req : k = x.body.n /\ q = x.body.req
    BY MessageTyped
  <2>2. CASE q # r
    <3>1. /\ DownNext(q)' = DownNext(q) /\ (Created(q)' <=> Created(q))
          /\ lcp'[q] = lcp[q] /\ down'[q] = down[q]
      BY <1>4, <2>2
    <3> QED
      BY <1>1, <1>9, <2>1, <3>1 DEF DownMsg
  <2>3. CASE q = r
    <3>1. /\ Created(r) /\ agent[r] = t /\ x.id = sID[r] /\ k < n
          /\ x.method \notin {"create", "close"}
          /\ x.method = "" => k <= d
      BY <1>0, <1>5, <1>7, <1>9, <2>1, <2>3 DEF DownMsg
    <3>2. k < n + 1 /\ (x.method = "" => k <= e)
      BY <1>a, <1>6, <3>1
    <3>3. Created(r)'
      BY <1>0, <1>4
    <3> QED
      BY <1>1, <1>5, <1>8, <2>1, <2>3, <3>1, <3>2, <3>3 DEF DownMsg
  <2> QED
    BY <2>2, <2>3
<1>10. DownMsg(m, agent[r])'
  <2>1. m.body.n < DownNext(r)'
    BY <1>3, <1>8
  <2>2. Created(r)'
    BY <1>0, <1>4
  <2> QED
    BY <1>1, <1>3, <1>5, <1>6, <2>1, <2>2 DEF DownMsg
<1>11. agent[r] \in Session
  BY <1>0 DEF CreatedInv, RequestInv, Begun, Opened, TypeOK, SH!HubTypeOK
<1>12. UNCHANGED <<DownSeen, DownLive>>
  BY <1>1 DEF DownSeen, DownLive, brS
<1>13. DownRoadInv'
  <2>1. m.body.n = DownNext(r) /\ DownNext(r)' = DownNext(r) + 1 /\ CH!Broadcast(agent[r], m)
    BY <1>2, <1>3, <1>7, <1>8, <1>m
  <2> QED
    BY <1>0, <1>1, <1>3, <1>4, <1>9, <1>10, <1>11, <1>12, <2>1, DownSend
<1>14. RemoteInv'
  <2> SUFFICES ASSUME NEW q \in Req
               PROVE  /\ Received(q, got'[q], sBody'[q])
                      /\ Len(got'[q]) + Len(sBody'[q]) <= down'[q]
                      /\ sCause'[q] = "close" => /\ lcp'[q] \in {"unreg", "done"}
                                                 /\ Len(got'[q]) + Len(sBody'[q]) = down'[q]
    BY DEF RemoteInv, Received
  <2>1. /\ Received(q, got[q], sBody[q])
        /\ Len(got[q]) + Len(sBody[q]) <= down[q]
        /\ sCause[q] = "close" => /\ lcp[q] \in {"unreg", "done"}
                                  /\ Len(got[q]) + Len(sBody[q]) = down[q]
    BY DEF RemoteInv
  <2>2. got'[q] = got[q] /\ sBody'[q] = sBody[q] /\ sCause'[q] = sCause[q]
    BY <1>1 DEF brS
  <2>3. CASE q # r
    BY <1>4, <2>1, <2>2, <2>3
  <2>4. CASE q = r
    <3>1. sCause[q] # "close"
      BY <1>0, <2>1, <2>4
    <3>2. PICK out, body \in Seq(Chunk) : out = got[q] /\ body = sBody[q]
      BY <1>0 DEF TypeOK, XferTypeOK, SB!BridgeTypeOK
    <3>3. Len(out) + Len(body) <= e
      <4>1. Len(out) + Len(body) <= d
        BY <1>5, <2>1, <2>4, <3>2
      <4>2. \A i \in Nat : i <= d => i <= e
        BY <1>a, <1>6
      <4>3. Len(out) + Len(body) \in Nat
        OBVIOUS
      <4> QED
        BY <4>1, <4>2, <4>3
    <3> QED
      BY <1>5, <2>1, <2>2, <2>4, <3>1, <3>2, <3>3
  <2> QED
    BY <2>3, <2>4
<1> QED
  BY <1>13, <1>14

\* The client process ends: its channels are lost, but not what it had written.
LEMMA DownCrash ==
    ASSUME Known, CreatedInv, DownInv, restarts = 0, ClientCrash
    PROVE  DownInv'
<1> USE DEF Known, DownInv
<1>0. /\ TypeOK /\ NetTypeOK /\ "C" \in End
      /\ lcp \in [Req -> {"off", "copy", "unreg", "done", "dead"}]
  BY DEF TypeOK, LocalTypeOK, End
<1>1. /\ UNCHANGED <<cSend, agent, sID, tpc, down, got, sBody, sCause, sBridges>>
      /\ cClients' = {} /\ ProcessDies("C")
      /\ \A q \in Req : /\ Created(q)' <=> Created(q)
                        /\ lcp'[q] \in {"unreg", "done"} <=> lcp[q] \in {"unreg", "done"}
  BY <1>0 DEF ClientCrash, brS, xfer, Created
<1>2. \A t \in Session : Loses(t)
  BY <1>0, <1>1, NetLoses
<1>3. DownLive' \subseteq DownLive /\ \A q \in DownLive' : DownSeen'[q] = DownSeen[q]
  BY <1>1 DEF DownLive, DownSeen
<1>4. DownRoadInv'
  BY <1>0, <1>1, <1>2, <1>3, DownLoses, DownSame
<1>5. RemoteInv'
  BY <1>0, <1>1, RemoteSame
<1> QED
  BY <1>4, <1>5

\* As long as the server process lives, every message to it comes in the order in
\* which the client sent it, and what the requester gets is a prefix of what the
\* application answered.
THEOREM DownInOrder == Spec => []DownInv
<1>1. Init => DownInv
  <2> SUFFICES ASSUME Init
               PROVE  DownInv
    OBVIOUS
  <2>1. DownRoadInv
    <3>1. \A s \in Session : DownRoad(s) = << >> /\ s \notin cClients
      BY DEF Init, DownRoad, Road, CH!HubInit, End
    <3> QED
      BY <3>1 DEF DownRoadInv, RoadOK
  <2>2. RemoteInv
    <3>1. \A r \in Req : got[r] = << >> /\ sBody[r] = << >> /\ down[r] = 0 /\ sCause[r] = "open"
      BY DEF Init, SB!BridgeInit
    <3>2. \A r \in Req : Received(r, << >>, << >>) /\ Len(<< >>) + Len(<< >>) <= 0
      BY DEF Received
    <3> QED
      BY <3>1, <3>2 DEF RemoteInv
  <2> QED
    BY <2>1, <2>2 DEF DownInv
<1>2. ASSUME Known, UpInv, DownInv, [Next]_vars
      PROVE  DownInv'
  <2>1. CASE restarts' # 0
    BY <2>1 DEF DownInv, DownRoadInv, RemoteInv
  <2>2. CASE restarts' = 0
    <3>0. restarts = 0 /\ ~ServerRestart /\ CreatedInv
      BY <1>2, <2>2, RestartsCount DEF Known, UpInv
    <3>1. ASSUME NEW s \in Session, SessionNext(s)
          PROVE  DownInv'
      BY <1>2, <3>0, <3>1, DownSession, DownCreate, DownReceive
      DEF SessionNext, ClientReadPump, ServerReadPump
    <3>2. ASSUME NEW r \in Req, RequestNext(r)
          PROVE  DownInv'
      BY <1>2, <3>0, <3>2, DownBegin, DownOther, DownPump, DownSends
      DEF RequestNext, Transfer, Sender, LocalWriter, LocalCopier
    <3>3. CASE ClientCrash
      BY <1>2, <3>0, <3>3, DownCrash
    <3>4. CASE UNCHANGED vars
      <4>1. /\ UNCHANGED <<DownSeen, DownLive, agent, sID, down, lcp, got, sBody, sCause, cClients, cSend>>
            /\ \A r \in Req : Created(r)' <=> Created(r)
            /\ \A t \in Session : Loses(t)
        BY <3>4 DEF vars, hubC, brS, net, xfer, local, DownSeen, DownLive, Created, Loses
      <4>2. TypeOK /\ DownRoadInv /\ RemoteInv
        BY <1>2 DEF Known, DownInv
      <4>3. DownRoadInv' /\ RemoteInv'
        BY <3>0, <4>1, <4>2, DownLoses, DownSame, RemoteSame
      <4> QED
        BY <4>3 DEF DownInv
    <3> QED
      BY <1>2, <3>0, <3>1, <3>2, <3>3, <3>4 DEF Next
  <2> QED
    BY <2>1, <2>2
<1>3. Spec => []Known
  BY TypeCorrect, ChannelSafety, BridgesHaveOwners, SessionsAreFresh, IdsAreUnique, PTL DEF Known
<1> QED
  BY <1>1, <1>2, <1>3, UpInOrder, PTL DEF Spec

----------------------------------------------------------------------------
(* What follows for the two ends of a request.                             *)

\* Chunks that were received in order are the first ones of their stream.
LEMMA ReceivedChunks ==
    ASSUME NEW r \in Req, NEW out \in Seq(Chunk), NEW body, Received(r, out, body)
    PROVE  out = Chunks(r, Len(out))
<1>1. out = [i \in 1 .. Len(out) |-> out[i]]
  OBVIOUS
<1> QED
  BY <1>1 DEF Received, Chunks

\* As long as the server process lives, the application receives a prefix of the
\* chunks of the request it was dialled for and the requester one of its own
\* answer: through channels that overflow, sessions and clients that are lost,
\* and messages of other requests, nothing is swapped, repeated or left out.
THEOREM ChunksInOrder == Spec => [](restarts = 0 => OwnChunksInOrder)
<1>1. TypeOK /\ UpInv /\ DownInv => (restarts = 0 => OwnChunksInOrder)
  <2> SUFFICES ASSUME TypeOK, LocalInv, RemoteInv, restarts = 0, NEW r \in Req
               PROVE  /\ Len(lgot[r]) <= up[r] /\ lgot[r] = Chunks(r, Len(lgot[r]))
                      /\ Len(got[r]) <= down[r] /\ got[r] = Chunks(r, Len(got[r]))
    BY DEF OwnChunksInOrder, UpInv, DownInv
  <2>1. PICK out, body, out2, body2 \in Seq(Chunk), u, d \in Nat :
            /\ out = lgot[r] /\ body = lBody[r] /\ out2 = got[r] /\ body2 = sBody[r]
            /\ u = up[r] /\ d = down[r]
    BY NatAssumption DEF TypeOK, LocalTypeOK, XferTypeOK, SB!BridgeTypeOK, LB!BridgeTypeOK
  <2>2. /\ Received(r, out, body) /\ Len(out) + Len(body) <= u
        /\ Received(r, out2, body2) /\ Len(out2) + Len(body2) <= d
    BY <2>1 DEF LocalInv, RemoteInv
  <2>3. Len(out) <= u /\ Len(out2) <= d
    BY <2>2
  <2> QED
    BY <2>1, <2>2, <2>3, ReceivedChunks
<1> QED
  BY <1>1, TypeCorrect, UpInOrder, DownInOrder, PTL

\* As long as the server process lives, the CLOSE message that ends a bridge is
\* the one that its own peer sent, and all that the peer sent before has arrived.
THEOREM CloseComesLast == Spec => [](restarts = 0 => CloseAfterData)
<1>1. TypeOK /\ UpInv /\ DownInv => (restarts = 0 => CloseAfterData)
  <2> SUFFICES ASSUME TypeOK, LocalInv, RemoteInv, restarts = 0, NEW r \in Req
               PROVE  /\ lCause[r] = "close" =>
                              snd[r] = "done" /\ Len(lgot[r] \o lBody[r]) = up[r]
                      /\ sCause[r] = "close" =>
                              lcp[r] \in {"unreg", "done"} /\ Len(got[r] \o sBody[r]) = down[r]
    BY DEF CloseAfterData, UpInv, DownInv
  <2>1. PICK out, body, out2, body2 \in Seq(Chunk) :
            /\ out = lgot[r] /\ body = lBody[r] /\ out2 = got[r] /\ body2 = sBody[r]
    BY DEF TypeOK, LocalTypeOK, XferTypeOK, SB!BridgeTypeOK, LB!BridgeTypeOK
  <2>2. /\ Len(out \o body) = Len(out) + Len(body)
        /\ Len(out2 \o body2) = Len(out2) + Len(body2)
    OBVIOUS
  <2> QED
    BY <2>1, <2>2 DEF LocalInv, RemoteInv
<1> QED
  BY <1>1, TypeCorrect, UpInOrder, DownInOrder, PTL
=============================================================================
