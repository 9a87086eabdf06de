--------------------------- MODULE TunnelProofs ---------------------------
(***************************************************************************)
(* One connection of a client is served by a stack of transfers, of which   *)
(* at most one holds the client's data at a time, and what it takes of them *)
(* it forwards in order, to one server, with the body counted to its end;    *)
(* whatever the number and the length of the requests, the failures, and    *)
(* the order in which the goroutines run.                                   *)
(***************************************************************************)
EXTENDS Tunnel, FiniteSetTheorems, SequenceTheorems, TLAPS

----------------------------------------------------------------------------
(* The client's stream, of any requests.                                   *)

\* q is the part after p.
Succ(p, q) ==
    \/ q.req = p.req /\ q.part = p.part + 1
    \/ q.req = p.req + 1 /\ q.part = 0

\* p was sent before q.
Lt(p, q) == p.req < q.req \/ (p.req = q.req /\ p.part < q.part)

\* q is n places after p, when requests of the kinds kd have the lengths ln: either
\* both belong to one request, or that of p has ended before.
Apart(kd, ln, p, q, n) ==
    \/ q.req = p.req /\ q.part = p.part + n
    \/ q.req > p.req /\ kd[p.req] = "plain" /\ n > ln[p.req] - p.part

\* s is a piece of a client's stream.
Stream(kd, ln, s) ==
    \A i, j \in 1 .. Len(s) : i < j =>
        /\ Apart(kd, ln, s[i], s[j], j - i)
        /\ j = i + 1 => Succ(s[i], s[j])

\* A client that has sent p may send q.
Goes(kd, ln, p, q) ==
    \/ q.req = p.req /\ q.part = p.part + 1
    \/ /\ q.req = p.req + 1 /\ q.part = 0
       /\ kd[p.req] = "plain" /\ p.part = ln[p.req]

\* t is what s has from the place after off on, or the beginning of that.
Piece(t, s, off) ==
    /\ t \in Seq(Part) /\ off \in Nat /\ Len(t) + off <= Len(s)
    /\ \A i \in 1 .. Len(t) : t[i] = s[off + i]

\* What the fields of a part are.
LEMMA PartTyped ==
    ASSUME NEW p \in Part
    PROVE  p.req \in Reqs /\ p.part \in 0 .. MaxBody /\ p.req \in Nat /\ p.part \in Nat
  BY TunnelAssumption DEF Part, Reqs

\* The lengths and kinds of requests, as functions.
Plan(kd, ln) ==
    /\ kd \in [Reqs -> {"plain", "long", "upgrade"}]
    /\ ln \in [Reqs -> 0 .. MaxBody]

\* A piece of a stream is a stream.
LEMMA StreamPiece ==
    ASSUME NEW kd, NEW ln, NEW s \in Seq(Part), Stream(kd, ln, s),
           NEW t, NEW off, Piece(t, s, off)
    PROVE  Stream(kd, ln, t)
  <1> SUFFICES ASSUME NEW i \in 1 .. Len(t), NEW j \in 1 .. Len(t), i < j
               PROVE  /\ Apart(kd, ln, t[i], t[j], j - i)
                      /\ j = i + 1 => Succ(t[i], t[j])
    BY DEF Stream
  <1>1. off + i \in 1 .. Len(s) /\ off + j \in 1 .. Len(s) /\ off + i < off + j
    BY DEF Piece
  <1>2. t[i] = s[off + i] /\ t[j] = s[off + j]
    BY DEF Piece
  <1>3. (off + j) - (off + i) = j - i /\ (j = i + 1 => off + j = off + i + 1)
    BY DEF Piece
  <1> QED
    BY <1>1, <1>2, <1>3 DEF Stream

\* A later part of a stream was sent later.
LEMMA StreamLt ==
    ASSUME NEW kd, NEW ln, Plan(kd, ln), NEW s \in Seq(Part), Stream(kd, ln, s),
           NEW i \in 1 .. Len(s), NEW j \in 1 .. Len(s), i < j
    PROVE  Lt(s[i], s[j])
  <1>1. s[i] \in Part /\ s[j] \in Part /\ Apart(kd, ln, s[i], s[j], j - i)
    BY DEF Stream
  <1> QED
    BY <1>1, PartTyped DEF Apart, Lt

\* What the client may send after a part is one place further from an earlier part.
LEMMA ApartGoes ==
    ASSUME NEW kd, NEW ln, Plan(kd, ln), NEW a \in Part, NEW b \in Part, NEW p \in Part,
           NEW n \in Nat, Apart(kd, ln, a, b, n), Goes(kd, ln, b, p)
    PROVE  Apart(kd, ln, a, p, n + 1)
  <1>1. /\ a.req \in Nat /\ a.part \in Nat /\ b.req \in Nat /\ b.part \in Nat
        /\ p.req \in Nat /\ p.part \in Nat /\ ln[a.req] \in Nat
    BY PartTyped DEF Plan
  <1>2. CASE b.req = a.req /\ b.part = a.part + n
    <2>1. CASE p.req = b.req /\ p.part = b.part + 1
      BY <1>1, <1>2, <2>1 DEF Apart
    <2>2. CASE p.req = b.req + 1 /\ kd[b.req] = "plain" /\ b.part = ln[b.req]
      <3>1. kd[a.req] = "plain" /\ b.part = ln[a.req]
        BY <1>2, <2>2
      <3>2. p.req > a.req /\ n + 1 > ln[a.req] - a.part
        BY <1>1, <1>2, <2>2, <3>1
      <3> QED
        BY <3>1, <3>2 DEF Apart
    <2> QED
      BY <2>1, <2>2 DEF Goes
  <1>3. CASE b.req > a.req /\ kd[a.req] = "plain" /\ n > ln[a.req] - a.part
    <2>1. p.req = b.req \/ p.req = b.req + 1
      BY DEF Goes
    <2>2. p.req > a.req /\ n + 1 > ln[a.req] - a.part
      BY <1>1, <1>3, <2>1
    <2> QED
      BY <1>3, <2>2 DEF Apart
  <1> QED
    BY <1>2, <1>3 DEF Apart

\* A stream goes on with what the client may send next.
LEMMA StreamAppend ==
    ASSUME NEW kd, NEW ln, Plan(kd, ln), NEW s \in Seq(Part), Stream(kd, ln, s), NEW p \in Part,
           s # << >> => Goes(kd, ln, s[Len(s)], p)
    PROVE  Stream(kd, ln, Append(s, p))
  <1> DEFINE t == Append(s, p)
             L == Len(s)
  <1>1. /\ t \in Seq(Part) /\ Len(t) = L + 1 /\ t[L + 1] = p /\ L \in Nat
        /\ \A i \in 1 .. L : t[i] = s[i]
    OBVIOUS
  <1> SUFFICES ASSUME NEW i \in 1 .. L + 1, NEW j \in 1 .. L + 1, i < j
               PROVE  /\ Apart(kd, ln, t[i], t[j], j - i)
                      /\ j = i + 1 => Succ(t[i], t[j])
    BY <1>1 DEF Stream
  <1>2. CASE j \in 1 .. L
    BY <1>1, <1>2 DEF Stream
  <1>3. CASE j = L + 1
    <2>1. i \in 1 .. L /\ L \in 1 .. L /\ s # << >> /\ s[i] \in Part /\ s[L] \in Part
      BY <1>3, <1>1
    <2>2. Goes(kd, ln, s[L], p) /\ t[i] = s[i] /\ t[j] = p
      BY <2>1, <1>1, <1>3
    <2>3. /\ s[i].req \in Nat /\ s[i].part \in Nat /\ s[L].req \in Nat /\ s[L].part \in Nat
          /\ p.req \in Nat /\ p.part \in Nat /\ ln[s[i].req] \in Nat
      BY <2>1, PartTyped DEF Plan
    <2>4. i = L \/ (i < L /\ Apart(kd, ln, s[i], s[L], L - i))
      BY <2>1 DEF Stream
    <2>5. Apart(kd, ln, s[i], p, L + 1 - i)
      <3>1. CASE i = L
        BY <3>1, <2>2, <2>3 DEF Apart, Goes
      <3>2. CASE i < L /\ Apart(kd, ln, s[i], s[L], L - i)
        <4> DEFINE n == L - i
        <4>1. n \in Nat /\ L + 1 - i = n + 1
          BY <3>2, <1>1
        <4>2. Apart(kd, ln, s[i], p, n + 1)
          BY <4>1, <3>2, <2>1, <2>2, ApartGoes
        <4> QED
          BY <4>1, <4>2
      <3> QED
        BY <3>1, <3>2, <2>4
    <2>6. j = i + 1 => Succ(s[i], p)
      BY <1>3, <2>1, <2>2, <2>3 DEF Succ, Goes
    <2> QED
      BY <2>2, <2>5, <2>6, <1>3
  <1> QED
    BY <1>1, <1>2, <1>3

\* A stream stays one when only requests that it has no part of change.
LEMMA StreamKeeps ==
    ASSUME NEW kd, NEW ln, NEW kd2, NEW ln2, NEW s \in Seq(Part), Stream(kd, ln, s),
           \A i \in 1 .. Len(s) : kd2[s[i].req] = kd[s[i].req] /\ ln2[s[i].req] = ln[s[i].req]
    PROVE  Stream(kd2, ln2, s)
  BY DEF Stream, Apart

\* What a piece that is cut off is, and what it leaves.
LEMMA Cut ==
    ASSUME NEW s \in Seq(Part), NEW n \in 0 .. Len(s)
    PROVE  /\ SubSeq(s, 1, n) \in Seq(Part) /\ Len(SubSeq(s, 1, n)) = n
           /\ \A i \in 1 .. n : SubSeq(s, 1, n)[i] = s[i]
           /\ Rest(s, n) \in Seq(Part) /\ Len(Rest(s, n)) = Len(s) - n
           /\ \A i \in 1 .. Len(s) - n : Rest(s, n)[i] = s[n + i]
           /\ SubSeq(s, 1, n) \o Rest(s, n) = s
  <1> DEFINE t == SubSeq(s, 1, n)
             u == Rest(s, n)
  <1>1. \A i \in 1 .. Len(s) : s[i] \in Part
    OBVIOUS
  <1>2. t \in Seq(Part) /\ Len(t) = n /\ \A i \in 1 .. n : t[i] = s[i]
    <2>1. \A i \in 1 .. n : s[i] \in Part
      BY <1>1
    <2>2. /\ t \in Seq(Part) /\ Len(t) = (IF 1 <= n THEN n - 1 + 1 ELSE 0)
          /\ \A i \in 1 .. n - 1 + 1 : t[i] = s[1 + i - 1]
      BY <2>1, SubSeqProperties
    <2> QED
      BY <2>2
  <1>3. u \in Seq(Part) /\ Len(u) = Len(s) - n /\ \A i \in 1 .. Len(s) - n : u[i] = s[n + i]
    <2>1. Len(s) \in Nat /\ n \in Nat /\ n <= Len(s)
      OBVIOUS
    <2>2. \A i \in n + 1 .. Len(s) : s[i] \in Part
      BY <1>1
    <2>3. /\ u \in Seq(Part) /\ Len(u) = (IF n + 1 <= Len(s) THEN Len(s) - (n + 1) + 1 ELSE 0)
          /\ \A i \in 1 .. Len(s) - (n + 1) + 1 : u[i] = s[n + 1 + i - 1]
      BY <2>1, <2>2, SubSeqProperties DEF Rest
    <2>4. Len(u) = Len(s) - n
      BY <2>1, <2>3
    <2>5. \A i \in 1 .. Len(s) - n : n + 1 + i - 1 = n + i
      BY <2>1
    <2>6. Len(s) - (n + 1) + 1 = Len(s) - n
      BY <2>1
    <2> HIDE DEF u
    <2> QED
      BY <2>3, <2>4, <2>5, <2>6
  <1>4. t \o u = s
    <2> HIDE DEF t, u
    <2>1. Len(s) \in Nat /\ n \in Nat /\ n <= Len(s) /\ n + (Len(s) - n) = Len(s)
      OBVIOUS
    <2>2. /\ t \o u \in Seq(Part) /\ Len(t \o u) = Len(s)
          /\ \A i \in 1 .. Len(s) : (t \o u)[i] = IF i <= n THEN t[i] ELSE u[i - n]
      <3>1. /\ t \o u \in Seq(Part) /\ Len(t \o u) = Len(t) + Len(u)
            /\ \A i \in 1 .. Len(t) + Len(u) :
                    (t \o u)[i] = IF i <= Len(t) THEN t[i] ELSE u[i - Len(t)]
        BY <1>2, <1>3, ConcatProperties
      <3>2. Len(t) + Len(u) = Len(s) /\ Len(t) = n
        BY <1>2, <1>3, <2>1
      <3> QED
        BY <3>1, <3>2
    <2>3. \A i \in 1 .. Len(s) : (t \o u)[i] = s[i]
      BY <2>1, <2>2, <1>2, <1>3
    <2> QED
      BY <2>2, <2>3, SeqEqual
  <1> QED
    BY <1>2, <1>3, <1>4

\* s is what remains of a stream whose last part is last.
RunsTo(kd, ln, last, s) == Stream(kd, ln, s) /\ (s # << >> => s[Len(s)] = last)

\* All of s was sent before all of t.
Before(s, t) == \A a \in 1 .. Len(s), b \in 1 .. Len(t) : Lt(s[a], t[b])

\* Nothing in a stream was sent after its last part.
LEMMA RunsBound ==
    ASSUME NEW kd, NEW ln, Plan(kd, ln), NEW last, NEW s \in Seq(Part), RunsTo(kd, ln, last, s),
           NEW i \in 1 .. Len(s)
    PROVE  s[i] = last \/ Lt(s[i], last)
  <1>1. s # << >> /\ Len(s) \in 1 .. Len(s) /\ s[Len(s)] = last
    BY DEF RunsTo
  <1>2. i = Len(s) \/ i < Len(s)
    OBVIOUS
  <1> QED
    BY <1>1, <1>2, StreamLt DEF RunsTo

\* The client sends one part more.
LEMMA RunsAppend ==
    ASSUME NEW kd, NEW ln, Plan(kd, ln), NEW last, NEW s \in Seq(Part), RunsTo(kd, ln, last, s),
           NEW p \in Part, s # << >> => Goes(kd, ln, last, p)
    PROVE  RunsTo(kd, ln, p, Append(s, p))
  <1>1. Stream(kd, ln, Append(s, p))
    BY StreamAppend DEF RunsTo
  <1>2. Append(s, p)[Len(Append(s, p))] = p
    OBVIOUS
  <1> QED
    BY <1>1, <1>2 DEF RunsTo

\* The beginning of a stream is taken.
LEMMA RunsRest ==
    ASSUME NEW kd, NEW ln, NEW last, NEW s \in Seq(Part), RunsTo(kd, ln, last, s),
           NEW n \in 0 .. Len(s)
    PROVE  /\ RunsTo(kd, ln, last, Rest(s, n))
           /\ Stream(kd, ln, SubSeq(s, 1, n))
  <1>1. Piece(Rest(s, n), s, n) /\ Piece(SubSeq(s, 1, n), s, 0)
    BY Cut DEF Piece
  <1>2. Stream(kd, ln, Rest(s, n)) /\ Stream(kd, ln, SubSeq(s, 1, n))
    BY <1>1, StreamPiece DEF RunsTo
  <1>3. ASSUME Rest(s, n) # << >>
        PROVE  Rest(s, n)[Len(Rest(s, n))] = last
    <2> DEFINE u == Rest(s, n)
    <2>1. u \in Seq(Part) /\ Len(u) = Len(s) - n /\ \A i \in 1 .. Len(s) - n : u[i] = s[n + i]
      BY Cut
    <2>2. Len(s) \in Nat /\ n \in Nat
      OBVIOUS
    <2>3. Len(u) \in 1 .. Len(s) - n /\ n + Len(u) = Len(s) /\ s # << >>
      <3> HIDE DEF u
      <3>1. Len(u) # 0
        BY <2>1, <1>3 DEF u
      <3> QED
        BY <2>1, <2>2, <3>1
    <2> HIDE DEF u
    <2>4. u[Len(u)] = s[Len(s)]
      BY <2>1, <2>3
    <2> QED
      BY <2>3, <2>4 DEF RunsTo, u
  <1> QED
    BY <1>2, <1>3 DEF RunsTo

\* The client decides on requests that it has not begun.
LEMMA RunsKeeps ==
    ASSUME NEW kd, NEW ln, Plan(kd, ln), NEW kd2, NEW ln2, NEW last \in [req : Nat, part : Nat],
           NEW s \in Seq(Part), RunsTo(kd, ln, last, s),
           \A i \in Reqs : i <= last.req => kd2[i] = kd[i] /\ ln2[i] = ln[i]
    PROVE  RunsTo(kd2, ln2, last, s)
  <1>1. ASSUME NEW i \in 1 .. Len(s)
        PROVE  kd2[s[i].req] = kd[s[i].req] /\ ln2[s[i].req] = ln[s[i].req]
    <2>1. s[i] \in Part /\ (s[i] = last \/ Lt(s[i], last))
      BY RunsBound
    <2>2. s[i].req \in Reqs /\ s[i].req <= last.req
      BY <2>1, PartTyped DEF Lt
    <2> QED
      BY <2>2
  <1>2. Stream(kd2, ln2, s)
    BY <1>1, StreamKeeps DEF RunsTo
  <1> QED
    BY <1>2 DEF RunsTo

\* A stream in two pieces.
LEMMA RunsConcat ==
    ASSUME NEW kd, NEW ln, Plan(kd, ln), NEW last, NEW s \in Seq(Part), NEW t \in Seq(Part),
           RunsTo(kd, ln, last, s \o t)
    PROVE  /\ s \o t \in Seq(Part)
           /\ Stream(kd, ln, s)
           /\ RunsTo(kd, ln, last, t)
           /\ Before(s, t)
  <1> DEFINE u == s \o t
  <1>1. /\ u \in Seq(Part) /\ Len(u) = Len(s) + Len(t)
        /\ \A i \in 1 .. Len(s) + Len(t) : u[i] = IF i <= Len(s) THEN s[i] ELSE t[i - Len(s)]
    BY ConcatProperties
  <1>2. Len(s) \in Nat /\ Len(t) \in Nat
    OBVIOUS
  <1> HIDE DEF u
  <1>3. \A i \in 1 .. Len(s) : i \in 1 .. Len(u) /\ u[i] = s[i]
    BY <1>1, <1>2
  <1>4. ASSUME NEW i \in 1 .. Len(t)
        PROVE  Len(s) + i \in 1 .. Len(u) /\ u[Len(s) + i] = t[i]
    <2>1. /\ Len(s) + i \in 1 .. Len(s) + Len(t) /\ ~(Len(s) + i <= Len(s))
          /\ (Len(s) + i) - Len(s) = i
      BY <1>2
    <2> QED
      BY <2>1, <1>1
  <1>5. Piece(s, u, 0) /\ Piece(t, u, Len(s))
    BY <1>1, <1>2, <1>3, <1>4 DEF Piece
  <1>6. Stream(kd, ln, u) /\ (u # << >> => u[Len(u)] = last)
    BY DEF RunsTo, u
  <1>7. Stream(kd, ln, s) /\ Stream(kd, ln, t)
    BY <1>1, <1>5, <1>6, StreamPiece
  <1>8. t # << >> => t[Len(t)] = last
    <2> SUFFICES ASSUME t # << >> PROVE t[Len(t)] = last
      OBVIOUS
    <2>1. Len(t) \in 1 .. Len(t) /\ u # << >>
      BY <1>1, <1>2
    <2> QED
      BY <2>1, <1>1, <1>4, <1>6
  <1>9. Before(s, t)
    <2> SUFFICES ASSUME NEW a \in 1 .. Len(s), NEW b \in 1 .. Len(t)
                 PROVE  Lt(s[a], t[b])
      BY DEF Before
    <2>1. a < Len(s) + b
      BY <1>2
    <2> QED
      BY <2>1, <1>1, <1>3, <1>4, <1>6, StreamLt
  <1> QED
    BY <1>1, <1>7, <1>8, <1>9 DEF RunsTo, u

\* Sequences joined one after the other.
LEMMA JoinThree ==
    ASSUME NEW a \in Seq(Part), NEW b \in Seq(Part), NEW c \in Seq(Part)
    PROVE  (a \o b) \o c = a \o (b \o c)
  BY ConcatAssociative

\* Sequences joined and cut.
LEMMA JoinAppend ==
    ASSUME NEW s \in Seq(Part), NEW t \in Seq(Part), NEW p \in Part
    PROVE  s \o Append(t, p) = Append(s \o t, p)
  <1> DEFINE u == s \o Append(t, p)
             v == Append(s \o t, p)
  <1>1. /\ s \o t \in Seq(Part) /\ Len(s \o t) = Len(s) + Len(t)
        /\ \A i \in 1 .. Len(s) + Len(t) : (s \o t)[i] = IF i <= Len(s) THEN s[i] ELSE t[i - Len(s)]
    BY ConcatProperties
  <1>2. /\ Append(t, p) \in Seq(Part) /\ Len(Append(t, p)) = Len(t) + 1
        /\ \A i \in 1 .. Len(t) : Append(t, p)[i] = t[i]
        /\ Append(t, p)[Len(t) + 1] = p
    OBVIOUS
  <1>3. /\ v \in Seq(Part) /\ Len(v) = Len(s) + Len(t) + 1
        /\ \A i \in 1 .. Len(s) + Len(t) : v[i] = (s \o t)[i]
        /\ v[Len(s) + Len(t) + 1] = p
    <2> DEFINE w == s \o t
    <2>1. w \in Seq(Part) /\ Len(w) = Len(s) + Len(t)
      BY <1>1
    <2> HIDE DEF w
    <2>2. /\ Append(w, p) \in Seq(Part) /\ Len(Append(w, p)) = Len(w) + 1
          /\ \A i \in 1 .. Len(w) : Append(w, p)[i] = w[i]
          /\ Append(w, p)[Len(w) + 1] = p
      BY <2>1
    <2> QED
      BY <2>1, <2>2 DEF w
  <1>4. /\ u \in Seq(Part) /\ Len(u) = Len(s) + Len(Append(t, p))
        /\ \A i \in 1 .. Len(s) + Len(Append(t, p)) :
              u[i] = IF i <= Len(s) THEN s[i] ELSE Append(t, p)[i - Len(s)]
    BY <1>2, ConcatProperties
  <1>5. Len(s) \in Nat /\ Len(t) \in Nat
    OBVIOUS
  <1> HIDE DEF u, v
  <1>6. Len(u) = Len(v) /\ \A i \in 1 .. Len(u) : u[i] = v[i]
    <2>1. Len(u) = Len(s) + Len(t) + 1
      BY <1>2, <1>4, <1>5
    <2> SUFFICES ASSUME NEW i \in 1 .. Len(s) + Len(t) + 1 PROVE u[i] = v[i]
      BY <1>3, <2>1
    <2>2. CASE i <= Len(s)
      <3>1. i \in 1 .. Len(s) + Len(t) /\ i \in 1 .. Len(s) + Len(Append(t, p))
        BY <2>2, <1>2, <1>5
      <3> QED
        BY <2>2, <3>1, <1>1, <1>3, <1>4
    <2>3. CASE i > Len(s) /\ i <= Len(s) + Len(t)
      <3>1. i - Len(s) \in 1 .. Len(t)
        BY <2>3, <1>5
      <3>2. u[i] = t[i - Len(s)]
        BY <2>3, <3>1, <1>2, <1>4, <1>5
      <3>3. v[i] = t[i - Len(s)]
        BY <2>3, <1>1, <1>3, <1>5
      <3> QED
        BY <3>2, <3>3
    <2>4. CASE i = Len(s) + Len(t) + 1
      <3>1. i - Len(s) = Len(t) + 1 /\ ~(i <= Len(s))
        BY <2>4, <1>5
      <3> QED
        BY <2>4, <3>1, <1>2, <1>3, <1>4, <1>5
    <2> QED
      BY <2>2, <2>3, <2>4, <1>5
  <1> QED
    BY <1>3, <1>4, <1>6, SeqEqual DEF u, v

\* What is left of a joined sequence when its first piece and more are taken.
LEMMA JoinCut ==
    ASSUME NEW s \in Seq(Part), NEW t \in Seq(Part), NEW n \in 0 .. Len(s)
    PROVE  /\ n \in 0 .. Len(s \o t)
           /\ SubSeq(s \o t, 1, n) = SubSeq(s, 1, n)
           /\ Rest(s \o t, n) = Rest(s, n) \o t
  <1> DEFINE a == SubSeq(s, 1, n)
             b == Rest(s, n)
             u == s \o t
  <1>1. /\ u \in Seq(Part) /\ Len(u) = Len(s) + Len(t)
        /\ \A i \in 1 .. Len(s) + Len(t) : u[i] = IF i <= Len(s) THEN s[i] ELSE t[i - Len(s)]
    BY ConcatProperties
  <1>2. Len(s) \in Nat /\ Len(t) \in Nat /\ n \in Nat /\ n <= Len(s)
    OBVIOUS
  <1>3. /\ a \in Seq(Part) /\ Len(a) = n /\ \A i \in 1 .. n : a[i] = s[i]
        /\ b \in Seq(Part) /\ Len(b) = Len(s) - n /\ \A i \in 1 .. Len(s) - n : b[i] = s[n + i]
    BY Cut
  <1>4. /\ b \o t \in Seq(Part) /\ Len(b \o t) = Len(b) + Len(t)
        /\ \A i \in 1 .. Len(b) + Len(t) : (b \o t)[i] = IF i <= Len(b) THEN b[i] ELSE t[i - Len(b)]
    BY <1>3, ConcatProperties
  <1> HIDE DEF a, b, u
  <1>5. n \in 0 .. Len(u)
    BY <1>1, <1>2
  <1>6. /\ SubSeq(u, 1, n) \in Seq(Part) /\ Len(SubSeq(u, 1, n)) = n
        /\ \A i \in 1 .. n : SubSeq(u, 1, n)[i] = u[i]
        /\ Rest(u, n) \in Seq(Part) /\ Len(Rest(u, n)) = Len(u) - n
        /\ \A i \in 1 .. Len(u) - n : Rest(u, n)[i] = u[n + i]
    BY <1>1, <1>5, Cut
  <1>7. SubSeq(u, 1, n) = a
    <2>1. \A i \in 1 .. n : u[i] = s[i]
      BY <1>1, <1>2
    <2>2. \A i \in 1 .. n : SubSeq(u, 1, n)[i] = a[i]
      BY <2>1, <1>3, <1>6
    <2> QED
      BY <2>2, <1>3, <1>6, SeqEqual
  <1>8. Rest(u, n) = b \o t
    <2> DEFINE v == Rest(u, n)
               w == b \o t
    <2>1. Len(u) - n = Len(b) + Len(t)
      BY <1>1, <1>2, <1>3
    <2>2. ASSUME NEW i \in 1 .. Len(b) + Len(t)
          PROVE  v[i] = w[i]
      <3>1. v[i] = u[n + i] /\ n + i \in 1 .. Len(s) + Len(t)
        BY <2>1, <1>1, <1>2, <1>3, <1>6
      <3>2. CASE i <= Len(b)
        <4>1. n + i <= Len(s) /\ i \in 1 .. Len(s) - n
          BY <3>2, <1>2, <1>3
        <4> QED
          BY <3>1, <3>2, <4>1, <1>1, <1>3, <1>4
      <3>3. CASE ~(i <= Len(b))
        <4>1. i - Len(b) = (n + i) - Len(s) /\ ~(n + i <= Len(s))
          BY <3>3, <1>2, <1>3
        <4> QED
          BY <3>1, <3>3, <4>1, <1>1, <1>4
      <3> QED
        BY <3>2, <3>3
    <2> HIDE DEF v, w
    <2>3. v \in Seq(Part) /\ w \in Seq(Part) /\ Len(v) = Len(b) + Len(t) /\ Len(w) = Len(v)
      BY <2>1, <1>4, <1>6 DEF v, w
    <2> QED
      BY <2>2, <2>3, SeqEqual DEF v, w
  <1> QED
    BY <1>5, <1>7, <1>8 DEF a, b, u

----------------------------------------------------------------------------
(* The invariant.                                                          *)

\* s is what remains of what the client has sent.
Runs(s) == RunsTo(kind, len, sent, s)

\* Level k has read a further request that it may still serve.
Pending(k) == spc[k] \in {"read", "keep"} /\ data[k] # << >>

\* What level k is doing, and what its buffer holds.
LevelOK(k) ==
    /\ spc[k] = "off" =>
        rpc[k] = "off" /\ buf[k] = "nil" /\ toSrv[k] = << >> /\ srv[k] = "open"
    /\ rpc[k] = "off" => spc[k] = "off"
    /\ spc[k] \in {"nested", "ret"} => rpc[k] = "done"
    /\ curState[k] = "idle" \/ spc[k] = "keep" => rpc[k] \in {"make", "copy", "done"}
    /\ rpc[k] \in {"off", "read", "close"} => data[k] = << >>
    /\ rpc[k] \in {"idle", "make", "copy"} \/ buf[k] # "nil" => data[k] # << >>
    /\ buf[k] = "full" => rpc[k] = "done"

\* Level 0 has no transfer of its own.
FirstOK ==
    /\ rpc[0] = "done" /\ spc[0] \in {"keep", "nested", "wait", "ret"}
    /\ toSrv[0] = << >> /\ data[0] = << >> /\ buf[0] = "nil"

\* Every level above the deepest is inside a handler, or has come out of it.
Stack ==
    /\ FirstOK
    /\ \A k \in Level : LevelOK(k)
    /\ \A j, k \in Level : j < k =>
        /\ spc[j] \in {"off", "read", "keep"} => spc[k] = "off"
        /\ spc[j] \in {"wait", "ret"} => spc[k] \in {"off", "ret"}

\* What a server got, what waits in a buffer and what the client's connection holds
\* are pieces of the client's stream, and adjacent ones where nothing was lost.
LevelFlows(k) ==
    /\ Stream(kind, len, toSrv[k])
    /\ toSrv[k] # << >> => IsHttp(toSrv[k])
    /\ rpc[k] = "read" => toSrv[k] # << >> /\ (srv[k] = "open" => Runs(toSrv[k] \o inbox))
    /\ Pending(k) => IsHttp(data[k]) /\ Runs(data[k] \o inbox)

Flow ==
    /\ Runs(inbox)
    /\ \A i \in Reqs : kind[i] # "plain" => len[i] = 0
    /\ \A k \in Level : LevelFlows(k)

\* What a server got was sent before all that no server has got, and no other got it.
LevelPast(k) ==
    /\ \A a \in 1 .. Len(toSrv[k]) : toSrv[k][a] = sent \/ Lt(toSrv[k][a], sent)
    /\ Before(toSrv[k], inbox)
    /\ \A j \in Level : Pending(j) => Before(toSrv[k], data[j])

Past ==
    /\ \A k \in Level : LevelPast(k)
    /\ \A j, k \in Level : j # k =>
        \A a \in 1 .. Len(toSrv[j]), b \in 1 .. Len(toSrv[k]) : toSrv[j][a] # toSrv[k][b]

\* The part before the next one is the one that leaves u parts of the body of i.
UpTo(i, u) ==
    /\ kind[i] = "plain" /\ u <= len[i]
    /\ inbox # << >> => inbox[1] = [req |-> i, part |-> len[i] - u + 1]
    /\ inbox = << >> => sent = [req |-> i, part |-> len[i] - u]

Counted ==
    \A k \in Level : rpc[k] = "read" /\ unread[k] > 0 => UpTo(toSrv[k][1].req, unread[k])

\* While a server's connection is whole its answers are passed on or on their way, and
\* when the handler of the next request runs the server has closed.
LevelHanded(k) ==
    /\ spc[k] \in {"keep", "nested"} => srv[k] = "fin" /\ fromSrv[k] = << >>
    /\ spc[k] \in {"read", "keep", "nested"} /\ srv[k] # "reset" =>
        \A i \in answered[k] : Answered(i) \/ \E b \in DOMAIN fromSrv[k] : fromSrv[k][b] = i

Handed == \A k \in Level \ {0} : LevelHanded(k)

\* A request is answered by one server, once.
LevelOnce(k) ==
    /\ \A i \in answered[k] : Has(k, [req |-> i, part |-> 0])
    /\ \A b \in 1 .. Len(fromSrv[k]) : fromSrv[k][b] \in answered[k]
    /\ \A a, b \in 1 .. Len(fromSrv[k]) : fromSrv[k][a] = fromSrv[k][b] => a = b
    /\ \A a \in 1 .. Len(got), b \in 1 .. Len(fromSrv[k]) : got[a] # fromSrv[k][b]

Once ==
    /\ \A k \in Level : LevelOnce(k)
    /\ \A a \in 1 .. Len(got) : \E k \in Level : got[a] \in answered[k]
    /\ \A a, b \in 1 .. Len(got) : got[a] = got[b] => a = b

IInv == TypeOK /\ Stack /\ Flow /\ Past /\ Counted /\ Handed /\ Once

----------------------------------------------------------------------------
(* Who holds the client's stream.                                          *)

\* The request copier that reads, the level that has a further request, or the
\* handler of the first one.
Holds(k) == rpc[k] = "read" \/ Pending(k) \/ (k = 0 /\ spc[k] = "keep")

\* At most one level holds the client's stream.
LEMMA OneHolds ==
    ASSUME TypeOK, Stack, NEW j \in Level, NEW k \in Level, Holds(j), Holds(k)
    PROVE  j = k
  <1> SUFFICES ASSUME NEW a \in Level, NEW b \in Level, a < b, Holds(a), Holds(b)
               PROVE  FALSE
    BY TunnelAssumption DEF Level
  <1>1. /\ spc[a] \in {"off", "read", "keep"} => spc[b] = "off"
        /\ spc[a] \in {"wait", "ret"} => spc[b] \in {"off", "ret"}
        /\ LevelOK(a) /\ LevelOK(b) /\ b # 0
    BY TunnelAssumption DEF Stack, Level
  <1>2. spc[b] \notin {"off", "ret"}
    BY <1>1 DEF Holds, Pending, LevelOK
  <1>3. spc[a] \in {"off", "read", "keep", "nested", "wait", "ret"}
    BY DEF TypeOK
  <1>4. spc[a] = "nested"
    BY <1>1, <1>2, <1>3
  <1> QED
    BY <1>1, <1>4 DEF Holds, Pending, LevelOK

\* A goroutine's step that leaves the client's data where they are.
LEMMA Calm ==
    ASSUME Flow, Past, Counted,
           UNCHANGED <<kind, len, sent, inbox, toSrv, data, unread>>,
           \A k \in Level :
              /\ rpc'[k] = "read" => rpc[k] = "read"
              /\ spc'[k] \in {"read", "keep"} => spc[k] \in {"read", "keep"}
              /\ srv'[k] = "open" => srv[k] = "open"
    PROVE  Flow' /\ Past' /\ Counted'
  <1>1. \A k \in Level : Pending(k)' => Pending(k)
    BY DEF Pending
  <1>2. Flow'
    <2>1. \A k \in Level : LevelFlows(k)'
      BY <1>1 DEF Flow, LevelFlows, Runs, IsHttp
    <2> QED
      BY <2>1 DEF Flow, Runs
  <1>3. Past'
    <2>1. \A k \in Level : LevelPast(k)'
      BY <1>1 DEF Past, LevelPast
    <2> QED
      BY <2>1 DEF Past
  <1>4. Counted'
    BY DEF Counted, UpTo
  <1> QED
    BY <1>2, <1>3, <1>4

\* What the type invariant says of the client's data.
LEMMA Typed ==
    ASSUME TypeOK
    PROVE  /\ Plan(kind, len) /\ inbox \in Seq(Part)
           /\ sent \in [req : Nat, part : Nat] /\ (sent.req > 0 => sent \in Part)
           /\ \A k \in Level : toSrv[k] \in Seq(Part) /\ data[k] \in Seq(Part) /\ unread[k] \in Int
  <1>1. sent \in [req : Nat, part : Nat] /\ (sent.req > 0 => sent \in Part)
    <2>1. CASE sent \in Part
      BY <2>1, TunnelAssumption DEF Part, Reqs
    <2>2. CASE sent = NoPart
      BY <2>2 DEF NoPart
    <2> QED
      BY <2>1, <2>2 DEF TypeOK
  <1> QED
    BY <1>1 DEF TypeOK, Plan

\* A piece that is followed by what the client's connection holds.
LEMMA RunsOn ==
    ASSUME TypeOK, NEW s \in Seq(Part), Runs(s \o inbox)
    PROVE  s \o inbox \in Seq(Part) /\ Stream(kind, len, s) /\ Runs(inbox) /\ Before(s, inbox)
  BY Typed, RunsConcat DEF Runs

\* The first handler takes data and gives them up.
LEMMA Drops ==
    ASSUME TypeOK, Flow, Past, NEW n \in 0 .. Len(inbox), inbox' = Rest(inbox, n),
           UNCHANGED <<kind, len, sent, toSrv, data>>,
           \A k \in Level : rpc'[k] # "read" /\ ~Pending(k)'
    PROVE  Flow' /\ Past' /\ Counted'
  <1>1. /\ inbox \in Seq(Part) /\ Rest(inbox, n) \in Seq(Part)
        /\ Len(Rest(inbox, n)) = Len(inbox) - n
        /\ \A i \in 1 .. Len(inbox) - n : Rest(inbox, n)[i] = inbox[n + i]
    BY Typed, Cut
  <1>2. Flow'
    <2>1. Runs(inbox)'
      BY <1>1, RunsRest DEF Flow, Runs
    <2>2. \A k \in Level : LevelFlows(k)'
      BY DEF Flow, LevelFlows, IsHttp
    <2> QED
      BY <2>1, <2>2 DEF Flow
  <1>3. Past'
    <2>1. ASSUME NEW k \in Level PROVE LevelPast(k)'
      <3>1. Before(toSrv[k], Rest(inbox, n))
        BY <1>1 DEF Past, LevelPast, Before
      <3> QED
        BY <3>1 DEF Past, LevelPast
    <2> QED
      BY <2>1 DEF Past
  <1>4. Counted'
    BY DEF Counted
  <1> QED
    BY <1>2, <1>3, <1>4

\* The client sends p.
LEMMA Arrives ==
    ASSUME TypeOK, Flow, Past, Counted, NEW p \in Part, sent' = p, inbox' = Append(inbox, p),
           UNCHANGED <<rpc, spc, srv, toSrv, data, unread>>,
           Lt(sent, p), sent.req > 0 => Goes(kind', len', sent, p),
           Plan(kind', len'),
           \A i \in Reqs : i <= sent.req => kind'[i] = kind[i] /\ len'[i] = len[i],
           \A i \in Reqs : kind'[i] # "plain" => len'[i] = 0
    PROVE  Flow' /\ Past' /\ Counted'
  <1>1. /\ Plan(kind, len) /\ inbox \in Seq(Part) /\ sent \in [req : Nat, part : Nat]
        /\ \A k \in Level : toSrv[k] \in Seq(Part) /\ data[k] \in Seq(Part) /\ unread[k] \in Int
    BY Typed
  <1>2. ASSUME NEW s \in Seq(Part), Runs(s)
        PROVE  RunsTo(kind', len', p, Append(s, p))
    <2>1. RunsTo(kind', len', sent, s)
      BY <1>1, <1>2, RunsKeeps DEF Runs
    <2>2. s # << >> => sent.req > 0
      <3> SUFFICES ASSUME s # << >> PROVE sent.req > 0
        OBVIOUS
      <3>1. s[Len(s)] \in Part /\ s[Len(s)] = sent
        BY <1>2 DEF Runs, RunsTo
      <3> QED
        BY <3>1 DEF Part, Reqs
    <2> QED
      BY <2>1, <2>2, RunsAppend
  <1>3. ASSUME NEW k \in Level, NEW a \in 1 .. Len(toSrv[k])
        PROVE  /\ toSrv[k][a] \in Part /\ toSrv[k][a].req <= sent.req /\ Lt(toSrv[k][a], p)
               /\ sent.req > 0
    <2>1. toSrv[k][a] \in Part /\ (toSrv[k][a] = sent \/ Lt(toSrv[k][a], sent))
      BY <1>1 DEF Past, LevelPast
    <2>2. /\ toSrv[k][a].req \in Nat /\ toSrv[k][a].req > 0 /\ toSrv[k][a].part \in Nat
          /\ sent.req \in Nat /\ sent.part \in Nat /\ p.req \in Nat /\ p.part \in Nat
      BY <2>1, <1>1, PartTyped DEF Reqs
    <2>3. CASE toSrv[k][a] = sent
      BY <2>1, <2>2, <2>3
    <2>4. CASE Lt(toSrv[k][a], sent)
      <3>1. toSrv[k][a].req <= sent.req
        BY <2>2, <2>4 DEF Lt
      <3>2. sent.req < p.req \/ (sent.req = p.req /\ sent.part < p.part)
        BY DEF Lt
      <3>3. \/ toSrv[k][a].req < sent.req
            \/ toSrv[k][a].req = sent.req /\ toSrv[k][a].part < sent.part
        BY <2>4 DEF Lt
      <3>4. \/ toSrv[k][a].req < p.req
            \/ toSrv[k][a].req = p.req /\ toSrv[k][a].part < p.part
        BY <2>2, <3>2, <3>3
      <3> QED
        BY <2>1, <2>2, <3>1, <3>4 DEF Lt
    <2> QED
      BY <2>1, <2>3, <2>4
  <1>4. Flow'
    <2>1. Runs(inbox)'
      BY <1>1, <1>2 DEF Flow, Runs
    <2>2. ASSUME NEW k \in Level PROVE LevelFlows(k)'
      <3>1. ASSUME NEW s \in Seq(Part), Runs(s \o inbox)
            PROVE  RunsTo(kind', len', p, s \o inbox')
        <4>1. s \o inbox' = Append(s \o inbox, p) /\ s \o inbox \in Seq(Part)
          BY <1>1, JoinAppend
        <4> QED
          BY <4>1, <3>1, <1>2
      <3>2. Stream(kind', len', toSrv[k])
        <4>1. ASSUME NEW i \in 1 .. Len(toSrv[k])
              PROVE  /\ kind'[toSrv[k][i].req] = kind[toSrv[k][i].req]
                     /\ len'[toSrv[k][i].req] = len[toSrv[k][i].req]
          BY <1>3, PartTyped
        <4> QED
          BY <4>1, <1>1, StreamKeeps DEF Flow, LevelFlows
      <3>3. rpc[k] = "read" /\ srv[k] = "open" => RunsTo(kind', len', p, toSrv[k] \o inbox')
        BY <3>1, <1>1 DEF Flow, LevelFlows
      <3>4. Pending(k) => RunsTo(kind', len', p, data[k] \o inbox')
        BY <3>1, <1>1 DEF Flow, LevelFlows
      <3>5. Pending(k)' <=> Pending(k)
        BY DEF Pending
      <3> QED
        BY <3>2, <3>3, <3>4, <3>5 DEF Flow, LevelFlows, Runs, IsHttp
    <2> QED
      BY <2>1, <2>2 DEF Flow
  <1>5. Past'
    <2>1. ASSUME NEW k \in Level PROVE LevelPast(k)'
      <3>1. \A a \in 1 .. Len(toSrv[k]) : Lt(toSrv[k][a], p)
        BY <1>3
      <3>2. Before(toSrv[k], Append(inbox, p))
        <4>1. ASSUME NEW a \in 1 .. Len(toSrv[k]), NEW b \in 1 .. Len(Append(inbox, p))
              PROVE  Lt(toSrv[k][a], Append(inbox, p)[b])
          <5>1. (b \in 1 .. Len(inbox) /\ Append(inbox, p)[b] = inbox[b]) \/ Append(inbox, p)[b] = p
            BY <1>1
          <5> QED
            BY <5>1, <3>1 DEF Past, LevelPast, Before
        <4> QED
          BY <4>1 DEF Before
      <3>3. \A j \in Level : Pending(j)' <=> Pending(j)
        BY DEF Pending
      <3> QED
        BY <3>1, <3>2, <3>3 DEF Past, LevelPast
    <2> QED
      BY <2>1 DEF Past
  <1>6. Counted'
    <2> SUFFICES ASSUME NEW k \in Level, rpc[k] = "read", unread[k] > 0
                 PROVE  UpTo(toSrv[k][1].req, unread[k])'
      BY DEF Counted
    <2> DEFINE i == toSrv[k][1].req
               u == unread[k]
    <2>1. 1 \in 1 .. Len(toSrv[k])
      BY <1>1 DEF Flow, LevelFlows
    <2>2. i \in Reqs /\ kind'[i] = kind[i] /\ len'[i] = len[i] /\ sent.req > 0
      BY <2>1, <1>3, PartTyped
    <2>3. UpTo(i, u) /\ u \in Int /\ u > 0 /\ len[i] \in Nat
      BY <2>2, <1>1 DEF Counted, Plan
    <2>4. inbox' # << >>
      BY <1>1
    <2>5. inbox'[1] = [req |-> i, part |-> len[i] - u + 1]
      <3>1. CASE inbox # << >>
        BY <3>1, <2>3, <1>1 DEF UpTo
      <3>2. CASE inbox = << >>
        <4>1. sent = [req |-> i, part |-> len[i] - u] /\ inbox'[1] = p
          BY <3>2, <2>3, <1>1 DEF UpTo
        <4>2. p.req = i /\ p.part = len[i] - u + 1
          BY <4>1, <2>2, <2>3 DEF Goes
        <4>3. p = [req |-> p.req, part |-> p.part]
          BY DEF Part
        <4> QED
          BY <4>1, <4>2, <4>3
      <3> QED
        BY <3>1, <3>2
    <2> HIDE DEF i, u
    <2>6. kind'[i] = "plain" /\ u <= len'[i]
      BY <2>2, <2>3 DEF UpTo
    <2>7. inbox'[1] = [req |-> i, part |-> len'[i] - u + 1]
      BY <2>2, <2>5
    <2> QED
      BY <2>4, <2>6, <2>7 DEF UpTo, i, u
  <1> QED
    BY <1>4, <1>5, <1>6

\* A handler serves the request that S, the data it goes on with, begins with: m parts
\* of it go to the server of the next level, the others stay.
LEMMA Serves ==
    ASSUME TypeOK, Stack, Flow, Past, NEW k \in Level, k + 1 \in Level, spc[k] = "keep",
           Holds(k),
           NEW S \in Seq(Part), Runs(S), S # << >>, S[1].part = 0,
           \A j \in Level : Before(toSrv[j], S),
           NEW m \in 1 .. Len(S),
           toSrv' = [toSrv EXCEPT ![k + 1] = SubSeq(S, 1, m)],
           inbox' = Rest(S, m),
           spc' = [spc EXCEPT ![k] = "nested", ![k + 1] = "read"],
           rpc' = [rpc EXCEPT ![k + 1] = "read"],
           NEW u \in Int, unread' = [unread EXCEPT ![k + 1] = u],
           u > 0 => kind[S[1].req] = "plain" /\ u = len[S[1].req] - (m - 1),
           UNCHANGED <<kind, len, sent, data, srv>>
    PROVE  Flow' /\ Past' /\ Counted'
  <1> DEFINE t == SubSeq(S, 1, m)
             r == Rest(S, m)
  <1>1. /\ Plan(kind, len) /\ sent \in [req : Nat, part : Nat] /\ k \in Int
        /\ \A j \in Level : toSrv[j] \in Seq(Part) /\ data[j] \in Seq(Part)
    BY Typed, TunnelAssumption DEF Level
  <1>2. /\ t \in Seq(Part) /\ Len(t) = m /\ \A i \in 1 .. m : t[i] = S[i]
        /\ r \in Seq(Part) /\ Len(r) = Len(S) - m /\ \A i \in 1 .. Len(S) - m : r[i] = S[m + i]
        /\ t \o r = S /\ Len(S) \in Nat /\ m \in Nat
    <2>1. m \in 0 .. Len(S) /\ Len(S) \in Nat /\ m \in Nat
      OBVIOUS
    <2> QED
      BY <2>1, Cut
  <1>3. Runs(r) /\ Stream(kind, len, t)
    BY RunsRest DEF Runs
  <1> HIDE DEF t, r
  <1>4. /\ toSrv'[k + 1] = t /\ inbox' = r
        /\ \A j \in Level : j # k + 1 => toSrv'[j] = toSrv[j]
    BY DEF TypeOK, t, r
  <1>5. \A j \in Level : /\ rpc'[j] = "read" => j = k + 1
                         /\ ~Pending(j)'
    <2> SUFFICES ASSUME NEW j \in Level
                 PROVE  (rpc'[j] = "read" => j = k + 1) /\ ~Pending(j)'
      OBVIOUS
    <2>1. rpc[j] = "read" \/ Pending(j) => j = k
      BY OneHolds DEF Holds
    <2>2. rpc[k] # "read"
      BY DEF Stack, LevelOK
    <2>3. spc[k + 1] = "off"
      BY <1>1 DEF Stack
    <2>4. data[k + 1] = << >>
      BY <2>3 DEF Stack, LevelOK
    <2>5. CASE j = k + 1
      BY <2>4, <2>5 DEF Pending
    <2>6. CASE j = k
      BY <2>2, <2>6, <1>1 DEF Pending, TypeOK
    <2>7. CASE j # k /\ j # k + 1
      BY <2>1, <2>7 DEF Pending, TypeOK
    <2> QED
      BY <2>5, <2>6, <2>7
  <1>6. Flow'
    <2>1. ASSUME NEW j \in Level PROVE LevelFlows(j)'
      <3>1. CASE j = k + 1
        <4>1. t # << >> /\ t[1].part = 0
          BY <1>2
        <4>2. toSrv'[j] = t /\ toSrv'[j] \o inbox' = S /\ ~Pending(j)'
          BY <3>1, <1>2, <1>4, <1>5
        <4>3. RunsTo(kind, len, sent, S) /\ Stream(kind, len, t)
          BY <1>3 DEF Runs
        <4> QED
          BY <4>1, <4>2, <4>3 DEF LevelFlows, IsHttp, Runs
      <3>2. CASE j # k + 1
        BY <3>2, <1>4, <1>5 DEF Flow, LevelFlows, IsHttp
      <3> QED
        BY <3>1, <3>2
    <2> QED
      BY <2>1, <1>3, <1>4 DEF Flow, Runs
  <1>7. Past'
    <2>1. \A j \in Level : Before(toSrv[j], r) /\ Before(toSrv[j], t)
      <3> SUFFICES ASSUME NEW j \in Level, NEW a \in 1 .. Len(toSrv[j])
                   PROVE  /\ \A b \in 1 .. Len(r) : Lt(toSrv[j][a], r[b])
                          /\ \A b \in 1 .. Len(t) : Lt(toSrv[j][a], t[b])
        BY DEF Before
      <3>1. \A b \in 1 .. Len(S) : Lt(toSrv[j][a], S[b])
        BY DEF Before
      <3>2. \A b \in 1 .. Len(r) : m + b \in 1 .. Len(S) /\ r[b] = S[m + b]
        BY <1>2
      <3>3. \A b \in 1 .. Len(t) : b \in 1 .. Len(S) /\ t[b] = S[b]
        BY <1>2
      <3> QED
        BY <3>1, <3>2, <3>3
    <2>2. Before(t, r)
      BY <1>1, <1>2, RunsConcat DEF Runs
    <2>3. \A a \in 1 .. Len(t) : t[a] = sent \/ Lt(t[a], sent)
      <3> SUFFICES ASSUME NEW a \in 1 .. Len(t) PROVE t[a] = sent \/ Lt(t[a], sent)
        OBVIOUS
      <3>1. a \in 1 .. Len(S) /\ t[a] = S[a]
        BY <1>2
      <3> QED
        BY <3>1, <1>1, RunsBound DEF Runs
    <2>4. ASSUME NEW j \in Level PROVE LevelPast(j)'
      <3>1. CASE j = k + 1
        BY <3>1, <1>4, <1>5, <2>2, <2>3 DEF LevelPast
      <3>2. CASE j # k + 1
        BY <3>2, <1>4, <1>5, <2>1 DEF Past, LevelPast
      <3> QED
        BY <3>1, <3>2
    <2>5. \A j \in Level : \A a \in 1 .. Len(toSrv[j]), b \in 1 .. Len(t) : toSrv[j][a] # t[b]
      <3> SUFFICES ASSUME NEW j \in Level, NEW a \in 1 .. Len(toSrv[j]), NEW b \in 1 .. Len(t)
                   PROVE  toSrv[j][a] # t[b]
        OBVIOUS
      <3>1. Lt(toSrv[j][a], t[b]) /\ t[b] \in Part
        BY <1>2, <2>1 DEF Before
      <3> QED
        BY <3>1, PartTyped DEF Lt
    <2>6. ASSUME NEW i \in Level, NEW j \in Level, i # j,
                 NEW a \in 1 .. Len(toSrv'[i]), NEW b \in 1 .. Len(toSrv'[j])
          PROVE  toSrv'[i][a] # toSrv'[j][b]
      <3>1. CASE i = k + 1
        BY <2>5, <2>6, <3>1, <1>4
      <3>2. CASE j = k + 1
        BY <2>5, <2>6, <3>2, <1>4
      <3>3. CASE i # k + 1 /\ j # k + 1
        BY <2>6, <3>3, <1>4 DEF Past
      <3> QED
        BY <3>1, <3>2, <3>3
    <2> QED
      BY <2>4, <2>6 DEF Past
  <1>8. Counted'
    <2>0. unread'[k + 1] = u /\ toSrv'[k + 1][1] = S[1]
      <3>1. 1 \in 1 .. m
        BY <1>2
      <3> QED
        BY <3>1, <1>2, <1>4 DEF TypeOK
    <2> SUFFICES ASSUME u > 0
                 PROVE  UpTo(S[1].req, u)'
      BY <2>0, <1>5 DEF Counted
    <2> DEFINE i == S[1].req
    <2>1. /\ S[1] \in Part /\ S[1].part = 0 /\ i \in Reqs /\ len[i] \in Nat
          /\ kind[i] = "plain" /\ u = len[i] - (m - 1)
      BY <1>1, <1>2, PartTyped DEF Plan
    <2> HIDE DEF i
    <2>2. r # << >> => r[1] = [req |-> i, part |-> len[i] - u + 1]
      <3> SUFFICES ASSUME r # << >> PROVE r[1] = [req |-> i, part |-> m]
        BY <1>2, <2>1
      <3>1. m + 1 \in 1 .. Len(S) /\ r[1] = S[m + 1] /\ S[m + 1] \in Part
        BY <1>2
      <3>2. Apart(kind, len, S[1], S[m + 1], m)
        BY <1>2, <3>1 DEF Runs, RunsTo, Stream
      <3>3. S[m + 1].req = i /\ S[m + 1].part = m
        BY <3>2, <2>1, <1>2 DEF Apart, i
      <3> QED
        BY <3>1, <3>3 DEF Part
    <2>3. r = << >> => sent = [req |-> i, part |-> len[i] - u]
      <3> SUFFICES ASSUME r = << >> PROVE sent = [req |-> i, part |-> m - 1]
        BY <1>2, <2>1
      <3>1. m = Len(S) /\ sent = S[m] /\ S[m] \in Part
        BY <1>2 DEF Runs, RunsTo
      <3>2. S[m].req = i /\ S[m].part = m - 1
        <4>1. CASE m = 1
          BY <4>1, <2>1 DEF i
        <4>2. CASE m > 1
          <5>1. Apart(kind, len, S[1], S[m], m - 1)
            BY <4>2, <1>2 DEF Runs, RunsTo, Stream
          <5> QED
            BY <5>1, <2>1, <1>2 DEF Apart, i
        <4> QED
          BY <4>1, <4>2
      <3> QED
        BY <3>1, <3>2 DEF Part
    <2> QED
      BY <1>2, <1>4, <2>1, <2>2, <2>3 DEF UpTo, i
  <1> QED
    BY <1>6, <1>7, <1>8

\* A place in the u parts that a body of l parts still has, counted from its header.
LEMMA Places ==
    ASSUME NEW l \in Int, NEW u \in Int, NEW c \in Int, c - 1 < u
    PROVE  ~ (c - 1 > l - (l - u + 1)) /\ (l - u + 1) + (c - 1) = l - u + c
  OBVIOUS

\* The request copier goes on with the client's data: n parts, which it forwards to its
\* server or which are lost.
LEMMA Forwards ==
    ASSUME TypeOK, Stack, Flow, Past, Counted, NEW k \in Level, rpc[k] = "read",
           NEW n \in 1 .. Len(inbox), inbox' = Rest(inbox, n),
           unread' = [unread EXCEPT ![k] = Count(@, n)],
           Forward(k, SubSeq(inbox, 1, n)),
           UNCHANGED <<kind, len, sent, data, srv, spc>>
    PROVE  Flow' /\ Past' /\ Counted'
  <1> DEFINE d == SubSeq(inbox, 1, n)
             r == Rest(inbox, n)
             T == toSrv[k]
  <1>1. /\ Plan(kind, len) /\ inbox \in Seq(Part) /\ T \in Seq(Part) /\ unread[k] \in Int
        /\ \A j \in Level : toSrv[j] \in Seq(Part)
    BY Typed
  <1>2. /\ d \in Seq(Part) /\ Len(d) = n /\ \A i \in 1 .. n : d[i] = inbox[i]
        /\ r \in Seq(Part) /\ Len(r) = Len(inbox) - n
        /\ \A i \in 1 .. Len(inbox) - n : r[i] = inbox[n + i]
        /\ d \o r = inbox /\ Len(inbox) \in Nat /\ n \in Nat
    <2>1. n \in 0 .. Len(inbox) /\ Len(inbox) \in Nat /\ n \in Nat
      BY <1>1
    <2> QED
      BY <2>1, <1>1, Cut
  <1>3. Runs(inbox) /\ Runs(r)
    BY <1>1, RunsRest DEF Flow, Runs
  <1> HIDE DEF d, r
  <1>4. /\ inbox' = r
        /\ \A j \in Level : j # k => toSrv'[j] = toSrv[j]
        /\ toSrv'[k] = IF srv[k] = "open" THEN T \o d ELSE T
    BY DEF Forward, TypeOK, d, r
  <1>5. \A j \in Level : /\ rpc'[j] = "read" => j = k
                         /\ ~Pending(j)'
    <2> SUFFICES ASSUME NEW j \in Level
                 PROVE  (rpc'[j] = "read" => j = k) /\ ~Pending(j)'
      OBVIOUS
    <2>1. rpc[j] = "read" \/ Pending(j) => j = k
      BY OneHolds DEF Holds
    <2>2. ~Pending(k)
      BY DEF Stack, LevelOK, Pending
    <2>3. rpc'[j] = "read" => rpc[j] = "read"
      BY DEF Forward, TypeOK
    <2> QED
      BY <2>1, <2>2, <2>3 DEF Pending
  <1>6. T # << >> /\ IsHttp(T) /\ Stream(kind, len, T)
    BY DEF Flow, LevelFlows
  <1>7. ASSUME srv[k] = "open"
        PROVE  /\ T \o d \in Seq(Part) /\ Runs((T \o d) \o r) /\ Stream(kind, len, T \o d)
               /\ (T \o d)[1] = T[1] /\ T \o d # << >>
               /\ \A a \in 1 .. Len(T \o d) :
                    \/ a \in 1 .. Len(T) /\ (T \o d)[a] = T[a]
                    \/ \E b \in 1 .. n : (T \o d)[a] = inbox[b]
    <2>1. /\ T \o d \in Seq(Part) /\ Len(T \o d) = Len(T) + n
          /\ \A i \in 1 .. Len(T) + n : (T \o d)[i] = IF i <= Len(T) THEN T[i] ELSE d[i - Len(T)]
      <3> HIDE DEF T
      <3>1. /\ T \o d \in Seq(Part) /\ Len(T \o d) = Len(T) + Len(d)
            /\ \A i \in 1 .. Len(T) + Len(d) :
                    (T \o d)[i] = IF i <= Len(T) THEN T[i] ELSE d[i - Len(T)]
        <4>1. T \in Seq(Part) /\ d \in Seq(Part)
          BY <1>1, <1>2
        <4> QED
          BY <4>1, ConcatProperties
      <3> QED
        BY <3>1, <1>2
    <2>2. (T \o d) \o r = T \o inbox
      <3> HIDE DEF T
      <3>1. (T \o d) \o r = T \o (d \o r)
        <4>1. T \in Seq(Part) /\ d \in Seq(Part) /\ r \in Seq(Part)
          BY <1>1, <1>2
        <4> QED
          BY <4>1, JoinThree
      <3> QED
        BY <3>1, <1>2
    <2>3. Runs((T \o d) \o r)
      BY <2>2, <1>7 DEF Flow, LevelFlows
    <2>4. Stream(kind, len, T \o d)
      BY <2>1, <2>3, <1>1, <1>2, RunsConcat DEF Runs
    <2>5. Len(T) \in Nat /\ Len(T) > 0
      BY <1>1, <1>6
    <2>6. (T \o d)[1] = T[1] /\ T \o d # << >>
      BY <2>1, <2>5, <1>2
    <2>7. ASSUME NEW a \in 1 .. Len(T \o d)
          PROVE  \/ a \in 1 .. Len(T) /\ (T \o d)[a] = T[a]
                 \/ \E b \in 1 .. n : (T \o d)[a] = inbox[b]
      <3>1. CASE a <= Len(T)
        BY <3>1, <2>1, <2>5
      <3>2. CASE ~(a <= Len(T))
        <4>1. a - Len(T) \in 1 .. n /\ (T \o d)[a] = d[a - Len(T)]
          BY <3>2, <2>1, <2>5, <1>2
        <4> QED
          BY <4>1, <1>2
      <3> QED
        BY <3>1, <3>2
    <2> QED
      BY <2>1, <2>3, <2>4, <2>6, <2>7
  <1>8. /\ toSrv'[k] \in Seq(Part) /\ Stream(kind, len, toSrv'[k])
        /\ toSrv'[k][1] = T[1] /\ toSrv'[k] # << >>
        /\ srv[k] = "open" => Runs(toSrv'[k] \o r)
        /\ \A a \in 1 .. Len(toSrv'[k]) :
              \/ a \in 1 .. Len(T) /\ toSrv'[k][a] = T[a]
              \/ \E b \in 1 .. n : toSrv'[k][a] = inbox[b]
    <2> HIDE DEF T
    <2>1. CASE srv[k] = "open"
      BY <2>1, <1>4, <1>7
    <2>2. CASE srv[k] # "open"
      BY <2>2, <1>1, <1>4, <1>6
    <2> QED
      BY <2>1, <2>2
  <1>9. Flow'
    <2>1. ASSUME NEW j \in Level PROVE LevelFlows(j)'
      <3>1. CASE j = k
        BY <3>1, <1>4, <1>5, <1>6, <1>8 DEF LevelFlows, IsHttp, Runs
      <3>2. CASE j # k
        BY <3>2, <1>4, <1>5 DEF Flow, LevelFlows, IsHttp
      <3> QED
        BY <3>1, <3>2
    <2> QED
      BY <2>1, <1>3, <1>4 DEF Flow, Runs
  <1>10. Past'
    <2>1. \A j \in Level : Before(toSrv[j], r) /\ Before(toSrv[j], inbox)
      <3> SUFFICES ASSUME NEW j \in Level, NEW a \in 1 .. Len(toSrv[j]), NEW b \in 1 .. Len(r)
                   PROVE  Lt(toSrv[j][a], r[b])
        BY DEF Before, Past, LevelPast
      <3>1. n + b \in 1 .. Len(inbox) /\ r[b] = inbox[n + b]
        BY <1>2
      <3> QED
        BY <3>1 DEF Before, Past, LevelPast
    <2>2. Before(toSrv'[k], r)
      <3> SUFFICES ASSUME NEW a \in 1 .. Len(toSrv'[k]), NEW b \in 1 .. Len(r)
                   PROVE  Lt(toSrv'[k][a], r[b])
        BY DEF Before
      <3>1. CASE a \in 1 .. Len(T) /\ toSrv'[k][a] = T[a]
        BY <3>1, <2>1 DEF Before
      <3>2. ASSUME NEW c \in 1 .. n, toSrv'[k][a] = inbox[c]
            PROVE  Lt(toSrv'[k][a], r[b])
        <4>1. c \in 1 .. Len(inbox) /\ n + b \in 1 .. Len(inbox) /\ c < n + b /\ r[b] = inbox[n + b]
          BY <1>2
        <4>2. Lt(inbox[c], inbox[n + b])
          BY <4>1, <1>1, <1>3, StreamLt DEF Runs, RunsTo
        <4> QED
          BY <4>1, <4>2, <3>2
      <3> QED
        BY <3>1, <3>2, <1>8
    <2>3. \A a \in 1 .. Len(toSrv'[k]) : toSrv'[k][a] = sent \/ Lt(toSrv'[k][a], sent)
      <3> SUFFICES ASSUME NEW a \in 1 .. Len(toSrv'[k])
                   PROVE  toSrv'[k][a] = sent \/ Lt(toSrv'[k][a], sent)
        OBVIOUS
      <3>1. CASE a \in 1 .. Len(T) /\ toSrv'[k][a] = T[a]
        BY <3>1 DEF Past, LevelPast
      <3>2. ASSUME NEW c \in 1 .. n, toSrv'[k][a] = inbox[c]
            PROVE  toSrv'[k][a] = sent \/ Lt(toSrv'[k][a], sent)
        <4>1. c \in 1 .. Len(inbox)
          BY <1>2
        <4> QED
          BY <4>1, <3>2, <1>1, <1>3, RunsBound DEF Runs
      <3> QED
        BY <3>1, <3>2, <1>8
    <2>4. ASSUME NEW j \in Level PROVE LevelPast(j)'
      <3>1. CASE j = k
        BY <3>1, <1>4, <1>5, <2>2, <2>3 DEF LevelPast
      <3>2. CASE j # k
        BY <3>2, <1>4, <1>5, <2>1 DEF Past, LevelPast
      <3> QED
        BY <3>1, <3>2
    <2>5. ASSUME NEW j \in Level, j # k, NEW b \in 1 .. Len(toSrv[j]), NEW a \in 1 .. Len(toSrv'[k])
          PROVE  toSrv[j][b] # toSrv'[k][a]
      <3>1. CASE a \in 1 .. Len(T) /\ toSrv'[k][a] = T[a]
        BY <3>1, <2>5 DEF Past
      <3>2. ASSUME NEW c \in 1 .. n, toSrv'[k][a] = inbox[c]
            PROVE  toSrv[j][b] # toSrv'[k][a]
        <4>1. c \in 1 .. Len(inbox) /\ inbox[c] \in Part
          BY <1>1, <1>2
        <4>2. Lt(toSrv[j][b], inbox[c])
          BY <4>1, <2>1 DEF Before
        <4> QED
          BY <4>1, <4>2, <3>2, PartTyped DEF Lt
      <3> QED
        BY <3>1, <3>2, <1>8
    <2>6. ASSUME NEW i \in Level, NEW j \in Level, i # j,
                 NEW a \in 1 .. Len(toSrv'[i]), NEW b \in 1 .. Len(toSrv'[j])
          PROVE  toSrv'[i][a] # toSrv'[j][b]
      <3>1. CASE i = k
        BY <2>5, <2>6, <3>1, <1>4
      <3>2. CASE j = k
        BY <2>5, <2>6, <3>2, <1>4
      <3>3. CASE i # k /\ j # k
        BY <2>6, <3>3, <1>4 DEF Past
      <3> QED
        BY <3>1, <3>2, <3>3
    <2> QED
      BY <2>4, <2>6 DEF Past
  <1>11. Counted'
    <2>1. unread'[k] > 0 => unread[k] > n /\ unread'[k] = unread[k] - n
      <3>1. unread'[k] = Count(unread[k], n)
        BY DEF TypeOK
      <3> QED
        BY <3>1, <1>1, <1>2 DEF Count
    <2> SUFFICES ASSUME NEW u, u = unread[k], NEW i, i = T[1].req, u > n
                 PROVE  UpTo(i, u - n)'
      BY <2>1, <1>5, <1>8 DEF Counted, UpTo
    <2>2. /\ u \in Int /\ u > 0 /\ UpTo(i, u) /\ i \in Reqs /\ len[i] \in Nat /\ inbox # << >>
      <3>1. 1 \in 1 .. Len(T) /\ T[1] \in Part
        BY <1>1, <1>6
      <3> QED
        BY <3>1, <1>1, <1>2, PartTyped DEF Counted, Plan
    <2>3. /\ kind[i] = "plain" /\ u <= len[i] /\ 1 \in 1 .. Len(inbox)
          /\ inbox[1].req = i /\ inbox[1].part = len[i] - u + 1
      BY <2>2, <1>1 DEF UpTo
    <2>4. \A c \in 2 .. n + 1 : c <= Len(inbox) => inbox[c] = [req |-> i, part |-> len[i] - u + c]
      <3> SUFFICES ASSUME NEW c \in 2 .. n + 1, c <= Len(inbox)
                   PROVE  inbox[c] = [req |-> i, part |-> len[i] - u + c]
        OBVIOUS
      <3>1. c \in 1 .. Len(inbox) /\ inbox[c] \in Part /\ c - 1 < u
        BY <1>1, <1>2, <2>2
      <3>2. Apart(kind, len, inbox[1], inbox[c], c - 1)
        BY <2>3, <3>1, <1>3 DEF Runs, RunsTo, Stream
      <3>3. \/ inbox[c].req = i /\ inbox[c].part = (len[i] - u + 1) + (c - 1)
            \/ c - 1 > len[i] - (len[i] - u + 1)
        BY <2>3, <3>2 DEF Apart
      <3>4. u \in Int /\ len[i] \in Int /\ c \in Int /\ c - 1 < u
        BY <2>2, <3>1
      <3>5. /\ ~ (c - 1 > len[i] - (len[i] - u + 1))
            /\ (len[i] - u + 1) + (c - 1) = len[i] - u + c
        BY ONLY <3>4, Places
      <3>6. inbox[c].req = i /\ inbox[c].part = len[i] - u + c
        BY <3>3, <3>5
      <3> QED
        BY <3>1, <3>6 DEF Part
    <2>5. r # << >> => r[1] = [req |-> i, part |-> len[i] - (u - n) + 1]
      <3> SUFFICES ASSUME r # << >> PROVE r[1] = [req |-> i, part |-> len[i] - (u - n) + 1]
        OBVIOUS
      <3>1. n + 1 \in 2 .. n + 1 /\ n + 1 <= Len(inbox) /\ r[1] = inbox[n + 1]
        <4>1. Len(r) # 0
          BY <1>2
        <4>2. 1 \in 1 .. Len(inbox) - n
          BY <4>1, <1>2
        <4> QED
          BY <4>2, <1>2
      <3>2. len[i] - (u - n) + 1 = len[i] - u + (n + 1)
        <4>1. len[i] \in Int /\ u \in Int /\ n \in Int
          BY <1>2, <2>2
        <4> QED
          BY <4>1
      <3> QED
        BY <3>1, <3>2, <2>4
    <2>6. r = << >> => sent = [req |-> i, part |-> len[i] - (u - n)]
      <3> SUFFICES ASSUME r = << >> PROVE sent = [req |-> i, part |-> len[i] - (u - n)]
        OBVIOUS
      <3>1. n = Len(inbox) /\ sent = inbox[n] /\ len[i] - (u - n) = len[i] - u + n
        BY <1>2, <1>3, <2>2 DEF Runs, RunsTo
      <3>2. CASE n = 1
        <4>1. inbox[1] \in Part
          BY <1>1, <2>3
        <4> QED
          BY <3>1, <3>2, <4>1, <2>3 DEF Part
      <3>3. CASE n > 1
        BY <3>1, <3>3, <2>4, <1>2
      <3> QED
        BY <3>2, <3>3, <1>2
    <2>7. u - n <= len[i]
      BY <1>2, <2>2, <2>3
    <2> QED
      BY <1>4, <2>3, <2>5, <2>6, <2>7 DEF UpTo
  <1> QED
    BY <1>9, <1>10, <1>11

\* The request copier has read the beginning of a further request and keeps it.
LEMMA Keeps ==
    ASSUME TypeOK, Stack, Flow, Past, Counted, NEW k \in Level, rpc[k] = "read",
           NEW n \in 1 .. Len(inbox), inbox' = Rest(inbox, n),
           IsHttp(SubSeq(inbox, 1, n)),
           data' = [data EXCEPT ![k] = SubSeq(inbox, 1, n)],
           rpc' = [rpc EXCEPT ![k] = "idle"],
           UNCHANGED <<kind, len, sent, toSrv, srv, spc>>
    PROVE  Flow' /\ Past' /\ Counted'
  <1> DEFINE d == SubSeq(inbox, 1, n)
             r == Rest(inbox, n)
  <1>1. /\ Plan(kind, len) /\ inbox \in Seq(Part)
        /\ \A j \in Level : toSrv[j] \in Seq(Part)
    BY Typed
  <1>2. /\ d \in Seq(Part) /\ Len(d) = n /\ \A i \in 1 .. n : d[i] = inbox[i]
        /\ r \in Seq(Part) /\ Len(r) = Len(inbox) - n
        /\ \A i \in 1 .. Len(inbox) - n : r[i] = inbox[n + i]
        /\ d \o r = inbox /\ Len(inbox) \in Nat /\ n \in Nat
    <2>1. n \in 0 .. Len(inbox) /\ Len(inbox) \in Nat /\ n \in Nat
      BY <1>1
    <2> QED
      BY <2>1, <1>1, Cut
  <1>3. Runs(inbox) /\ Runs(r)
    BY <1>1, RunsRest DEF Flow, Runs
  <1> HIDE DEF d, r
  <1>4. inbox' = r /\ data'[k] = d /\ IsHttp(d) /\ \A j \in Level : j # k => data'[j] = data[j]
    BY DEF TypeOK, d, r
  <1>5. \A j \in Level : /\ rpc'[j] # "read"
                         /\ Pending(j)' => j = k
    <2> SUFFICES ASSUME NEW j \in Level
                 PROVE  rpc'[j] # "read" /\ (Pending(j)' => j = k)
      OBVIOUS
    <2>1. rpc[j] = "read" \/ Pending(j) => j = k
      BY OneHolds DEF Holds
    <2> QED
      BY <2>1, <1>4 DEF Pending, TypeOK
  <1>6. Flow'
    <2>1. ASSUME NEW j \in Level PROVE LevelFlows(j)'
      <3>1. CASE j = k
        BY <3>1, <1>2, <1>3, <1>4, <1>5 DEF Flow, LevelFlows, IsHttp, Runs
      <3>2. CASE j # k
        BY <3>2, <1>4, <1>5 DEF Flow, LevelFlows, IsHttp
      <3> QED
        BY <3>1, <3>2
    <2> QED
      BY <2>1, <1>3, <1>4 DEF Flow, Runs
  <1>7. Past'
    <2>1. \A j \in Level : Before(toSrv[j], r) /\ Before(toSrv[j], d)
      <3> SUFFICES ASSUME NEW j \in Level, NEW a \in 1 .. Len(toSrv[j])
                   PROVE  /\ \A b \in 1 .. Len(r) : Lt(toSrv[j][a], r[b])
                          /\ \A b \in 1 .. Len(d) : Lt(toSrv[j][a], d[b])
        BY DEF Before
      <3>1. \A b \in 1 .. Len(inbox) : Lt(toSrv[j][a], inbox[b])
        BY DEF Past, LevelPast, Before
      <3>2. \A b \in 1 .. Len(r) : n + b \in 1 .. Len(inbox) /\ r[b] = inbox[n + b]
        BY <1>2
      <3>3. \A b \in 1 .. Len(d) : b \in 1 .. Len(inbox) /\ d[b] = inbox[b]
        BY <1>2
      <3> QED
        BY <3>1, <3>2, <3>3
    <2>2. ASSUME NEW j \in Level PROVE LevelPast(j)'
      BY <1>4, <1>5, <2>1 DEF Past, LevelPast
    <2> QED
      BY <2>2 DEF Past
  <1>8. Counted'
    BY <1>5 DEF Counted
  <1> QED
    BY <1>6, <1>7, <1>8

----------------------------------------------------------------------------
(* The steps keep the invariant.                                           *)

\* A step changes the control of one level, which keeps its place above the others.
LEMMA OneLevel ==
    ASSUME Stack, NEW k \in Level,
           \A j \in Level \ {k} :
              /\ spc'[j] = spc[j] /\ rpc'[j] = rpc[j] /\ curState'[j] = curState[j]
              /\ data'[j] = data[j] /\ buf'[j] = buf[j] /\ toSrv'[j] = toSrv[j] /\ srv'[j] = srv[j],
           k = 0 => FirstOK', LevelOK(k)',
           \/ spc'[k] = spc[k]
           \/ spc[k] \in {"read", "keep"} /\ spc'[k] \in {"keep", "nested", "wait"}
           \/ spc[k] \in {"nested", "wait"} /\ spc'[k] \in {"wait", "ret"}
                /\ \A j \in Level : k < j => spc[j] \in {"off", "ret"}
    PROVE  Stack'
  <1>1. FirstOK'
    <2>1. 0 \in Level
      BY TunnelAssumption DEF Level
    <2> QED
      BY <2>1 DEF Stack, FirstOK
  <1>2. \A j \in Level : LevelOK(j)'
    BY DEF Stack, LevelOK
  <1>3. ASSUME NEW i \in Level, NEW j \in Level, i < j
        PROVE  /\ spc'[i] \in {"off", "read", "keep"} => spc'[j] = "off"
               /\ spc'[i] \in {"wait", "ret"} => spc'[j] \in {"off", "ret"}
    <2>0. i # j
      BY <1>3, TunnelAssumption DEF Level
    <2>1. /\ spc[i] \in {"off", "read", "keep"} => spc[j] = "off"
          /\ spc[i] \in {"wait", "ret"} => spc[j] \in {"off", "ret"}
      BY <1>3 DEF Stack
    <2>2. CASE k = i
      <3>1. spc'[j] = spc[j]
        BY <2>0, <2>2
      <3> QED
        BY <3>1, <2>1, <2>2, <1>3
    <2>3. CASE k = j
      <3>1. spc'[i] = spc[i]
        BY <2>0, <2>3
      <3> QED
        BY <3>1, <2>1, <2>3
    <2>4. CASE k # i /\ k # j
      BY <2>1, <2>4
    <2> QED
      BY <2>2, <2>3, <2>4
  <1> QED
    BY <1>1, <1>2, <1>3 DEF Stack

\* A goroutine's step changes the control of one level, or begins the next one.
LEMMA StackStep ==
    ASSUME TypeOK, Stack, Next
    PROVE  Stack'
  <1> USE DEF client, wires, procs, server
  <1> DEFINE Same(j) == /\ spc'[j] = spc[j] /\ rpc'[j] = rpc[j] /\ curState'[j] = curState[j]
                        /\ data'[j] = data[j] /\ buf'[j] = buf[j] /\ toSrv'[j] = toSrv[j]
                        /\ srv'[j] = srv[j]
  <1>0. 0 \in Level /\ \A k \in Level : k \in Int /\ k >= 0
    BY TunnelAssumption DEF Level
  <1>1. CASE Client
    <2>1. UNCHANGED <<procs, server>>
      BY <1>1 DEF Client, SendHeader, SendPart, ClientClose, Arrive
    <2> QED
      BY <2>1 DEF Stack, FirstOK, LevelOK
  <1>2. ASSUME NEW k \in Level, Server(k) PROVE Stack'
    <2>1. /\ UNCHANGED <<procs, toSrv>> /\ toSrv[k] # << >>
          /\ \A j \in Level \ {k} : srv'[j] = srv[j]
      <3>1. CASE Answer(k)
        <4>1. PICK i \in Complete(k) : TRUE
          BY <3>1 DEF Answer
        <4>2. toSrv[k] # << >>
          BY <4>1 DEF Complete, Has
        <4> QED
          BY <3>1, <4>2 DEF Answer
      <3>2. CASE ServerClose(k) \/ Break(k)
        BY <3>2 DEF ServerClose, Break, TypeOK
      <3> QED
        BY <1>2, <3>1, <3>2 DEF Server
    <2>2. LevelOK(k)' /\ FirstOK'
      BY <2>1 DEF Stack, FirstOK, LevelOK
    <2> QED
      BY <2>1, <2>2, OneLevel
  <1>3. ASSUME NEW k \in Level, RequestCopier(k) PROVE Stack'
    <2>0. LevelOK(k) /\ k # 0 /\ rpc[k] # "done"
      BY <1>3 DEF RequestCopier, ReadBody, ReadNext, SetIdle, MakeBuf, CopyBuf, ReadEnds,
                  SetClosed, Stack, FirstOK
    <2>1. CASE ReadBody(k)
      <3>1. \A j \in Level \ {k} : Same(j)
        BY <2>1 DEF ReadBody, Forward, TypeOK
      <3>2. LevelOK(k)' /\ spc'[k] = spc[k]
        BY <2>1, <2>0 DEF ReadBody, Forward, LevelOK, TypeOK
      <3> QED
        BY <3>1, <3>2, <2>0, OneLevel
    <2>2. CASE ReadNext(k)
      <3>1. PICK n \in 1 .. Len(inbox) : data' = [data EXCEPT ![k] = SubSeq(inbox, 1, n)]
        BY <2>2 DEF ReadNext
      <3>2. SubSeq(inbox, 1, n) # << >>
        <4>1. inbox \in Seq(Part) /\ n \in 0 .. Len(inbox)
          BY DEF TypeOK
        <4>2. Len(SubSeq(inbox, 1, n)) = n
          BY <4>1, Cut
        <4> QED
          BY <4>2
      <3>3. \A j \in Level \ {k} : Same(j)
        BY <2>2, <3>1 DEF ReadNext, TypeOK
      <3>4. LevelOK(k)' /\ spc'[k] = spc[k]
        BY <2>2, <2>0, <3>1, <3>2 DEF ReadNext, LevelOK, TypeOK
      <3> QED
        BY <3>3, <3>4, <2>0, OneLevel
    <2>3. CASE SetIdle(k)
      <3>1. \A j \in Level \ {k} : Same(j)
        BY <2>3 DEF SetIdle, TypeOK
      <3>2. LevelOK(k)' /\ spc'[k] = spc[k]
        BY <2>3, <2>0 DEF SetIdle, LevelOK, TypeOK
      <3> QED
        BY <3>1, <3>2, <2>0, OneLevel
    <2>4. CASE MakeBuf(k)
      <3>1. \A j \in Level \ {k} : Same(j)
        BY <2>4 DEF MakeBuf, TypeOK
      <3>2. LevelOK(k)' /\ spc'[k] = spc[k]
        BY <2>4, <2>0 DEF MakeBuf, LevelOK, TypeOK
      <3> QED
        BY <3>1, <3>2, <2>0, OneLevel
    <2>5. CASE CopyBuf(k)
      <3>1. \A j \in Level \ {k} : Same(j)
        BY <2>5 DEF CopyBuf, TypeOK
      <3>2. LevelOK(k)' /\ spc'[k] = spc[k]
        BY <2>5, <2>0 DEF CopyBuf, LevelOK, TypeOK
      <3> QED
        BY <3>1, <3>2, <2>0, OneLevel
    <2>6. CASE ReadEnds(k)
      <3>1. \A j \in Level \ {k} : Same(j)
        BY <2>6 DEF ReadEnds, TypeOK
      <3>2. LevelOK(k)' /\ spc'[k] = spc[k]
        BY <2>6, <2>0 DEF ReadEnds, LevelOK, TypeOK
      <3> QED
        BY <3>1, <3>2, <2>0, OneLevel
    <2>7. CASE SetClosed(k)
      <3>1. \A j \in Level \ {k} : Same(j)
        BY <2>7 DEF SetClosed, TypeOK
      <3>2. LevelOK(k)' /\ spc'[k] = spc[k]
        BY <2>7, <2>0 DEF SetClosed, LevelOK, TypeOK
      <3> QED
        BY <3>1, <3>2, <2>0, OneLevel
    <2> QED
      BY <1>3, <2>1, <2>2, <2>3, <2>4, <2>5, <2>6, <2>7 DEF RequestCopier
  <1>4. ASSUME NEW k \in Level, Transfer(k) PROVE Stack'
    <2>0. LevelOK(k) /\ (k = 0 => FirstOK) /\ (k < MaxReq => k + 1 \in Level)
      BY TunnelAssumption DEF Stack, Level
    <2>1. CASE Response(k) \/ EofIdle(k) \/ EofActive(k) \/ ServerEnds(k)
      <3>1. /\ UNCHANGED <<rpc, curState, data, buf, toSrv, srv>> /\ spc[k] = "read"
            /\ \A j \in Level \ {k} : spc'[j] = spc[j]
            /\ spc'[k] \in {"read", "wait"} \/ (spc'[k] = "keep" /\ curState[k] = "idle")
        BY <2>1 DEF Response, EofIdle, EofActive, ServerEnds, AtEof, TypeOK
      <3>2. k # 0 /\ LevelOK(k)'
        BY <3>1, <2>0 DEF FirstOK, LevelOK
      <3> QED
        BY <3>1, <3>2, OneLevel
    <2>2. ASSUME spc[k] = "keep", spc' = [spc EXCEPT ![k] = "wait"],
                 UNCHANGED <<rpc, curState, data, buf, toSrv, srv>>
          PROVE  Stack'
      <3>1. spc'[k] = "wait" /\ \A j \in Level \ {k} : spc'[j] = spc[j]
        BY <2>2 DEF TypeOK
      <3>2. LevelOK(k)' /\ (k = 0 => FirstOK')
        BY <3>1, <2>0, <2>2 DEF FirstOK, LevelOK
      <3> QED
        BY <3>1, <3>2, <2>2, OneLevel
    <2>3. CASE HandshakeFails(k)
      BY <2>3, <2>2 DEF HandshakeFails
    <2>4. CASE HandleBlank(k)
      BY <2>4, <2>2 DEF HandleBlank, GiveUp
    <2>5. ASSUME k < MaxReq, spc[k] = "keep", k = 0 \/ buf[k] = "full",
                 NEW d, NEW more, Serve(k, d, more)
          PROVE  Stack'
      <3>0. /\ k + 1 \in Level /\ k # k + 1 /\ rpc[k] = "done" /\ k + 1 # 0
            /\ \A j \in Level : k < j => spc[j] = "off"
        BY <2>0, <2>5, <1>0 DEF Stack, FirstOK, LevelOK
      <3>1. spc[k + 1] = "off" /\ LevelOK(k + 1)
        BY <3>0, <1>0 DEF Stack
      <3>2. /\ spc'[k] = "nested" /\ spc'[k + 1] = "read" /\ rpc'[k] = "done"
            /\ rpc'[k + 1] = "read" /\ curState'[k + 1] = "active"
            /\ toSrv'[k] = toSrv[k] /\ curState'[k] = curState[k]
            /\ UNCHANGED <<data, buf, srv>>
        BY <2>5, <3>0 DEF Serve, TypeOK
      <3>3. \A j \in Level \ {k, k + 1} : Same(j)
        BY <2>5 DEF Serve, TypeOK
      <3>4. \A j \in Level : LevelOK(j)'
        <4>1. LevelOK(k)'
          BY <2>0, <2>5, <3>0, <3>2 DEF LevelOK
        <4>2. LevelOK(k + 1)'
          BY <3>1, <3>2 DEF LevelOK
        <4>3. \A j \in Level \ {k, k + 1} : LevelOK(j)'
          BY <3>3 DEF Stack, LevelOK
        <4> QED
          BY <4>1, <4>2, <4>3
      <3>5. FirstOK'
        BY <3>0, <3>2, <3>3, <1>0 DEF Stack, FirstOK
      <3>6. ASSUME NEW i \in Level, NEW j \in Level, i < j
            PROVE  /\ spc'[i] \in {"off", "read", "keep"} => spc'[j] = "off"
                   /\ spc'[i] \in {"wait", "ret"} => spc'[j] \in {"off", "ret"}
        <4>0. i \in Int /\ j \in Int /\ k \in Int
          BY <1>0
        <4>1. CASE i = k
          BY <4>1, <3>2
        <4>2. CASE i = k + 1
          <5>1. spc'[j] = "off"
            BY <4>0, <4>2, <3>0, <3>3, <3>6
          <5> QED
            BY <5>1
        <4>3. CASE i # k /\ i # k + 1
          <5>1. spc'[i] = spc[i]
            BY <4>3, <3>3
          <5>2. CASE j = k \/ j = k + 1
            <6>1. i < k
              BY <4>0, <4>3, <5>2, <3>6
            <6>2. spc[i] \notin {"off", "read", "keep", "wait", "ret"}
              BY <6>1, <2>5 DEF Stack
            <6> QED
              BY <5>1, <6>2
          <5>3. CASE j # k /\ j # k + 1
            <6>1. spc'[j] = spc[j]
              BY <5>3, <3>3
            <6> QED
              BY <5>1, <6>1, <3>6 DEF Stack
          <5> QED
            BY <5>2, <5>3
        <4> QED
          BY <4>1, <4>2, <4>3
      <3> QED
        BY <3>4, <3>5, <3>6 DEF Stack
    <2>6. CASE k < MaxReq /\ HandleBuf(k)
      BY <2>6, <2>5 DEF HandleBuf
    <2>7. CASE k < MaxReq /\ HandleConn(k)
      BY <2>7, <2>2, <2>5 DEF HandleConn, GiveUp
    <2>8. CASE k < MaxReq /\ NestedReturns(k)
      <3>1. /\ spc[k] = "nested" /\ spc[k + 1] = "ret" /\ spc'[k] = "wait"
            /\ \A j \in Level \ {k} : spc'[j] = spc[j]
            /\ UNCHANGED <<rpc, curState, data, buf, toSrv, srv>>
        BY <2>8 DEF NestedReturns, TypeOK
      <3>2. \A j \in Level : k < j => spc[j] \in {"off", "ret"}
        <4> SUFFICES ASSUME NEW j \in Level, k < j PROVE spc[j] \in {"off", "ret"}
          OBVIOUS
        <4>1. j = k + 1 \/ k + 1 < j
          BY <1>0
        <4> QED
          BY <4>1, <3>1, <2>0, <2>8 DEF Stack
      <3>3. LevelOK(k)' /\ (k = 0 => FirstOK')
        BY <3>1, <2>0 DEF FirstOK, LevelOK
      <3> QED
        BY <3>1, <3>2, <3>3, OneLevel
    <2>9. CASE Return(k)
      <3>1. /\ spc[k] = "wait" /\ rpc[k] = "done" /\ spc'[k] = "ret"
            /\ \A j \in Level \ {k} : spc'[j] = spc[j]
            /\ UNCHANGED <<rpc, curState, data, buf, toSrv, srv>>
        BY <2>9 DEF Return, TypeOK
      <3>2. \A j \in Level : k < j => spc[j] \in {"off", "ret"}
        BY <3>1 DEF Stack
      <3>3. LevelOK(k)' /\ (k = 0 => FirstOK')
        BY <3>1, <2>0 DEF FirstOK, LevelOK
      <3> QED
        BY <3>1, <3>2, <3>3, OneLevel
    <2> QED
      BY <1>4, <2>1, <2>3, <2>4, <2>6, <2>7, <2>8, <2>9 DEF Transfer
  <1> QED
    BY <1>1, <1>2, <1>3, <1>4 DEF Next

\* What Serve does, in terms of the data that it goes on with.
LEMMA ServeStep ==
    ASSUME TypeOK, Stack, Flow, Past, NEW k \in Level, k < MaxReq, spc[k] = "keep", Holds(k),
           NEW d \in Seq(Part), d # << >>, IsHttp(d), NEW more \in Seq(Part),
           Runs(d \o more), \A j \in Level : Before(toSrv[j], d \o more),
           Serve(k, d, more)
    PROVE  Flow' /\ Past' /\ Counted'
  <1> DEFINE S == d \o more
             i == d[1].req
             m == BodyBuf(d) + 1
             u == ClientUnRead(d)
  <1>1. k + 1 \in Level
    BY TunnelAssumption DEF Level
  <1>2. /\ Plan(kind, len) /\ d[1] \in Part /\ i \in Reqs /\ len[i] \in Nat
        /\ Len(d) \in Nat /\ Len(d) >= 1
        /\ kind[i] \in {"plain", "long", "upgrade"} /\ (kind[i] # "plain" => len[i] = 0)
    <2>1. Len(d) \in Nat /\ Len(d) >= 1
      OBVIOUS
    <2>2. d[1] \in Part
      BY <2>1
    <2>3. Plan(kind, len) /\ i \in Reqs
      BY <2>2, Typed, PartTyped
    <2> QED
      BY <2>1, <2>2, <2>3 DEF Plan, Flow
  <1>3. /\ m \in 1 .. Len(d) /\ u \in Int
        /\ u > 0 => kind[i] = "plain" /\ u = len[i] - (m - 1)
    BY <1>2 DEF BodyBuf, ClientUnRead
  <1>4. /\ S \in Seq(Part) /\ Len(S) = Len(d) + Len(more) /\ S[1] = d[1]
        /\ Len(more) \in Nat
    <2>1. /\ S \in Seq(Part) /\ Len(S) = Len(d) + Len(more)
          /\ \A a \in 1 .. Len(d) + Len(more) :
                 S[a] = IF a <= Len(d) THEN d[a] ELSE more[a - Len(d)]
      BY ConcatProperties
    <2>2. Len(more) \in Nat
      OBVIOUS
    <2> HIDE DEF S
    <2>3. 1 \in 1 .. Len(d) + Len(more) /\ 1 <= Len(d)
      BY <1>2, <2>2
    <2> QED
      BY <2>1, <2>2, <2>3
  <1>5. /\ m \in 1 .. Len(S) /\ S # << >>
        /\ SubSeq(d, 1, m) = SubSeq(S, 1, m)
        /\ Rest(d, m) \o more = Rest(S, m)
    <2>1. m \in 0 .. Len(d)
      BY <1>2, <1>3
    <2>2. SubSeq(S, 1, m) = SubSeq(d, 1, m) /\ Rest(S, m) = Rest(d, m) \o more
      <3> HIDE DEF m
      <3> QED
        BY <2>1, JoinCut
    <2> HIDE DEF S, m
    <2>3. m \in 1 .. Len(S) /\ S # << >>
      BY <1>2, <1>3, <1>4
    <2> QED
      BY <2>2, <2>3
  <1>6. /\ toSrv' = [toSrv EXCEPT ![k + 1] = SubSeq(S, 1, m)]
        /\ inbox' = Rest(S, m)
        /\ spc' = [spc EXCEPT ![k] = "nested", ![k + 1] = "read"]
        /\ rpc' = [rpc EXCEPT ![k + 1] = "read"]
        /\ unread' = [unread EXCEPT ![k + 1] = u]
        /\ UNCHANGED <<kind, len, sent, data, srv>>
    BY <1>5 DEF Serve, client
  <1>7. S[1].part = 0 /\ Runs(S) /\ \A j \in Level : Before(toSrv[j], S)
    BY <1>4 DEF IsHttp
  <1> HIDE DEF S, m, u
  <1>8. u > 0 => kind[S[1].req] = "plain" /\ u = len[S[1].req] - (m - 1)
    BY <1>3, <1>4
  <1> QED
    BY <1>1, <1>3, <1>4, <1>5, <1>6, <1>7, <1>8, Serves

\* The order of the client's stream survives every step.
LEMMA FlowStep ==
    ASSUME TypeOK, Stack, Flow, Past, Counted, Next
    PROVE  Flow' /\ Past' /\ Counted'
  <1> USE DEF client, wires, procs, server
  <1>0. /\ Plan(kind, len) /\ inbox \in Seq(Part)
        /\ sent \in [req : Nat, part : Nat] /\ (sent.req > 0 => sent \in Part)
        /\ \A k \in Level : toSrv[k] \in Seq(Part) /\ data[k] \in Seq(Part) /\ unread[k] \in Int
    BY Typed
  <1>1. CASE SendHeader
    <2> DEFINE p == [req |-> sent.req + 1, part |-> 0]
    <2>1. /\ sent.req < MaxReq
          /\ sent.req > 0 => kind[sent.req] = "plain" /\ sent.part = len[sent.req]
          /\ sent' = p /\ inbox' = Append(inbox, p)
          /\ UNCHANGED <<rpc, spc, srv, toSrv, data, unread>>
      BY <1>1 DEF SendHeader, Arrive
    <2>2. PICK kd \in {"plain", "long", "upgrade"}, n \in 0 .. MaxBody :
              /\ kd # "plain" => n = 0
              /\ kind' = [kind EXCEPT ![sent.req + 1] = kd]
              /\ len' = [len EXCEPT ![sent.req + 1] = n]
      BY <1>1 DEF SendHeader
    <2>3. sent.req \in Nat /\ sent.part \in Nat /\ sent.req + 1 \in Reqs
      BY <1>0, <2>1, TunnelAssumption DEF Reqs
    <2>4. p \in Part
      BY <2>3, TunnelAssumption DEF Part
    <2>5. Plan(kind', len')
      BY <2>2, <1>0 DEF Plan
    <2>6. \A i \in Reqs : i <= sent.req => kind'[i] = kind[i] /\ len'[i] = len[i]
      BY <2>2, <2>3, <1>0 DEF Plan, Reqs
    <2>7. \A i \in Reqs : kind'[i] # "plain" => len'[i] = 0
      BY <2>2, <1>0 DEF Plan, Flow
    <2>8. Lt(sent, p)
      BY <2>3 DEF Lt
    <2>9. sent.req > 0 => Goes(kind', len', sent, p)
      <3> SUFFICES ASSUME sent.req > 0 PROVE Goes(kind', len', sent, p)
        OBVIOUS
      <3>1. sent.req \in Reqs
        BY <1>0, PartTyped
      <3>2. kind'[sent.req] = "plain" /\ sent.part = len'[sent.req]
        BY <3>1, <2>1, <2>3, <2>6
      <3> QED
        BY <3>2 DEF Goes
    <2> HIDE DEF p
    <2> QED
      BY <2>1, <2>4, <2>5, <2>6, <2>7, <2>8, <2>9, Arrives
  <1>2. CASE SendPart
    <2> DEFINE p == [sent EXCEPT !.part = @ + 1]
    <2>1. /\ sent.req > 0 /\ sent.part < Following(sent.req)
          /\ sent' = p /\ inbox' = Append(inbox, p)
          /\ UNCHANGED <<kind, len, rpc, spc, srv, toSrv, data, unread>>
      BY <1>2 DEF SendPart, Arrive
    <2>2. /\ sent \in Part /\ sent.req \in Reqs /\ sent.part \in Nat /\ sent.req \in Nat
      BY <2>1, <1>0, PartTyped
    <2>3. Following(sent.req) \in Nat /\ Following(sent.req) <= MaxBody
      BY <2>2, <1>0, TunnelAssumption DEF Following, Plan
    <2>4. p.req = sent.req /\ p.part = sent.part + 1
      BY <2>2 DEF Part
    <2>5. p \in Part
      BY <2>1, <2>2, <2>3, TunnelAssumption DEF Part
    <2> HIDE DEF p
    <2>6. Lt(sent, p) /\ Goes(kind', len', sent, p)
      BY <2>2, <2>4 DEF Lt, Goes
    <2>7. Plan(kind', len') /\ \A i \in Reqs : kind'[i] # "plain" => len'[i] = 0
      BY <2>1, <1>0 DEF Flow
    <2>8. \A i \in Reqs : i <= sent.req => kind'[i] = kind[i] /\ len'[i] = len[i]
      BY <2>1
    <2> QED
      BY <2>1, <2>5, <2>6, <2>7, <2>8, Arrives
  <1>3. CASE ClientClose
    BY <1>3, Calm DEF ClientClose
  <1>4. ASSUME NEW k \in Level, Server(k) PROVE Flow' /\ Past' /\ Counted'
    <2>1. /\ UNCHANGED <<kind, len, sent, inbox, toSrv, data, unread, rpc, spc>>
          /\ \A j \in Level : srv'[j] = "open" => srv[j] = "open"
      BY <1>4 DEF Server, Answer, ServerClose, Break, TypeOK
    <2> QED
      BY <2>1, Calm
  <1>5. ASSUME NEW k \in Level, RequestCopier(k) PROVE Flow' /\ Past' /\ Counted'
    <2>1. CASE ReadBody(k)
      <3>1. PICK n \in 1 .. Len(inbox) :
                /\ inbox' = Rest(inbox, n)
                /\ unread' = [unread EXCEPT ![k] = Count(@, n)]
                /\ Forward(k, SubSeq(inbox, 1, n))
        BY <2>1 DEF ReadBody
      <3>2. rpc[k] = "read" /\ UNCHANGED <<kind, len, sent, data, srv, spc>>
        BY <2>1 DEF ReadBody
      <3> QED
        BY <3>1, <3>2, Forwards
    <2>2. CASE ReadNext(k)
      <3>1. PICK n \in 1 .. Len(inbox) :
                /\ IsHttp(SubSeq(inbox, 1, n))
                /\ inbox' = Rest(inbox, n)
                /\ data' = [data EXCEPT ![k] = SubSeq(inbox, 1, n)]
        BY <2>2 DEF ReadNext
      <3>2. /\ rpc[k] = "read" /\ rpc' = [rpc EXCEPT ![k] = "idle"]
            /\ UNCHANGED <<kind, len, sent, toSrv, srv, spc>>
        BY <2>2 DEF ReadNext
      <3> QED
        BY <3>1, <3>2, Keeps
    <2>3. CASE SetIdle(k) \/ MakeBuf(k) \/ CopyBuf(k) \/ ReadEnds(k) \/ SetClosed(k)
      <3>1. /\ UNCHANGED <<kind, len, sent, inbox, toSrv, data, unread, spc, srv>>
            /\ \A j \in Level : rpc'[j] = "read" => rpc[j] = "read"
        BY <2>3 DEF SetIdle, MakeBuf, CopyBuf, ReadEnds, SetClosed, TypeOK
      <3> QED
        BY <3>1, Calm
    <2> QED
      BY <1>5, <2>1, <2>2, <2>3 DEF RequestCopier
  <1>6. ASSUME NEW k \in Level, Transfer(k) PROVE Flow' /\ Past' /\ Counted'
    <2>1. CASE Response(k) \/ EofIdle(k) \/ EofActive(k) \/ ServerEnds(k) \/ HandleBlank(k)
               \/ Return(k) \/ NestedReturns(k)
      <3>1. UNCHANGED <<kind, len, sent, inbox, toSrv, data, unread, rpc, srv>>
        BY <2>1 DEF Response, EofIdle, EofActive, ServerEnds, HandleBlank, GiveUp, Return,
                    NestedReturns
      <3>2. \/ spc' = spc
            \/ spc[k] = "read" /\ spc' = [spc EXCEPT ![k] = "keep"]
            \/ spc' = [spc EXCEPT ![k] = "wait"]
            \/ spc' = [spc EXCEPT ![k] = "ret"]
        BY <2>1 DEF Response, EofIdle, EofActive, ServerEnds, AtEof, HandleBlank, GiveUp, Return,
                    NestedReturns
      <3>3. \A j \in Level : spc'[j] \in {"read", "keep"} => spc[j] \in {"read", "keep"}
        BY <3>2 DEF TypeOK
      <3> QED
        BY <3>1, <3>3, Calm
    <2>2. CASE k < MaxReq /\ HandleBuf(k)
      <3>1. spc[k] = "keep" /\ buf[k] = "full" /\ Serve(k, data[k], inbox)
        BY <2>2 DEF HandleBuf
      <3>2. data[k] # << >>
        BY <3>1 DEF Stack, LevelOK
      <3>3. Pending(k) /\ Holds(k)
        BY <3>1, <3>2 DEF Pending, Holds
      <3>4. IsHttp(data[k]) /\ Runs(data[k] \o inbox)
        BY <3>3 DEF Flow, LevelFlows
      <3>5. ASSUME NEW j \in Level PROVE Before(toSrv[j], data[k] \o inbox)
        <4> DEFINE S == data[k] \o inbox
                   L == Len(data[k])
        <4>1. /\ Len(S) = L + Len(inbox) /\ L \in Nat /\ Len(inbox) \in Nat
              /\ \A a \in 1 .. L + Len(inbox) : S[a] = IF a <= L THEN data[k][a] ELSE inbox[a - L]
          BY <1>0, ConcatProperties
        <4>2. Before(toSrv[j], data[k]) /\ Before(toSrv[j], inbox)
          BY <3>3 DEF Past, LevelPast
        <4> HIDE DEF S
        <4> SUFFICES ASSUME NEW a \in 1 .. Len(toSrv[j]), NEW b \in 1 .. Len(S)
                     PROVE  Lt(toSrv[j][a], S[b])
          BY DEF Before, S
        <4>3. CASE b <= L
          <5>1. b \in 1 .. L /\ S[b] = data[k][b]
            BY <4>1, <4>3
          <5> QED
            BY <5>1, <4>2 DEF Before
        <4>4. CASE ~(b <= L)
          <5>1. b - L \in 1 .. Len(inbox) /\ S[b] = inbox[b - L]
            BY <4>1, <4>4
          <5> QED
            BY <5>1, <4>2 DEF Before
        <4> QED
          BY <4>3, <4>4
      <3> QED
        BY <3>1, <3>2, <3>3, <3>4, <3>5, <2>2, <1>0, ServeStep
    <2>3. ASSUME k = 0, spc[k] = "keep"
          PROVE  \A j \in Level : rpc[j] # "read" /\ ~Pending(j)
      <3>1. \A j \in Level : Holds(j) => j = k
        BY <2>3, OneHolds DEF Holds
      <3> QED
        BY <3>1, <2>3 DEF Holds, Pending, Stack, FirstOK
    <2>4. ASSUME k = 0, spc[k] = "keep", spc' = [spc EXCEPT ![k] = "wait"],
                 NEW n \in 0 .. Len(inbox), inbox' = Rest(inbox, n),
                 UNCHANGED <<kind, len, sent, toSrv, data, rpc>>
          PROVE  Flow' /\ Past' /\ Counted'
      <3>1. \A j \in Level : rpc'[j] # "read" /\ ~Pending(j)'
        BY <2>3, <2>4 DEF Pending, TypeOK
      <3> QED
        BY <3>1, <2>4, Drops
    <2>5. CASE k < MaxReq /\ HandleConn(k)
      <3>1. k = 0 /\ spc[k] = "keep"
        BY <2>5 DEF HandleConn
      <3>2. ASSUME NEW n \in 1 .. Len(inbox), IsHttp(SubSeq(inbox, 1, n)),
                   Serve(k, SubSeq(inbox, 1, n), Rest(inbox, n))
            PROVE  Flow' /\ Past' /\ Counted'
        <4> DEFINE d == SubSeq(inbox, 1, n)
                   more == Rest(inbox, n)
        <4>1. n \in 0 .. Len(inbox) /\ n >= 1
          BY <1>0
        <4>2. /\ d \in Seq(Part) /\ Len(d) = n /\ more \in Seq(Part) /\ d \o more = inbox
          BY <4>1, <1>0, Cut
        <4> HIDE DEF d, more
        <4>3. Holds(k) /\ Runs(inbox) /\ \A j \in Level : Before(toSrv[j], inbox)
          BY <3>1 DEF Holds, Flow, Past, LevelPast
        <4>4. d # << >>
          BY <4>1, <4>2
        <4>5. IsHttp(d) /\ Serve(k, d, more)
          BY <3>2 DEF d, more
        <4> QED
          BY <4>2, <4>3, <4>4, <4>5, <3>1, <2>5, ServeStep
      <3>3. ASSUME NEW n \in 1 .. Len(inbox), GiveUp(k, Rest(inbox, n))
            PROVE  Flow' /\ Past' /\ Counted'
        <4>1. n \in 0 .. Len(inbox)
          BY <1>0
        <4> QED
          BY <4>1, <3>1, <3>3, <2>4 DEF GiveUp
      <3>4. CASE GiveUp(k, inbox)
        BY <3>1, <3>4, Calm DEF GiveUp, TypeOK
      <3> QED
        BY <2>5, <3>2, <3>3, <3>4 DEF HandleConn
    <2>6. CASE k < MaxReq /\ HandshakeFails(k)
      <3>1. /\ spc[k] = "keep" /\ spc' = [spc EXCEPT ![k] = "wait"]
            /\ UNCHANGED <<kind, len, sent, toSrv, data, rpc, unread, srv>>
        BY <2>6 DEF HandshakeFails
      <3>2. CASE UNCHANGED inbox
        BY <3>1, <3>2, Calm DEF TypeOK
      <3>3. ASSUME k = 0, NEW n \in 1 .. Len(inbox), inbox' = Rest(inbox, n)
            PROVE  Flow' /\ Past' /\ Counted'
        <4>1. n \in 0 .. Len(inbox)
          BY <1>0
        <4> QED
          BY <4>1, <3>1, <3>3, <2>4
      <3> QED
        BY <2>6, <3>2, <3>3 DEF HandshakeFails
    <2> QED
      BY <1>6, <2>1, <2>2, <2>5, <2>6 DEF Transfer
  <1> QED
    BY <1>1, <1>2, <1>3, <1>4, <1>5, <1>6 DEF Next, Client

\* What a server has got it keeps.
LEMMA HasGrows ==
    ASSUME TypeOK, Stack, Next, NEW k \in Level, NEW p, Has(k, p)
    PROVE  Has(k, p)'
  <1> USE DEF client, wires, procs, server
  <1> SUFFICES \/ UNCHANGED toSrv
               \/ toSrv[k] = << >>
               \/ toSrv'[k] = toSrv[k]
               \/ \E d \in Seq(Part) : toSrv'[k] = toSrv[k] \o d
    <2>1. toSrv[k] \in Seq(Part) /\ toSrv[k] # << >>
      BY Typed DEF Has
    <2>2. ASSUME NEW d \in Seq(Part), toSrv'[k] = toSrv[k] \o d
          PROVE  Has(k, p)'
      <3> DEFINE t == toSrv[k]
      <3>1. PICK j \in DOMAIN t : t[j] = p
        BY DEF Has
      <3>2. /\ t \o d \in Seq(Part) /\ Len(t \o d) = Len(t) + Len(d)
            /\ \A i \in 1 .. Len(t) + Len(d) :
                   (t \o d)[i] = IF i <= Len(t) THEN t[i] ELSE d[i - Len(t)]
        <4> HIDE DEF t
        <4> QED
          BY <2>1, ConcatProperties DEF t
      <3>3. j \in 1 .. Len(t) /\ Len(t) \in Nat /\ Len(d) \in Nat
        BY <2>1
      <3>4. j \in 1 .. Len(t) + Len(d)
        BY <3>3
      <3>5. j \in DOMAIN (t \o d) /\ (t \o d)[j] = p
        BY <3>1, <3>2, <3>3, <3>4
      <3> QED
        BY <3>5, <2>2 DEF Has
    <2> QED
      BY <2>1, <2>2 DEF Has
  <1>1. CASE Client
    BY <1>1 DEF Client, SendHeader, SendPart, ClientClose, Arrive
  <1>2. ASSUME NEW j \in Level, Server(j) PROVE UNCHANGED toSrv
    BY <1>2 DEF Server, Answer, ServerClose, Break
  <1>3. ASSUME NEW j \in Level, RequestCopier(j)
        PROVE  \/ UNCHANGED toSrv
               \/ toSrv'[k] = toSrv[k]
               \/ \E d \in Seq(Part) : toSrv'[k] = toSrv[k] \o d
    <2>1. CASE ReadBody(j)
      <3>1. PICK n \in 1 .. Len(inbox) : Forward(j, SubSeq(inbox, 1, n))
        BY <2>1 DEF ReadBody
      <3>2. inbox \in Seq(Part) /\ n \in 0 .. Len(inbox)
        BY <3>1, Typed
      <3>3. SubSeq(inbox, 1, n) \in Seq(Part)
        BY <3>2, Cut
      <3>4. CASE toSrv' = [toSrv EXCEPT ![j] = @ \o SubSeq(inbox, 1, n)]
        <4>1. CASE j = k
          BY <3>3, <3>4, <4>1 DEF TypeOK
        <4>2. CASE j # k
          BY <3>4, <4>2 DEF TypeOK
        <4> QED
          BY <4>1, <4>2
      <3> QED
        BY <3>1, <3>4 DEF Forward
    <2> QED
      BY <1>3, <2>1 DEF RequestCopier, ReadNext, SetIdle, MakeBuf, CopyBuf, ReadEnds, SetClosed
  <1>4. ASSUME NEW j \in Level, Transfer(j)
        PROVE  UNCHANGED toSrv \/ toSrv[k] = << >> \/ toSrv'[k] = toSrv[k]
    <2>1. ASSUME j < MaxReq, spc[j] = "keep", NEW d, NEW more, Serve(j, d, more)
          PROVE  toSrv[k] = << >> \/ toSrv'[k] = toSrv[k]
      <3>1. spc[j + 1] = "off" /\ j + 1 \in Level
        BY <2>1, TunnelAssumption DEF Stack, Level
      <3>2. toSrv[j + 1] = << >>
        BY <3>1 DEF Stack, LevelOK
      <3> QED
        BY <2>1, <3>2 DEF Serve, TypeOK
    <2>2. CASE j < MaxReq /\ (HandleBuf(j) \/ HandleConn(j))
      BY <2>1, <2>2 DEF HandleBuf, HandleConn, GiveUp
    <2> QED
      BY <1>4, <2>2 DEF Transfer, Response, EofIdle, EofActive, ServerEnds, HandshakeFails,
                        NestedReturns, HandleBlank, GiveUp, Return
  <1> QED
    BY <1>1, <1>2, <1>3, <1>4 DEF Next

\* What comes first in a sequence, and what remains.
LEMMA HeadAndTail ==
    ASSUME NEW S, NEW s \in Seq(S), s # << >>
    PROVE  /\ Len(s) \in Nat /\ Len(s) >= 1 /\ Head(s) = s[1] /\ s[1] \in S
           /\ Tail(s) \in Seq(S) /\ Len(Tail(s)) = Len(s) - 1
           /\ \A i \in 1 .. Len(s) - 1 : Tail(s)[i] = s[i + 1]
  <1>1. Tail(s) \in Seq(S) /\ Len(Tail(s)) = Len(s) - 1
        /\ \A i \in 1 .. Len(Tail(s)) : Tail(s)[i] = s[i + 1]
    BY HeadTailProperties
  <1>2. Len(s) \in Nat /\ Len(s) >= 1 /\ Head(s) = s[1]
    OBVIOUS
  <1>3. s[1] \in S
    BY <1>2
  <1> QED
    BY <1>1, <1>2, <1>3

\* No two servers have the header of one request.
LEMMA OneServer ==
    ASSUME TypeOK, Past, Once, NEW j \in Level, NEW k \in Level, NEW i,
           i \in answered[j], i \in answered[k] \/ i \in Complete(k)
    PROVE  j = k
  <1> DEFINE h == [req |-> i, part |-> 0]
  <1>1. Has(j, h) /\ Has(k, h)
    BY DEF Once, LevelOnce, Complete
  <1>2. toSrv[j] \in Seq(Part) /\ toSrv[k] \in Seq(Part)
    BY Typed
  <1>3. PICK a \in 1 .. Len(toSrv[j]) : toSrv[j][a] = h
    BY <1>1, <1>2 DEF Has
  <1>4. PICK b \in 1 .. Len(toSrv[k]) : toSrv[k][b] = h
    BY <1>1, <1>2 DEF Has
  <1> QED
    BY <1>3, <1>4 DEF Past

\* Every request is answered once, and its answer passed on at most once.
LEMMA OnceStep ==
    ASSUME TypeOK, Stack, Past, Once, Next
    PROVE  Once'
  <1> USE DEF client, wires, procs, server
  <1>0. /\ got \in Seq(Reqs)
        /\ \A k \in Level : fromSrv[k] \in Seq(Reqs) /\ answered[k] \in SUBSET Reqs
    BY DEF TypeOK
  <1>1. \A k \in Level : \A p : Has(k, p) => Has(k, p)'
    BY HasGrows
  <1>2. CASE UNCHANGED <<got, fromSrv, answered>>
    <2>1. \A k \in Level : LevelOnce(k)'
      BY <1>1, <1>2 DEF Once, LevelOnce
    <2> QED
      BY <1>2, <2>1 DEF Once
  <1>3. ASSUME NEW k \in Level, Answer(k) PROVE Once'
    <2>1. PICK i \in Complete(k) \ answered[k] :
              /\ answered' = [answered EXCEPT ![k] = @ \cup {i}]
              /\ fromSrv' = [fromSrv EXCEPT ![k] = Append(@, i)]
      BY <1>3 DEF Answer
    <2>2. got' = got
      BY <1>3 DEF Answer
    <2>3. /\ answered'[k] = answered[k] \cup {i} /\ fromSrv'[k] = Append(fromSrv[k], i)
          /\ \A j \in Level : j # k => answered'[j] = answered[j] /\ fromSrv'[j] = fromSrv[j]
      BY <2>1 DEF TypeOK
    <2>4. Has(k, [req |-> i, part |-> 0]) /\ i \in Reqs
      BY DEF Complete
    <2>5. \A a \in 1 .. Len(got) : got[a] # i
      <3> SUFFICES ASSUME NEW a \in 1 .. Len(got), got[a] = i PROVE FALSE
        OBVIOUS
      <3>1. PICK j \in Level : i \in answered[j]
        BY DEF Once
      <3> QED
        BY <3>1, OneServer
    <2>6. LevelOnce(k)'
      <3>0. LevelOnce(k)
        BY DEF Once
      <3> DEFINE f == fromSrv[k]
                 g == Append(f, i)
      <3>1. /\ Len(f) \in Nat /\ Len(g) = Len(f) + 1 /\ g[Len(f) + 1] = i
            /\ \A b \in 1 .. Len(f) : g[b] = f[b]
        BY <1>0, <2>4
      <3> HIDE DEF g
      <3>2. \A b \in 1 .. Len(g) : \/ b \in 1 .. Len(f) /\ g[b] = f[b]
                                   \/ b = Len(f) + 1 /\ g[b] = i
        BY <3>1
      <3>3. \A b \in 1 .. Len(f) : f[b] \in answered[k] /\ f[b] # i
        BY <3>0 DEF LevelOnce
      <3>4. \A b \in 1 .. Len(g) : g[b] \in answered'[k]
        BY <3>2, <3>3, <2>3
      <3>5. \A a, b \in 1 .. Len(g) : g[a] = g[b] => a = b
        BY <3>0, <3>2, <3>3 DEF LevelOnce
      <3>6. \A a \in 1 .. Len(got), b \in 1 .. Len(g) : got[a] # g[b]
        BY <3>0, <3>2, <2>5 DEF LevelOnce
      <3>7. \A x \in answered'[k] : Has(k, [req |-> x, part |-> 0])'
        BY <3>0, <2>3, <2>4, <1>1 DEF LevelOnce
      <3>8. fromSrv'[k] = g
        BY <2>3 DEF g
      <3> QED
        BY <3>4, <3>5, <3>6, <3>7, <3>8, <2>2 DEF LevelOnce
    <2>7. ASSUME NEW j \in Level, j # k PROVE LevelOnce(j)'
      <3>1. LevelOnce(j) /\ answered'[j] = answered[j] /\ fromSrv'[j] = fromSrv[j]
        BY <2>3, <2>7 DEF Once
      <3>2. \A p : Has(j, p) => Has(j, p)'
        BY <1>1
      <3> QED
        BY <3>1, <3>2, <2>2 DEF LevelOnce
    <2> QED
      BY <2>2, <2>3, <2>6, <2>7 DEF Once
  <1>4. ASSUME NEW k \in Level, Break(k) PROVE Once'
    <2>1. /\ UNCHANGED <<got, answered>> /\ fromSrv'[k] = << >>
          /\ \A j \in Level : j # k => fromSrv'[j] = fromSrv[j]
      BY <1>4 DEF Break, TypeOK
    <2>2. Len(<< >>) = 0
      OBVIOUS
    <2>3. \A j \in Level : LevelOnce(j)'
      BY <2>1, <2>2, <1>1 DEF Once, LevelOnce
    <2> QED
      BY <2>1, <2>3 DEF Once
  <1>5. ASSUME NEW k \in Level, Response(k) PROVE Once'
    <2> DEFINE f == fromSrv[k]
               h == f[1]
               t == Tail(f)
    <2>1. /\ f # << >> /\ fromSrv'[k] = t /\ answered' = answered
          /\ \A j \in Level : j # k => fromSrv'[j] = fromSrv[j]
          /\ got' = Append(got, Head(f)) \/ got' = got
      BY <1>5 DEF Response, TypeOK
    <2>2. /\ Len(f) \in Nat /\ Len(f) >= 1 /\ Head(f) = h /\ h \in Reqs
          /\ Len(t) = Len(f) - 1 /\ \A i \in 1 .. Len(f) - 1 : t[i] = f[i + 1]
      BY <1>0, <2>1, HeadAndTail
    <2> HIDE DEF f, h, t
    <2>3. /\ \A i \in answered[k] : Has(k, [req |-> i, part |-> 0])
          /\ \A b \in 1 .. Len(f) : f[b] \in answered[k]
          /\ \A a, b \in 1 .. Len(f) : f[a] = f[b] => a = b
          /\ \A a \in 1 .. Len(got), b \in 1 .. Len(f) : got[a] # f[b]
      BY DEF Once, LevelOnce, f
    <2>4. \A i \in 1 .. Len(t) : i + 1 \in 1 .. Len(f) /\ t[i] = f[i + 1] /\ i + 1 # 1
      BY <2>2
    <2>5. 1 \in 1 .. Len(f) /\ h = f[1]
      BY <2>2 DEF h
    <2>6. \A j \in Level : j # k => \A b \in 1 .. Len(fromSrv[j]) : fromSrv[j][b] # h
      <3> SUFFICES ASSUME NEW j \in Level, j # k, NEW b \in 1 .. Len(fromSrv[j]), fromSrv[j][b] = h
                   PROVE  FALSE
        OBVIOUS
      <3>1. h \in answered[j] /\ h \in answered[k]
        BY <2>3, <2>5 DEF Once, LevelOnce
      <3> QED
        BY <3>1, OneServer
    <2>7. /\ \A i \in 1 .. Len(t) : t[i] \in answered[k] /\ t[i] # h
          /\ \A a \in 1 .. Len(got), b \in 1 .. Len(t) : got[a] # t[b]
      BY <2>3, <2>4, <2>5
    <2>8. \A a, b \in 1 .. Len(t) : t[a] = t[b] => a = b
      <3> SUFFICES ASSUME NEW a \in 1 .. Len(t), NEW b \in 1 .. Len(t), t[a] = t[b] PROVE a = b
        OBVIOUS
      <3>1. a + 1 = b + 1
        BY <2>3, <2>4
      <3> QED
        BY <3>1
    <2>9. \A a \in 1 .. Len(got') : (a \in 1 .. Len(got) /\ got'[a] = got[a])
                                     \/ (a = Len(got) + 1 /\ got'[a] = h)
      BY <1>0, <2>1, <2>2
    <2>10. ASSUME NEW j \in Level PROVE LevelOnce(j)'
      <3>1. CASE j = k
        <4>1. \A a \in 1 .. Len(got'), b \in 1 .. Len(t) : got'[a] # t[b]
          BY <2>7, <2>9
        <4> QED
          BY <3>1, <4>1, <2>1, <2>3, <2>7, <2>8, <1>1 DEF LevelOnce
      <3>2. CASE j # k
        <4>1. \A a \in 1 .. Len(got'), b \in 1 .. Len(fromSrv[j]) : got'[a] # fromSrv[j][b]
          BY <3>2, <2>6, <2>9 DEF Once, LevelOnce
        <4> QED
          BY <3>2, <4>1, <2>1, <1>1 DEF Once, LevelOnce
      <3> QED
        BY <3>1, <3>2
    <2>11. \A a \in 1 .. Len(got') : \E j \in Level : got'[a] \in answered'[j]
      BY <2>1, <2>3, <2>5, <2>9 DEF Once
    <2>12. \A a, b \in 1 .. Len(got') : got'[a] = got'[b] => a = b
      BY <2>3, <2>5, <2>9 DEF Once
    <2> QED
      BY <2>10, <2>11, <2>12 DEF Once
  <1>6. CASE Client
    BY <1>2, <1>6 DEF Client, SendHeader, SendPart, ClientClose, Arrive
  <1>7. ASSUME NEW k \in Level, RequestCopier(k) PROVE Once'
    BY <1>2, <1>7 DEF RequestCopier, ReadBody, ReadNext, SetIdle, MakeBuf, CopyBuf, ReadEnds,
                      SetClosed
  <1>8. ASSUME NEW k \in Level, Transfer(k) PROVE Once'
    <2>1. CASE HandleConn(k)
      BY <1>2, <2>1 DEF HandleConn, Serve, GiveUp
    <2> QED
      BY <1>2, <1>5, <1>8, <2>1 DEF Transfer, EofIdle, EofActive, ServerEnds, HandshakeFails,
                                  NestedReturns, HandleBlank, HandleBuf, Serve, GiveUp, Return
  <1>9. ASSUME NEW k \in Level, ServerClose(k) PROVE Once'
    BY <1>2, <1>9 DEF ServerClose
  <1> QED
    BY <1>3, <1>4, <1>6, <1>7, <1>8, <1>9 DEF Next, Server

\* What a server answered reaches the client before the next level may write to it.
LEMMA HandedStep ==
    ASSUME TypeOK, Stack, Once, Handed, Next
    PROVE  Handed'
  <1> USE DEF client, wires, procs, server
  <1> SUFFICES ASSUME NEW k \in Level \ {0} PROVE LevelHanded(k)'
    BY DEF Handed
  <1>0. LevelHanded(k) /\ got \in Seq(Reqs) /\ fromSrv[k] \in Seq(Reqs)
    BY DEF Handed, TypeOK
  <1>1. ASSUME spc'[k] = spc[k] \/ spc'[k] \notin {"read", "keep", "nested"}
                  \/ (spc[k] = "keep" /\ spc'[k] = "nested"),
               UNCHANGED got, fromSrv'[k] = fromSrv[k], answered'[k] = answered[k],
               srv'[k] = srv[k]
        PROVE  LevelHanded(k)'
    BY <1>0, <1>1 DEF LevelHanded, Answered
  <1>2. CASE Client
    <2>1. UNCHANGED <<got, spc, server>>
      BY <1>2 DEF Client, SendHeader, SendPart, ClientClose, Arrive
    <2> QED
      BY <2>1, <1>1
  <1>3. ASSUME NEW j \in Level, Server(j) PROVE LevelHanded(k)'
    <2>0. UNCHANGED <<got, spc>> /\ srv[j] = "open"
      BY <1>3 DEF Server, Answer, ServerClose, Break
    <2>1. CASE j # k
      <3>1. fromSrv'[k] = fromSrv[k] /\ answered'[k] = answered[k] /\ srv'[k] = srv[k]
        BY <1>3, <2>1 DEF Server, Answer, ServerClose, Break, TypeOK
      <3> QED
        BY <3>1, <2>0, <1>1
    <2>2. CASE j = k
      <3>0. spc[k] \notin {"keep", "nested"}
        BY <1>0, <2>0, <2>2 DEF LevelHanded
      <3>1. CASE Answer(k)
        <4>1. PICK i \in Reqs :
                  /\ answered'[k] = answered[k] \cup {i}
                  /\ fromSrv'[k] = Append(fromSrv[k], i)
                  /\ srv'[k] = srv[k]
          BY <3>1 DEF Answer, Complete, TypeOK
        <4> DEFINE f == fromSrv[k]
                   g == Append(f, i)
        <4>2. /\ DOMAIN f = 1 .. Len(f) /\ DOMAIN g = 1 .. Len(f) + 1 /\ g[Len(f) + 1] = i
              /\ \A b \in 1 .. Len(f) : g[b] = f[b]
              /\ Len(f) \in Nat
          BY <1>0
        <4> HIDE DEF g
        <4>3. ASSUME spc[k] = "read", srv[k] # "reset", NEW x \in answered'[k]
              PROVE  Answered(x) \/ \E b \in DOMAIN g : g[b] = x
          <5>1. CASE x = i
            BY <4>2, <5>1
          <5>2. CASE x \in answered[k]
            BY <4>2, <4>3, <5>2, <1>0 DEF LevelHanded
          <5> QED
            BY <4>1, <5>1, <5>2
        <4>4. fromSrv'[k] = g
          BY <4>1 DEF g
        <4> QED
          BY <4>1, <4>3, <4>4, <3>0, <2>0 DEF LevelHanded, Answered
      <3>2. CASE ServerClose(k)
        <4>1. UNCHANGED <<fromSrv, answered>>
          BY <3>2 DEF ServerClose
        <4> QED
          BY <4>1, <3>0, <2>0, <2>2, <1>0 DEF LevelHanded, Answered
      <3>3. CASE Break(k)
        <4>1. srv'[k] = "reset"
          BY <3>3 DEF Break, TypeOK
        <4> QED
          BY <4>1, <3>0, <2>0 DEF LevelHanded
      <3> QED
        BY <1>3, <2>2, <3>1, <3>2, <3>3 DEF Server
    <2> QED
      BY <2>1, <2>2
  <1>4. ASSUME NEW j \in Level, RequestCopier(j) PROVE LevelHanded(k)'
    <2>1. UNCHANGED <<got, spc, fromSrv, answered, srv>>
      BY <1>4 DEF RequestCopier, ReadBody, ReadNext, SetIdle, MakeBuf, CopyBuf, ReadEnds, SetClosed
    <2> QED
      BY <2>1, <1>1
  <1>5. ASSUME NEW j \in Level, Transfer(j) PROVE LevelHanded(k)'
    <2>1. CASE Response(j)
      <3> DEFINE f == fromSrv[j]
                 t == Tail(f)
      <3>1. /\ f # << >> /\ spc[j] = "read" /\ answered' = answered /\ srv' = srv
            /\ fromSrv' = [fromSrv EXCEPT ![j] = t]
            /\ \/ got' = Append(got, Head(f)) /\ spc' = spc
               \/ spc' = [spc EXCEPT ![j] = "wait"] /\ got' = got
        BY <2>1 DEF Response
      <3>2. f \in Seq(Reqs)
        BY DEF TypeOK
      <3>3. /\ Len(f) \in Nat /\ Len(f) >= 1 /\ Head(f) = f[1] /\ f[1] \in Reqs
            /\ t \in Seq(Reqs) /\ Len(t) = Len(f) - 1 /\ \A i \in 1 .. Len(f) - 1 : t[i] = f[i + 1]
        BY <3>1, <3>2, HeadAndTail
      <3>4. \A i : Answered(i) => Answered(i)'
        <4>1. \A h \in Reqs, b \in DOMAIN got : /\ b \in DOMAIN Append(got, h)
                                                /\ Append(got, h)[b] = got[b]
          BY <1>0
        <4> QED
          BY <4>1, <3>1, <3>3 DEF Answered
      <3>5. CASE j # k
        <4>1. fromSrv'[k] = fromSrv[k] /\ spc'[k] = spc[k]
          BY <3>1, <3>5 DEF TypeOK
        <4> QED
          BY <4>1, <3>1, <3>4, <1>0 DEF LevelHanded
      <3>6. CASE j = k /\ got' = Append(got, Head(f)) /\ spc' = spc
        <4> HIDE DEF f, t
        <4>1. fromSrv'[k] = t
          BY <3>1, <3>6 DEF TypeOK
        <4>2. \E a \in DOMAIN got' : got'[a] = f[1]
          <5>1. got' = Append(got, f[1]) /\ f[1] \in Reqs
            BY <3>3, <3>6
          <5>2. Len(got) + 1 \in DOMAIN got' /\ got'[Len(got) + 1] = f[1]
            BY <5>1, <1>0
          <5> QED
            BY <5>2
        <4>3. ASSUME srv[k] # "reset", NEW i \in answered[k]
              PROVE  Answered(i)' \/ \E b \in DOMAIN t : t[b] = i
          <5>1. Answered(i) \/ \E b \in DOMAIN f : f[b] = i
            BY <4>3, <3>1, <3>6, <1>0 DEF LevelHanded, f
          <5>2. ASSUME NEW b \in DOMAIN f, f[b] = i, b # 1
                PROVE  \E c \in DOMAIN t : t[c] = i
            <6>1. b - 1 \in 1 .. Len(f) - 1 /\ (b - 1) + 1 = b
              BY <5>2, <3>2, <3>3 DEF f
            <6>2. b - 1 \in DOMAIN t /\ t[b - 1] = f[b]
              BY <6>1, <3>3
            <6> QED
              BY <6>2, <5>2
          <5>3. ASSUME NEW b \in DOMAIN f, f[b] = i, b = 1
                PROVE  Answered(i)'
            BY <5>3, <4>2 DEF Answered
          <5> QED
            BY <5>1, <5>2, <5>3, <3>4
        <4> QED
          BY <4>1, <4>3, <3>1, <3>6 DEF LevelHanded
      <3>7. CASE j = k /\ spc' = [spc EXCEPT ![j] = "wait"]
        BY <3>7 DEF LevelHanded, TypeOK
      <3> QED
        BY <3>1, <3>5, <3>6, <3>7
    <2>2. CASE EofIdle(j)
      <3>1. /\ UNCHANGED <<got, fromSrv, answered, srv>> /\ AtEof(j)
            /\ spc' = [spc EXCEPT ![j] = "keep"]
        BY <2>2 DEF EofIdle
      <3>2. CASE j = k
        BY <3>1, <3>2, <1>0 DEF LevelHanded, Answered, AtEof
      <3>3. CASE j # k
        <4>1. spc'[k] = spc[k]
          BY <3>1, <3>3 DEF TypeOK
        <4> QED
          BY <4>1, <3>1, <1>1
      <3> QED
        BY <3>2, <3>3
    <2>3. CASE \/ EofActive(j) \/ ServerEnds(j) \/ HandshakeFails(j) \/ HandleBlank(j)
               \/ NestedReturns(j) \/ Return(j)
      <3>1. /\ UNCHANGED <<got, fromSrv, answered, srv>>
            /\ spc'[k] = spc[k] \/ spc'[k] \in {"wait", "ret"}
        BY <2>3 DEF EofActive, ServerEnds, HandshakeFails, HandleBlank, GiveUp, NestedReturns,
                    Return, TypeOK
      <3> QED
        BY <3>1, <1>1
    <2>4. ASSUME NEW more, GiveUp(j, more) PROVE LevelHanded(k)'
      <3>1. /\ UNCHANGED <<got, fromSrv, answered, srv>>
            /\ spc'[k] = spc[k] \/ spc'[k] = "wait"
        BY <2>4 DEF GiveUp, TypeOK
      <3> QED
        BY <3>1, <1>1
    <2>5. ASSUME j < MaxReq, spc[j] = "keep", NEW d, NEW more, Serve(j, d, more)
          PROVE  LevelHanded(k)'
      <3>1. /\ j + 1 \in Level /\ spc[j + 1] = "off" /\ j # j + 1
        BY <2>5, TunnelAssumption DEF Stack, Level
      <3>2. /\ UNCHANGED <<got, fromSrv, answered, srv>>
            /\ spc' = [spc EXCEPT ![j] = "nested", ![j + 1] = "read"]
        BY <2>5 DEF Serve
      <3>3. CASE k = j + 1
        <4>1. toSrv[k] = << >> /\ LevelOnce(k)
          BY <3>1, <3>3 DEF Stack, LevelOK, Once
        <4>2. answered[k] = {}
          BY <4>1 DEF LevelOnce, Has
        <4> QED
          BY <3>1, <3>2, <3>3, <4>2 DEF LevelHanded, TypeOK
      <3>4. CASE k # j + 1
        <4>1. spc'[k] = spc[k] \/ (spc[k] = "keep" /\ spc'[k] = "nested")
          BY <3>2, <3>4, <2>5 DEF TypeOK
        <4> QED
          BY <4>1, <3>2, <1>1
      <3> QED
        BY <3>3, <3>4
    <2>6. CASE j < MaxReq /\ (HandleBuf(j) \/ HandleConn(j))
      BY <2>4, <2>5, <2>6 DEF HandleBuf, HandleConn
    <2> QED
      BY <1>5, <2>1, <2>2, <2>3, <2>6 DEF Transfer
  <1> QED
    BY <1>2, <1>3, <1>4, <1>5 DEF Next

\* A client that gets no answer twice gets at most as many as it sent requests.
LEMMA Pigeons ==
    ASSUME NEW s \in Seq(Reqs), \A a, b \in 1 .. Len(s) : s[a] = s[b] => a = b
    PROVE  Len(s) <= MaxReq
  <1>1. MaxReq \in Nat /\ 0 \in Int /\ 1 \in Int
    BY TunnelAssumption
  <1>2. Len(s) \in Nat /\ s \in [1 .. Len(s) -> Reqs]
    OBVIOUS
  <1>3. IsFiniteSet(Reqs) /\ Cardinality(Reqs) = MaxReq
    BY <1>1, FS_Interval DEF Reqs
  <1>4. IsFiniteSet(1 .. Len(s)) /\ Cardinality(1 .. Len(s)) = Len(s)
    <2> DEFINE n == Len(s)
    <2>1. n \in Nat /\ n \in Int /\ 1 \in Int
      BY <1>2
    <2> HIDE DEF n
    <2>2. IsFiniteSet(1 .. n) /\ Cardinality(1 .. n) = IF 1 > n THEN 0 ELSE n - 1 + 1
      BY <2>1, FS_Interval
    <2>3. Cardinality(1 .. n) = n
      BY <2>1, <2>2
    <2> QED
      BY <2>2, <2>3 DEF n
  <1> SUFFICES ASSUME MaxReq < Len(s) PROVE FALSE
    BY <1>1, <1>2
  <1>5. \E a, b \in 1 .. Len(s) : a # b /\ s[a] = s[b]
    BY <1>2, <1>3, <1>4, FS_PigeonHole
  <1> QED
    BY <1>5

\* The types survive every step.
LEMMA TypeStep ==
    ASSUME TypeOK, Stack, Flow, Past, Once, Next
    PROVE  TypeOK'
  <1> USE DEF client, wires, procs, server
  <1>0. /\ Plan(kind, len) /\ inbox \in Seq(Part)
        /\ sent \in [req : Nat, part : Nat] /\ (sent.req > 0 => sent \in Part)
        /\ \A k \in Level : toSrv[k] \in Seq(Part) /\ data[k] \in Seq(Part) /\ unread[k] \in Int
    BY Typed
  <1>1. ASSUME NEW p \in Part, Arrive(p), Plan(kind', len') PROVE TypeOK'
    <2>1. Append(inbox, p) \in Seq(Part)
      BY <1>0
    <2> QED
      BY <1>1, <2>1 DEF Arrive, Plan, TypeOK
  <1>2. CASE SendHeader
    <2>1. sent.req \in Nat /\ sent.req + 1 \in Reqs
      BY <1>0, <1>2, TunnelAssumption DEF SendHeader, Reqs
    <2>2. [req |-> sent.req + 1, part |-> 0] \in Part
      BY <2>1, TunnelAssumption DEF Part
    <2>3. Plan(kind', len')
      <3>1. PICK kd \in {"plain", "long", "upgrade"}, n \in 0 .. MaxBody :
                /\ kind' = [kind EXCEPT ![sent.req + 1] = kd]
                /\ len' = [len EXCEPT ![sent.req + 1] = n]
        BY <1>2 DEF SendHeader
      <3> QED
        BY <3>1, <2>1, <1>0 DEF Plan
    <2> QED
      BY <1>1, <1>2, <2>2, <2>3 DEF SendHeader
  <1>3. CASE SendPart
    <2>1. sent.req > 0 /\ sent.part < Following(sent.req) /\ UNCHANGED <<kind, len>>
          /\ Arrive([sent EXCEPT !.part = @ + 1])
      BY <1>3 DEF SendPart
    <2>2. sent \in Part /\ sent.req \in Reqs /\ sent.part \in Nat
      BY <2>1, <1>0, PartTyped
    <2>3. Following(sent.req) \in Nat /\ Following(sent.req) <= MaxBody
      BY <2>2, <1>0, TunnelAssumption DEF Following, Plan
    <2>4. [sent EXCEPT !.part = @ + 1] \in Part
      BY <2>1, <2>2, <2>3, TunnelAssumption DEF Part
    <2> QED
      BY <2>1, <2>4, <1>0, <1>1
  <1>4. CASE ClientClose
    BY <1>4 DEF ClientClose, TypeOK
  <1>5. ASSUME NEW k \in Level, Server(k) PROVE TypeOK'
    <2>1. CASE Answer(k)
      <3>1. PICK i \in Reqs :
                /\ answered' = [answered EXCEPT ![k] = @ \cup {i}]
                /\ fromSrv' = [fromSrv EXCEPT ![k] = Append(@, i)]
        BY <2>1 DEF Answer, Complete
      <3>2. Append(fromSrv[k], i) \in Seq(Reqs) /\ answered[k] \cup {i} \in SUBSET Reqs
        BY DEF TypeOK
      <3> QED
        BY <2>1, <3>1, <3>2 DEF Answer, TypeOK
    <2>2. CASE ServerClose(k)
      BY <2>2 DEF ServerClose, TypeOK
    <2>3. CASE Break(k)
      BY <2>3, TunnelAssumption DEF Break, TypeOK
    <2> QED
      BY <1>5, <2>1, <2>2, <2>3 DEF Server
  <1>6. ASSUME NEW n \in 1 .. Len(inbox)
        PROVE  SubSeq(inbox, 1, n) \in Seq(Part) /\ Rest(inbox, n) \in Seq(Part)
    <2>1. n \in 0 .. Len(inbox)
      BY <1>0
    <2> QED
      BY <2>1, <1>0, Cut
  <1>7. ASSUME NEW k \in Level, RequestCopier(k) PROVE TypeOK'
    <2>1. CASE ReadBody(k)
      <3>1. PICK n \in 1 .. Len(inbox) :
                /\ inbox' = Rest(inbox, n)
                /\ unread' = [unread EXCEPT ![k] = Count(@, n)]
                /\ Forward(k, SubSeq(inbox, 1, n))
        BY <2>1 DEF ReadBody
      <3>2. Count(unread[k], n) \in Int
        BY <1>0 DEF Count
      <3>3. toSrv[k] \o SubSeq(inbox, 1, n) \in Seq(Part)
        BY <1>0, <1>6, ConcatProperties
      <3>4. /\ toSrv' \in [Level -> Seq(Part)]
            /\ rpc' \in [Level -> {"off", "read", "idle", "make", "copy", "close", "done"}]
        <4>1. CASE UNCHANGED rpc /\ toSrv' = [toSrv EXCEPT ![k] = @ \o SubSeq(inbox, 1, n)]
          BY <4>1, <3>3 DEF TypeOK
        <4>2. CASE rpc' \in {rpc, [rpc EXCEPT ![k] = "done"]} /\ UNCHANGED toSrv
          BY <4>2 DEF TypeOK
        <4> QED
          BY <3>1, <4>1, <4>2 DEF Forward
      <3> QED
        BY <2>1, <3>1, <3>2, <3>4, <1>6 DEF ReadBody, TypeOK
    <2>2. CASE ReadNext(k)
      BY <2>2, <1>6 DEF ReadNext, TypeOK
    <2>3. CASE SetIdle(k)
      BY <2>3 DEF SetIdle, TypeOK
    <2>4. CASE MakeBuf(k)
      BY <2>4 DEF MakeBuf, TypeOK
    <2>5. CASE CopyBuf(k)
      BY <2>5 DEF CopyBuf, TypeOK
    <2>6. CASE ReadEnds(k)
      BY <2>6 DEF ReadEnds, TypeOK
    <2>7. CASE SetClosed(k)
      BY <2>7 DEF SetClosed, TypeOK
    <2> QED
      BY <1>7, <2>1, <2>2, <2>3, <2>4, <2>5, <2>6, <2>7 DEF RequestCopier
  <1>8. ASSUME NEW k \in Level, Transfer(k) PROVE TypeOK'
    <2>1. CASE Response(k)
      <3> DEFINE f == fromSrv[k]
                 t == Tail(f)
      <3>1. /\ f # << >> /\ fromSrv' = [fromSrv EXCEPT ![k] = t]
            /\ got' = Append(got, Head(f)) \/ got' = got
            /\ spc' = spc \/ spc' = [spc EXCEPT ![k] = "wait"]
            /\ UNCHANGED <<kind, len, sent, inbox, cfin, copen, rpc, curState, unread, data, buf,
                           toSrv, wfin, answered, srv, resets>>
        BY <2>1 DEF Response
      <3>2. f \in Seq(Reqs) /\ got \in Seq(Reqs)
        BY DEF TypeOK
      <3>3. Head(f) \in Reqs /\ t \in Seq(Reqs)
        BY <3>1, <3>2, HeadAndTail
      <3>4. got' \in Seq(Reqs)
        BY <3>1, <3>2, <3>3
      <3>5. Len(got') <= MaxReq
        <4>1. Once'
          BY OnceStep
        <4>2. \A a, b \in 1 .. Len(got') : got'[a] = got'[b] => a = b
          BY <4>1 DEF Once
        <4> QED
          BY <3>4, <4>2, Pigeons
      <3> HIDE DEF f, t
      <3> QED
        BY <3>1, <3>3, <3>4, <3>5 DEF TypeOK
    <2>2. ASSUME spc' \in {[spc EXCEPT ![k] = v] : v \in {"keep", "wait", "ret"}},
                 copen' \in BOOLEAN, NEW more \in Seq(Part), inbox' = more,
                 UNCHANGED <<client, cfin, got, rpc, curState, unread, data, buf, server>>
          PROVE  TypeOK'
      <3>1. spc' \in [Level -> {"off", "read", "keep", "nested", "wait", "ret"}]
        <4>1. PICK v \in {"keep", "wait", "ret"} : spc' = [spc EXCEPT ![k] = v]
          BY <2>2
        <4> QED
          BY <4>1 DEF TypeOK
      <3> QED
        BY <2>2, <3>1 DEF TypeOK
    <2>3. CASE \/ EofIdle(k) \/ EofActive(k) \/ ServerEnds(k) \/ HandleBlank(k)
               \/ NestedReturns(k) \/ Return(k)
      <3>1. copen \in BOOLEAN
        BY DEF TypeOK
      <3>2. /\ spc' \in {[spc EXCEPT ![k] = v] : v \in {"keep", "wait", "ret"}}
            /\ copen' \in BOOLEAN /\ inbox' = inbox
            /\ UNCHANGED <<client, cfin, got, rpc, curState, unread, data, buf, server>>
        BY <2>3, <3>1 DEF EofIdle, EofActive, ServerEnds, HandleBlank, GiveUp, NestedReturns, Return
      <3> QED
        BY <3>2, <2>2, <1>0
    <2>4. ASSUME NEW more \in Seq(Part), GiveUp(k, more) PROVE TypeOK'
      BY <2>4 DEF GiveUp, TypeOK
    <2>5. ASSUME k < MaxReq, NEW d \in Seq(Part), d # << >>, IsHttp(d), NEW more \in Seq(Part),
                 Serve(k, d, more)
          PROVE  TypeOK'
      <3> DEFINE i == d[1].req
                 m == BodyBuf(d) + 1
      <3>1. k + 1 \in Level
        BY <2>5, TunnelAssumption DEF Level
      <3>2. d[1] \in Part /\ Len(d) \in Nat /\ Len(d) >= 1
        BY <2>5
      <3>3. i \in Reqs /\ len[i] \in Nat /\ kind[i] \in {"plain", "long", "upgrade"}
        BY <3>2, <1>0, PartTyped DEF Plan
      <3>4. m \in 0 .. Len(d) /\ ClientUnRead(d) \in Int
        BY <3>2, <3>3 DEF BodyBuf, ClientUnRead
      <3>5. SubSeq(d, 1, m) \in Seq(Part) /\ Rest(d, m) \in Seq(Part)
        <4> HIDE DEF m
        <4> QED
          BY <3>4, Cut
      <3>6. Rest(d, m) \o more \in Seq(Part)
        BY <3>5, ConcatProperties
      <3> QED
        BY <2>5, <3>1, <3>4, <3>5, <3>6 DEF Serve, TypeOK
    <2>6. CASE k < MaxReq /\ HandleBuf(k)
      <3>1. spc[k] = "keep" /\ buf[k] = "full" /\ Serve(k, data[k], inbox)
        BY <2>6 DEF HandleBuf
      <3>2. data[k] # << >>
        BY <3>1 DEF Stack, LevelOK
      <3>3. IsHttp(data[k])
        BY <3>1, <3>2 DEF Flow, LevelFlows, Pending
      <3> QED
        BY <2>5, <2>6, <3>1, <3>2, <3>3, <1>0
    <2>7. CASE k < MaxReq /\ HandleConn(k)
      <3>1. ASSUME NEW n \in 1 .. Len(inbox), IsHttp(SubSeq(inbox, 1, n)),
                   Serve(k, SubSeq(inbox, 1, n), Rest(inbox, n))
            PROVE  TypeOK'
        <4>1. Len(SubSeq(inbox, 1, n)) = n /\ n >= 1
          <5>1. n \in 0 .. Len(inbox) /\ n >= 1
            BY <1>0
          <5> QED
            BY <5>1, <1>0, Cut
        <4>2. SubSeq(inbox, 1, n) # << >>
          BY <4>1
        <4> QED
          BY <2>5, <2>7, <3>1, <4>2, <1>6
      <3>2. ASSUME NEW n \in 1 .. Len(inbox), GiveUp(k, Rest(inbox, n)) PROVE TypeOK'
        BY <2>4, <3>2, <1>6
      <3>3. CASE GiveUp(k, inbox)
        BY <2>4, <3>3, <1>0
      <3> QED
        BY <2>7, <3>1, <3>2, <3>3 DEF HandleConn
    <2>8. CASE k < MaxReq /\ HandshakeFails(k)
      <3>1. resets + 1 \in 0 .. MaxReset
        BY <2>8, TunnelAssumption DEF HandshakeFails, TypeOK
      <3>2. inbox' \in Seq(Part)
        BY <2>8, <1>0, <1>6 DEF HandshakeFails
      <3> QED
        BY <2>8, <3>1, <3>2 DEF HandshakeFails, TypeOK
    <2> QED
      BY <1>8, <2>1, <2>3, <2>6, <2>7, <2>8 DEF Transfer
  <1> QED
    BY <1>2, <1>3, <1>4, <1>5, <1>7, <1>8 DEF Next, Client

----------------------------------------------------------------------------
(* The theorems.                                                           *)

\* The invariant holds before the client sends anything.
LEMMA InitInv ==
    ASSUME Init
    PROVE  IInv
  <1>1. 0 \in Level /\ << >> \in Seq(Part) /\ << >> \in Seq(Reqs) /\ Len(<< >>) = 0
    BY TunnelAssumption DEF Level
  <1>2. TypeOK
    BY <1>1, TunnelAssumption DEF Init, TypeOK, NoPart
  <1>3. Stack
    BY <1>1, TunnelAssumption DEF Init, Stack, FirstOK, LevelOK, Level
  <1>4. Flow /\ Past
    <2>1. Stream(kind, len, << >>) /\ Runs(inbox)
      BY <1>1 DEF Init, Stream, Runs, RunsTo
    <2>2. \A k \in Level : ~Pending(k) /\ rpc[k] # "read" /\ toSrv[k] = << >>
      BY DEF Init, Pending
    <2>3. \A k \in Level : LevelFlows(k) /\ LevelPast(k)
      BY <1>1, <2>1, <2>2 DEF LevelFlows, LevelPast, Before
    <2> QED
      BY <1>1, <2>1, <2>2, <2>3 DEF Init, Flow, Past
  <1>5. Counted /\ Handed
    BY DEF Init, Counted, Handed, LevelHanded
  <1>6. Once
    BY <1>1 DEF Init, Once, LevelOnce
  <1> QED
    BY <1>2, <1>3, <1>4, <1>5, <1>6 DEF IInv

\* Every step keeps the invariant.
LEMMA NextInv ==
    ASSUME IInv, [Next]_vars
    PROVE  IInv'
  <1>1. CASE Next
    BY <1>1, TypeStep, StackStep, FlowStep, OnceStep, HandedStep DEF IInv
  <1>2. CASE UNCHANGED vars
    <2>1. UNCHANGED <<kind, len, sent, inbox, cfin, copen, got, rpc, spc, curState, unread, data,
                      buf, toSrv, wfin, answered, fromSrv, srv, resets>>
      BY <1>2 DEF vars, client, wires, procs, server
    <2>2. Flow' /\ Past' /\ Counted'
      BY <2>1, Calm DEF IInv
    <2>3. TypeOK'
      BY <2>1 DEF IInv, TypeOK
    <2>4. Stack'
      BY <2>1 DEF IInv, Stack, FirstOK, LevelOK
    <2>5. Handed'
      BY <2>1 DEF IInv, Handed, LevelHanded, Answered
    <2>6. Once'
      BY <2>1 DEF IInv, Once, LevelOnce, Has
    <2> QED
      BY <2>2, <2>3, <2>4, <2>5, <2>6 DEF IInv
  <1> QED
    BY <1>1, <1>2

\* The levels form a stack, the client's stream is in order, its body is counted, and
\* no answer is given twice.
THEOREM TunnelInvariant == Spec => []IInv
  BY InitInv, NextInv, PTL DEF Spec

\* The variables have their types; in particular the client gets at most one answer for
\* each request (the bound on got).
THEOREM TunnelTypeCorrect == Spec => []TypeOK
  <1>1. IInv => TypeOK
    BY DEF IInv
  <1> QED
    BY <1>1, TunnelInvariant, PTL

\* transfer and KeepHandler never let two goroutines read the client's connection.
THEOREM OneReader == Spec => []SingleReader
  <1>1. IInv => SingleReader
    <2> SUFFICES ASSUME IInv PROVE SingleReader
      OBVIOUS
    <2>1. \A k \in Level : rpc[k] = "read" => Holds(k)
      BY DEF Holds
    <2>2. \A k \in Level : spc[k] = "keep" /\ (k = 0 \/ buf[k] = "full")
                              => Holds(k) /\ rpc[k] # "read"
      BY DEF IInv, Stack, LevelOK, Holds, Pending
    <2>3. \A j, k \in Level : Holds(j) /\ Holds(k) => j = k
      BY OneHolds DEF IInv
    <2> QED
      BY <2>1, <2>2, <2>3 DEF SingleReader
  <1> QED
    BY <1>1, TunnelInvariant, PTL

\* copyBuffer and KeepHandler forward each server a piece of the client's stream, with
\* nothing lost, repeated or moved inside it, and no part to two servers.
THEOREM PiecesForwarded == Spec => []WholeRequests
  <1>1. IInv => WholeRequests
    <2> SUFFICES ASSUME IInv PROVE WholeRequests
      OBVIOUS
    <2>0. \A k \in Level : toSrv[k] \in Seq(Part)
      BY Typed DEF IInv
    <2>1. \A k \in Level : toSrv[k] # << >> => IsHttp(toSrv[k])
      BY DEF IInv, Flow, LevelFlows
    <2>2. ASSUME NEW k \in Level, NEW j \in 1 .. Len(toSrv[k]) - 1
          PROVE  Succ(toSrv[k][j], toSrv[k][j + 1])
      <3>1. j \in 1 .. Len(toSrv[k]) /\ j + 1 \in 1 .. Len(toSrv[k]) /\ j < j + 1
        BY <2>0
      <3> QED
        BY <3>1 DEF IInv, Flow, LevelFlows, Stream
    <2>3. ASSUME NEW j \in Level, NEW k \in Level, NEW p, Has(j, p), Has(k, p)
          PROVE  j = k
      BY <2>0, <2>3 DEF IInv, Past, Has
    <2> QED
      BY <2>1, <2>2, <2>3 DEF WholeRequests, Succ
  <1> QED
    BY <1>1, TunnelInvariant, PTL

\* The EOF after which transfer calls KeepHandler comes when all that the server has
\* answered has been written to the client.
THEOREM ReuseAfterResponse == Spec => []HandoverAfterResponse
  <1>1. IInv => HandoverAfterResponse
    <2> SUFFICES ASSUME IInv, NEW k \in Level \ {0}, spc[k] \in {"keep", "nested"}
                 PROVE  fromSrv[k] = << >> /\ \A i \in answered[k] : Answered(i)
      BY DEF HandoverAfterResponse
    <2>1. LevelHanded(k)
      BY DEF IInv, Handed
    <2>2. DOMAIN << >> = {}
      OBVIOUS
    <2> QED
      BY <2>1, <2>2 DEF LevelHanded
  <1> QED
    BY <1>1, TunnelInvariant, PTL

\* clientUnRead is the number of parts of the body that the request copier has not read.
THEOREM UnreadCounts == Spec => []BodyCounted
  <1>1. IInv => BodyCounted
    <2> SUFFICES ASSUME IInv, NEW k \in Level, rpc[k] = "read", unread[k] > 0, inbox # << >>,
                        NEW i, i = toSrv[k][1].req
                 PROVE  Head(inbox) = [req |-> i, part |-> len[i] - unread[k] + 1]
      BY DEF BodyCounted
    <2>1. inbox[1] = [req |-> i, part |-> len[i] - unread[k] + 1]
      BY DEF IInv, Counted, UpTo
    <2>2. Head(inbox) = inbox[1]
      BY DEF IInv, TypeOK
    <2> QED
      BY <2>1, <2>2
  <1> QED
    BY <1>1, TunnelInvariant, PTL
=============================================================================
