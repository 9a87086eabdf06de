---------------------------- MODULE DetectProofs ----------------------------
(***************************************************************************)
(* What the buffered reader holds, what the detectors make of it and what   *)
(* goes to the server is the client's stream, for any streams, any size of  *)
(* the buffers, and however the stream is cut into portions.                *)
(***************************************************************************)
EXTENDS Detect, SequenceTheorems, WellFoundedInduction, TLAPS

----------------------------------------------------------------------------
(* The invariant.                                                          *)

\* A reader of a stream of n units: what it has not handed out yet was read into it.
GoodReader(n, b) ==
    /\ b \in [mem : Seq(0 .. n), r : Nat, w : Nat, err : BOOLEAN]
    /\ b.r <= b.w /\ b.w <= Len(b.mem)
    /\ \A i \in b.r + 1 .. b.w : b.mem[i] \in 1 .. n

\* The reader of a guess works in what the copier read, and nothing is left behind it.
GuessOK ==
    LET b == rd["guess"]
    IN  /\ Len(b.mem) < next
        /\ who = "guess" => /\ b.mem # << >> /\ \A i \in 1 .. Len(b.mem) : b.mem[i] # 0
                            /\ Req.r = Req.w
                            /\ pc \in {"peek", "line", "headers", "socks", "sreq", "guessed"}

\* What a detector has decided about the reader that it works on.
ProtoOK ==
    /\ pc \in {"peek", "line", "socks"} => proto[who] = "none"
    /\ pc = "headers" => proto[who] = "http"
    /\ pc = "sreq" => proto[who] = "socks5"
    /\ pc = "respond" => proto["req"] # "none"

Outside ==
    /\ stream \in Streams /\ sent \in 0 .. Len(stream) /\ next \in 1 .. sent + 1
    /\ fin \in BOOLEAN /\ tcpcopy \in BOOLEAN /\ keep \in BOOLEAN
    /\ clean \in [Reader -> BOOLEAN]
    /\ side \in {"client", "server"} /\ who \in Reader

Readers ==
    /\ rd \in [Reader -> [mem : Seq(0 .. Len(stream)), r : Nat, w : Nat, err : BOOLEAN]]
    /\ \A x \in Reader : GoodReader(Len(stream), rd[x]) /\ Size(rd[x]) <= BufSize

Inside ==
    /\ pc \in {"peek", "line", "headers", "socks", "sreq", "respond", "copy", "guessed", "end"}
    /\ proto \in [Reader -> {"none", "http", "socks5", "tcp"}]
    /\ taken \in [Reader -> Seq(1 .. Len(stream))] /\ toSrv \in Seq(1 .. Len(stream))
    /\ unread \in -Len(stream) .. BodyLen \cup {-1}
    /\ told \in Seq({"method", "granted", "established"})
    /\ start \in 1 .. Len(stream) + 1 /\ seen \in 0 .. BufSize /\ port \in 0 .. Len(stream)

\* What is at hand when.
Linked ==
    /\ Req.w - Req.r < next
    /\ Req.err => fin /\ next = sent + 1
    /\ pc = "guessed" => who = "guess"
    /\ pc = "sreq" => B.r = B.w
    /\ pc = "peek" => taken[who] = << >>

Types == Outside /\ Readers /\ Inside /\ ProtoOK /\ GuessOK /\ Linked

\* s is the stream from its unit a on.
Runs(s, a) == \A i \in 1 .. Len(s) : s[i] = a + i - 1

\* What b has not handed out yet are the units that were read last, up to unit a.
Holds(b, a) == \A i \in b.r + 1 .. b.w : b.mem[i] = a - b.w + i

Stored == clean["req"] => Holds(B, next - 1)

\* A guess that has not asked for more has its buffer as it was.
Untouched ==
    who = "guess" /\ clean["guess"] =>
        /\ clean["req"] /\ B.w = Len(B.mem) /\ ~B.err
        /\ Runs(B.mem, next - Len(B.mem))

\* The units of the first line and of the header come before those in the reader.
Parsed ==
    /\ who = "req" /\ clean["req"] /\ proto["req"] # "socks5"
            /\ pc \in {"peek", "line", "headers", "socks", "respond"} =>
        Runs(ReqHead, start) /\ start + Len(ReqHead) = next - (Req.w - Req.r)
    /\ clean["req"] /\ proto["req"] = "socks5" /\ pc = "respond" =>
        port + 1 = next - (Req.w - Req.r)

\* What the server got comes before what the copier has still to forward, and begins
\* where it should.
Held == IF who = "guess" THEN Len(rd["guess"].mem) ELSE Req.w - Req.r
First == next - Held - Len(toSrv)
Forwarded ==
    (pc = "copy" \/ who = "guess") /\ clean[who] =>
        /\ Runs(toSrv, First)
        /\ proto["req"] = "socks5" => First = port + 1
        /\ proto["req"] = "tcp" => First = start + Len(ReqHead)
        /\ proto["req"] = "http" /\ ~IsConnect => First = start

\* A connection for tcpcopy is not parsed.
NotParsed ==
    tcpcopy => /\ who = "req" /\ proto["req"] = "tcp" /\ pc \in {"respond", "copy", "end"}
               /\ pc = "copy" => unread = -1

\* The client has not sent an HTTP request line first, and will not.
NoHttp ==
    \/ stream[1] \notin Methods
    \/ \E i \in EolUnits : stream[i] \notin Versions /\ \A j \in EolUnits : i <= j
    \/ fin /\ \A i \in EolUnits : i > sent

\* What the detectors know of the first request.
Decided ==
    who = "req" /\ ~keep /\ pc \in {"peek", "line", "headers", "socks", "sreq", "respond"} =>
        /\ start = 1 /\ clean["req"]
        /\ pc = "line" => /\ stream[1] \in Methods /\ seen >= HeadLen
                          /\ \A i \in EolUnits : i > Len(ReqHead)
        /\ pc = "headers" => IsHttp /\ seen >= HeadLen
        /\ pc = "socks" => IF seen < HeadLen THEN Req.w - Req.r = seen ELSE NoHttp
        /\ pc = "sreq" => NoHttp
        /\ pc = "respond" /\ ~tcpcopy =>
            \/ proto["req"] = "http" /\ IsHttp /\ seen >= HeadLen
            \/ proto["req"] = "socks5" /\ NoHttp
            \/ proto["req"] = "tcp" /\ (seen < HeadLen \/ NoHttp)

\* The units m begin with an HTTP request line, and have all of it.
LineIn(m) ==
    /\ Len(m) >= HeadLen /\ Class(m[1]) \in Methods
    /\ \E i \in 1 .. Len(m) : /\ m[i] \in EolUnits /\ Class(m[i]) \in Versions
                              /\ \A j \in 1 .. i - 1 : m[j] \notin EolUnits

\* A guess that has found HTTP without asking for more found the request line in its
\* buffer, where the handler finds it again.
Agreed ==
    /\ who = "guess" /\ clean["guess"] =>
        /\ pc = "peek" => B.r = 0
        /\ pc = "line" => /\ B.r \in {0, B.w}
                          /\ Len(B.mem) >= HeadLen /\ Class(B.mem[1]) \in Methods
        /\ proto["guess"] = "http" => LineIn(B.mem)
    /\ who = "req" /\ keep /\ clean["req"] =>
        /\ pc \in {"peek", "line"} => B.r = 0 /\ B.w = Len(B.mem) /\ ~B.err /\ LineIn(B.mem)
        /\ pc \notin {"socks", "sreq"}
        /\ pc = "respond" => proto["req"] = "http"

IInv ==
    /\ Types /\ Stored /\ Untouched /\ Parsed /\ Forwarded /\ NotParsed /\ Decided /\ Agreed

----------------------------------------------------------------------------
(* The reader's operations, on any reader of a stream of n units.          *)

\* The fields of a reader.
LEMMA Fields ==
    ASSUME NEW n \in Nat, NEW b, GoodReader(n, b)
    PROVE  /\ b.mem \in Seq(0 .. n) /\ b.r \in Nat /\ b.w \in Nat /\ b.err \in BOOLEAN
           /\ Len(b.mem) \in Nat /\ b.w - b.r \in Nat /\ b.w - b.r <= Len(b.mem)
           /\ DOMAIN b.mem = 1 .. Len(b.mem)
           /\ \A i \in 1 .. Len(b.mem) : b.mem[i] \in 0 .. n
  BY DEF GoodReader

\* A sequence given by its places.
LEMMA Listed ==
    ASSUME NEW S, NEW k \in Nat, NEW f \in [1 .. k -> S]
    PROVE  f \in Seq(S) /\ Len(f) = k
  OBVIOUS

\* k units of the stream from a on.
LEMMA SpanIs ==
    ASSUME NEW n \in Nat, NEW a \in Nat \ {0}, NEW k \in Nat, a + k - 1 <= n
    PROVE  /\ Span(a, a + k - 1) \in Seq(1 .. n) /\ Len(Span(a, a + k - 1)) = k
           /\ \A i \in 1 .. k : Span(a, a + k - 1)[i] = a + i - 1
  <1> DEFINE s == Span(a, a + k - 1)
  <1>1. a + k - 1 - a + 1 = k
    OBVIOUS
  <1>2. s = [i \in 1 .. k |-> a + i - 1]
    BY <1>1 DEF Span
  <1>3. \A i \in 1 .. k : a + i - 1 \in 1 .. n
    OBVIOUS
  <1> HIDE DEF s
  <1>4. s \in [1 .. k -> 1 .. n] /\ \A i \in 1 .. k : s[i] = a + i - 1
    BY <1>2, <1>3
  <1>5. s \in Seq(1 .. n) /\ Len(s) = k
    BY <1>4, Listed
  <1> QED
    BY <1>4, <1>5 DEF s

\* A sequence that runs from a on is a span.
LEMMA RunsSpan ==
    ASSUME NEW S, NEW s \in Seq(S), NEW a \in Int, NEW b \in Int, b - a + 1 = Len(s),
           Runs(s, a)
    PROVE  s = Span(a, b)
  <1>1. Span(a, b) = [i \in 1 .. Len(s) |-> a + i - 1]
    BY DEF Span
  <1>2. s = [i \in 1 .. Len(s) |-> s[i]]
    OBVIOUS
  <1>3. \A i \in 1 .. Len(s) : s[i] = a + i - 1
    BY DEF Runs
  <1> QED
    BY <1>1, <1>2, <1>3

\* What Window shows.
LEMMA WindowIs ==
    ASSUME NEW n \in Nat, NEW b, GoodReader(n, b)
    PROVE  /\ Window(b) \in Seq(1 .. n) /\ Len(Window(b)) = b.w - b.r
           /\ \A i \in 1 .. b.w - b.r : Window(b)[i] = b.mem[b.r + i]
  <1> DEFINE lo == b.r + 1
             hi == b.w
  <1>1. b.mem \in Seq(0 .. n) /\ b.r \in Nat /\ b.w \in Nat /\ b.r <= b.w /\ b.w <= Len(b.mem)
    BY Fields DEF GoodReader
  <1>2. lo \in Int /\ hi \in Int /\ \A i \in lo .. hi : b.mem[i] \in 1 .. n
    BY <1>1 DEF GoodReader
  <1>3. /\ SubSeq(b.mem, lo, hi) \in Seq(1 .. n)
        /\ Len(SubSeq(b.mem, lo, hi)) = IF lo <= hi THEN hi - lo + 1 ELSE 0
        /\ \A i \in 1 .. hi - lo + 1 : SubSeq(b.mem, lo, hi)[i] = b.mem[lo + i - 1]
    <2> HIDE DEF lo, hi
    <2> QED
      BY <1>2, SubSeqProperties
  <1>4. (IF lo <= hi THEN hi - lo + 1 ELSE 0) = b.w - b.r /\ hi - lo + 1 = b.w - b.r
    BY <1>1
  <1>5. \A i \in 1 .. b.w - b.r : lo + i - 1 = b.r + i
    BY <1>1
  <1>6. Window(b) = SubSeq(b.mem, lo, hi)
    BY DEF Window
  <1> HIDE DEF lo, hi
  <1> QED
    BY <1>3, <1>4, <1>5, <1>6

\* What the memory holds after a copy.
LEMMA PutIs ==
    ASSUME NEW n \in Nat, NEW mem \in Seq(0 .. n), NEW d \in Seq(1 .. n), NEW at \in Nat,
           at + Len(d) <= Len(mem)
    PROVE  /\ Put(mem, at, d) \in Seq(0 .. n) /\ Len(Put(mem, at, d)) = Len(mem)
           /\ \A i \in 1 .. Len(mem) :
                  Put(mem, at, d)[i] = IF at < i /\ i <= at + Len(d) THEN d[i - at] ELSE mem[i]
  <1> DEFINE p == Put(mem, at, d)
  <1>1. p = [i \in 1 .. Len(mem) |-> IF at < i /\ i <= at + Len(d) THEN d[i - at] ELSE mem[i]]
    BY DEF Put
  <1>2. ASSUME NEW i \in 1 .. Len(mem)
        PROVE  (IF at < i /\ i <= at + Len(d) THEN d[i - at] ELSE mem[i]) \in 0 .. n
    <2>1. CASE at < i /\ i <= at + Len(d)
      <3>1. i - at \in 1 .. Len(d)
        BY <2>1
      <3>2. d[i - at] \in 1 .. n
        BY <3>1, ElementOfSeq
      <3> QED
        BY <2>1, <3>2
    <2>2. CASE ~(at < i /\ i <= at + Len(d))
      BY <2>2
    <2> QED
      BY <2>1, <2>2
  <1> HIDE DEF p
  <1>3. p \in [1 .. Len(mem) -> 0 .. n]
    BY <1>1, <1>2
  <1>4. p \in Seq(0 .. n) /\ Len(p) = Len(mem)
    <2>1. Len(mem) \in Nat
      OBVIOUS
    <2> QED
      BY <1>3, <2>1, Listed
  <1> QED
    BY <1>1, <1>4 DEF p

\* The memory m is mem with d over its beginning.
Begins(n, mem, d, m) ==
    /\ m \in Seq(0 .. n) /\ Len(m) = Len(mem)
    /\ \A i \in 1 .. Len(mem) : m[i] = IF i <= Len(d) THEN d[i] ELSE mem[i]

\* A copy to the beginning of the memory.
LEMMA PutFront ==
    ASSUME NEW n \in Nat, NEW mem \in Seq(0 .. n), NEW d \in Seq(1 .. n), Len(d) <= Len(mem)
    PROVE  Begins(n, mem, d, Put(mem, 0, d))
  <1> DEFINE p == Put(mem, 0, d)
  <1>1. 0 + Len(d) <= Len(mem) /\ 0 \in Nat
    OBVIOUS
  <1>2. /\ p \in Seq(0 .. n) /\ Len(p) = Len(mem)
        /\ \A i \in 1 .. Len(mem) :
               p[i] = IF 0 < i /\ i <= 0 + Len(d) THEN d[i - 0] ELSE mem[i]
    BY <1>1, PutIs
  <1> HIDE DEF p
  <1>3. ASSUME NEW i \in 1 .. Len(mem)
        PROVE  p[i] = IF i <= Len(d) THEN d[i] ELSE mem[i]
    <2>1. 0 < i /\ i - 0 = i /\ 0 + Len(d) = Len(d)
      OBVIOUS
    <2> QED
      BY <1>2, <2>1
  <1> QED
    BY <1>2, <1>3 DEF p, Begins

\* No cell of the reader's memory is empty.
Full(b) == \A i \in 1 .. Len(b.mem) : b.mem[i] # 0

\* Sliding moves what has not been handed out to the beginning.
LEMMA SlideIs ==
    ASSUME NEW n \in Nat, NEW b, GoodReader(n, b)
    PROVE  /\ GoodReader(n, Slide(b))
           /\ Slide(b).r = 0 /\ Slide(b).w = b.w - b.r /\ Slide(b).err = b.err
           /\ Len(Slide(b).mem) = Len(b.mem)
           /\ \A i \in 1 .. b.w - b.r : Slide(b).mem[i] = b.mem[b.r + i]
           /\ Full(b) => Full(Slide(b))
  <1> DEFINE d == Window(b)
             m == Put(b.mem, 0, d)
  <1>1. /\ b.mem \in Seq(0 .. n) /\ b.r \in Nat /\ b.w \in Nat /\ b.err \in BOOLEAN
        /\ b.r <= b.w /\ b.w <= Len(b.mem)
    BY Fields DEF GoodReader
  <1>2. d \in Seq(1 .. n) /\ Len(d) = b.w - b.r /\ \A i \in 1 .. b.w - b.r : d[i] = b.mem[b.r + i]
    BY WindowIs
  <1>3. Slide(b) = [mem |-> m, r |-> 0, w |-> b.w - b.r, err |-> b.err]
    <2>1. b = [mem |-> b.mem, r |-> b.r, w |-> b.w, err |-> b.err]
      BY DEF GoodReader
    <2>2. Slide(b) = [b EXCEPT !.mem = Put(@, 0, d), !.r = 0, !.w = b.w - b.r]
      BY DEF Slide, Buffered
    <2> HIDE DEF d
    <2> QED
      BY <2>1, <2>2
  <1> HIDE DEF d
  <1>4. /\ m \in Seq(0 .. n) /\ Len(m) = Len(b.mem)
        /\ \A i \in 1 .. Len(b.mem) : m[i] = IF i <= b.w - b.r THEN d[i] ELSE b.mem[i]
    <2>1. b.mem \in Seq(0 .. n) /\ d \in Seq(1 .. n) /\ Len(d) <= Len(b.mem)
      BY <1>1, <1>2
    <2>2. Begins(n, b.mem, d, m)
      BY <2>1, PutFront
    <2>3. Len(d) = b.w - b.r
      BY <1>2
    <2> HIDE DEF m
    <2> QED
      BY <2>2, <2>3 DEF Begins
  <1> HIDE DEF m
  <1>5. \A i \in 1 .. b.w - b.r : i \in 1 .. Len(b.mem) /\ m[i] = b.mem[b.r + i] /\ m[i] \in 1 .. n
    <2> SUFFICES ASSUME NEW i \in 1 .. b.w - b.r
                 PROVE  i \in 1 .. Len(b.mem) /\ m[i] = b.mem[b.r + i] /\ m[i] \in 1 .. n
      OBVIOUS
    <2>1. i \in 1 .. Len(b.mem) /\ i <= b.w - b.r /\ i \in 1 .. Len(d)
      BY <1>1, <1>2
    <2>2. m[i] = d[i]
      BY <2>1, <1>4
    <2>3. d[i] \in 1 .. n
      BY <2>1, <1>2, ElementOfSeq
    <2> QED
      BY <2>1, <2>2, <2>3, <1>2
  <1>6. GoodReader(n, Slide(b))
    <2>1. b.w - b.r \in Nat /\ b.w - b.r <= Len(m)
      BY <1>1, <1>4
    <2> QED
      BY <1>1, <1>3, <1>4, <1>5, <2>1 DEF GoodReader
  <1>7. Full(b) => Full(Slide(b))
    <2> SUFFICES ASSUME Full(b), NEW i \in 1 .. Len(b.mem) PROVE m[i] # 0
      BY <1>3, <1>4 DEF Full
    <2>1. CASE i <= b.w - b.r
      BY <2>1, <1>1, <1>5
    <2>2. CASE ~(i <= b.w - b.r)
      BY <2>2, <1>4 DEF Full
    <2> QED
      BY <2>1, <2>2
  <1> QED
    BY <1>3, <1>4, <1>5, <1>6, <1>7

\* What sliding leaves of the order in the stream.
LEMMA SlideHolds ==
    ASSUME NEW n \in Nat, NEW b, GoodReader(n, b), NEW a \in Int, Holds(b, a)
    PROVE  Holds(Slide(b), a)
  <1> DEFINE s == Slide(b)
  <1>1. /\ s.r = 0 /\ s.w = b.w - b.r
        /\ \A i \in 1 .. b.w - b.r : s.mem[i] = b.mem[b.r + i]
    BY SlideIs
  <1>2. b.r \in Nat /\ b.w \in Nat /\ b.r <= b.w
    BY Fields DEF GoodReader
  <1> HIDE DEF s
  <1> SUFFICES ASSUME NEW i \in 1 .. b.w - b.r
               PROVE  s.mem[i] = a - (b.w - b.r) + i
    BY <1>1, <1>2 DEF Holds, s
  <1>3. b.r + i \in b.r + 1 .. b.w
    BY <1>2
  <1>4. b.mem[b.r + i] = a - b.w + (b.r + i)
    BY <1>3 DEF Holds
  <1>5. a - b.w + (b.r + i) = a - (b.w - b.r) + i
    BY <1>2
  <1> QED
    BY <1>1, <1>4, <1>5

\* A reader remembers that the stream has ended.
LEMMA FillEofIs ==
    ASSUME NEW n \in Nat, NEW b, GoodReader(n, b)
    PROVE  /\ GoodReader(n, FillEof(b))
           /\ FillEof(b).r = 0 /\ FillEof(b).w = b.w - b.r /\ FillEof(b).err
           /\ Len(FillEof(b).mem) = Len(b.mem)
           /\ Full(b) => Full(FillEof(b))
           /\ \A a \in Int : Holds(b, a) => Holds(FillEof(b), a)
  <1> DEFINE s == Slide(b)
             f == FillEof(b)
  <1>1. /\ GoodReader(n, s) /\ s.r = 0 /\ s.w = b.w - b.r /\ Len(s.mem) = Len(b.mem)
        /\ Full(b) => Full(s)
    BY SlideIs
  <1>2. \A a \in Int : Holds(b, a) => Holds(s, a)
    BY SlideHolds
  <1>3. f = [s EXCEPT !.err = TRUE]
    BY DEF FillEof
  <1> HIDE DEF s, f
  <1>4. s \in [mem : Seq(0 .. n), r : Nat, w : Nat, err : BOOLEAN]
    BY <1>1 DEF GoodReader
  <1>5. f.mem = s.mem /\ f.r = s.r /\ f.w = s.w /\ f.err = TRUE
        /\ f \in [mem : Seq(0 .. n), r : Nat, w : Nat, err : BOOLEAN]
    BY <1>3, <1>4
  <1>6. GoodReader(n, f)
    BY <1>1, <1>5 DEF GoodReader
  <1>7. (Full(s) => Full(f)) /\ \A a \in Int : Holds(s, a) => Holds(f, a)
    BY <1>5 DEF Full, Holds
  <1> QED
    BY <1>1, <1>2, <1>5, <1>6, <1>7 DEF f

\* What a reader holds after k units from a on have been read into the rest of its memory.
LEMMA FillIs ==
    ASSUME NEW n \in Nat, NEW b, GoodReader(n, b), NEW a \in Nat \ {0}, NEW k \in Nat,
           a + k - 1 <= n, k <= Room(b)
    PROVE  LET f == Fill(b, Span(a, a + k - 1))
           IN  /\ GoodReader(n, f)
               /\ f.r = 0 /\ f.w = b.w - b.r + k /\ f.err = b.err /\ Len(f.mem) = Len(b.mem)
               /\ Full(b) => Full(f)
               /\ Holds(b, a - 1) => Holds(f, a + k - 1)
  <1> DEFINE s == Slide(b)
             d == Span(a, a + k - 1)
             f == Fill(b, d)
             at == b.w - b.r
             m == Put(s.mem, at, d)
  <1>1. /\ GoodReader(n, s) /\ s.r = 0 /\ s.w = at /\ s.err = b.err /\ Len(s.mem) = Len(b.mem)
        /\ Full(b) => Full(s)
    BY SlideIs
  <1>2. Holds(b, a - 1) => Holds(s, a - 1)
    BY SlideHolds
  <1>3. d \in Seq(1 .. n) /\ Len(d) = k /\ \A i \in 1 .. k : d[i] = a + i - 1
    BY SpanIs
  <1>4. at \in Nat /\ at + k <= Len(b.mem) /\ Len(b.mem) \in Nat
    BY Fields DEF Room, Size, Buffered
  <1>5. f = [mem |-> m, r |-> 0, w |-> at + k, err |-> b.err]
    <2>1. s \in [mem : Seq(0 .. n), r : Nat, w : Nat, err : BOOLEAN]
      BY <1>1 DEF GoodReader
    <2>2. f = [s EXCEPT !.mem = Put(@, s.w, d), !.w = @ + Len(d)]
      BY DEF Fill
    <2> HIDE DEF s, d, f, at
    <2>3. s = [mem |-> s.mem, r |-> s.r, w |-> s.w, err |-> s.err]
      BY <2>1
    <2> QED
      BY <2>2, <2>3, <1>1, <1>3
  <1> HIDE DEF s, d, at
  <1>6. s.mem \in Seq(0 .. n) /\ \A i \in 1 .. at : s.mem[i] \in 1 .. n
    <2>1. \A i \in s.r + 1 .. s.w : s.mem[i] \in 1 .. n
      BY <1>1 DEF GoodReader
    <2>2. s.r + 1 = 1
      BY <1>1
    <2> QED
      BY <1>1, <2>1, <2>2, Fields
  <1>7. /\ m \in Seq(0 .. n) /\ Len(m) = Len(b.mem)
        /\ \A i \in 1 .. Len(b.mem) :
               m[i] = IF at < i /\ i <= at + k THEN d[i - at] ELSE s.mem[i]
    <2>1. /\ s.mem \in Seq(0 .. n) /\ d \in Seq(1 .. n) /\ at \in Nat
          /\ at + Len(d) <= Len(s.mem)
      BY <1>1, <1>3, <1>4, <1>6
    <2>2. /\ m \in Seq(0 .. n) /\ Len(m) = Len(s.mem)
          /\ \A i \in 1 .. Len(s.mem) :
                 m[i] = IF at < i /\ i <= at + Len(d) THEN d[i - at] ELSE s.mem[i]
      <3> DEFINE q == s.mem
      <3>1. q \in Seq(0 .. n) /\ at + Len(d) <= Len(q)
        BY <2>1
      <3>2. /\ Put(q, at, d) \in Seq(0 .. n) /\ Len(Put(q, at, d)) = Len(q)
            /\ \A i \in 1 .. Len(q) :
                   Put(q, at, d)[i] = IF at < i /\ i <= at + Len(d) THEN d[i - at] ELSE q[i]
        <4> HIDE DEF q
        <4> QED
          BY <2>1, <3>1, PutIs
      <3> QED
        BY <3>2
    <2> HIDE DEF m
    <2> QED
      BY <2>2, <1>1, <1>3
  <1> HIDE DEF m, f
  <1>8. \A i \in 1 .. at : i \in 1 .. Len(b.mem) /\ m[i] = s.mem[i]
    BY <1>4, <1>7
  <1>9. \A i \in at + 1 .. at + k : /\ i \in 1 .. Len(b.mem) /\ i - at \in 1 .. k
                                    /\ m[i] = a + (i - at) - 1 /\ m[i] \in 1 .. n
    <2> SUFFICES ASSUME NEW i \in at + 1 .. at + k
                 PROVE  /\ i \in 1 .. Len(b.mem) /\ i - at \in 1 .. k
                        /\ m[i] = a + (i - at) - 1 /\ m[i] \in 1 .. n
      OBVIOUS
    <2>1. i \in 1 .. Len(b.mem) /\ i - at \in 1 .. k /\ at < i /\ i <= at + k
      BY <1>4
    <2>2. m[i] = d[i - at]
      BY <2>1, <1>7
    <2>3. d[i - at] = a + (i - at) - 1
      BY <2>1, <1>3
    <2>4. a + (i - at) - 1 \in 1 .. n
      BY <2>1, <1>4
    <2> QED
      BY <2>1, <2>2, <2>3, <2>4
  <1>10. GoodReader(n, f)
    <2>1. \A i \in 1 .. at + k : i \in 1 .. at \/ i \in at + 1 .. at + k
      BY <1>4
    <2>2. \A i \in 1 .. at + k : m[i] \in 1 .. n
      BY <2>1, <1>6, <1>8, <1>9
    <2>3. b.err \in BOOLEAN /\ at + k \in Nat
      BY <1>4, Fields
    <2>4. f \in [mem : Seq(0 .. n), r : Nat, w : Nat, err : BOOLEAN]
      BY <1>5, <1>7, <2>3
    <2>5. f.mem = m /\ f.r = 0 /\ f.w = at + k /\ 0 <= at + k /\ 0 + 1 = 1
      BY <1>5, <2>3
    <2> QED
      BY <1>4, <1>7, <2>2, <2>4, <2>5 DEF GoodReader
  <1>11. ASSUME Full(b) PROVE Full(f)
    <2> SUFFICES ASSUME NEW i \in 1 .. Len(b.mem) PROVE m[i] # 0
      BY <1>5, <1>7 DEF Full
    <2>1. CASE i \in at + 1 .. at + k
      BY <2>1, <1>9
    <2>2. CASE i \notin at + 1 .. at + k
      <3>1. ~(at < i /\ i <= at + k)
        BY <2>2, <1>4
      <3>2. m[i] = s.mem[i] /\ s.mem[i] # 0
        BY <3>1, <1>1, <1>7, <1>11 DEF Full
      <3> QED
        BY <3>2
    <2> QED
      BY <2>1, <2>2
  <1>12. ASSUME Holds(b, a - 1) PROVE Holds(f, a + k - 1)
    <2> SUFFICES ASSUME NEW i \in 1 .. at + k PROVE m[i] = (a + k - 1) - (at + k) + i
      BY <1>5 DEF Holds
    <2>1. CASE i \in 1 .. at
      <3>1. s.mem[i] = (a - 1) - at + i
        BY <2>1, <1>1, <1>2, <1>12 DEF Holds
      <3> QED
        BY <2>1, <3>1, <1>4, <1>8
    <2>2. CASE i \in at + 1 .. at + k
      BY <2>2, <1>4, <1>9
    <2> QED
      BY <2>1, <2>2, <1>4
  <1> QED
    BY <1>1, <1>4, <1>5, <1>7, <1>10, <1>11, <1>12 DEF f, d, at

\* The read position advances over k units.
LEMMA SkipIs ==
    ASSUME NEW n \in Nat, NEW b, GoodReader(n, b), NEW k \in Nat, k <= b.w - b.r
    PROVE  /\ GoodReader(n, Skip(b, k)) /\ Skip(b, k).mem = b.mem /\ Skip(b, k).r = b.r + k
           /\ Skip(b, k).w = b.w /\ Skip(b, k).err = b.err
           /\ \A a : Holds(b, a) => Holds(Skip(b, k), a)
  <1> DEFINE s == Skip(b, k)
  <1>1. b.r \in Nat /\ b.w \in Nat /\ b.r <= b.w
    BY DEF GoodReader
  <1>2. /\ s \in [mem : Seq(0 .. n), r : Nat, w : Nat, err : BOOLEAN]
        /\ s.mem = b.mem /\ s.r = b.r + k /\ s.w = b.w /\ s.err = b.err
    <2>1. b = [mem |-> b.mem, r |-> b.r, w |-> b.w, err |-> b.err]
      BY DEF GoodReader
    <2>2. s = [mem |-> b.mem, r |-> b.r + k, w |-> b.w, err |-> b.err]
      BY <2>1 DEF Skip
    <2>3. b.mem \in Seq(0 .. n) /\ b.err \in BOOLEAN /\ b.r + k \in Nat
      BY <1>1 DEF GoodReader
    <2> HIDE DEF s
    <2> QED
      BY <1>1, <2>2, <2>3
  <1> HIDE DEF s
  <1>3. \A i \in s.r + 1 .. s.w : i \in b.r + 1 .. b.w
    BY <1>1, <1>2
  <1>4. s.r <= s.w
    BY <1>1, <1>2
  <1>5. GoodReader(n, s)
    BY <1>2, <1>3, <1>4 DEF GoodReader
  <1>6. \A a : Holds(b, a) => Holds(s, a)
    BY <1>2, <1>3 DEF Holds
  <1> QED
    BY <1>2, <1>5, <1>6 DEF s

\* A line is handed out, and with it the news that the stream has ended.
LEMMA TakeIs ==
    ASSUME NEW n \in Nat, NEW b, GoodReader(n, b), NEW k \in Nat, k <= b.w - b.r
    PROVE  LET t == ReadErr(Skip(b, k))
           IN  /\ GoodReader(n, t) /\ t.mem = b.mem /\ t.r = b.r + k /\ t.w = b.w /\ ~t.err
               /\ \A a : Holds(b, a) => Holds(t, a)
  <1> DEFINE s == Skip(b, k)
             t == ReadErr(s)
  <1>1. /\ GoodReader(n, s) /\ s.mem = b.mem /\ s.r = b.r + k /\ s.w = b.w
        /\ \A a : Holds(b, a) => Holds(s, a)
    BY SkipIs
  <1> HIDE DEF s
  <1>2. /\ t \in [mem : Seq(0 .. n), r : Nat, w : Nat, err : BOOLEAN]
        /\ t.mem = s.mem /\ t.r = s.r /\ t.w = s.w /\ t.err = FALSE
    BY <1>1 DEF GoodReader, ReadErr
  <1> HIDE DEF t
  <1>3. GoodReader(n, t)
    BY <1>1, <1>2 DEF GoodReader
  <1>4. \A a : Holds(s, a) => Holds(t, a)
    BY <1>2 DEF Holds
  <1> QED
    BY <1>1, <1>2, <1>3, <1>4 DEF t, s

\* A Read of k units from a on into an empty reader, or past it.
LEMMA LoadIs ==
    ASSUME NEW n \in Nat, NEW b, GoodReader(n, b), b.r = b.w, NEW a \in Nat \ {0},
           NEW k \in Nat, a + k - 1 <= n, NEW size \in Nat, k <= ReadMax(b, size)
    PROVE  LET l == Load(b, size, Span(a, a + k - 1))
           IN  /\ GoodReader(n, l) /\ Len(l.mem) = Len(b.mem) /\ l.err = b.err
               /\ l.w - l.r = k - Given(b, size, k)
               /\ Full(b) => Full(l)
               /\ Holds(l, a + k - 1)
  <1> DEFINE d == Span(a, a + k - 1)
             g == Given(b, size, k)
             m == Put(b.mem, 0, d)
             l == Load(b, size, d)
  <1>1. /\ b.mem \in Seq(0 .. n) /\ b.r \in Nat /\ b.w \in Nat /\ b.err \in BOOLEAN
        /\ Len(b.mem) \in Nat
    BY Fields
  <1>2. d \in Seq(1 .. n) /\ Len(d) = k /\ \A i \in 1 .. k : d[i] = a + i - 1
    BY SpanIs
  <1>3. g \in Nat /\ g <= k
    BY DEF Given
  <1>4. CASE Direct(b, size)
    <2>1. l = b /\ g = k
      BY <1>4 DEF Load, ReadMax, Given
    <2>2. Holds(b, a + k - 1)
      BY <1>1 DEF Holds
    <2>3. b.w - b.r = k - g
      BY <2>1, <1>1
    <2> QED
      BY <2>1, <2>2, <2>3
  <1>5. CASE ~Direct(b, size)
    <2>1. k <= Len(b.mem)
      BY <1>5 DEF ReadMax, Size
    <2>2. l = [mem |-> m, r |-> g, w |-> k, err |-> b.err]
      <3>1. b = [mem |-> b.mem, r |-> b.r, w |-> b.w, err |-> b.err]
        BY DEF GoodReader
      <3>2. l = [b EXCEPT !.mem = Put(@, 0, d), !.r = g, !.w = k]
        BY <1>2, <1>5 DEF Load
      <3> HIDE DEF d, g, l
      <3> QED
        BY <3>1, <3>2
    <2> HIDE DEF d, g, l
    <2>3. /\ m \in Seq(0 .. n) /\ Len(m) = Len(b.mem)
          /\ \A i \in 1 .. Len(b.mem) : m[i] = IF i <= k THEN d[i] ELSE b.mem[i]
      <3>1. b.mem \in Seq(0 .. n) /\ d \in Seq(1 .. n) /\ Len(d) <= Len(b.mem)
        BY <1>1, <1>2, <2>1
      <3>2. Begins(n, b.mem, d, m)
        BY <3>1, PutFront
      <3>3. Len(d) = k
        BY <1>2
      <3> HIDE DEF m
      <3> QED
        BY <3>2, <3>3 DEF Begins
    <2> HIDE DEF m
    <2>4. \A i \in 1 .. k : m[i] = a + i - 1 /\ m[i] \in 1 .. n
      <3> SUFFICES ASSUME NEW i \in 1 .. k PROVE m[i] = a + i - 1 /\ m[i] \in 1 .. n
        OBVIOUS
      <3>1. i \in 1 .. Len(b.mem) /\ i <= k
        BY <1>1, <2>1
      <3>2. m[i] = a + i - 1
        BY <3>1, <2>3, <1>2
      <3> QED
        BY <3>2
    <2>5. \A i \in g + 1 .. k : i \in 1 .. k
      BY <1>3
    <2>6. GoodReader(n, l)
      BY <1>1, <1>3, <2>1, <2>2, <2>3, <2>4, <2>5 DEF GoodReader
    <2>7. ASSUME Full(b) PROVE Full(l)
      <3> SUFFICES ASSUME NEW i \in 1 .. Len(b.mem) PROVE m[i] # 0
        BY <2>2, <2>3 DEF Full
      <3>1. CASE i <= k
        BY <3>1, <2>4
      <3>2. CASE ~(i <= k)
        BY <3>2, <2>3, <2>7 DEF Full
      <3> QED
        BY <3>1, <3>2
    <2>8. Holds(l, a + k - 1)
      <3> SUFFICES ASSUME NEW i \in g + 1 .. k PROVE m[i] = (a + k - 1) - k + i
        BY <2>2 DEF Holds
      <3> QED
        BY <2>4, <2>5, <1>3
    <2> QED
      BY <2>2, <2>3, <2>6, <2>7, <2>8 DEF d, g, l
  <1> QED
    BY <1>4, <1>5

\* A reader that was made over the units d.
LEMMA WithBufIs ==
    ASSUME NEW n \in Nat, NEW d \in Seq(0 .. n), \A i \in 1 .. Len(d) : d[i] # 0
    PROVE  LET b == NewReaderWithBuf(d)
           IN  /\ GoodReader(n, b) /\ Full(b) /\ b.mem = d /\ b.r = 0 /\ b.w = Len(d) /\ ~b.err
               /\ \A a \in Int : Runs(d, a - Len(d)) => Holds(b, a - 1)
  <1> DEFINE b == NewReaderWithBuf(d)
  <1>1. b = [mem |-> d, r |-> 0, w |-> Len(d), err |-> FALSE] /\ Len(d) \in Nat
    BY DEF NewReaderWithBuf
  <1> HIDE DEF b
  <1>2. \A i \in 1 .. Len(d) : d[i] \in 1 .. n
    <2> SUFFICES ASSUME NEW i \in 1 .. Len(d) PROVE d[i] \in 1 .. n
      OBVIOUS
    <2>1. d[i] \in 0 .. n
      BY ElementOfSeq
    <2> QED
      BY <2>1
  <1>3. GoodReader(n, b)
    BY <1>1, <1>2 DEF GoodReader
  <1>4. ASSUME NEW a \in Int, Runs(d, a - Len(d)) PROVE Holds(b, a - 1)
    <2> SUFFICES ASSUME NEW i \in 1 .. Len(d) PROVE d[i] = a - 1 - Len(d) + i
      BY <1>1 DEF Holds
    <2>1. d[i] = a - Len(d) + i - 1
      BY <1>4 DEF Runs
    <2> QED
      BY <2>1, <1>1
  <1>5. b.mem = d /\ b.r = 0 /\ b.w = Len(d) /\ ~b.err
    BY <1>1
  <1>6. Full(b)
    BY <1>5 DEF Full
  <1> QED
    BY <1>3, <1>4, <1>5, <1>6 DEF b

\* A new reader is empty.
LEMMA NewIs ==
    ASSUME NEW n \in Nat, NEW size \in Nat
    PROVE  LET b == NewReader(size)
           IN  /\ GoodReader(n, b) /\ Len(b.mem) = size /\ b.r = 0 /\ b.w = 0 /\ ~b.err
               /\ \A a : Holds(b, a)
  <1> DEFINE b == NewReader(size)
             m == [i \in 1 .. size |-> 0]
  <1>1. b = [mem |-> m, r |-> 0, w |-> 0, err |-> FALSE]
    BY DEF NewReader
  <1>2. m \in [1 .. size -> 0 .. n]
    OBVIOUS
  <1> HIDE DEF b, m
  <1>3. m \in Seq(0 .. n) /\ Len(m) = size
    BY <1>2, Listed
  <1>4. GoodReader(n, b)
    BY <1>1, <1>3 DEF GoodReader
  <1>5. \A a : Holds(b, a)
    BY <1>1 DEF Holds
  <1>6. Len(b.mem) = size /\ b.r = 0 /\ b.w = 0 /\ ~b.err
    BY <1>1, <1>3
  <1> QED
    BY <1>4, <1>5, <1>6 DEF b

----------------------------------------------------------------------------
(* Sequences of units.                                                     *)

\* What Window shows runs up to the unit that was read last.
LEMMA WindowRuns ==
    ASSUME NEW n \in Nat, NEW b, GoodReader(n, b), NEW a \in Int, Holds(b, a)
    PROVE  Runs(Window(b), a + 1 - (b.w - b.r))
  <1>1. b.r \in Nat /\ b.w \in Nat /\ b.r <= b.w
    BY Fields DEF GoodReader
  <1>2. /\ Len(Window(b)) = b.w - b.r
        /\ \A i \in 1 .. b.w - b.r : Window(b)[i] = b.mem[b.r + i]
    BY WindowIs
  <1> SUFFICES ASSUME NEW i \in 1 .. b.w - b.r
               PROVE  Window(b)[i] = a + 1 - (b.w - b.r) + i - 1
    BY <1>2 DEF Runs
  <1>3. b.r + i \in b.r + 1 .. b.w
    BY <1>1
  <1>4. b.mem[b.r + i] = a - b.w + (b.r + i)
    BY <1>3 DEF Holds
  <1>5. a - b.w + (b.r + i) = a + 1 - (b.w - b.r) + i - 1
    BY <1>1
  <1> QED
    BY <1>2, <1>4, <1>5

\* The beginning of a sequence.
LEMMA PrefixIs ==
    ASSUME NEW n \in Nat, NEW s \in Seq(1 .. n), NEW k \in Nat, k <= Len(s)
    PROVE  /\ SubSeq(s, 1, k) \in Seq(1 .. n) /\ Len(SubSeq(s, 1, k)) = k
           /\ \A i \in 1 .. k : SubSeq(s, 1, k)[i] = s[i]
  <1>1. \A i \in 1 .. k : s[i] \in 1 .. n
    BY ElementOfSeq
  <1>2. /\ SubSeq(s, 1, k) \in Seq(1 .. n)
        /\ Len(SubSeq(s, 1, k)) = IF 1 <= k THEN k - 1 + 1 ELSE 0
        /\ \A i \in 1 .. k - 1 + 1 : SubSeq(s, 1, k)[i] = s[1 + i - 1]
    BY <1>1, SubSeqProperties
  <1>3. (IF 1 <= k THEN k - 1 + 1 ELSE 0) = k /\ k - 1 + 1 = k
    OBVIOUS
  <1>4. \A i \in 1 .. k : 1 + i - 1 = i
    OBVIOUS
  <1> QED
    BY <1>2, <1>3, <1>4

\* What was taken before, joined with what is taken now.
LEMMA JoinIs ==
    ASSUME NEW n \in Nat, NEW s \in Seq(1 .. n), NEW t \in Seq(1 .. n)
    PROVE  /\ s \o t \in Seq(1 .. n) /\ Len(s \o t) = Len(s) + Len(t)
           /\ \A i \in 1 .. Len(s) : (s \o t)[i] = s[i]
           /\ \A a \in Int : Runs(s, a) /\ Runs(t, a + Len(s)) => Runs(s \o t, a)
  <1> DEFINE u == s \o t
  <1>1. /\ u \in Seq(1 .. n) /\ Len(u) = Len(s) + Len(t)
        /\ \A i \in 1 .. Len(s) + Len(t) : u[i] = IF i <= Len(s) THEN s[i] ELSE t[i - Len(s)]
    BY ConcatProperties
  <1>2. Len(s) \in Nat /\ Len(t) \in Nat
    OBVIOUS
  <1> HIDE DEF u
  <1>3. \A i \in 1 .. Len(s) : u[i] = s[i]
    BY <1>1, <1>2
  <1>4. ASSUME NEW a \in Int, Runs(s, a), Runs(t, a + Len(s)) PROVE Runs(u, a)
    <2> SUFFICES ASSUME NEW i \in 1 .. Len(s) + Len(t) PROVE u[i] = a + i - 1
      BY <1>1 DEF Runs
    <2>1. CASE i <= Len(s)
      <3>1. i \in 1 .. Len(s)
        BY <2>1, <1>2
      <3> QED
        BY <3>1, <1>3, <1>4 DEF Runs
    <2>2. CASE ~(i <= Len(s))
      <3>1. i - Len(s) \in 1 .. Len(t)
        BY <2>2, <1>2
      <3>2. t[i - Len(s)] = a + Len(s) + (i - Len(s)) - 1
        BY <3>1, <1>4 DEF Runs
      <3>3. a + Len(s) + (i - Len(s)) - 1 = a + i - 1
        BY <1>2
      <3> QED
        BY <2>2, <3>2, <3>3, <1>1
    <2> QED
      BY <2>1, <2>2
  <1> QED
    BY <1>1, <1>3, <1>4 DEF u

\* The beginning of what runs runs.
LEMMA PrefixRuns ==
    ASSUME NEW n \in Nat, NEW s \in Seq(1 .. n), NEW k \in Nat, k <= Len(s), NEW a, Runs(s, a)
    PROVE  Runs(SubSeq(s, 1, k), a)
  <1>1. Len(SubSeq(s, 1, k)) = k /\ \A i \in 1 .. k : SubSeq(s, 1, k)[i] = s[i]
    BY PrefixIs
  <1>2. \A i \in 1 .. k : i \in 1 .. Len(s)
    OBVIOUS
  <1> QED
    BY <1>1, <1>2 DEF Runs

\* Some number is the least.
LEMMA LeastIs ==
    ASSUME NEW I, I \subseteq Nat, I # {}
    PROVE  \E i \in I : \A j \in I : i <= j
  <1> DEFINE R == {ss \in Nat \X Nat : ss[1] < ss[2]}
  <1>1. R = OpToRel(<, Nat)
    BY Zenon DEF OpToRel
  <1>2. IsWellFoundedOn(R, Nat)
    BY <1>1, NatLessThanWellFounded, Zenon
  <1>3. PICK i \in I : \A j \in I : ~(<<j, i>> \in R)
    <2> HIDE DEF R
    <2> QED
      BY <1>2, WFMin, Zenon
  <1>4. ASSUME NEW j \in I PROVE i <= j
    <2>1. i \in Nat /\ j \in Nat /\ <<j, i>> \notin R
      BY <1>3
    <2>2. ~(j < i)
      BY <2>1
    <2> QED
      BY <2>1, <2>2
  <1> QED
    BY <1>4

\* The line that ReadSlice finds is the first one.
LEMMA LineIs ==
    ASSUME NEW n \in Nat, NEW b, GoodReader(n, b), NEW eol, HasLine(b, eol)
    PROVE  LET i == LineLen(b, eol)
           IN  /\ i \in 1 .. b.w - b.r /\ Window(b)[i] \in eol
               /\ \A j \in 1 .. i - 1 : Window(b)[j] \notin eol
  <1> DEFINE I == LineEnds(b, eol)
             m == LineLen(b, eol)
  <1>1. b.w - b.r \in Nat
    BY Fields
  <1>2. I = {i \in 1 .. b.w - b.r : Window(b)[i] \in eol} /\ I # {}
    BY DEF LineEnds, Buffered, HasLine
  <1>3. I \subseteq Nat
    BY <1>1, <1>2
  <1>4. m = CHOOSE i \in I : \A j \in I : i <= j
    BY DEF LineLen
  <1> HIDE DEF I, m
  <1>5. \E i \in I : \A j \in I : i <= j
    BY <1>2, <1>3, LeastIs
  <1>6. m \in I /\ \A j \in I : m <= j
    BY <1>4, <1>5
  <1>7. m \in 1 .. b.w - b.r /\ Window(b)[m] \in eol
    BY <1>2, <1>6
  <1>8. ASSUME NEW j \in 1 .. m - 1 PROVE Window(b)[j] \notin eol
    <2>1. j \in 1 .. b.w - b.r /\ ~(m <= j)
      BY <1>1, <1>7
    <2> QED
      BY <2>1, <1>2, <1>6
  <1> QED
    BY <1>7, <1>8 DEF m

----------------------------------------------------------------------------
(* What every step finds.                                                  *)

\* The numbers and the readers of a state.
LEMMA Basics ==
    ASSUME Outside, Readers
    PROVE  /\ stream \in Seq(Classes) /\ Len(stream) \in Nat \ {0}
           /\ DOMAIN stream = 1 .. Len(stream) /\ EolUnits \subseteq 1 .. Len(stream)
           /\ sent \in Nat /\ sent <= Len(stream)
           /\ next \in Nat \ {0} /\ next <= sent + 1 /\ next - 1 \in Nat
           /\ BufSize \in Nat /\ HeadLen \in Nat \ {0} /\ SocksSize \in Nat /\ BodyLen \in Nat
           /\ who \in Reader
           /\ \A x \in Reader : GoodReader(Len(stream), rd[x]) /\ Len(rd[x].mem) <= BufSize
  <1>1. stream \in Seq(Classes) /\ stream # << >>
    BY DetectAssumption DEF Outside
  <1>2. Len(stream) \in Nat \ {0} /\ DOMAIN stream = 1 .. Len(stream)
    BY <1>1, EmptySeq
  <1>3. EolUnits \subseteq 1 .. Len(stream)
    BY <1>2 DEF EolUnits
  <1>4. /\ sent \in Nat /\ sent <= Len(stream)
        /\ next \in Nat \ {0} /\ next <= sent + 1 /\ next - 1 \in Nat
    BY <1>2 DEF Outside
  <1>5. BufSize \in Nat /\ HeadLen \in Nat \ {0} /\ SocksSize \in Nat /\ BodyLen \in Nat
    BY DetectAssumption
  <1> QED
    BY <1>1, <1>2, <1>3, <1>4, <1>5 DEF Outside, Readers, Size

\* One reader changes.
LEMMA ReaderStep ==
    ASSUME Outside, Readers, NEW x \in Reader, NEW b, GoodReader(Len(stream), b),
           Len(b.mem) <= BufSize, rd' = [rd EXCEPT ![x] = b], stream' = stream
    PROVE  /\ Readers' /\ rd'[x] = b
           /\ \A y \in Reader \ {x} : rd'[y] = rd[y]
  <1>1. rd'[x] = b /\ \A y \in Reader \ {x} : rd'[y] = rd[y]
    BY DEF Readers
  <1>2. rd' \in [Reader -> [mem : Seq(0 .. Len(stream)), r : Nat, w : Nat, err : BOOLEAN]]
    BY DEF Readers, GoodReader
  <1>3. \A y \in Reader : GoodReader(Len(stream), rd'[y]) /\ Size(rd'[y]) <= BufSize
    BY <1>1 DEF Readers, Size
  <1> QED
    BY <1>1, <1>2, <1>3 DEF Readers

\* A call of fill: k units more, or none at the end of the stream.
LEMMA FillFacts ==
    ASSUME Outside, Readers, FillStep, stream' = stream
    PROVE  /\ Readers'
           /\ \A y \in Reader \ {who} : rd'[y] = rd[y]
           /\ \E k \in Nat :
                /\ next' = next + k /\ next' <= sent + 1
                /\ rd'[who].r = 0 /\ rd'[who].w = B.w - B.r + k
                /\ Len(rd'[who].mem) = Len(B.mem)
                /\ Full(B) => Full(rd'[who])
                /\ Holds(B, next - 1) => Holds(rd'[who], next' - 1)
                /\ rd'[who].err = B.err \/ (fin /\ next' = sent + 1)
           /\ clean' = [clean EXCEPT !["guess"] = @ /\ who = "req"]
  <1> DEFINE n == Len(stream)
  <1>1. /\ n \in Nat /\ next \in Nat \ {0} /\ next <= sent + 1 /\ sent \in Nat /\ sent <= n
        /\ who \in Reader /\ GoodReader(n, B) /\ Len(B.mem) <= BufSize
    BY Basics DEF B
  <1>2. clean' = [clean EXCEPT !["guess"] = @ /\ who = "req"]
    BY DEF FillStep
  <1> HIDE DEF n
  <1>3. ASSUME NEW k \in 1 .. Avail, k <= Room(B),
               rd' = [rd EXCEPT ![who] = Fill(B, Span(next, next + k - 1))], next' = next + k
        PROVE  /\ Readers'
               /\ \A y \in Reader \ {who} : rd'[y] = rd[y]
               /\ \E i \in Nat :
                    /\ next' = next + i /\ next' <= sent + 1
                    /\ rd'[who].r = 0 /\ rd'[who].w = B.w - B.r + i
                    /\ Len(rd'[who].mem) = Len(B.mem)
                    /\ Full(B) => Full(rd'[who])
                    /\ Holds(B, next - 1) => Holds(rd'[who], next' - 1)
                    /\ rd'[who].err = B.err \/ (fin /\ next' = sent + 1)
    <2> DEFINE f == Fill(B, Span(next, next + k - 1))
    <2>1. k \in Nat /\ next + k <= sent + 1 /\ next + k - 1 <= n
      BY <1>1 DEF Avail
    <2>2. /\ GoodReader(n, f) /\ f.r = 0 /\ f.w = B.w - B.r + k /\ f.err = B.err
          /\ Len(f.mem) = Len(B.mem) /\ (Full(B) => Full(f))
          /\ Holds(B, next - 1) => Holds(f, next + k - 1)
      BY <1>1, <1>3, <2>1, FillIs
    <2>3. rd' = [rd EXCEPT ![who] = f]
      BY <1>3
    <2> HIDE DEF f
    <2>4. Readers' /\ rd'[who] = f /\ \A y \in Reader \ {who} : rd'[y] = rd[y]
      <3>1. Len(f.mem) <= BufSize
        BY <1>1, <2>2
      <3> QED
        BY <1>1, <2>2, <2>3, <3>1, ReaderStep DEF n
    <2>5. next' = next + k /\ next' - 1 = next + k - 1 /\ next' <= sent + 1
      BY <1>1, <1>3, <2>1
    <2> QED
      BY <2>1, <2>2, <2>4, <2>5
  <1>4. ASSUME AtEof, rd' = [rd EXCEPT ![who] = FillEof(B)], next' = next
        PROVE  /\ Readers'
               /\ \A y \in Reader \ {who} : rd'[y] = rd[y]
               /\ \E i \in Nat :
                    /\ next' = next + i /\ next' <= sent + 1
                    /\ rd'[who].r = 0 /\ rd'[who].w = B.w - B.r + i
                    /\ Len(rd'[who].mem) = Len(B.mem)
                    /\ Full(B) => Full(rd'[who])
                    /\ Holds(B, next - 1) => Holds(rd'[who], next' - 1)
                    /\ rd'[who].err = B.err \/ (fin /\ next' = sent + 1)
    <2> DEFINE f == FillEof(B)
    <2>1. /\ GoodReader(n, f) /\ f.r = 0 /\ f.w = B.w - B.r /\ Len(f.mem) = Len(B.mem)
          /\ (Full(B) => Full(f)) /\ \A a \in Int : Holds(B, a) => Holds(f, a)
      BY <1>1, FillEofIs
    <2>2. rd' = [rd EXCEPT ![who] = f]
      BY <1>4
    <2> HIDE DEF f
    <2>3. Readers' /\ rd'[who] = f /\ \A y \in Reader \ {who} : rd'[y] = rd[y]
      <3>1. Len(f.mem) <= BufSize
        BY <1>1, <2>1
      <3> QED
        BY <1>1, <2>1, <2>2, <3>1, ReaderStep DEF n
    <2>4. fin /\ next = sent + 1
      BY <1>1, <1>4 DEF AtEof, Avail
    <2>5. B.w - B.r \in Nat
      BY <1>1, Fields
    <2>6. Holds(B, next - 1) => Holds(f, next' - 1)
      BY <1>1, <1>4, <2>1
    <2> QED
      <3>1. 0 \in Nat /\ next' = next + 0 /\ next' <= sent + 1 /\ f.w = B.w - B.r + 0
        BY <1>1, <1>4, <2>1, <2>4, <2>5
      <3> QED
        BY <1>4, <2>1, <2>3, <2>4, <2>6, <3>1
  <1> QED
    BY <1>2, <1>3, <1>4 DEF FillStep
\* Units of a line go from the reader to the first line or the header.
LEMMA TakeFacts ==
    ASSUME Outside, Readers, taken \in [Reader -> Seq(1 .. Len(stream))],
           NEW m \in Nat, m <= B.w - B.r, TakeUnits(m), stream' = stream
    PROVE  /\ Readers'
           /\ \A y \in Reader \ {who} : rd'[y] = rd[y] /\ taken'[y] = taken[y]
           /\ rd'[who].mem = B.mem /\ rd'[who].r = B.r + m /\ rd'[who].w = B.w /\ ~rd'[who].err
           /\ \A a : Holds(B, a) => Holds(rd'[who], a)
           /\ taken' \in [Reader -> Seq(1 .. Len(stream))]
           /\ taken'[who] = taken[who] \o SubSeq(Window(B), 1, m)
           /\ Len(taken'[who]) = Len(taken[who]) + m
           /\ \A i \in 1 .. Len(taken[who]) : taken'[who][i] = taken[who][i]
           /\ \A a \in Int : Runs(taken[who], a) /\ Runs(Window(B), a + Len(taken[who]))
                                => Runs(taken'[who], a)
  <1> DEFINE n == Len(stream)
             t == ReadErr(Skip(B, m))
             p == SubSeq(Window(B), 1, m)
             u == taken[who] \o p
  <1>1. n \in Nat /\ who \in Reader /\ GoodReader(n, B) /\ Len(B.mem) <= BufSize
    BY Basics DEF B
  <1>2. taken[who] \in Seq(1 .. n)
    BY <1>1
  <1> HIDE DEF n
  <1>3. /\ GoodReader(n, t) /\ t.mem = B.mem /\ t.r = B.r + m /\ t.w = B.w /\ ~t.err
        /\ \A a : Holds(B, a) => Holds(t, a)
    BY <1>1, TakeIs
  <1>4. rd' = [rd EXCEPT ![who] = t] /\ taken' = [taken EXCEPT ![who] = u]
    BY DEF TakeUnits
  <1> HIDE DEF t
  <1>5. Readers' /\ rd'[who] = t /\ \A y \in Reader \ {who} : rd'[y] = rd[y]
    <2>1. Len(t.mem) <= BufSize
      BY <1>1, <1>3
    <2> QED
      BY <1>1, <1>3, <1>4, <2>1, ReaderStep DEF n
  <1>6. Window(B) \in Seq(1 .. n) /\ Len(Window(B)) = B.w - B.r
    BY <1>1, WindowIs
  <1>7. p \in Seq(1 .. n) /\ Len(p) = m
    BY <1>1, <1>6, PrefixIs
  <1>8. \A a \in Int : Runs(Window(B), a) => Runs(p, a)
    BY <1>1, <1>6, PrefixRuns
  <1> HIDE DEF p
  <1>9. /\ u \in Seq(1 .. n) /\ Len(u) = Len(taken[who]) + m
        /\ \A i \in 1 .. Len(taken[who]) : u[i] = taken[who][i]
        /\ \A a \in Int : Runs(taken[who], a) /\ Runs(p, a + Len(taken[who])) => Runs(u, a)
    <2>1. /\ u \in Seq(1 .. n) /\ Len(u) = Len(taken[who]) + Len(p)
          /\ \A i \in 1 .. Len(taken[who]) : u[i] = taken[who][i]
          /\ \A a \in Int : Runs(taken[who], a) /\ Runs(p, a + Len(taken[who])) => Runs(u, a)
      BY <1>1, <1>2, <1>7, JoinIs
    <2> QED
      BY <2>1, <1>7
  <1>10. taken'[who] = u /\ \A y \in Reader \ {who} : taken'[y] = taken[y]
    BY <1>1, <1>4
  <1>11. taken' \in [Reader -> Seq(1 .. n)]
    <2> HIDE DEF u
    <2> QED
      BY <1>4, <1>9 DEF n
  <1>12. ASSUME NEW a \in Int, Runs(taken[who], a), Runs(Window(B), a + Len(taken[who]))
         PROVE  Runs(u, a)
    <2>1. a + Len(taken[who]) \in Int
      BY <1>2
    <2>2. Runs(p, a + Len(taken[who]))
      BY <1>8, <1>12, <2>1
    <2> QED
      BY <1>9, <1>12, <2>2
  <1>13. taken'[who] = taken[who] \o SubSeq(Window(B), 1, m)
    BY <1>10 DEF p
  <1> HIDE DEF u
  <1> QED
    BY <1>3, <1>5, <1>9, <1>10, <1>11, <1>12, <1>13 DEF n

\* A step of a detector that only calls fill.
LEMMA FillInv ==
    ASSUME IInv, FillStep, pc \in {"peek", "line", "headers"},
           ~(who = "req" /\ keep /\ clean["req"] /\ pc \in {"peek", "line"}),
           UNCHANGED <<client, side, tcpcopy, who, keep, pc, parse, relay, start, seen, port>>
    PROVE  IInv'
  <1> DEFINE n == Len(stream)
  <1>1. /\ Outside /\ Readers /\ Inside /\ ProtoOK /\ GuessOK /\ Linked
        /\ stream' = stream /\ sent' = sent /\ fin' = fin /\ side' = side /\ tcpcopy' = tcpcopy
        /\ who' = who /\ keep' = keep /\ pc' = pc /\ proto' = proto /\ taken' = taken
        /\ unread' = unread /\ toSrv' = toSrv /\ told' = told
        /\ start' = start /\ seen' = seen /\ port' = port
    BY DEF IInv, Types, client, parse, relay
  <1>2. PICK k \in Nat :
                /\ next' = next + k /\ next' <= sent + 1
                /\ rd'[who].r = 0 /\ rd'[who].w = B.w - B.r + k
                /\ Len(rd'[who].mem) = Len(B.mem)
                /\ Full(B) => Full(rd'[who])
                /\ Holds(B, next - 1) => Holds(rd'[who], next' - 1)
                /\ rd'[who].err = B.err \/ (fin /\ next' = sent + 1)
    BY <1>1, FillFacts
  <1>3. /\ Readers' /\ \A y \in Reader \ {who} : rd'[y] = rd[y]
        /\ clean' = [clean EXCEPT !["guess"] = @ /\ who = "req"]
    BY <1>1, FillFacts
  <1>4. /\ n \in Nat /\ sent \in Nat /\ sent <= n /\ next \in Nat \ {0} /\ next <= sent + 1
        /\ who \in Reader /\ B.w \in Nat /\ B.r \in Nat /\ B.w - B.r \in Nat
    BY <1>1, Basics, Fields DEF B
  <1>5. /\ clean' \in [Reader -> BOOLEAN] /\ clean'["req"] = clean["req"]
        /\ who = "guess" => ~clean'["guess"]
    BY <1>1, <1>3 DEF Outside, Reader
  <1>6. Outside'
    BY <1>1, <1>2, <1>4, <1>5 DEF Outside
  <1>7. Inside' /\ ProtoOK'
    <2>1. Inside'
      BY <1>1 DEF Inside
    <2>2. ProtoOK'
      BY <1>1 DEF ProtoOK
    <2> QED
      BY <2>1, <2>2
  <1>8. GuessOK'
    <2>1. Len(rd["guess"].mem) < next'
      <3>1. Len(rd["guess"].mem) < next /\ Len(rd["guess"].mem) \in Nat
        BY <1>1 DEF GuessOK, Readers, Reader
      <3> QED
        BY <1>2, <1>4, <3>1
    <2>2. CASE who = "req"
      <3>1. rd'["guess"] = rd["guess"]
        BY <1>3, <2>2 DEF Reader
      <3> QED
        BY <1>1, <2>1, <2>2, <3>1 DEF GuessOK
    <2>3. CASE who = "guess"
      <3>1. rd'["req"] = rd["req"]
        BY <1>3, <2>3 DEF Reader
      <3>2. Full(rd["guess"]) /\ Req.r = Req.w /\ rd["guess"].mem # << >>
        BY <1>1, <2>3 DEF GuessOK, Full
      <3>3. rd["guess"].mem \in Seq(0 .. n) /\ rd'["guess"].mem \in Seq(0 .. n)
        BY <1>1, <1>3 DEF Readers, Reader
      <3>4. Len(rd'["guess"].mem) = Len(rd["guess"].mem) /\ Full(rd'["guess"])
        BY <1>2, <2>3, <3>2 DEF B
      <3>5. rd'["guess"].mem # << >>
        BY <3>2, <3>3, <3>4, EmptySeq
      <3> QED
        BY <1>1, <2>3, <2>1, <3>1, <3>2, <3>4, <3>5 DEF GuessOK, Req, Full
    <2> QED
      BY <2>2, <2>3, <1>4 DEF Reader
  <1>9. Linked'
    <2>1. Req'.w - Req'.r < next'
      <3>1. CASE who = "req"
        BY <1>1, <1>2, <1>4, <3>1 DEF Linked, Req, B
      <3>2. CASE who = "guess"
        <4>1. Req' = Req /\ Req.w - Req.r \in Int
          <5>1. Req' = Req
            BY <1>3, <3>2 DEF Reader, Req
          <5>2. n \in Nat /\ GoodReader(n, Req)
            BY <1>1, <1>4 DEF Readers, Reader, Req
          <5> HIDE DEF n
          <5> QED
            BY <5>1, <5>2, Fields
        <4> QED
          BY <1>1, <1>2, <1>4, <4>1 DEF Linked
      <3> QED
        BY <3>1, <3>2, <1>4 DEF Reader
    <2>2. Req'.err => fin /\ next' = sent + 1
      <3>1. Req.err => fin /\ next = sent + 1
        BY <1>1 DEF Linked
      <3>2. CASE who = "req"
        <4>1. Req' = rd'[who] /\ Req = B
          BY <1>1, <3>2 DEF Req, B
        <4>2. CASE Req'.err = Req.err
          BY <1>2, <1>4, <3>1, <4>2
        <4>3. CASE Req'.err # Req.err
          BY <1>2, <4>1, <4>3
        <4> QED
          BY <4>2, <4>3
      <3>3. CASE who = "guess"
        <4>1. Req' = Req
          BY <1>3, <3>3 DEF Reader, Req
        <4> QED
          BY <1>2, <1>4, <3>1, <4>1
      <3> QED
        BY <3>2, <3>3, <1>4 DEF Reader
    <2>3. pc # "guessed" /\ pc # "sreq"
      OBVIOUS
    <2> QED
      BY <1>1, <2>1, <2>2, <2>3 DEF Linked
  <1>10. Types'
    BY <1>3, <1>6, <1>7, <1>8, <1>9 DEF Types
  <1>11. Stored'
    BY <1>1, <1>2, <1>5 DEF IInv, Stored, B
  <1>12. Untouched' /\ Forwarded'
    BY <1>1, <1>4, <1>5 DEF Untouched, Forwarded, Reader
  <1>13. Parsed'
    <2> SUFFICES ASSUME who = "req", clean["req"], proto["req"] # "socks5"
                 PROVE  Runs(ReqHead, start) /\ start + Len(ReqHead) = next' - (Req'.w - Req'.r)
      BY <1>1, <1>5 DEF Parsed, ReqHead, Runs
    <2>1. Runs(ReqHead, start) /\ start + Len(ReqHead) = next - (Req.w - Req.r)
      BY DEF IInv, Parsed
    <2>2. Req'.r = 0 /\ Req'.w = B.w - B.r + k /\ Req = B
      BY <1>2 DEF Req, B
    <2> QED
      BY <1>2, <1>4, <2>1, <2>2
  <1>14. NotParsed'
    BY <1>1 DEF IInv, NotParsed
  <1>15. Decided'
    BY <1>1, <1>5 DEF IInv, Decided, IsHttp, ReqHead, EolUnits
  <1>16. Agreed'
    BY <1>1, <1>4, <1>5 DEF Agreed, Reader
  <1> QED
    BY <1>10, <1>11, <1>12, <1>13, <1>14, <1>15, <1>16 DEF IInv
----------------------------------------------------------------------------
(* Every step preserves the invariant.                                     *)

\* The client sends a unit more.
LEMMA SendInv == ASSUME IInv, Send PROVE IInv'
  <1>1. /\ Outside /\ Readers /\ Inside /\ ProtoOK /\ GuessOK /\ Linked
        /\ stream' = stream /\ sent' = sent + 1 /\ fin' = fin /\ side' = side
        /\ tcpcopy' = tcpcopy /\ next' = next /\ rd' = rd
        /\ who' = who /\ keep' = keep /\ pc' = pc /\ proto' = proto /\ taken' = taken
        /\ unread' = unread /\ toSrv' = toSrv /\ told' = told
        /\ start' = start /\ seen' = seen /\ port' = port /\ clean' = clean
        /\ ~fin /\ sent < Len(stream)
    BY DEF IInv, Types, Send, parse, relay, ghosts
  <1>2. sent \in Nat /\ Len(stream) \in Nat /\ next \in Nat \ {0} /\ next <= sent + 1
        /\ EolUnits \subseteq 1 .. Len(stream)
    BY <1>1, Basics
  <1>3. Outside'
    BY <1>1, <1>2 DEF Outside
  <1>4. Readers'
    BY <1>1 DEF Readers
  <1>5. Inside'
    BY <1>1 DEF Inside
  <1>6. ProtoOK' /\ GuessOK' /\ Linked'
    BY <1>1 DEF ProtoOK, GuessOK, Linked, Req, B
  <1>7. Types'
    BY <1>3, <1>4, <1>5, <1>6 DEF Types
  <1>8. Stored' /\ Untouched' /\ Parsed' /\ NotParsed' /\ Agreed'
    <2>1. Stored' /\ Untouched'
      BY <1>1 DEF IInv, Stored, Untouched, B
    <2>2. Parsed' /\ NotParsed'
      BY <1>1 DEF IInv, Parsed, NotParsed, Req, ReqHead
    <2>3. Agreed'
      BY <1>1 DEF IInv, Agreed, B, LineIn, EolUnits, Class
    <2> QED
      BY <2>1, <2>2, <2>3
  <1>9. Forwarded'
    BY <1>1 DEF IInv, Forwarded, First, Held, Req, ReqHead, IsConnect, Class
  <1>10. (IsHttp => IsHttp') /\ (NoHttp => NoHttp')
    <2>1. IsHttp => IsHttp'
      <3>1. \A i \in EolUnits : i <= sent => i <= sent'
        BY <1>1, <1>2
      <3> QED
        BY <1>1, <3>1 DEF IsHttp, EolUnits
    <2>2. NoHttp => NoHttp'
      BY <1>1 DEF NoHttp, EolUnits
    <2> QED
      BY <2>1, <2>2
  <1>11. Decided'
    <2> DEFINE N == NoHttp
               H == IsHttp
    <2>1. EolUnits' = EolUnits
      BY <1>1 DEF EolUnits
    <2> QED
      BY <1>1, <1>10, <2>1 DEF IInv, Decided, Req, ReqHead
  <1> QED
    BY <1>7, <1>8, <1>9, <1>11 DEF IInv

\* The client closes its side.
LEMMA CloseInv == ASSUME IInv, Close PROVE IInv'
  <1>1. /\ Outside /\ Readers /\ Inside /\ ProtoOK /\ GuessOK /\ Linked
        /\ stream' = stream /\ sent' = sent /\ fin' = TRUE /\ side' = side
        /\ tcpcopy' = tcpcopy /\ next' = next /\ rd' = rd
        /\ who' = who /\ keep' = keep /\ pc' = pc /\ proto' = proto /\ taken' = taken
        /\ unread' = unread /\ toSrv' = toSrv /\ told' = told
        /\ start' = start /\ seen' = seen /\ port' = port /\ clean' = clean
        /\ ~fin
    BY DEF IInv, Types, Close, parse, relay, ghosts
  <1>2. Outside' /\ Readers'
    BY <1>1 DEF Outside, Readers
  <1>3. Inside'
    BY <1>1 DEF Inside
  <1>4. ProtoOK' /\ GuessOK' /\ Linked'
    BY <1>1 DEF ProtoOK, GuessOK, Linked, Req, B
  <1>5. Types'
    BY <1>2, <1>3, <1>4 DEF Types
  <1>6. Stored' /\ Untouched'
    BY <1>1 DEF IInv, Stored, Untouched, B
  <1>7. Parsed' /\ NotParsed'
    BY <1>1 DEF IInv, Parsed, NotParsed, Req, ReqHead
  <1>8. Agreed'
    BY <1>1 DEF IInv, Agreed, B, LineIn, EolUnits, Class
  <1>9. Forwarded'
    BY <1>1 DEF IInv, Forwarded, First, Held, Req, ReqHead, IsConnect, Class
  <1>10. (IsHttp => IsHttp') /\ (NoHttp => NoHttp') /\ EolUnits' = EolUnits
    BY <1>1 DEF IsHttp, NoHttp, EolUnits
  <1>11. Decided'
    BY <1>1, <1>10 DEF IInv, Decided, Req, ReqHead
  <1> QED
    BY <1>5, <1>6, <1>7, <1>8, <1>9, <1>11 DEF IInv

\* Peek(1), and the first question of validHead.
LEMMA PeekInv == ASSUME IInv, PeekHead PROVE IInv'
  <1>1. /\ Outside /\ Readers /\ Inside /\ ProtoOK /\ GuessOK /\ Linked
        /\ stream' = stream /\ sent' = sent /\ fin' = fin /\ side' = side /\ tcpcopy' = tcpcopy
        /\ who' = who /\ keep' = keep /\ proto' = proto /\ taken' = taken
        /\ unread' = unread /\ toSrv' = toSrv /\ told' = told
        /\ start' = start /\ port' = port /\ pc = "peek"
    BY DEF IInv, Types, PeekHead, client, parse, relay
  <1>2. /\ Len(stream) \in Nat /\ who \in Reader /\ GoodReader(Len(stream), B)
        /\ B.r \in Nat /\ B.w \in Nat /\ B.w - B.r \in Nat /\ B.w - B.r <= Len(B.mem)
        /\ Len(B.mem) <= BufSize /\ Len(B.mem) \in Nat
        /\ HeadLen \in Nat \ {0} /\ BufSize \in Nat /\ next \in Nat /\ next <= sent + 1
    BY <1>1, Basics, Fields DEF B
  <1>3. Buffered(B) = B.w - B.r
    BY DEF Buffered
  <1>4. CASE Buffered(B) = 0 /\ ~B.err /\ FillStep /\ UNCHANGED <<pc, seen>>
    <2>1. ~(who = "req" /\ keep /\ clean["req"] /\ pc \in {"peek", "line"})
      <3> SUFFICES ASSUME who = "req", keep, clean["req"] PROVE FALSE
        OBVIOUS
      <3>1. B.r = 0 /\ B.w = Len(B.mem) /\ LineIn(B.mem)
        BY <1>1 DEF IInv, Agreed
      <3>2. Len(B.mem) >= HeadLen
        BY <3>1 DEF LineIn
      <3> QED
        BY <1>2, <1>3, <1>4, <3>1, <3>2
    <2> QED
      BY <1>1, <1>4, <2>1, FillInv DEF PeekHead
  <1>5. ASSUME rd' = rd, next' = next, clean' = clean, seen' \in 0 .. BufSize, pc' # "peek",
               pc' \in {"peek", "line", "headers", "socks", "sreq", "respond", "guessed", "end"},
               pc' \in {"line", "socks", "guessed", "end"}, who = "guess" => pc' # "end",
               who = "req" => pc' # "guessed"
        PROVE  Types' /\ Stored' /\ Untouched' /\ NotParsed'
    <2>1. Outside'
      BY <1>1, <1>5 DEF Outside
    <2>2. Readers'
      BY <1>1, <1>5 DEF Readers
    <2>3. Inside'
      BY <1>1, <1>5 DEF Inside
    <2>4. ProtoOK'
      BY <1>1, <1>5 DEF ProtoOK
    <2>5. GuessOK'
      BY <1>1, <1>5 DEF GuessOK, Req
    <2>6. Linked'
      BY <1>1, <1>2, <1>5 DEF Linked, Req, Reader
    <2>7. Stored' /\ Untouched'
      BY <1>1, <1>5 DEF IInv, Stored, Untouched, B
    <2>8. NotParsed'
      BY <1>1 DEF IInv, NotParsed
    <2> QED
      BY <2>1, <2>2, <2>3, <2>4, <2>5, <2>6, <2>7, <2>8 DEF Types
  <1>6. CASE Buffered(B) = 0 /\ B.err /\ Fail /\ UNCHANGED <<rd, next, seen, clean>>
    <2>1. /\ rd' = rd /\ next' = next /\ clean' = clean /\ seen' = seen
          /\ pc' = IF who = "guess" THEN "guessed" ELSE "end"
      BY <1>6 DEF Fail
    <2>2. Types' /\ Stored' /\ Untouched' /\ NotParsed'
      <3>1. seen' \in 0 .. BufSize
        BY <1>1, <2>1 DEF Inside
      <3> QED
        BY <1>5, <2>1, <3>1
    <2>3. Parsed'
      BY <1>1, <2>1 DEF Parsed
    <2>4. Forwarded'
      BY <1>1, <2>1 DEF IInv, Forwarded, First, Held, Req, ReqHead, IsConnect, Class
    <2>5. Decided'
      BY <1>1, <2>1 DEF Decided
    <2>6. Agreed'
      BY <1>1, <2>1 DEF IInv, Agreed, B, LineIn, EolUnits, Class
    <2> QED
      BY <2>2, <2>3, <2>4, <2>5, <2>6 DEF IInv
  <1>7. CASE /\ Buffered(B) > 0
             /\ pc' = IF StartsLikeHttp(B) THEN "line" ELSE "socks"
             /\ seen' = IF who = "req" THEN Buffered(B) ELSE seen
             /\ UNCHANGED <<rd, next, clean>>
    <2>1. rd' = rd /\ next' = next /\ clean' = clean /\ B' = B /\ Req' = Req
      BY <1>1, <1>7 DEF B, Req
    <2>2. Types' /\ Stored' /\ Untouched' /\ NotParsed'
      <3>1. seen' \in 0 .. BufSize
        BY <1>1, <1>2, <1>3, <1>7 DEF Inside
      <3> QED
        BY <1>5, <1>7, <2>1, <3>1
    <2>3. Parsed'
      BY <1>1, <1>7, <2>1 DEF IInv, Parsed, ReqHead
    <2>4. Forwarded'
      BY <1>1, <1>7, <2>1 DEF IInv, Forwarded, First, Held, ReqHead, IsConnect, Class
    <2>5. 1 \in 1 .. B.w - B.r /\ B.r + 1 \in B.r + 1 .. B.w
      <3>1. B.w - B.r > 0
        BY <1>3, <1>7
      <3> QED
        BY <1>2, <3>1
    <2>6. Window(B)[1] = B.mem[B.r + 1]
      BY <1>2, <2>5, WindowIs
    <2>7. StartsLikeHttp(B) => B.w - B.r >= HeadLen /\ Class(B.mem[B.r + 1]) \in Methods
      BY <1>3, <2>6 DEF StartsLikeHttp
    <2>8. ~StartsLikeHttp(B) => B.w - B.r < HeadLen \/ Class(B.mem[B.r + 1]) \notin Methods
      BY <1>2, <1>3, <2>6 DEF StartsLikeHttp
    <2>9. Decided'
      <3> SUFFICES ASSUME who = "req", ~keep
                   PROVE  /\ start = 1 /\ clean["req"]
                          /\ pc' = "line" => /\ stream[1] \in Methods /\ seen' >= HeadLen
                                             /\ \A i \in EolUnits : i > Len(ReqHead)
                          /\ pc' = "socks" =>
                                IF seen' < HeadLen THEN Req.w - Req.r = seen' ELSE NoHttp
        BY <1>1, <1>7, <2>1 DEF Decided, EolUnits, ReqHead, NoHttp
      <3>1. start = 1 /\ clean["req"] /\ ReqHead = << >> /\ proto["req"] = "none"
        BY <1>1 DEF IInv, Decided, Linked, ReqHead, ProtoOK
      <3>2. start + Len(ReqHead) = next - (Req.w - Req.r) /\ Len(ReqHead) = 0
        BY <1>1, <3>1 DEF IInv, Parsed
      <3>3. B.mem[B.r + 1] = next - 1 - B.w + (B.r + 1)
        <4>1. Holds(B, next - 1)
          BY <3>1 DEF IInv, Stored
        <4> QED
          BY <4>1, <2>5 DEF Holds
      <3>4. Req = B
        BY DEF Req, B
      <3>5. B.mem[B.r + 1] = 1
        <4>1. next - (B.w - B.r) = 1
          BY <3>1, <3>2, <3>4
        <4> DEFINE w == B.w
                   r == B.r
        <4>2. w \in Nat /\ r \in Nat /\ next \in Nat
          BY <1>2
        <4> HIDE DEF w, r
        <4>3. next - 1 - w + (r + 1) = next - (w - r)
          BY <4>2
        <4> QED
          BY <3>3, <4>1, <4>3 DEF w, r
      <3>6. Class(1) = stream[1]
        BY <1>1, Basics DEF Class
      <3>7. seen' = Req.w - Req.r
        BY <1>3, <1>7, <3>4
      <3>8. CASE StartsLikeHttp(B)
        <4>1. \A i \in EolUnits : i > Len(ReqHead)
          <5>1. EolUnits \subseteq 1 .. Len(stream)
            BY <1>1, Basics
          <5> QED
            BY <1>2, <3>2, <5>1
        <4> QED
          BY <1>7, <2>7, <3>1, <3>4, <3>5, <3>6, <3>7, <3>8, <4>1
      <3>9. CASE ~StartsLikeHttp(B)
        <4>1. pc' = "socks"
          BY <1>7, <3>9
        <4>2. stream[1] \notin Methods => NoHttp
          BY DEF NoHttp
        <4> QED
          BY <2>8, <3>1, <3>4, <3>5, <3>6, <3>7, <3>9, <4>1, <4>2
      <3> QED
        BY <3>8, <3>9
    <2>10. Agreed'
      <3>1. ASSUME who = "guess", clean["guess"]
            PROVE  /\ pc' = "line" => /\ B.r \in {0, B.w}
                                      /\ Len(B.mem) >= HeadLen /\ Class(B.mem[1]) \in Methods
                   /\ proto["guess"] # "http"
        <4>1. B.r = 0 /\ B.r + 1 = 1 /\ proto["guess"] = "none"
          BY <1>1, <3>1 DEF IInv, Agreed, ProtoOK
        <4>2. B.w = Len(B.mem)
          BY <3>1 DEF IInv, Untouched
        <4>3. pc' = "line" => Len(B.mem) >= HeadLen /\ Class(B.mem[1]) \in Methods
          BY <1>2, <1>7, <2>7, <4>1, <4>2
        <4> QED
          BY <4>1, <4>3
      <3>2. ASSUME who = "req", keep, clean["req"]
            PROVE  B.r = 0 /\ B.w = Len(B.mem) /\ ~B.err /\ LineIn(B.mem) /\ pc' = "line"
        <4>1. B.r = 0 /\ B.r + 1 = 1 /\ B.w = Len(B.mem) /\ ~B.err /\ LineIn(B.mem)
          BY <1>1, <3>2 DEF IInv, Agreed
        <4>2. Len(B.mem) >= HeadLen /\ Class(B.mem[1]) \in Methods
          BY <4>1 DEF LineIn
        <4> QED
          BY <1>2, <1>7, <2>8, <4>1, <4>2
      <3>3. \A m : LineIn(m) <=> LineIn(m)'
        BY <1>1 DEF LineIn, EolUnits, Class
      <3> QED
        BY <1>1, <1>7, <2>1, <3>1, <3>2 DEF Agreed, LineIn, EolUnits, Class
    <2> QED
      BY <2>2, <2>3, <2>4, <2>9, <2>10 DEF IInv
  <1> QED
    BY <1>4, <1>6, <1>7 DEF PeekHead
\* A step of a detector that takes units of a line.
LEMMA TakeInv ==
    ASSUME IInv, pc \in {"line", "headers"}, NEW m \in Nat, m <= B.w - B.r, TakeUnits(m),
           UNCHANGED <<client, side, tcpcopy, next, who, keep, relay, start, seen, port, clean>>,
           proto' \in {proto, [proto EXCEPT ![who] = "http"]},
           pc' \in {"line", "headers", "socks", "respond", "guessed", "end"},
           pc' \in {"line", "socks"} => pc = "line" /\ proto' = proto,
           pc' \in {"headers", "respond"} => proto'[who] = "http",
           pc' \in {"respond", "end"} => who = "req",
           pc' = "guessed" => who = "guess"
    PROVE  Types' /\ Stored' /\ Untouched' /\ Parsed' /\ Forwarded' /\ NotParsed'
  <1>1. /\ Outside /\ Readers /\ Inside /\ ProtoOK /\ GuessOK /\ Linked
        /\ stream' = stream /\ sent' = sent /\ fin' = fin /\ side' = side /\ tcpcopy' = tcpcopy
        /\ who' = who /\ keep' = keep /\ next' = next
        /\ unread' = unread /\ toSrv' = toSrv /\ told' = told
        /\ start' = start /\ seen' = seen /\ port' = port /\ clean' = clean
    BY DEF IInv, Types, client, relay
  <1>2. /\ Len(stream) \in Nat /\ who \in Reader /\ GoodReader(Len(stream), B)
        /\ B.r \in Nat /\ B.w \in Nat /\ B.w - B.r \in Nat /\ next \in Nat \ {0}
        /\ start \in Nat
    <2>1. start \in Nat
      <3>1. Inside /\ Len(stream) \in Nat
        BY <1>1, Basics
      <3> QED
        BY <3>1 DEF Inside
    <2> QED
      BY <1>1, <2>1, Basics, Fields DEF B
  <1>3. taken \in [Reader -> Seq(1 .. Len(stream))]
    BY <1>1 DEF Inside
  <1>4. /\ Readers'
        /\ \A y \in Reader \ {who} : rd'[y] = rd[y] /\ taken'[y] = taken[y]
        /\ rd'[who].mem = B.mem /\ rd'[who].r = B.r + m /\ rd'[who].w = B.w /\ ~rd'[who].err
        /\ \A a : Holds(B, a) => Holds(rd'[who], a)
        /\ taken' \in [Reader -> Seq(1 .. Len(stream))]
        /\ Len(taken'[who]) = Len(taken[who]) + m
        /\ \A a \in Int : Runs(taken[who], a) /\ Runs(Window(B), a + Len(taken[who]))
                             => Runs(taken'[who], a)
    BY <1>1, <1>3, TakeFacts
  <1>5. \A y \in Reader \ {who} : proto'[y] = proto[y]
    BY <1>1 DEF Inside
  <1>6. Outside'
    BY <1>1 DEF Outside
  <1>7. Inside'
    <2>1. proto' \in [Reader -> {"none", "http", "socks5", "tcp"}]
      BY <1>1 DEF Inside
    <2> QED
      BY <1>1, <1>4, <2>1 DEF Inside
  <1>8. ProtoOK'
    BY <1>1 DEF ProtoOK
  <1>9. GuessOK'
    <2>1. rd'["guess"].mem = rd["guess"].mem
      BY <1>2, <1>4 DEF B, Reader
    <2>2. who = "guess" => rd'["req"] = rd["req"]
      BY <1>4 DEF Reader
    <2> QED
      BY <1>1, <2>1, <2>2 DEF GuessOK, Req
  <1>10. Linked'
    <2>1. CASE who = "req"
      <3>1. Req'.r = Req.r + m /\ Req'.w = Req.w /\ ~Req'.err /\ B = Req
        BY <1>4, <2>1 DEF Req, B
      <3>2. Req'.w - Req'.r < next
        <4>1. Req.w - Req.r < next /\ Req.w \in Nat /\ Req.r \in Nat
          BY <1>1, <1>2, <3>1 DEF Linked
        <4> QED
          BY <1>2, <3>1, <4>1
      <3> QED
        BY <1>1, <2>1, <3>1, <3>2 DEF Linked
    <2>2. CASE who = "guess"
      <3>1. Req' = Req
        BY <1>4, <2>2 DEF Req, Reader
      <3> QED
        BY <1>1, <2>2, <3>1 DEF Linked
    <2> QED
      BY <1>2, <2>1, <2>2 DEF Reader
  <1>11. Stored'
    <2> SUFFICES ASSUME clean["req"] PROVE Holds(rd'[who], next - 1)
      BY <1>1 DEF Stored, B
    <2>1. Holds(B, next - 1)
      BY DEF IInv, Stored
    <2> QED
      BY <1>4, <2>1
  <1>12. Untouched'
    <2>1. who = "guess" => B' = rd'[who]
      BY <1>1 DEF B
    <2>2. Runs(B.mem, next - Len(B.mem)) <=> Runs(B.mem, next - Len(B.mem))'
      BY <1>1, <1>4 DEF Runs, B
    <2> QED
      BY <1>1, <1>4, <2>1, <2>2 DEF IInv, Untouched
  <1>13. Parsed'
    <2>1. ASSUME who = "req", clean["req"]
          PROVE  Runs(taken'["req"], start) /\ start + Len(taken'["req"]) = next - (B.w - (B.r + m))
      <3>1. Runs(taken["req"], start) /\ start + Len(taken["req"]) = next - (B.w - B.r)
        <4>1. proto["req"] # "socks5"
          BY <1>1, <2>1 DEF ProtoOK
        <4> QED
          BY <2>1, <4>1 DEF IInv, Parsed, ReqHead, Req, B
      <3>2. Holds(B, next - 1)
        BY <2>1 DEF IInv, Stored
      <3>3. Runs(Window(B), next - 1 + 1 - (B.w - B.r))
        BY <1>2, <3>2, WindowRuns
      <3>4. next - 1 + 1 - (B.w - B.r) = start + Len(taken["req"])
        BY <1>2, <3>1
      <3>5. Len(taken["req"]) \in Nat
        BY <1>3 DEF Reader
      <3>6. start + (Len(taken["req"]) + m) = next - (B.w - (B.r + m))
        <4> DEFINE l == Len(taken["req"])
                   c == B.w - B.r
        <4>1. l \in Int /\ c \in Int /\ start + l = next - c
          BY <1>2, <3>1, <3>5
        <4>2. B.w - (B.r + m) = c - m
          BY <1>2
        <4> HIDE DEF l, c
        <4>3. start + (l + m) = next - (c - m)
          BY <1>2, <4>1
        <4> QED
          BY <4>2, <4>3 DEF l
      <3>7. Runs(Window(B), start + Len(taken["req"]))
        BY <3>3, <3>4
      <3>8. start \in Int
        BY <1>2
      <3>9. Runs(taken'["req"], start)
        BY <1>4, <2>1, <3>1, <3>7, <3>8
      <3> QED
        BY <1>4, <2>1, <3>6, <3>9
    <2>2. who = "req" => Req'.w = B.w /\ Req'.r = B.r + m
      BY <1>4 DEF Req
    <2>3. pc' = "respond" => proto'["req"] = "http"
      OBVIOUS
    <2> QED
      BY <1>1, <2>1, <2>2, <2>3 DEF Parsed, ReqHead, Runs
  <1>14. Forwarded'
    <2>1. ASSUME who = "guess"
          PROVE  /\ rd'["guess"].mem = rd["guess"].mem /\ ReqHead' = ReqHead
                 /\ proto'["req"] = proto["req"]
      BY <1>4, <1>5, <2>1 DEF B, ReqHead, Reader
    <2>2. who = "guess" => First' = First /\ IsConnect' = IsConnect
      BY <1>1, <2>1 DEF First, Held, IsConnect, Class
    <2> QED
      BY <1>1, <2>1, <2>2 DEF IInv, Forwarded, Runs
  <1>15. NotParsed'
    BY <1>1 DEF IInv, NotParsed
  <1> QED
    BY <1>4, <1>6, <1>7, <1>8, <1>9, <1>10, <1>11, <1>12, <1>13, <1>14, <1>15 DEF Types
\* Where the units of the first request are while its first line is read.
LEMMA FirstUnits ==
    ASSUME IInv, who = "req", ~keep, pc = "line"
    PROVE  /\ Len(ReqHead) \in Nat /\ Len(ReqHead) + (B.w - B.r) = next - 1
           /\ \A i \in 1 .. B.w - B.r : Window(B)[i] = Len(ReqHead) + i
           /\ \A e \in EolUnits : e > Len(ReqHead)
           /\ stream[1] \in Methods /\ seen >= HeadLen
  <1>1. Outside /\ Readers /\ Inside /\ ProtoOK
    BY DEF IInv, Types
  <1>2. /\ Len(stream) \in Nat /\ GoodReader(Len(stream), B) /\ next \in Nat
        /\ B.r \in Nat /\ B.w \in Nat /\ B.w - B.r \in Nat
    BY <1>1, Basics, Fields DEF B
  <1>3. /\ start = 1 /\ clean["req"] /\ stream[1] \in Methods /\ seen >= HeadLen
        /\ \A e \in EolUnits : e > Len(ReqHead)
    BY DEF IInv, Decided
  <1>4. proto["req"] = "none"
    BY <1>1 DEF ProtoOK
  <1>5. start + Len(ReqHead) = next - (B.w - B.r)
    BY <1>3, <1>4 DEF IInv, Parsed, Req, B
  <1>6. Len(ReqHead) \in Nat
    BY <1>1 DEF Inside, Reader, ReqHead
  <1> DEFINE l == Len(ReqHead)
             c == B.w - B.r
  <1>7. l \in Nat /\ c \in Nat /\ 1 + l = next - c
    BY <1>2, <1>3, <1>5, <1>6
  <1>8. Runs(Window(B), next - 1 + 1 - c)
    <2>1. Holds(B, next - 1)
      BY <1>3 DEF IInv, Stored
    <2> QED
      BY <1>2, <2>1, WindowRuns
  <1>9. Len(Window(B)) = c
    BY <1>2, WindowIs
  <1> HIDE DEF l, c
  <1>10. l + c = next - 1 /\ next - 1 + 1 - c = 1 + l
    BY <1>2, <1>7
  <1>11. ASSUME NEW i \in 1 .. c PROVE Window(B)[i] = l + i
    <2>1. Window(B)[i] = 1 + l + i - 1
      BY <1>8, <1>9, <1>10 DEF Runs
    <2> QED
      BY <1>7, <2>1
  <1> QED
    BY <1>3, <1>6, <1>10, <1>11 DEF l, c

\* readFistLine.
LEMMA FirstLineInv == ASSUME IInv, FirstLine PROVE IInv'
  <1>1. /\ Outside /\ Readers /\ Inside /\ ProtoOK /\ GuessOK /\ Linked
        /\ stream' = stream /\ sent' = sent /\ fin' = fin /\ side' = side /\ tcpcopy' = tcpcopy
        /\ who' = who /\ keep' = keep /\ unread' = unread /\ toSrv' = toSrv /\ told' = told
        /\ start' = start /\ seen' = seen /\ port' = port /\ pc = "line"
    BY DEF IInv, Types, FirstLine, client, relay
  <1>2. /\ Len(stream) \in Nat /\ who \in Reader /\ GoodReader(Len(stream), B)
        /\ B.r \in Nat /\ B.w \in Nat /\ B.w - B.r \in Nat /\ B.r <= B.w /\ B.w <= Len(B.mem)
        /\ Len(B.mem) \in Nat /\ HeadLen \in Nat \ {0} /\ next \in Nat /\ next <= sent + 1
        /\ sent \in Nat /\ EolUnits \subseteq 1 .. Len(stream)
    BY <1>1, Basics, Fields DEF B, GoodReader
  <1>3. Buffered(B) = B.w - B.r /\ proto[who] = "none"
    BY <1>1 DEF Buffered, ProtoOK
  <1>4. /\ \A i \in 1 .. B.w - B.r : Window(B)[i] = B.mem[B.r + i]
        /\ EolUnits' = EolUnits /\ \A u : Class(u)' = Class(u)
    BY <1>1, <1>2, WindowIs DEF EolUnits, Class
  <1>5. \A i \in EolUnits : Class(i) = stream[i] /\ i \in DOMAIN stream
    BY DEF EolUnits, Class
  \* A reader with the line in it has it still.
  <1>6. ASSUME who = "req", keep, clean["req"]
        PROVE  /\ B.r = 0 /\ B.w = Len(B.mem) /\ HasLine(B, EolUnits)
               /\ Class(Window(B)[LineLen(B, EolUnits)]) \in Versions
    <2>1. B.r = 0 /\ B.w = Len(B.mem) /\ LineIn(B.mem)
      BY <1>1, <1>6 DEF IInv, Agreed
    <2>2. PICK i \in 1 .. Len(B.mem) : /\ B.mem[i] \in EolUnits /\ Class(B.mem[i]) \in Versions
                                       /\ \A j \in 1 .. i - 1 : B.mem[j] \notin EolUnits
      BY <2>1 DEF LineIn
    <2>3. \A j \in 1 .. Len(B.mem) : j \in 1 .. B.w - B.r /\ Window(B)[j] = B.mem[j]
      <3>1. B.w - B.r = Len(B.mem) /\ \A j \in 1 .. Len(B.mem) : B.r + j = j
        BY <1>2, <2>1
      <3> QED
        BY <1>4, <3>1
    <2>4. HasLine(B, EolUnits)
      BY <1>3, <2>2, <2>3 DEF HasLine, LineEnds
    <2> DEFINE m == LineLen(B, EolUnits)
    <2>5. /\ m \in 1 .. B.w - B.r /\ Window(B)[m] \in EolUnits
          /\ \A j \in 1 .. m - 1 : Window(B)[j] \notin EolUnits
      BY <1>2, <2>4, LineIs
    <2> HIDE DEF m
    <2>6. m \in 1 .. Len(B.mem) /\ B.mem[m] \in EolUnits
      BY <1>2, <2>1, <2>3, <2>5
    <2>7. m = i
      <3>1. ~(m < i)
        <4> SUFFICES ASSUME m < i PROVE FALSE
          OBVIOUS
        <4>1. m \in 1 .. i - 1
          BY <1>2, <2>6
        <4> QED
          BY <2>2, <2>6, <4>1
      <3>2. ~(i < m)
        <4> SUFFICES ASSUME i < m PROVE FALSE
          OBVIOUS
        <4>1. i \in 1 .. m - 1
          BY <1>2, <2>6
        <4> QED
          BY <2>2, <2>3, <2>5, <4>1
      <3> QED
        BY <1>2, <2>6, <3>1, <3>2
    <2> QED
      BY <2>1, <2>2, <2>3, <2>4, <2>6, <2>7 DEF m
  <1>7. CASE /\ HasLine(B, EolUnits)
             /\ TakeUnits(LineLen(B, EolUnits))
             /\ IF Class(Window(B)[LineLen(B, EolUnits)]) \in Versions
                THEN proto' = [proto EXCEPT ![who] = "http"] /\ (pc' = "headers" \/ Fail)
                ELSE pc' = "socks" /\ UNCHANGED proto
             /\ UNCHANGED <<next, clean>>
    <2> DEFINE m == LineLen(B, EolUnits)
               u == Window(B)[m]
    <2>1. /\ m \in 1 .. B.w - B.r /\ u \in EolUnits
          /\ \A j \in 1 .. m - 1 : Window(B)[j] \notin EolUnits
      BY <1>2, <1>7, LineIs
    <2>2. /\ TakeUnits(m) /\ next' = next /\ clean' = clean
          /\ Class(u) \in Versions =>
                /\ proto' = [proto EXCEPT ![who] = "http"]
                /\ pc' \in {"headers", IF who = "guess" THEN "guessed" ELSE "end"}
          /\ Class(u) \notin Versions => pc' = "socks" /\ proto' = proto
      BY <1>7 DEF Fail
    <2>3. HasLine(B, EolUnits)
      BY <1>7
    <2> HIDE DEF m
    <2>4. m \in Nat /\ m <= B.w - B.r
      BY <1>2, <2>1
    <2>5. proto'[who] = (IF Class(u) \in Versions THEN "http" ELSE "none")
      BY <1>1, <1>2, <1>3, <2>2 DEF Inside
    <2>6. Types' /\ Stored' /\ Untouched' /\ Parsed' /\ Forwarded' /\ NotParsed'
      <3>1. /\ proto' \in {proto, [proto EXCEPT ![who] = "http"]}
            /\ pc' \in {"line", "headers", "socks", "respond", "guessed", "end"}
            /\ pc' \in {"line", "socks"} => pc = "line" /\ proto' = proto
            /\ pc' \in {"headers", "respond"} => proto'[who] = "http"
            /\ pc' \in {"respond", "end"} => who = "req"
            /\ pc' = "guessed" => who = "guess"
        <4> HIDE DEF u
        <4> QED
          BY <1>1, <1>2, <2>2, <2>5 DEF Reader
      <3>2. UNCHANGED <<client, side, tcpcopy, next, who, keep, relay, start, seen, port, clean>>
        BY <1>1, <2>2 DEF client, relay
      <3> QED
        BY <1>1, <2>2, <2>4, <3>1, <3>2, TakeInv
    <2>7. /\ rd'[who].mem = B.mem /\ taken' \in [Reader -> Seq(1 .. Len(stream))]
          /\ \A y \in Reader \ {who} : rd'[y] = rd[y]
      BY <1>1, <2>2, <2>4, TakeFacts DEF Inside
    <2>8. Decided'
      <3> SUFFICES ASSUME who = "req", ~keep
                   PROVE  /\ start = 1 /\ clean["req"] /\ seen >= HeadLen
                          /\ Class(u) \in Versions => IsHttp
                          /\ Class(u) \notin Versions => NoHttp
        <4>1. IsHttp' = IsHttp /\ NoHttp' = NoHttp
          BY <1>1, <1>4 DEF IsHttp, NoHttp
        <4>2. seen \in Nat /\ HeadLen \in Nat
          BY <1>1, <1>2, DetectAssumption DEF Inside
        <4> HIDE DEF u
        <4> QED
          BY <1>1, <2>2, <4>1, <4>2 DEF Decided
      <3>1. /\ Len(ReqHead) \in Nat /\ Len(ReqHead) + (B.w - B.r) = next - 1
            /\ \A i \in 1 .. B.w - B.r : Window(B)[i] = Len(ReqHead) + i
            /\ \A e \in EolUnits : e > Len(ReqHead)
            /\ stream[1] \in Methods /\ seen >= HeadLen
        BY <1>1, FirstUnits
      <3>2. start = 1 /\ clean["req"]
        BY <1>1 DEF IInv, Decided
      <3> DEFINE l == Len(ReqHead)
                 c == B.w - B.r
      <3>3. l \in Nat /\ c \in Nat /\ l + c = next - 1 /\ u = l + m
        BY <1>2, <2>1, <3>1
      <3> HIDE DEF l
      <3>4. ASSUME NEW e \in EolUnits PROVE u <= e
        <4> SUFFICES ASSUME ~(u <= e) PROVE FALSE
          OBVIOUS
        <4>1. e \in Nat /\ e > l
          BY <1>2, <3>1 DEF l
        <4>2. e - l \in 1 .. m - 1 /\ e - l \in 1 .. B.w - B.r /\ l + (e - l) = e
          BY <1>2, <2>1, <3>3, <4>1
        <4>3. Window(B)[e - l] = e
          BY <3>1, <4>2 DEF l
        <4> QED
          BY <2>1, <4>2, <4>3
      <3>5. u <= sent
        BY <1>2, <2>1, <3>3
      <3>6. Class(u) \in Versions => IsHttp
        BY <1>5, <2>1, <3>1, <3>4, <3>5 DEF IsHttp
      <3>7. Class(u) \notin Versions => NoHttp
        BY <1>5, <2>1, <3>4 DEF NoHttp
      <3> QED
        BY <3>1, <3>2, <3>6, <3>7
    <2>9. Agreed'
      <3>1. ASSUME who = "guess", clean["guess"], Class(u) \in Versions
            PROVE  LineIn(rd["guess"].mem)
        <4>1. /\ B.r \in {0, B.w} /\ Len(B.mem) >= HeadLen /\ Class(B.mem[1]) \in Methods
              /\ B = rd["guess"]
          BY <1>1, <3>1 DEF IInv, Agreed, B
        <4>2. B.r = 0
          BY <1>2, <2>1, <4>1
        <4>3. m \in 1 .. Len(B.mem) /\ \A j \in 1 .. m : j \in 1 .. B.w - B.r /\ B.r + j = j
          BY <1>2, <2>1, <4>2
        <4>4. B.mem[m] \in EolUnits /\ Class(B.mem[m]) \in Versions
          <5>1. m \in 1 .. m
            BY <2>1
          <5> QED
            BY <1>4, <2>1, <3>1, <4>3, <5>1
        <4>5. ASSUME NEW j \in 1 .. m - 1 PROVE B.mem[j] \notin EolUnits
          <5>1. j \in 1 .. m
            BY <2>4
          <5> QED
            BY <1>4, <2>1, <4>3, <5>1
        <4> QED
          BY <4>1, <4>3, <4>4, <4>5 DEF LineIn
      <3>2. ASSUME who = "req", keep, clean["req"] PROVE pc' \in {"headers", "end"}
        <4>1. Class(u) \in Versions
          BY <1>6, <3>2 DEF m
        <4> HIDE DEF u
        <4> QED
          BY <2>2, <3>2, <4>1
      <3>3. who = "guess" => rd'["guess"].mem = rd["guess"].mem
        BY <2>7 DEF B
      <3>4. who = "guess" => LineIn(B.mem)' = LineIn(rd["guess"].mem)
        BY <1>1, <3>3 DEF LineIn, EolUnits, Class, B
      <3> HIDE DEF u
      <3> QED
        BY <1>1, <2>2, <2>5, <3>1, <3>2, <3>4 DEF Agreed
    <2> QED
      BY <2>6, <2>8, <2>9 DEF IInv
  <1>8. CASE /\ ~HasLine(B, EolUnits) /\ CutShort(B)
             /\ TakeUnits(Buffered(B))
             /\ pc' = IF B.err THEN "socks" ELSE pc
             /\ UNCHANGED <<next, clean, proto>>
    <2> DEFINE c == B.w - B.r
    <2>1. /\ TakeUnits(c) /\ next' = next /\ clean' = clean /\ proto' = proto
          /\ pc' = IF B.err THEN "socks" ELSE "line"
      BY <1>1, <1>3, <1>8
    <2>2. \A i \in 1 .. c : Window(B)[i] \notin EolUnits
      BY <1>3, <1>8 DEF HasLine, LineEnds
    <2>3. c \in Nat /\ c <= B.w - B.r
      BY <1>2
    <2>4. Types' /\ Stored' /\ Untouched' /\ Parsed' /\ Forwarded' /\ NotParsed'
      <3>1. UNCHANGED <<client, side, tcpcopy, next, who, keep, relay, start, seen, port, clean>>
        BY <1>1, <2>1 DEF client, relay
      <3> QED
        BY <1>1, <2>1, <2>3, <3>1, TakeInv
    <2>5. /\ rd'[who].mem = B.mem /\ rd'[who].r = B.r + c /\ rd'[who].w = B.w
          /\ Len(taken'[who]) = Len(taken[who]) + c
      BY <1>1, <2>1, <2>3, TakeFacts DEF Inside
    <2>6. Decided'
      <3> SUFFICES ASSUME who = "req", ~keep
                   PROVE  /\ start = 1 /\ clean["req"] /\ seen >= HeadLen /\ stream[1] \in Methods
                          /\ \A i \in EolUnits : i > Len(ReqHead) + c
                          /\ B.err => NoHttp
        <4>1. IsHttp' = IsHttp /\ NoHttp' = NoHttp
          BY <1>1, <1>4 DEF IsHttp, NoHttp
        <4>2. who = "req" => Len(ReqHead') = Len(ReqHead) + c
          BY <2>5 DEF ReqHead
        <4> QED
          BY <1>1, <1>2, <1>4, <2>1, <4>1, <4>2 DEF Decided, Inside
      <3>1. /\ Len(ReqHead) \in Nat /\ Len(ReqHead) + (B.w - B.r) = next - 1
            /\ \A i \in 1 .. B.w - B.r : Window(B)[i] = Len(ReqHead) + i
            /\ \A e \in EolUnits : e > Len(ReqHead)
            /\ stream[1] \in Methods /\ seen >= HeadLen
        BY <1>1, FirstUnits
      <3>2. start = 1 /\ clean["req"]
        BY <1>1 DEF IInv, Decided
      <3> DEFINE l == Len(ReqHead)
      <3>3. ASSUME NEW e \in EolUnits PROVE e > l + c
        <4> SUFFICES ASSUME ~(e > l + c) PROVE FALSE
          OBVIOUS
        <4>1. e \in Nat /\ e > l /\ l \in Nat
          BY <1>2, <3>1
        <4> HIDE DEF l
        <4>2. e - l \in 1 .. c /\ l + (e - l) = e
          BY <2>3, <4>1
        <4>3. Window(B)[e - l] = e
          BY <3>1, <4>2 DEF l
        <4> QED
          BY <2>2, <4>2, <4>3
      <3>4. ASSUME B.err PROVE NoHttp
        <4>1. fin /\ next = sent + 1
          BY <1>1, <3>4 DEF Linked, Req, B
        <4>2. l + c = sent
          BY <1>2, <3>1, <4>1
        <4> QED
          BY <3>3, <4>1, <4>2 DEF NoHttp
      <3> QED
        BY <3>1, <3>2, <3>3, <3>4
    <2>7. Agreed'
      <3>1. ~(who = "req" /\ keep /\ clean["req"])
        BY <1>6, <1>8
      <3>2. ASSUME who = "guess", clean["guess"]
            PROVE  Len(B.mem) >= HeadLen /\ Class(B.mem[1]) \in Methods /\ proto["guess"] = "none"
        BY <1>1, <1>3, <3>2 DEF IInv, Agreed
      <3>3. B.r + c = B.w
        BY <1>2
      <3>4. who = "guess" => B' = rd'[who]
        BY <1>1 DEF B
      <3> QED
        BY <1>1, <1>4, <2>1, <2>5, <3>1, <3>2, <3>3, <3>4 DEF Agreed
    <2> QED
      BY <2>4, <2>6, <2>7 DEF IInv
  <1>9. CASE /\ ~HasLine(B, EolUnits) /\ ~CutShort(B)
             /\ FillStep /\ UNCHANGED <<pc, taken, proto>>
    <2>1. ~(who = "req" /\ keep /\ clean["req"] /\ pc \in {"peek", "line"})
      BY <1>6, <1>9
    <2>2. UNCHANGED <<client, side, tcpcopy, who, keep, pc, parse, relay, start, seen, port>>
      BY <1>1, <1>9 DEF client, parse, relay
    <2> QED
      BY <1>1, <1>9, <2>1, <2>2, FillInv
  <1> QED
    BY <1>7, <1>8, <1>9 DEF FirstLine
\* ReadHeader.
LEMMA HeadersInv == ASSUME IInv, Headers PROVE IInv'
  <1>1. /\ Outside /\ Readers /\ Inside /\ ProtoOK /\ GuessOK /\ Linked
        /\ stream' = stream /\ sent' = sent /\ fin' = fin /\ side' = side /\ tcpcopy' = tcpcopy
        /\ who' = who /\ keep' = keep /\ unread' = unread /\ toSrv' = toSrv /\ told' = told
        /\ start' = start /\ seen' = seen /\ port' = port /\ pc = "headers"
    BY DEF IInv, Types, Headers, client, relay
  <1>2. /\ Len(stream) \in Nat /\ who \in Reader /\ GoodReader(Len(stream), B)
        /\ B.w - B.r \in Nat
    BY <1>1, Basics, Fields DEF B
  <1>3. Buffered(B) = B.w - B.r /\ proto[who] = "http"
    BY <1>1 DEF Buffered, ProtoOK
  <1>4. ASSUME NEW m \in Nat, m <= B.w - B.r, TakeUnits(m), UNCHANGED <<next, clean>>,
               proto' \in {proto, [proto EXCEPT ![who] = "http"]},
               pc' \in {"headers", "respond", "guessed", "end"},
               pc' \in {"respond", "end"} => who = "req", pc' = "guessed" => who = "guess"
        PROVE  IInv'
    <2>1. UNCHANGED <<client, side, tcpcopy, next, who, keep, relay, start, seen, port, clean>>
      BY <1>1, <1>4 DEF client, relay
    <2>2. proto' = proto
      BY <1>1, <1>2, <1>3, <1>4 DEF Inside
    <2>3. Types' /\ Stored' /\ Untouched' /\ Parsed' /\ Forwarded' /\ NotParsed'
      BY <1>1, <1>3, <1>4, <2>1, <2>2, TakeInv
    <2>4. rd'[who].mem = B.mem
      BY <1>1, <1>4, TakeFacts DEF Inside
    <2>5. Decided'
      <3>1. IsHttp' = IsHttp
        BY <1>1 DEF IsHttp, EolUnits
      <3> QED
        BY <1>1, <1>3, <1>4, <2>2, <3>1 DEF IInv, Decided
    <2>6. Agreed'
      <3>1. who = "guess" => LineIn(B.mem)' = LineIn(B.mem)
        BY <1>1, <2>4 DEF LineIn, EolUnits, Class, B
      <3> QED
        BY <1>1, <1>3, <1>4, <2>2, <3>1 DEF IInv, Agreed
    <2> QED
      BY <2>3, <2>5, <2>6 DEF IInv
  <1>5. CASE /\ HasLine(B, EolUnits)
             /\ TakeUnits(LineLen(B, EolUnits))
             /\ LET c == Class(Window(B)[LineLen(B, EolUnits)])
                IN  IF c = "bad" THEN Fail
                    ELSE IF c = "blank" THEN Claim("http") ELSE UNCHANGED pc
             /\ UNCHANGED <<next, clean, proto>>
    <2> DEFINE m == LineLen(B, EolUnits)
    <2>1. m \in 1 .. B.w - B.r
      BY <1>2, <1>5, LineIs
    <2>2. /\ TakeUnits(m) /\ UNCHANGED <<next, clean>> /\ proto' = proto
          /\ pc' \in {"headers", IF who = "guess" THEN "guessed" ELSE "end",
                      IF who = "guess" THEN "guessed" ELSE "respond"}
      BY <1>1, <1>5 DEF Fail, Claim
    <2> HIDE DEF m
    <2>3. m \in Nat /\ m <= B.w - B.r
      BY <1>2, <2>1
    <2> QED
      BY <1>2, <1>4, <2>2, <2>3 DEF Reader
  <1>6. CASE /\ ~HasLine(B, EolUnits) /\ CutShort(B)
             /\ TakeUnits(Buffered(B))
             /\ IF B.err THEN Fail ELSE UNCHANGED pc
             /\ UNCHANGED <<next, clean, proto>>
    <2> DEFINE m == B.w - B.r
    <2>1. m \in Nat /\ m <= B.w - B.r
      BY <1>2
    <2>2. /\ TakeUnits(m) /\ UNCHANGED <<next, clean>> /\ proto' = proto
          /\ pc' \in {"headers", IF who = "guess" THEN "guessed" ELSE "end"}
      BY <1>1, <1>3, <1>6 DEF Fail
    <2> HIDE DEF m
    <2> QED
      BY <1>2, <1>4, <2>1, <2>2 DEF Reader
  <1>7. CASE /\ ~HasLine(B, EolUnits) /\ ~CutShort(B)
             /\ FillStep /\ UNCHANGED <<pc, taken, proto>>
    <2>1. UNCHANGED <<client, side, tcpcopy, who, keep, pc, parse, relay, start, seen, port>>
      BY <1>1, <1>7 DEF client, parse, relay
    <2> QED
      BY <1>1, <1>7, <2>1, FillInv
  <1> QED
    BY <1>5, <1>6, <1>7 DEF Headers

\* The question for SOCKS5, and plain TCP for what is neither.
LEMMA SocksHeadInv == ASSUME IInv, SocksHead PROVE IInv'
  <1>1. /\ Outside /\ Readers /\ Inside /\ ProtoOK /\ GuessOK /\ Linked
        /\ stream' = stream /\ sent' = sent /\ fin' = fin /\ side' = side /\ tcpcopy' = tcpcopy
        /\ who' = who /\ keep' = keep /\ next' = next /\ taken' = taken
        /\ unread' = unread /\ toSrv' = toSrv
        /\ start' = start /\ seen' = seen /\ port' = port /\ clean' = clean /\ pc = "socks"
    BY DEF IInv, Types, SocksHead, client, ghosts
  <1>2. /\ Len(stream) \in Nat /\ who \in Reader /\ GoodReader(Len(stream), B)
        /\ B.r \in Nat /\ B.w \in Nat /\ B.w - B.r \in Nat /\ Len(B.mem) <= BufSize
        /\ next \in Nat /\ HeadLen \in Nat /\ seen \in Nat
    <2>1. seen \in Nat
      BY <1>1, Basics DEF Inside
    <2> QED
      BY <1>1, <2>1, Basics, Fields DEF B
  <1>3. Buffered(B) = B.w - B.r /\ proto[who] = "none"
    BY <1>1 DEF Buffered, ProtoOK
  <1>4. NotParsed' /\ ~(who = "req" /\ keep /\ clean["req"])
    BY <1>1 DEF IInv, NotParsed, Agreed
  <1>5. IsHttp' = IsHttp /\ NoHttp' = NoHttp
    BY <1>1 DEF IsHttp, NoHttp, EolUnits
  <1>6. Outside'
    BY <1>1 DEF Outside
  <1>7. ASSUME NEW p \in {"socks5", "tcp"}, proto' = [proto EXCEPT ![who] = p]
        PROVE  /\ proto' \in [Reader -> {"none", "http", "socks5", "tcp"}] /\ proto'[who] = p
               /\ who = "guess" => proto'["req"] = proto["req"]
    BY <1>1, <1>2, <1>7 DEF Inside, Reader
  <1>8. CASE /\ Buffered(B) >= HeadLen
             /\ rd' = [rd EXCEPT ![who] = Skip(B, Buffered(B))]
             /\ proto' = [proto EXCEPT ![who] = "socks5"] /\ pc' = "sreq"
             /\ told' = Append(told, "method")
    <2> DEFINE s == Skip(B, B.w - B.r)
    <2>1. /\ GoodReader(Len(stream), s) /\ s.mem = B.mem /\ s.r = B.r + (B.w - B.r)
          /\ s.w = B.w /\ s.err = B.err /\ \A a : Holds(B, a) => Holds(s, a)
      BY <1>2, SkipIs
    <2>2. rd' = [rd EXCEPT ![who] = s]
      BY <1>3, <1>8
    <2> HIDE DEF s
    <2>3. s.r = s.w
      BY <1>2, <2>1
    <2>4. Readers' /\ rd'[who] = s /\ \A y \in Reader \ {who} : rd'[y] = rd[y]
      <3>1. Len(s.mem) <= BufSize
        BY <1>2, <2>1
      <3> QED
        BY <1>1, <1>2, <2>1, <2>2, <3>1, ReaderStep
    <2>5. B' = s
      BY <1>1, <2>4 DEF B
    <2>6. Inside'
      <3>1. told' \in Seq({"method", "granted", "established"})
        BY <1>1, <1>8 DEF Inside
      <3> QED
        BY <1>1, <1>7, <1>8, <3>1 DEF Inside
    <2>7. ProtoOK'
      BY <1>1, <1>7, <1>8 DEF ProtoOK
    <2>8. GuessOK' /\ Linked'
      <3>1. CASE who = "req"
        <4>1. Req' = s /\ Req = B /\ rd'["guess"] = rd["guess"]
          BY <2>4, <3>1 DEF Req, B, Reader
        <4>2. Req'.w - Req'.r < next
          <5>1. B.w - B.r < next
            BY <1>1, <4>1 DEF Linked
          <5>2. s.w - s.r = 0
            BY <1>2, <2>1, <2>3
          <5> QED
            BY <1>2, <4>1, <5>1, <5>2
        <4>3. GuessOK'
          BY <1>1, <3>1, <4>1 DEF GuessOK
        <4>4. Linked'
          BY <1>1, <1>8, <2>1, <2>3, <2>5, <3>1, <4>1, <4>2 DEF Linked
        <4> QED
          BY <4>3, <4>4
      <3>2. CASE who = "guess"
        <4>1. Req' = Req /\ rd'["guess"] = s /\ B = rd["guess"]
          BY <2>4, <3>2 DEF Req, B, Reader
        <4>2. GuessOK'
          BY <1>1, <1>8, <2>1, <3>2, <4>1 DEF GuessOK
        <4>3. Linked'
          BY <1>1, <1>8, <2>3, <2>5, <3>2, <4>1 DEF Linked
        <4> QED
          BY <4>2, <4>3
      <3> QED
        BY <1>2, <3>1, <3>2 DEF Reader
    <2>9. Types'
      BY <1>6, <2>4, <2>6, <2>7, <2>8 DEF Types
    <2>10. Stored' /\ Untouched'
      <3>1. Stored'
        BY <1>1, <2>1, <2>5 DEF IInv, Stored
      <3>2. Untouched'
        BY <1>1, <2>1, <2>5 DEF IInv, Untouched, Runs
      <3> QED
        BY <3>1, <3>2
    <2>11. Parsed'
      BY <1>8 DEF Parsed
    <2>12. Forwarded'
      <3>1. who = "guess" => rd'["guess"].mem = rd["guess"].mem
        BY <2>1, <2>4 DEF B
      <3>2. who = "guess" => First' = First /\ IsConnect' = IsConnect /\ ReqHead' = ReqHead
        BY <1>1, <3>1 DEF First, Held, IsConnect, Class, ReqHead
      <3> QED
        BY <1>1, <1>7, <1>8, <3>2 DEF IInv, Forwarded, Runs
    <2>13. Decided'
      BY <1>1, <1>2, <1>3, <1>5, <1>8 DEF IInv, Decided, Req, B
    <2>14. Agreed'
      BY <1>1, <1>4, <1>7, <1>8 DEF Agreed
    <2> QED
      BY <1>4, <2>9, <2>10, <2>11, <2>12, <2>13, <2>14 DEF IInv
  <1>9. CASE Claim("tcp") /\ UNCHANGED <<rd, told>>
    <2>1. /\ proto' = [proto EXCEPT ![who] = "tcp"] /\ rd' = rd /\ told' = told
          /\ pc' = IF who = "guess" THEN "guessed" ELSE "respond"
      BY <1>9 DEF Claim
    <2>2. B' = B /\ Req' = Req
      BY <1>1, <2>1 DEF B, Req
    <2>3. Types'
      <3>1. Readers'
        BY <1>1, <2>1 DEF Readers
      <3>2. Inside'
        BY <1>1, <1>7, <2>1 DEF Inside
      <3>3. ProtoOK' /\ GuessOK' /\ Linked'
        BY <1>1, <1>2, <1>7, <2>1, <2>2 DEF ProtoOK, GuessOK, Linked, Reader
      <3> QED
        BY <1>6, <3>1, <3>2, <3>3 DEF Types
    <2>4. Stored' /\ Untouched'
      BY <1>1, <2>2 DEF IInv, Stored, Untouched, Runs
    <2>5. Parsed'
      BY <1>1, <1>2, <1>3, <1>7, <2>1, <2>2 DEF IInv, Parsed, ReqHead, Reader
    <2>6. Forwarded'
      <3>1. First' = First /\ IsConnect' = IsConnect /\ ReqHead' = ReqHead
        BY <1>1, <2>1, <2>2 DEF First, Held, IsConnect, Class, ReqHead
      <3> QED
        BY <1>1, <1>7, <2>1, <3>1 DEF IInv, Forwarded, Runs
    <2>7. Decided'
      BY <1>1, <1>3, <1>5, <1>7, <2>1 DEF IInv, Decided
    <2>8. Agreed'
      BY <1>1, <1>4, <1>7, <2>1 DEF Agreed
    <2> QED
      BY <1>4, <2>3, <2>4, <2>5, <2>6, <2>7, <2>8 DEF IInv
  <1> QED
    BY <1>8, <1>9 DEF SocksHead
\* ParseHeader of SOCKS5.
LEMMA SocksRequestInv == ASSUME IInv, SocksRequest PROVE IInv'
  <1> DEFINE N == Len(stream)
  <1>1. /\ Outside /\ Readers /\ Inside /\ ProtoOK /\ GuessOK /\ Linked
        /\ stream' = stream /\ sent' = sent /\ fin' = fin /\ side' = side /\ tcpcopy' = tcpcopy
        /\ who' = who /\ keep' = keep /\ taken' = taken
        /\ unread' = unread /\ toSrv' = toSrv /\ told' = told
        /\ start' = start /\ seen' = seen /\ pc = "sreq"
    BY DEF IInv, Types, SocksRequest, client, relay
  <1>2. /\ N \in Nat /\ who \in Reader /\ GoodReader(N, B)
        /\ B.r \in Nat /\ B.w \in Nat /\ Len(B.mem) <= BufSize /\ B.r = B.w
        /\ next \in Nat \ {0} /\ sent \in Nat /\ sent <= N /\ next <= sent + 1 /\ SocksSize \in Nat
    BY <1>1, Basics, Fields DEF B, Linked
  <1>3. proto[who] = "socks5" /\ proto' = proto
    BY <1>1 DEF ProtoOK, SocksRequest
  <1>4. NotParsed' /\ ~(who = "req" /\ keep /\ clean["req"])
    BY <1>1 DEF IInv, NotParsed, Agreed
  <1>5. IsHttp' = IsHttp /\ NoHttp' = NoHttp
    BY <1>1 DEF IsHttp, NoHttp, EolUnits
  <1> HIDE DEF N
  <1>6. ASSUME NEW n \in 1 .. Avail, n <= ReadMax(B, SocksSize),
               rd' = [rd EXCEPT ![who] = Load(B, SocksSize, Span(next, next + n - 1))],
               next' = next + n,
               IF Given(B, SocksSize, n) < 2 THEN Fail /\ UNCHANGED port
               ELSE Claim("socks5") /\ port' = next + Given(B, SocksSize, n) - 1,
               clean' = [clean EXCEPT !["guess"] = @ /\ who = "req"]
        PROVE  IInv'
    <2> DEFINE l == Load(B, SocksSize, Span(next, next + n - 1))
               g == Given(B, SocksSize, n)
    <2>1. n \in Nat \ {0} /\ next + n <= sent + 1 /\ next + n - 1 <= N
      BY <1>2 DEF Avail
    <2>2. /\ GoodReader(N, l) /\ Len(l.mem) = Len(B.mem) /\ l.err = B.err /\ l.w - l.r = n - g
          /\ (Full(B) => Full(l)) /\ Holds(l, next + n - 1)
      BY <1>2, <1>6, <2>1, LoadIs
    <2>3. rd' = [rd EXCEPT ![who] = l]
      BY <1>6
    <2>4. g \in Nat /\ g <= n
      BY <1>2, <2>1 DEF Given
    <2>5. /\ g < 2 => pc' = (IF who = "guess" THEN "guessed" ELSE "end") /\ port' = port
          /\ ~(g < 2) => /\ pc' = (IF who = "guess" THEN "guessed" ELSE "respond")
                         /\ port' = next + g - 1
      BY <1>6 DEF Fail, Claim
    <2> HIDE DEF l, g
    <2>6. Readers' /\ rd'[who] = l /\ \A y \in Reader \ {who} : rd'[y] = rd[y]
      <3>1. Len(l.mem) <= BufSize
        BY <1>2, <2>2
      <3> QED
        BY <1>1, <1>2, <2>2, <2>3, <3>1, ReaderStep DEF N
    <2>7. /\ clean' \in [Reader -> BOOLEAN] /\ clean'["req"] = clean["req"]
          /\ who = "guess" => ~clean'["guess"]
      BY <1>1, <1>6 DEF Outside, Reader
    <2>8. Outside'
      <3>1. next' \in 1 .. sent + 1
        BY <1>2, <1>6, <2>1
      <3> QED
        BY <1>1, <2>7, <3>1 DEF Outside
    <2>9. Inside'
      <3>1. port \in 0 .. N
        BY <1>1 DEF Inside, N
      <3>2. port' \in 0 .. N
        <4>1. ~(g < 2) => next + g - 1 \in 0 .. N
          BY <1>2, <2>1, <2>4
        <4> QED
          BY <2>5, <3>1, <4>1
      <3>3. pc' \in {"respond", "guessed", "end"}
        BY <2>5
      <3> QED
        BY <1>1, <1>3, <3>2, <3>3 DEF Inside, N
    <2>10. ProtoOK'
      BY <1>1, <1>2, <1>3, <2>5 DEF ProtoOK, Reader
    <2>11. GuessOK' /\ Linked'
      <3>1. l.mem \in Seq(0 .. N) /\ B.mem \in Seq(0 .. N)
        BY <1>2, <2>2 DEF GoodReader
      <3>2. CASE who = "req"
        <4>1. Req' = l /\ Req = B /\ rd'["guess"] = rd["guess"]
          BY <2>6, <3>2 DEF Req, B, Reader
        <4>2. Req'.w - Req'.r < next'
          BY <1>2, <1>6, <2>1, <2>2, <2>4, <4>1
        <4>3. ~Req'.err
          BY <1>1, <1>2, <2>1, <2>2, <4>1 DEF Linked
        <4>4. Len(rd["guess"].mem) < next'
          <5>1. Len(rd["guess"].mem) < next /\ Len(rd["guess"].mem) \in Nat
            BY <1>1 DEF GuessOK, Readers, Reader
          <5> QED
            BY <1>2, <1>6, <2>1, <5>1
        <4>5. pc' \in {"respond", "end"}
          BY <2>5, <3>2
        <4> QED
          BY <1>1, <3>2, <4>1, <4>2, <4>3, <4>4, <4>5 DEF GuessOK, Linked
      <3>3. CASE who = "guess"
        <4>1. Req' = Req /\ rd'["guess"] = l /\ B = rd["guess"]
          BY <2>6, <3>3 DEF Req, B, Reader
        <4>2. pc' = "guessed"
          BY <2>5, <3>3
        <4>3. /\ Len(B.mem) < next /\ B.mem # << >> /\ Full(B) /\ Req.r = Req.w
          BY <1>1, <3>3, <4>1 DEF GuessOK, Full
        <4>4. l.mem # << >> /\ Full(l) /\ Len(l.mem) < next'
          <5>1. Len(B.mem) # 0 /\ Len(B.mem) \in Nat
            BY <3>1, <4>3, EmptySeq
          <5>2. l.mem # << >>
            BY <2>2, <3>1, <5>1, EmptySeq
          <5> QED
            BY <1>2, <1>6, <2>1, <2>2, <4>3, <5>1, <5>2
        <4>5. GuessOK'
          BY <1>1, <3>3, <4>1, <4>2, <4>3, <4>4 DEF GuessOK, Full
        <4>6. Linked'
          <5>1. Req.w - Req.r < next' /\ ~Req.err
            <6>1. Req.w - Req.r < next /\ Req.w - Req.r \in Nat
              BY <1>1, Basics, Fields DEF Linked, Req, Reader
            <6>2. ~Req.err
              BY <1>1, <1>2, <2>1 DEF Linked
            <6> QED
              BY <1>2, <1>6, <2>1, <6>1, <6>2
          <5> QED
            BY <1>1, <3>3, <4>1, <4>2, <5>1 DEF Linked
        <4> QED
          BY <4>5, <4>6
      <3> QED
        BY <1>2, <3>2, <3>3 DEF Reader
    <2>12. Types'
      BY <2>6, <2>8, <2>9, <2>10, <2>11 DEF Types
    <2>13. Stored' /\ Untouched'
      <3>1. next' - 1 = next + n - 1 /\ B' = l
        <4>1. next' = next + n
          BY <1>6
        <4> QED
          BY <1>1, <1>2, <2>1, <2>6, <4>1 DEF B
      <3> QED
        BY <1>1, <2>2, <2>7, <3>1 DEF Stored, Untouched
    <2>14. Parsed'
      <3>1. ASSUME who = "req", pc' = "respond" PROVE port' + 1 = next' - (Req'.w - Req'.r)
        <4>1. Req' = l
          BY <2>6, <3>1 DEF Req
        <4>2. port' = next + g - 1
          BY <2>5, <3>1
        <4>3. next + g - 1 + 1 = next + n - (n - g)
          BY <1>2, <2>1, <2>4
        <4>4. next' = next + n
          BY <1>6
        <4>5. Req'.w - Req'.r = n - g
          BY <2>2, <4>1
        <4> QED
          BY <1>2, <2>1, <2>4, <4>2, <4>4, <4>5
      <3>2. pc' = "respond" => who = "req"
        BY <1>2, <2>5 DEF Reader
      <3>3. who = "req" => proto'["req"] = "socks5"
        BY <1>3
      <3> QED
        BY <1>1, <3>1, <3>2, <3>3 DEF Parsed
    <2>15. Forwarded'
      BY <1>1, <1>2, <2>5, <2>7 DEF Forwarded, Reader
    <2>16. Decided'
      BY <1>1, <1>3, <1>5, <2>5, <2>7 DEF IInv, Decided
    <2>17. Agreed'
      BY <1>1, <1>2, <1>4, <2>7 DEF Agreed, Reader
    <2> QED
      BY <1>4, <2>12, <2>13, <2>14, <2>15, <2>16, <2>17 DEF IInv
  <1>7. CASE Fail /\ UNCHANGED <<rd, next, port, clean>>
    <2>1. /\ rd' = rd /\ next' = next /\ port' = port /\ clean' = clean
          /\ pc' = IF who = "guess" THEN "guessed" ELSE "end"
      BY <1>7 DEF Fail
    <2>2. B' = B /\ Req' = Req
      BY <1>1, <2>1 DEF B, Req
    <2>3. Types'
      <3>1. Outside' /\ Readers'
        BY <1>1, <2>1 DEF Outside, Readers
      <3>2. Inside'
        BY <1>1, <1>3, <2>1 DEF Inside
      <3>3. ProtoOK' /\ GuessOK' /\ Linked'
        BY <1>1, <1>2, <2>1, <2>2 DEF ProtoOK, GuessOK, Linked, Reader
      <3> QED
        BY <3>1, <3>2, <3>3 DEF Types
    <2>4. Stored' /\ Untouched'
      BY <1>1, <2>1, <2>2 DEF IInv, Stored, Untouched, Runs
    <2>5. Parsed'
      BY <2>1 DEF Parsed
    <2>6. Forwarded'
      <3>1. First' = First /\ IsConnect' = IsConnect /\ ReqHead' = ReqHead
        BY <1>1, <2>1, <2>2 DEF First, Held, IsConnect, Class, ReqHead
      <3> QED
        BY <1>1, <1>3, <2>1, <3>1 DEF IInv, Forwarded, Runs
    <2>7. Decided'
      BY <2>1 DEF Decided
    <2>8. Agreed'
      BY <1>1, <1>3, <1>4, <2>1 DEF Agreed
    <2> QED
      BY <1>4, <2>3, <2>4, <2>5, <2>6, <2>7, <2>8 DEF IInv
  <1> QED
    BY <1>6, <1>7 DEF SocksRequest
\* The copier begins.
LEMMA TransferInv ==
    ASSUME IInv, pc = "respond", NEW b, GoodReader(Len(stream), b), Len(b.mem) <= BufSize,
           rd' = [rd EXCEPT !["req"] = b], b.w - b.r <= Req.w - Req.r, b.err => Req.err,
           clean["req"] => Holds(b, next - 1),
           toSrv' \in Seq(1 .. Len(stream)), unread' \in -Len(stream) .. BodyLen \cup {-1},
           told' \in Seq({"method", "granted", "established"}), pc' = "copy",
           UNCHANGED <<client, side, tcpcopy, next, who, keep, parse, ghosts>>,
           tcpcopy => unread' = -1,
           NEW f \in Int, f = next - (b.w - b.r) - Len(toSrv'),
           clean["req"] => /\ Runs(toSrv', f)
                           /\ proto["req"] = "socks5" => f = port + 1
                           /\ proto["req"] = "tcp" => f = start + Len(ReqHead)
                           /\ proto["req"] = "http" /\ ~IsConnect => f = start
    PROVE  IInv'
  <1>1. /\ Outside /\ Readers /\ Inside /\ ProtoOK /\ GuessOK /\ Linked
        /\ stream' = stream /\ sent' = sent /\ fin' = fin /\ side' = side /\ tcpcopy' = tcpcopy
        /\ next' = next /\ who' = who /\ keep' = keep /\ proto' = proto /\ taken' = taken
        /\ start' = start /\ seen' = seen /\ port' = port /\ clean' = clean
    BY DEF IInv, Types, client, parse, ghosts
  <1>2. who = "req"
    BY <1>1 DEF GuessOK, Outside, Reader
  <1>3. Readers' /\ rd'["req"] = b /\ rd'["guess"] = rd["guess"]
    BY <1>1, ReaderStep DEF Reader
  <1>4. Req' = b /\ B' = b
    BY <1>1, <1>2, <1>3 DEF Req, B
  <1>5. Outside'
    BY <1>1 DEF Outside
  <1>6. Inside'
    BY <1>1 DEF Inside
  <1>7. ProtoOK' /\ GuessOK'
    BY <1>1, <1>2, <1>3 DEF ProtoOK, GuessOK
  <1>8. Linked'
    <2>1. b.w - b.r < next
      <3>1. /\ Req.w - Req.r < next /\ Req.w - Req.r \in Nat /\ next \in Nat
            /\ b.w - b.r \in Nat
        BY <1>1, Basics, Fields DEF Linked, Req, Reader
      <3> QED
        BY <3>1
    <2> QED
      BY <1>1, <1>2, <1>4, <2>1 DEF Linked
  <1>9. Types'
    BY <1>3, <1>5, <1>6, <1>7, <1>8 DEF Types
  <1>10. Stored' /\ Untouched'
    BY <1>1, <1>2, <1>4 DEF Stored, Untouched
  <1>11. Parsed' /\ NotParsed'
    BY <1>1 DEF IInv, Parsed, NotParsed
  <1>12. Forwarded'
    <2>1. First' = f
      BY <1>1, <1>2, <1>4 DEF First, Held
    <2>2. ReqHead' = ReqHead /\ IsConnect' = IsConnect
      BY <1>1 DEF ReqHead, IsConnect, Class
    <2> QED
      BY <1>1, <1>2, <2>1, <2>2 DEF Forwarded, Runs
  <1>13. Decided' /\ Agreed'
    BY <1>1, <1>2 DEF Decided, Agreed
  <1> QED
    BY <1>9, <1>10, <1>11, <1>12, <1>13 DEF IInv

\* The units of a body that are there are no more than what is there.
LEMMA UnreadIs ==
    ASSUME NEW n \in Nat, NEW b, GoodReader(n, b), NEW max \in Int
    PROVE  /\ Unread(b, max) \in Nat /\ Unread(b, max) <= b.w - b.r
           /\ max >= 0 => Unread(b, max) <= max
  <1> DEFINE c == b.w - b.r
  <1>1. c \in Nat
    BY Fields
  <1>2. Unread(b, max) = IF max >= 0 /\ c > max THEN max ELSE c
    BY DEF Unread, Buffered
  <1> HIDE DEF c
  <1>3. Unread(b, max) \in Nat /\ Unread(b, max) <= c /\ (max >= 0 => Unread(b, max) <= max)
    BY <1>1, <1>2
  <1> QED
    BY <1>3 DEF c

\* response, of each stream.
LEMMA RespondInv == ASSUME IInv, Respond PROVE IInv'
  <1> DEFINE N == Len(stream)
             Told == Seq({"method", "granted", "established"})
             c == Req.w - Req.r
             l == Len(ReqHead)
             W == Window(Req)
  <1>1. /\ Outside /\ Readers /\ Inside /\ ProtoOK /\ GuessOK /\ Linked
        /\ pc = "respond" /\ told \in Told
        /\ UNCHANGED <<client, side, tcpcopy, next, who, keep, parse, ghosts>>
    BY DEF IInv, Types, Respond, Inside
  <1>2. who = "req"
    BY <1>1 DEF GuessOK, Outside, Reader
  <1>3. /\ N \in Nat /\ GoodReader(N, Req) /\ Len(Req.mem) <= BufSize /\ c \in Nat
        /\ Req.r \in Nat /\ Req.w \in Nat /\ next \in Nat /\ BodyLen \in Nat /\ BufSize \in Nat
    BY <1>1, Basics, Fields DEF Req, Reader
  <1>4. ReqHead \in Seq(1 .. N) /\ l \in Nat /\ start \in Nat /\ port \in Nat
    <2>1. taken["req"] \in Seq(1 .. N)
      BY <1>1 DEF Inside, Reader
    <2>2. start \in Nat /\ port \in Nat
      BY <1>1, <1>3 DEF Inside
    <2> QED
      BY <2>1, <2>2 DEF ReqHead
  <1>5. W \in Seq(1 .. N) /\ Len(W) = c
    BY <1>3, WindowIs
  <1>6. ASSUME clean["req"]
        PROVE  /\ Holds(Req, next - 1)
               /\ Runs(W, next - c)
               /\ proto["req"] # "socks5" => Runs(ReqHead, start) /\ start + l = next - c
               /\ proto["req"] = "socks5" => port + 1 = next - c
    <2>1. Holds(Req, next - 1)
      BY <1>2, <1>6 DEF IInv, Stored, Req, B
    <2>2. Runs(W, next - 1 + 1 - c)
      BY <1>3, <2>1, WindowRuns
    <2> HIDE DEF c, W
    <2>3. next - 1 + 1 - c = next - c
      BY <1>3
    <2> QED
      BY <1>1, <1>2, <1>6, <2>1, <2>2, <2>3 DEF IInv, Parsed, c
  <1> HIDE DEF N
  <1>7. ASSUME NEW n \in Nat, n <= c
        PROVE  LET s == Skip(Req, n)
               IN  /\ GoodReader(N, s) /\ Len(s.mem) <= BufSize /\ s.w - s.r = c - n
                   /\ s.w - s.r <= c /\ s.err = Req.err
                   /\ clean["req"] => Holds(s, next - 1)
    <2> DEFINE s == Skip(Req, n)
    <2>1. /\ GoodReader(N, s) /\ s.mem = Req.mem /\ s.r = Req.r + n /\ s.w = Req.w
          /\ s.err = Req.err /\ \A a : Holds(Req, a) => Holds(s, a)
      BY <1>3, <1>7, SkipIs
    <2> HIDE DEF s
    <2>2. s.w - s.r = c - n /\ s.w - s.r <= c
      <3> DEFINE w == Req.w
                 r == Req.r
      <3>1. w \in Nat /\ r \in Nat /\ s.w = w /\ s.r = r + n /\ c = w - r
        BY <1>3, <2>1
      <3> HIDE DEF w, r, c
      <3>2. w - (r + n) = (w - r) - n /\ (w - r) - n <= w - r
        BY <1>7, <3>1
      <3> QED
        BY <3>1, <3>2
    <2> QED
      BY <1>3, <1>6, <2>1, <2>2 DEF s
  <1>8. -1 \in -Len(stream) .. BodyLen \cup {-1} /\ Append(told, "granted") \in Told
        /\ Append(told, "established") \in Told
    BY <1>1
  <1>9. tcpcopy => proto["req"] = "tcp"
    BY DEF IInv, NotParsed
  <1>10. CASE Respond_Http
    <2> DEFINE n == BodyCount
               p == SubSeq(W, 1, n)
               s == Skip(Req, n)
    <2>1. BodyMax \in Int /\ BodyMax \in {-1, BodyLen, 0}
      BY <1>3 DEF BodyMax
    <2>2. n \in Nat /\ n <= c /\ (BodyMax >= 0 => n <= BodyMax)
      BY <1>3, <2>1, UnreadIs DEF BodyCount
    <2>3. /\ toSrv' = ReqHead \o p /\ rd' = [rd EXCEPT !["req"] = s] /\ pc' = "copy"
          /\ unread' = (IF IsLong THEN -1 ELSE BodyMax - n) /\ told' = told
          /\ proto["req"] = "http" /\ ~IsConnect
      BY <1>10 DEF Respond_Http, Transfer
    <2> HIDE DEF n
    <2>4. p \in Seq(1 .. N) /\ Len(p) = n /\ \A a : Runs(W, a) => Runs(p, a)
      <3> HIDE DEF W
      <3> QED
        BY <1>3, <1>5, <2>2, PrefixIs, PrefixRuns
    <2> HIDE DEF p, W
    <2>5. /\ toSrv' \in Seq(1 .. N) /\ Len(toSrv') = l + n
          /\ \A a \in Int : Runs(ReqHead, a) /\ Runs(p, a + l) => Runs(toSrv', a)
      <3>1. /\ ReqHead \o p \in Seq(1 .. N) /\ Len(ReqHead \o p) = Len(ReqHead) + Len(p)
            /\ \A a \in Int : Runs(ReqHead, a) /\ Runs(p, a + Len(ReqHead)) => Runs(ReqHead \o p, a)
        BY <1>3, <1>4, <2>4, JoinIs
      <3> QED
        BY <2>3, <2>4, <3>1
    <2>6. unread' \in -Len(stream) .. BodyLen \cup {-1}
      <3>1. ~IsLong => BodyMax \in {BodyLen, 0}
        BY DEF BodyMax
      <3>2. ~IsLong => BodyMax - n \in 0 .. BodyLen
        <4>1. \A x \in {BodyLen, 0} : x >= 0 /\ (n <= x => x - n \in 0 .. BodyLen)
          BY <1>3, <2>2
        <4> QED
          BY <2>2, <3>1, <4>1
      <3> QED
        BY <1>3, <2>3, <3>2 DEF N
    <2>7. /\ GoodReader(N, s) /\ Len(s.mem) <= BufSize /\ s.w - s.r = c - n
          /\ s.w - s.r <= c /\ s.err = Req.err
          /\ clean["req"] => Holds(s, next - 1)
      BY <1>7, <2>2
    <2> HIDE DEF s
    <2> DEFINE f == next - (c - n) - (l + n)
    <2> HIDE DEF c, l
    <2>8. f = next - c - l /\ f \in Int
      BY <1>3, <1>4, <2>2
    <2>9. clean["req"] => f = start /\ next - c = start + l
      BY <1>3, <1>4, <1>6, <2>3, <2>8
    <2> HIDE DEF f
    <2>10. clean["req"] => Runs(toSrv', f)
      BY <1>4, <1>6, <2>3, <2>4, <2>5, <2>8, <2>9
    <2>11. f = next - (s.w - s.r) - Len(toSrv')
      BY <2>5, <2>7 DEF f
    <2> QED
      BY <1>1, <1>9, <2>3, <2>5, <2>6, <2>7, <2>8, <2>9, <2>10, <2>11, TransferInv DEF c, N
  <1>11. CASE Respond_Connect
    <2> DEFINE s == Skip(Req, c)
    <2>1. /\ toSrv' = << >> /\ rd' = [rd EXCEPT !["req"] = s] /\ pc' = "copy"
          /\ unread' = -1 /\ told' = Append(told, "established")
          /\ proto["req"] = "http" /\ IsConnect
      BY <1>11 DEF Respond_Connect, Transfer, Buffered
    <2>2. /\ GoodReader(N, s) /\ Len(s.mem) <= BufSize /\ s.w - s.r = c - c
          /\ s.w - s.r <= c /\ s.err = Req.err
          /\ clean["req"] => Holds(s, next - 1)
      <3>1. c <= c
        BY <1>3
      <3> HIDE DEF c
      <3> QED
        BY <1>3, <1>7, <3>1
    <2> HIDE DEF s
    <2> DEFINE f == next - (s.w - s.r) - Len(toSrv')
    <2>3. f \in Int /\ toSrv' \in Seq(1 .. N) /\ Runs(toSrv', f)
      BY <1>3, <2>1, <2>2 DEF Runs
    <2> HIDE DEF f
    <2>4. f = next - (s.w - s.r) - Len(toSrv')
      BY DEF f
    <2> QED
      BY <1>1, <1>8, <2>1, <2>2, <2>3, <2>4, TransferInv DEF N
  <1>12. ASSUME toSrv' = << >>, rd' = [rd EXCEPT !["req"] = Skip(Req, 0)], pc' = "copy",
                unread' = -1, told' \in Told, proto["req"] \in {"socks5", "tcp"}
         PROVE  IInv'
    <2> DEFINE s == Skip(Req, 0)
    <2>1. /\ GoodReader(N, s) /\ Len(s.mem) <= BufSize /\ s.w - s.r = c - 0
          /\ s.w - s.r <= c /\ s.err = Req.err
          /\ clean["req"] => Holds(s, next - 1)
      BY <1>3, <1>7
    <2>2. rd' = [rd EXCEPT !["req"] = s]
      BY <1>12
    <2> HIDE DEF s
    <2> DEFINE f == next - (s.w - s.r) - Len(toSrv')
    <2>3. f = next - c /\ f \in Int /\ toSrv' \in Seq(1 .. N) /\ Runs(toSrv', f)
      <3>1. Len(toSrv') = 0 /\ toSrv' \in Seq(1 .. N)
        BY <1>12
      <3> HIDE DEF c
      <3>2. f = next - c /\ f \in Int
        BY <1>3, <2>1, <3>1
      <3> QED
        BY <3>1, <3>2 DEF Runs
    <2> HIDE DEF f
    <2>4. f = next - (s.w - s.r) - Len(toSrv')
      BY DEF f
    <2>5. clean["req"] => /\ proto["req"] = "socks5" => f = port + 1
                          /\ proto["req"] = "tcp" => f = start + l
      BY <1>6, <2>3
    <2> QED
      BY <1>1, <1>8, <1>12, <2>1, <2>2, <2>3, <2>4, <2>5, TransferInv DEF N
  <1>13. CASE Respond_Socks5 \/ Respond_TcpCopy
    <2>1. /\ toSrv' = << >> /\ rd' = [rd EXCEPT !["req"] = Skip(Req, 0)] /\ pc' = "copy"
          /\ unread' = -1 /\ told' \in {told, Append(told, "granted")}
          /\ proto["req"] = "socks5" \/ tcpcopy
      BY <1>13 DEF Respond_Socks5, Respond_TcpCopy, Transfer
    <2>2. told' \in Told
      BY <1>1, <1>8, <2>1
    <2> QED
      BY <1>9, <1>12, <2>1, <2>2
  <1>14. CASE Respond_Tcp
    <2> DEFINE s == NewReader(BufSize)
    <2>1. /\ toSrv' = W /\ rd' = [rd EXCEPT !["req"] = s] /\ pc' = "copy"
          /\ unread' = -1 /\ told' = told /\ proto["req"] = "tcp" /\ ~tcpcopy
      BY <1>14 DEF Respond_Tcp
    <2>2. /\ GoodReader(N, s) /\ Len(s.mem) = BufSize /\ s.r = 0 /\ s.w = 0 /\ ~s.err
          /\ \A a : Holds(s, a)
      BY <1>3, NewIs
    <2> HIDE DEF s, W
    <2> DEFINE f == next - (s.w - s.r) - Len(toSrv')
    <2>3. f = next - c /\ f \in Int /\ s.w - s.r <= c /\ Len(s.mem) <= BufSize
      <3> HIDE DEF c
      <3> QED
        BY <1>3, <1>5, <2>1, <2>2
    <2> HIDE DEF f
    <2>4. f = next - (s.w - s.r) - Len(toSrv')
      BY DEF f
    <2>5. clean["req"] => Runs(toSrv', f) /\ f = start + l
      BY <1>6, <2>1, <2>3
    <2> QED
      BY <1>1, <1>5, <1>8, <2>1, <2>2, <2>3, <2>4, <2>5, TransferInv DEF N
  <1>15. CASE Respond_Refuse
    <2>1. pc' = "end" /\ rd' = rd /\ toSrv' = toSrv /\ unread' = unread
          /\ told' \in {told, Append(told, "granted")}
      BY <1>15 DEF Respond_Refuse
    <2>2. /\ stream' = stream /\ sent' = sent /\ fin' = fin /\ side' = side /\ tcpcopy' = tcpcopy
          /\ next' = next /\ who' = who /\ keep' = keep /\ proto' = proto /\ taken' = taken
          /\ start' = start /\ seen' = seen /\ port' = port /\ clean' = clean
      BY <1>1 DEF client, parse, ghosts
    <2>3. Outside' /\ Readers'
      BY <1>1, <2>1, <2>2 DEF Outside, Readers
    <2>4. Inside'
      BY <1>1, <1>8, <2>1, <2>2 DEF Inside
    <2>5. ProtoOK' /\ GuessOK' /\ Linked'
      BY <1>1, <1>2, <2>1, <2>2 DEF ProtoOK, GuessOK, Linked, Req
    <2>6. Stored' /\ Untouched' /\ Parsed' /\ NotParsed'
      BY <1>2, <2>1, <2>2 DEF IInv, Stored, Untouched, Parsed, NotParsed, B
    <2>7. Forwarded' /\ Decided' /\ Agreed'
      BY <1>2, <2>1, <2>2 DEF Forwarded, Decided, Agreed
    <2> QED
      BY <2>3, <2>4, <2>5, <2>6, <2>7 DEF IInv, Types
  <1> QED
    BY <1>10, <1>11, <1>13, <1>14, <1>15 DEF Respond
\* The copier reads, and forwards or guesses.
LEMMA CopyReadInv == ASSUME IInv, CopyRead PROVE IInv'
  <1> DEFINE N == Len(stream)
             c == Req.w - Req.r
             W == Window(Req)
             t == Len(toSrv)
  <1>1. /\ Outside /\ Readers /\ Inside /\ ProtoOK /\ GuessOK /\ Linked
        /\ stream' = stream /\ sent' = sent /\ fin' = fin /\ side' = side /\ tcpcopy' = tcpcopy
        /\ keep' = keep /\ told' = told
        /\ start' = start /\ seen' = seen /\ port' = port /\ pc = "copy"
    BY DEF IInv, Types, CopyRead, client
  <1>2. who = "req"
    BY <1>1 DEF GuessOK, Outside, Reader
  <1>3. /\ N \in Nat /\ GoodReader(N, Req) /\ Len(Req.mem) <= BufSize /\ c \in Nat
        /\ Req.r \in Nat /\ Req.w \in Nat /\ next \in Nat \ {0} /\ next <= sent + 1
        /\ sent \in Nat /\ sent <= N /\ BodyLen \in Nat /\ BufSize \in Nat /\ c < next
    BY <1>1, Basics, Fields DEF Req, Reader, Linked
  <1>4. Buffered(Req) = c
    BY DEF Buffered
  <1>5. PICK n \in 1 .. BufSize :
        /\ n <= Avail \/ c > 0
        /\ c > 0 => n = c
        /\ LET d == IF c > 0 THEN W ELSE Span(next, next + n - 1)
           IN  /\ next' = IF c > 0 THEN next ELSE next + n
               /\ \/ unread = 0 /\ Guess(d)
                  \/ /\ unread # 0
                     /\ toSrv' = toSrv \o d
                     /\ rd' = [rd EXCEPT !["req"] = Skip(@, Buffered(@))]
                     /\ unread' = IF unread > 0 THEN unread - n ELSE unread
                     /\ UNCHANGED <<who, pc, parse, clean>>
    BY <1>4 DEF CopyRead
  <1> DEFINE d == IF c > 0 THEN W ELSE Span(next, next + n - 1)
             s == Skip(Req, c)
  <1>6. W \in Seq(1 .. N) /\ Len(W) = c /\ (clean["req"] => Runs(W, next - c))
    <2>1. W \in Seq(1 .. N) /\ Len(W) = c
      BY <1>3, WindowIs
    <2>2. ASSUME clean["req"] PROVE Runs(W, next - c)
      <3>1. Holds(Req, next - 1)
        BY <1>2, <2>2 DEF IInv, Stored, Req, B
      <3>2. Runs(W, next - 1 + 1 - c)
        BY <1>3, <3>1, WindowRuns
      <3> HIDE DEF c, W
      <3>3. next - 1 + 1 - c = next - c
        BY <1>3
      <3> QED
        BY <3>2, <3>3
    <2> QED
      BY <2>1, <2>2
  <1> HIDE DEF N, W
  <1>7. /\ d \in Seq(1 .. N) /\ Len(d) = n /\ n \in Nat \ {0}
        /\ clean["req"] => Runs(d, next - c)
        /\ next' \in Nat \ {0} /\ next' <= sent + 1 /\ next <= next' /\ next' = next - c + n
        /\ n < next' /\ n <= N
        /\ Req.err => next' = next
    <2>1. CASE c > 0
      <3>1. d = W /\ n = c /\ next' = next /\ n \in Nat \ {0}
        BY <1>3, <1>5, <2>1
      <3> HIDE DEF c, d
      <3>2. next = next - c + c /\ c <= N
        BY <1>3
      <3> QED
        BY <1>3, <1>6, <3>1, <3>2
    <2>2. CASE ~(c > 0)
      <3>1. d = Span(next, next + n - 1) /\ n <= Avail /\ next' = next + n /\ n \in Nat \ {0}
        BY <1>5, <2>2
      <3>2. c = 0
        BY <1>3, <2>2
      <3> HIDE DEF c, d
      <3>3. next + n <= sent + 1 /\ next + n - 1 <= N /\ next - c = next
        BY <1>3, <3>1, <3>2 DEF Avail
      <3>4. d \in Seq(1 .. N) /\ Len(d) = n /\ \A i \in 1 .. n : d[i] = next + i - 1
        <4>1. N \in Nat /\ next \in Nat \ {0} /\ n \in Nat /\ next + n - 1 <= N
          BY <1>3, <3>1, <3>3
        <4>2. /\ Span(next, next + n - 1) \in Seq(1 .. N) /\ Len(Span(next, next + n - 1)) = n
              /\ \A i \in 1 .. n : Span(next, next + n - 1)[i] = next + i - 1
          BY <4>1, SpanIs
        <4> QED
          BY <3>1, <4>2
      <3>5. Runs(d, next - c)
        BY <3>3, <3>4 DEF Runs
      <3>6. ~Req.err
        BY <1>1, <1>3, <3>1, <3>3 DEF Linked
      <3>7. next + n \in Nat \ {0} /\ next <= next + n /\ n < next + n /\ n <= N
        BY <1>3, <3>1, <3>3
      <3> QED
        BY <3>1, <3>3, <3>4, <3>5, <3>6, <3>7
    <2> QED
      BY <2>1, <2>2
  <1>8. /\ \/ unread = 0 /\ Guess(d)
           \/ /\ unread # 0
              /\ toSrv' = toSrv \o d
              /\ rd' = [rd EXCEPT !["req"] = s]
              /\ unread' = IF unread > 0 THEN unread - n ELSE unread
              /\ UNCHANGED <<who, pc, parse, clean>>
        /\ Guess(d) => rd' = [rd EXCEPT !["req"] = s, !["guess"] = NewReaderWithBuf(d)]
    <2>1. Skip(Req, Buffered(Req)) = s
      BY <1>4
    <2> HIDE DEF d, s
    <2>2. Guess(d) => rd' = [rd EXCEPT !["req"] = s, !["guess"] = NewReaderWithBuf(d)]
      BY <2>1 DEF Guess, Req
    <2> QED
      BY <1>5, <2>1, <2>2 DEF d, Req
  <1> HIDE DEF d
  <1>9. /\ GoodReader(N, s) /\ Len(s.mem) <= BufSize /\ s.r = s.w /\ s.err = Req.err
        /\ s.w \in Nat
    <2>1. c <= Req.w - Req.r
      BY <1>3
    <2>2. /\ GoodReader(N, s) /\ s.mem = Req.mem /\ s.r = Req.r + c
          /\ s.w = Req.w /\ s.err = Req.err
      <3> HIDE DEF c
      <3> QED
        BY <1>3, <2>1, SkipIs
    <2> HIDE DEF s
    <2> QED
      BY <1>3, <2>2
  <1> HIDE DEF s
  <1>10. t \in Nat /\ toSrv \in Seq(1 .. N)
    BY <1>1 DEF Inside, N
  <1>11. /\ Runs(toSrv, next - c - t) \/ ~clean["req"]
         /\ First = next - c - t
    BY <1>1, <1>2 DEF IInv, Forwarded, First, Held
  <1> HIDE DEF c, t
  <1>12. /\ next' - 0 - (t + n) = next - c - t
         /\ next' - n - t = next - c - t /\ next - c - t + t = next - c
    BY <1>3, <1>7, <1>10
  <1>13. Outside' <=> clean' \in [Reader -> BOOLEAN] /\ who' \in Reader
    <2>1. next' \in 1 .. sent + 1
      BY <1>3, <1>7
    <2> QED
      BY <1>1, <2>1 DEF Outside
  <1>14. CASE unread = 0 /\ Guess(d)
    <2> DEFINE g == NewReaderWithBuf(d)
    <2>1. /\ rd' = [rd EXCEPT !["req"] = s, !["guess"] = g]
          /\ proto' = [proto EXCEPT !["guess"] = "none"]
          /\ taken' = [taken EXCEPT !["guess"] = << >>]
          /\ clean' = [clean EXCEPT !["guess"] = clean["req"]]
          /\ who' = "guess" /\ pc' = "peek" /\ unread' = unread /\ toSrv' = toSrv
      BY <1>8, <1>14 DEF Guess
    <2>2. \A i \in 1 .. Len(d) : d[i] \in 1 .. N
      BY <1>7, ElementOfSeq
    <2>3. d \in Seq(0 .. N) /\ \A i \in 1 .. Len(d) : d[i] # 0
      <3>1. d \in Seq(1 .. N) /\ d = [i \in 1 .. Len(d) |-> d[i]] /\ Len(d) \in Nat
        BY <1>7
      <3>2. \A i \in 1 .. Len(d) : d[i] \in 0 .. N /\ d[i] # 0
        BY <1>3, <2>2
      <3>3. d \in [1 .. Len(d) -> 0 .. N]
        BY <3>1, <3>2
      <3> QED
        BY <3>1, <3>2, <3>3, Listed
    <2>4. /\ GoodReader(N, g) /\ Full(g) /\ g.mem = d /\ g.r = 0 /\ g.w = Len(d) /\ ~g.err
          /\ \A a \in Int : Runs(d, a - Len(d)) => Holds(g, a - 1)
      BY <1>3, <2>3, WithBufIs
    <2> HIDE DEF g
    <2>5. rd'["req"] = s /\ rd'["guess"] = g
      BY <1>1, <2>1 DEF Readers, Reader
    <2>6. Readers'
      <3>1. rd' \in [Reader -> [mem : Seq(0 .. N), r : Nat, w : Nat, err : BOOLEAN]]
        BY <1>1, <1>9, <2>1, <2>4 DEF Readers, GoodReader, N
      <3> QED
        BY <1>1, <1>7, <1>9, <2>4, <2>5, <3>1 DEF Readers, Reader, Size, N
    <2>7. B' = g /\ Req' = s
      BY <2>1, <2>5 DEF B, Req
    <2>8. /\ clean' \in [Reader -> BOOLEAN] /\ clean'["req"] = clean["req"]
          /\ clean'["guess"] = clean["req"]
      BY <1>1, <2>1 DEF Outside, Reader
    <2>9. Inside'
      <3>1. /\ proto' \in [Reader -> {"none", "http", "socks5", "tcp"}]
            /\ taken' \in [Reader -> Seq(1 .. N)]
        BY <1>1, <2>1 DEF Inside, Reader, N
      <3> QED
        BY <1>1, <2>1, <3>1 DEF Inside, N
    <2>10. /\ proto'["guess"] = "none" /\ taken'["guess"] = << >>
           /\ proto'["req"] = proto["req"] /\ taken'["req"] = taken["req"]
      BY <1>1, <2>1 DEF Inside, Reader
    <2>11. ProtoOK'
      BY <2>1, <2>10 DEF ProtoOK
    <2>12. GuessOK'
      <3>1. d # << >>
        BY <1>7
      <3>2. Len(g.mem) < next' /\ g.mem # << >>
        BY <1>7, <2>4, <3>1
      <3> QED
        BY <1>9, <2>1, <2>4, <2>5, <2>7, <3>2 DEF GuessOK, Full
    <2>13. Linked'
      <3>1. Req'.w - Req'.r < next'
        BY <1>7, <1>9, <2>7
      <3>2. Req'.err => fin /\ next' = sent + 1
        BY <1>1, <1>7, <1>9, <2>7 DEF Linked
      <3> QED
        BY <1>1, <2>1, <2>10, <3>1, <3>2 DEF Linked
    <2>14. Types'
      <3>1. Outside'
        BY <1>13, <2>1, <2>8 DEF Reader
      <3> QED
        BY <2>6, <2>9, <2>11, <2>12, <2>13, <3>1 DEF Types
    <2>15. next' - Len(d) = next - c
      BY <1>3, <1>7
    <2>16. Stored' /\ Untouched'
      <3>1. clean["req"] => Runs(d, next' - Len(d))
        BY <1>7, <2>15
      <3>2. clean["req"] => Holds(g, next' - 1)
        BY <1>7, <2>4, <3>1
      <3> QED
        BY <2>4, <2>7, <2>8, <3>1, <3>2 DEF Stored, Untouched, Runs
    <2>17. Parsed' /\ Decided'
      BY <2>1 DEF Parsed, Decided
    <2>18. NotParsed'
      BY <1>1, <1>14 DEF IInv, NotParsed
    <2>19. Forwarded'
      <3>1. First' = First
        <4>1. Held' = n
          BY <1>7, <2>1, <2>4, <2>5 DEF Held
        <4> QED
          BY <1>11, <1>12, <2>1, <4>1 DEF First, t
      <3>2. ReqHead' = ReqHead /\ IsConnect' = IsConnect
        BY <1>1, <2>10 DEF ReqHead, IsConnect, Class
      <3> QED
        BY <1>1, <1>2, <2>1, <2>8, <2>10, <3>1, <3>2 DEF IInv, Forwarded, Runs
    <2>20. Agreed'
      BY <2>1, <2>4, <2>7, <2>10 DEF Agreed
    <2> QED
      BY <2>14, <2>16, <2>17, <2>18, <2>19, <2>20 DEF IInv
  <1>15. CASE /\ unread # 0
              /\ toSrv' = toSrv \o d
              /\ rd' = [rd EXCEPT !["req"] = s]
              /\ unread' = IF unread > 0 THEN unread - n ELSE unread
              /\ UNCHANGED <<who, pc, parse, clean>>
    <2>1. who' = who /\ pc' = pc /\ proto' = proto /\ taken' = taken /\ clean' = clean
      BY <1>15 DEF parse
    <2>2. Readers' /\ rd'["req"] = s /\ rd'["guess"] = rd["guess"]
      BY <1>1, <1>9, <1>15, ReaderStep DEF Reader, N
    <2>3. Req' = s /\ B' = s
      BY <1>2, <2>1, <2>2 DEF Req, B
    <2>4. /\ toSrv' \in Seq(1 .. N) /\ Len(toSrv') = t + n
          /\ \A a \in Int : Runs(toSrv, a) /\ Runs(d, a + t) => Runs(toSrv', a)
      <3>1. /\ toSrv \o d \in Seq(1 .. N) /\ Len(toSrv \o d) = Len(toSrv) + Len(d)
            /\ \A a \in Int : Runs(toSrv, a) /\ Runs(d, a + Len(toSrv)) => Runs(toSrv \o d, a)
        <4>1. N \in Nat /\ d \in Seq(1 .. N) /\ toSrv \in Seq(1 .. N)
          BY <1>3, <1>7, <1>10
        <4> QED
          BY <4>1, JoinIs
      <3> QED
        BY <1>7, <1>15, <3>1 DEF t
    <2>5. Inside'
      <3>1. unread \in -N .. BodyLen \cup {-1}
        BY <1>1 DEF Inside, N
      <3>2. unread' \in -N .. BodyLen \cup {-1}
        BY <1>3, <1>7, <1>15, <3>1
      <3> QED
        BY <1>1, <2>1, <2>4, <3>2 DEF Inside, N
    <2>6. ProtoOK'
      BY <1>1, <2>1 DEF ProtoOK
    <2>7. GuessOK'
      <3>1. Len(rd["guess"].mem) < next /\ Len(rd["guess"].mem) \in Nat
        BY <1>1 DEF GuessOK, Readers, Reader
      <3>2. Len(rd["guess"].mem) < next'
        BY <1>3, <1>7, <3>1
      <3> QED
        BY <1>2, <2>1, <2>2, <3>2 DEF GuessOK
    <2>8. Linked'
      <3>1. Req'.w - Req'.r < next'
        BY <1>7, <1>9, <2>3
      <3>2. Req'.err => fin /\ next' = sent + 1
        BY <1>1, <1>7, <1>9, <2>3 DEF Linked
      <3> QED
        BY <1>1, <2>1, <3>1, <3>2 DEF Linked
    <2>9. Types'
      <3>1. Outside'
        BY <1>1, <1>13, <2>1 DEF Outside
      <3> QED
        BY <2>2, <2>5, <2>6, <2>7, <2>8, <3>1 DEF Types
    <2>10. Stored' /\ Untouched'
      <3>1. Holds(s, next' - 1)
        BY <1>9 DEF Holds
      <3> QED
        BY <1>2, <2>1, <2>3, <3>1 DEF Stored, Untouched
    <2>11. Parsed' /\ Decided' /\ Agreed'
      BY <1>1, <1>2, <2>1 DEF Parsed, Decided, Agreed
    <2>12. NotParsed'
      BY <1>1, <1>15, <2>1 DEF IInv, NotParsed
    <2>13. Forwarded'
      <3>1. First' = First
        <4>1. Held' = 0
          BY <1>2, <1>9, <2>1, <2>3 DEF Held
        <4> QED
          BY <1>11, <1>12, <2>4, <4>1 DEF First
      <3>2. ReqHead' = ReqHead /\ IsConnect' = IsConnect
        BY <1>1, <2>1 DEF ReqHead, IsConnect, Class
      <3>3. clean["req"] => Runs(toSrv', First)
        <4>1. next - c - t \in Int
          BY <1>3, <1>10
        <4> QED
          BY <1>7, <1>11, <1>12, <2>4, <4>1
      <3> QED
        BY <1>1, <1>2, <2>1, <3>1, <3>2, <3>3 DEF IInv, Forwarded, Runs
    <2> QED
      BY <2>9, <2>10, <2>11, <2>12, <2>13 DEF IInv
  <1> QED
    BY <1>8, <1>14, <1>15

\* The copier ends.
LEMMA CopyEndsInv == ASSUME IInv, CopyEnds PROVE IInv'
  <1>1. /\ Outside /\ Readers /\ Inside /\ ProtoOK /\ GuessOK /\ Linked
        /\ stream' = stream /\ sent' = sent /\ fin' = fin /\ side' = side /\ tcpcopy' = tcpcopy
        /\ next' = next /\ rd' = rd /\ who' = who /\ keep' = keep /\ proto' = proto
        /\ taken' = taken /\ unread' = unread /\ toSrv' = toSrv /\ told' = told
        /\ start' = start /\ seen' = seen /\ port' = port /\ clean' = clean
        /\ pc = "copy" /\ pc' = "end"
    BY DEF IInv, Types, CopyEnds, client, parse, relay, ghosts
  <1>2. who = "req"
    BY <1>1 DEF GuessOK, Outside, Reader
  <1>3. Outside' /\ Readers'
    BY <1>1 DEF Outside, Readers
  <1>4. Inside'
    BY <1>1 DEF Inside
  <1>5. ProtoOK' /\ GuessOK' /\ Linked'
    BY <1>1, <1>2 DEF ProtoOK, GuessOK, Linked, Req
  <1>6. Stored' /\ Untouched' /\ Parsed' /\ NotParsed'
    BY <1>1, <1>2 DEF IInv, Stored, Untouched, Parsed, NotParsed, B
  <1>7. Forwarded' /\ Decided' /\ Agreed'
    BY <1>1, <1>2 DEF Forwarded, Decided, Agreed
  <1> QED
    BY <1>3, <1>4, <1>5, <1>6, <1>7 DEF IInv, Types
\* A guess has found no further request.
LEMMA GuessNoInv == ASSUME IInv, GuessNo PROVE IInv'
  <1> DEFINE N == Len(stream)
             g == rd["guess"]
             d == g.mem
             t == Len(toSrv)
  <1>1. /\ Outside /\ Readers /\ Inside /\ ProtoOK /\ GuessOK /\ Linked
        /\ stream' = stream /\ sent' = sent /\ fin' = fin /\ side' = side /\ tcpcopy' = tcpcopy
        /\ next' = next /\ rd' = rd /\ keep' = keep /\ proto' = proto
        /\ taken' = taken /\ told' = told /\ start' = start /\ seen' = seen /\ port' = port
        /\ toSrv' = toSrv \o d /\ unread' = -1 /\ who' = "req" /\ pc' = "copy"
        /\ clean' = [clean EXCEPT !["req"] = clean["guess"]] /\ pc = "guessed" /\ who = "guess"
    BY DEF IInv, Types, GuessNo, client, parse, Linked
  <1>2. /\ N \in Nat /\ GoodReader(N, Req) /\ GoodReader(N, g) /\ next \in Nat
        /\ Req.r \in Nat /\ Req.w \in Nat /\ Req.r = Req.w
        /\ d \in Seq(0 .. N) /\ \A i \in 1 .. Len(d) : d[i] \in 0 .. N
    <2>1. Req.r = Req.w
      BY <1>1 DEF GuessOK
    <2> QED
      BY <1>1, <2>1, Basics, Fields DEF Req, Reader
  <1>3. d \in Seq(1 .. N) /\ Len(d) \in Nat
    <2>1. \A i \in 1 .. Len(d) : d[i] # 0
      BY <1>1 DEF GuessOK
    <2>2. \A i \in 1 .. Len(d) : d[i] \in 1 .. N
      <3> HIDE DEF N, d
      <3> QED
        BY <1>2, <2>1
    <2>3. d = [i \in 1 .. Len(d) |-> d[i]] /\ Len(d) \in Nat
      BY <1>2
    <2> HIDE DEF N, d
    <2>4. d \in [1 .. Len(d) -> 1 .. N]
      BY <2>2, <2>3
    <2> QED
      BY <2>3, <2>4, Listed
  <1>4. t \in Nat /\ toSrv \in Seq(1 .. N)
    BY <1>1 DEF Inside
  <1>5. /\ toSrv' \in Seq(1 .. N) /\ Len(toSrv') = t + Len(d)
        /\ \A a \in Int : Runs(toSrv, a) /\ Runs(d, a + t) => Runs(toSrv', a)
    <2>1. N \in Nat /\ d \in Seq(1 .. N) /\ toSrv \in Seq(1 .. N)
      BY <1>2, <1>3, <1>4
    <2> HIDE DEF N, d
    <2>2. /\ toSrv \o d \in Seq(1 .. N) /\ Len(toSrv \o d) = Len(toSrv) + Len(d)
          /\ \A a \in Int : Runs(toSrv, a) /\ Runs(d, a + Len(toSrv)) => Runs(toSrv \o d, a)
      BY <2>1, JoinIs
    <2> QED
      BY <1>1, <2>2
  <1>6. clean' \in [Reader -> BOOLEAN] /\ clean'["req"] = clean["guess"]
    BY <1>1 DEF Outside, Reader
  <1>7. B' = Req /\ Req' = Req
    BY <1>1 DEF B, Req
  <1>8. Outside' /\ Readers'
    BY <1>1, <1>6 DEF Outside, Readers, Reader
  <1>9. Inside'
    BY <1>1, <1>5 DEF Inside
  <1>10. ProtoOK' /\ GuessOK' /\ Linked'
    BY <1>1, <1>7 DEF ProtoOK, GuessOK, Linked
  <1>11. Stored' /\ Untouched'
    <2>1. Holds(Req, next - 1)
      BY <1>2 DEF Holds
    <2> QED
      BY <1>1, <1>7, <2>1 DEF Stored, Untouched
  <1>12. Parsed' /\ Decided' /\ Agreed'
    BY <1>1 DEF Parsed, Decided, Agreed
  <1>13. NotParsed'
    BY <1>1 DEF IInv, NotParsed
  <1>14. Forwarded'
    <2>1. First = next - Len(d) - t
      BY <1>1 DEF First, Held
    <2>2. Held' = 0
      BY <1>1, <1>2, <1>7 DEF Held
    <2> HIDE DEF d, t
    <2>3. next - 0 - (t + Len(d)) = next - Len(d) - t /\ next - Len(d) - t + t = next - Len(d)
          /\ next - Len(d) - t \in Int
      BY <1>2, <1>3, <1>4
    <2>4. First' = First
      BY <1>1, <1>5, <2>1, <2>2, <2>3 DEF First
    <2>5. ReqHead' = ReqHead /\ IsConnect' = IsConnect
      BY <1>1 DEF ReqHead, IsConnect, Class
    <2>6. clean["guess"] => Runs(d, next - Len(d))
      BY <1>1 DEF IInv, Untouched, B, d
    <2>7. clean["guess"] => Runs(toSrv, First)
      BY <1>1 DEF IInv, Forwarded
    <2>8. clean["guess"] => Runs(toSrv', First)
      BY <1>5, <2>1, <2>3, <2>6, <2>7
    <2> QED
      BY <1>1, <1>6, <2>4, <2>5, <2>8 DEF IInv, Forwarded, Runs
  <1> QED
    BY <1>8, <1>9, <1>10, <1>11, <1>12, <1>13, <1>14 DEF IInv, Types

\* A guess has found a further request, and KeepHandler takes over.
LEMMA GuessYesInv == ASSUME IInv, GuessYes PROVE IInv'
  <1> DEFINE N == Len(stream)
             g == rd["guess"]
             d == g.mem
             b == NewReaderWithBuf(d)
  <1>1. /\ Outside /\ Readers /\ Inside /\ ProtoOK /\ GuessOK /\ Linked
        /\ stream' = stream /\ sent' = sent /\ fin' = fin /\ side' = side /\ tcpcopy' = tcpcopy
        /\ next' = next /\ rd' = [rd EXCEPT !["req"] = b] /\ keep' = TRUE
        /\ proto' = [proto EXCEPT !["req"] = "none"] /\ taken' = [taken EXCEPT !["req"] = << >>]
        /\ told' = told /\ start' = d[1] /\ seen' = seen /\ port' = port
        /\ toSrv' = << >> /\ unread' = unread /\ who' = "req" /\ pc' = "peek"
        /\ clean' = [clean EXCEPT !["req"] = clean["guess"]] /\ pc = "guessed" /\ who = "guess"
        /\ proto["guess"] = "http"
    BY DEF IInv, Types, GuessYes, client, Linked
  <1>2. /\ N \in Nat /\ GoodReader(N, g) /\ next \in Nat /\ d \in Seq(0 .. N) /\ Len(d) \in Nat
        /\ \A i \in 1 .. Len(d) : d[i] \in 0 .. N /\ d[i] # 0
        /\ Len(d) <= BufSize /\ Len(d) < next /\ d # << >>
    <2>1. Len(d) < next /\ d # << >> /\ \A i \in 1 .. Len(d) : d[i] # 0
      BY <1>1 DEF GuessOK
    <2> QED
      BY <1>1, <2>1, Basics, Fields DEF Reader
  <1>3. /\ GoodReader(N, b) /\ Full(b) /\ b.mem = d /\ b.r = 0 /\ b.w = Len(d) /\ ~b.err
        /\ \A a \in Int : Runs(d, a - Len(d)) => Holds(b, a - 1)
    <2> HIDE DEF N, d
    <2> QED
      BY <1>2, WithBufIs
  <1>4. 1 \in 1 .. Len(d) /\ d[1] \in 1 .. N
    <2>1. 1 \in 1 .. Len(d)
      BY <1>2, EmptySeq
    <2> QED
      BY <1>2, <2>1
  <1> HIDE DEF b
  <1>5. Readers' /\ rd'["req"] = b /\ rd'["guess"] = g
    BY <1>1, <1>2, <1>3, ReaderStep DEF Reader
  <1>6. B' = b /\ Req' = b
    BY <1>1, <1>5 DEF B, Req
  <1>7. clean' \in [Reader -> BOOLEAN] /\ clean'["req"] = clean["guess"]
    BY <1>1 DEF Outside, Reader
  <1>8. proto'["req"] = "none" /\ taken'["req"] = << >>
    BY <1>1 DEF Inside, Reader
  <1>9. Outside'
    BY <1>1, <1>7 DEF Outside, Reader
  <1>10. Inside'
    <2>1. /\ proto' \in [Reader -> {"none", "http", "socks5", "tcp"}]
          /\ taken' \in [Reader -> Seq(1 .. N)]
      BY <1>1 DEF Inside, Reader
    <2>2. start' \in 1 .. N + 1
      BY <1>1, <1>2, <1>4
    <2> QED
      BY <1>1, <2>1, <2>2 DEF Inside
  <1>11. ProtoOK' /\ GuessOK'
    BY <1>1, <1>5, <1>8 DEF ProtoOK, GuessOK
  <1>12. Linked'
    <2>1. b.w - b.r < next
      BY <1>2, <1>3
    <2> QED
      BY <1>1, <1>3, <1>6, <1>8, <2>1 DEF Linked
  <1>13. clean["guess"] => Runs(d, next - Len(d))
    BY <1>1 DEF IInv, Untouched, B
  <1>14. Stored' /\ Untouched'
    <2>1. clean["guess"] => Holds(b, next - 1)
      BY <1>2, <1>3, <1>13
    <2> QED
      BY <1>1, <1>6, <1>7, <2>1 DEF Stored, Untouched
  <1>15. Parsed'
    <2>1. ASSUME clean["guess"] PROVE d[1] + 0 = next - (b.w - b.r)
      <3>1. d[1] = next - Len(d) + 1 - 1
        BY <1>4, <1>13, <2>1 DEF Runs
      <3> HIDE DEF d
      <3> QED
        BY <1>2, <1>3, <3>1
    <2>2. ReqHead' = << >>
      BY <1>8 DEF ReqHead
    <2> QED
      BY <1>1, <1>6, <1>7, <1>8, <2>1, <2>2 DEF Parsed, Runs
  <1>16. Forwarded' /\ Decided'
    BY <1>1 DEF Forwarded, Decided
  <1>17. NotParsed'
    BY <1>1 DEF IInv, NotParsed
  <1>18. Agreed'
    <2>1. clean["guess"] => LineIn(d)
      <3>1. who = "guess" /\ clean["guess"] /\ proto["guess"] = "http" => LineIn(rd["guess"].mem)
        BY <1>1 DEF IInv, Agreed, B
      <3> QED
        BY <1>1, <3>1
    <2>2. LineIn(B.mem)' = LineIn(d)
      BY <1>1, <1>3, <1>6 DEF LineIn, EolUnits, Class
    <2> QED
      BY <1>1, <1>3, <1>6, <1>7, <2>1, <2>2 DEF Agreed
  <1> QED
    BY <1>5, <1>9, <1>10, <1>11, <1>12, <1>14, <1>15, <1>16, <1>17, <1>18 DEF IInv, Types

\* It holds in the beginning.
LEMMA InitInv == ASSUME Init PROVE IInv
  <1> DEFINE N == Len(stream)
             b == NewReader(BufSize)
             g == NewReaderWithBuf(<< >>)
  <1>1. /\ stream \in Streams /\ sent = 0 /\ fin = FALSE
        /\ side \in {"client", "server"} /\ tcpcopy \in BOOLEAN
        /\ next = 1 /\ who = "req" /\ keep = FALSE
        /\ rd = [x \in Reader |-> IF x = "req" THEN b ELSE g]
        /\ pc = (IF tcpcopy THEN "respond" ELSE "peek")
        /\ proto = [x \in Reader |-> IF tcpcopy /\ x = "req" THEN "tcp" ELSE "none"]
        /\ taken = [x \in Reader |-> << >>] /\ unread = 0 /\ toSrv = << >> /\ told = << >>
        /\ start = 1 /\ seen = 0 /\ port = 0
        /\ clean = [x \in Reader |-> TRUE]
    BY DEF Init
  <1>2. N \in Nat \ {0} /\ BufSize \in Nat /\ BodyLen \in Nat
    <2>1. stream \in Seq(Classes) /\ stream # << >>
      BY <1>1, DetectAssumption
    <2> QED
      BY <2>1, DetectAssumption, EmptySeq
  <1>3. GoodReader(N, b) /\ Len(b.mem) = BufSize /\ b.r = 0 /\ b.w = 0 /\ ~b.err
    <2> HIDE DEF N
    <2> QED
      BY <1>2, NewIs
  <1>4. GoodReader(N, g) /\ g.mem = << >> /\ Len(g.mem) = 0 /\ g.r = 0 /\ g.w = 0 /\ ~g.err
    <2>1. << >> \in Seq(0 .. N) /\ Len(<< >>) = 0 /\ \A i \in 1 .. Len(<< >>) : << >>[i] # 0
      OBVIOUS
    <2> HIDE DEF N
    <2>2. GoodReader(N, g) /\ g.mem = << >> /\ g.r = 0 /\ g.w = Len(<< >>) /\ ~g.err
      BY <1>2, <2>1, WithBufIs
    <2> QED
      BY <2>1, <2>2
  <1> HIDE DEF b, g
  <1>5. /\ rd["req"] = b /\ rd["guess"] = g /\ B = b /\ Req = b
        /\ proto["req"] = (IF tcpcopy THEN "tcp" ELSE "none") /\ ReqHead = << >>
        /\ clean["req"] /\ clean["guess"] /\ taken["req"] = << >>
    BY <1>1 DEF Reader, B, Req, ReqHead
  <1>6. Outside
    <2>1. sent \in 0 .. N /\ next \in 1 .. sent + 1
      BY <1>1, <1>2
    <2>2. clean \in [Reader -> BOOLEAN] /\ who \in Reader
      BY <1>1 DEF Reader
    <2> QED
      BY <1>1, <2>1, <2>2 DEF Outside
  <1>7. Readers
    <2>1. rd \in [Reader -> [mem : Seq(0 .. Len(stream)), r : Nat, w : Nat, err : BOOLEAN]]
      BY <1>1, <1>3, <1>4 DEF GoodReader
    <2> QED
      BY <1>2, <1>3, <1>4, <1>5, <2>1 DEF Readers, Reader, Size
  <1>8. Inside
    <2>1. /\ proto \in [Reader -> {"none", "http", "socks5", "tcp"}]
          /\ taken \in [Reader -> Seq(1 .. N)]
      BY <1>1
    <2>2. unread \in -N .. BodyLen \cup {-1}
      BY <1>1, <1>2
    <2> QED
      BY <1>1, <1>2, <2>1, <2>2 DEF Inside
  <1>9. ProtoOK /\ GuessOK /\ Linked
    BY <1>1, <1>3, <1>4, <1>5 DEF ProtoOK, GuessOK, Linked
  <1>10. Stored /\ Untouched
    BY <1>1, <1>3, <1>5 DEF Stored, Untouched, Holds
  <1>11. Parsed /\ Forwarded /\ NotParsed
    BY <1>1, <1>3, <1>5 DEF Parsed, Forwarded, NotParsed, Runs
  <1>12. Decided /\ Agreed
    BY <1>1, <1>3, <1>5 DEF Decided, Agreed
  <1> QED
    BY <1>6, <1>7, <1>8, <1>9, <1>10, <1>11, <1>12 DEF IInv, Types

\* Nothing happens.
LEMMA StutterInv == ASSUME IInv, UNCHANGED vars PROVE IInv'
  <1>1. /\ Outside /\ Readers /\ Inside /\ ProtoOK /\ GuessOK /\ Linked
        /\ stream' = stream /\ sent' = sent /\ fin' = fin /\ side' = side /\ tcpcopy' = tcpcopy
        /\ next' = next /\ rd' = rd /\ who' = who /\ keep' = keep /\ pc' = pc /\ proto' = proto
        /\ taken' = taken /\ unread' = unread /\ toSrv' = toSrv /\ told' = told
        /\ start' = start /\ seen' = seen /\ port' = port /\ clean' = clean
    BY DEF IInv, Types, vars, client, parse, relay, ghosts
  <1>2. Outside' /\ Readers'
    BY <1>1 DEF Outside, Readers
  <1>3. Inside'
    BY <1>1 DEF Inside
  <1>4. ProtoOK' /\ GuessOK' /\ Linked'
    BY <1>1 DEF ProtoOK, GuessOK, Linked, Req, B
  <1>5. Stored' /\ Untouched'
    BY <1>1 DEF IInv, Stored, Untouched, B
  <1>6. Parsed' /\ NotParsed'
    BY <1>1 DEF IInv, Parsed, NotParsed, Req, ReqHead
  <1>7. Forwarded'
    BY <1>1 DEF IInv, Forwarded, First, Held, Req, ReqHead, IsConnect, Class
  <1>8. IsHttp' = IsHttp /\ NoHttp' = NoHttp /\ EolUnits' = EolUnits
    BY <1>1 DEF IsHttp, NoHttp, EolUnits
  <1>9. Decided'
    BY <1>1, <1>8 DEF IInv, Decided, Req, ReqHead
  <1>10. Agreed'
    BY <1>1 DEF IInv, Agreed, B, LineIn, EolUnits, Class
  <1> QED
    BY <1>2, <1>3, <1>4, <1>5, <1>6, <1>7, <1>9, <1>10 DEF IInv, Types
----------------------------------------------------------------------------
(* The theorems.                                                           *)

\* The invariant holds in every reachable state: what the readers, the detectors and
\* the copier hold of the client's stream fits together (request.go, http.go, socks5.go,
\* tcp.go, stream.go).
THEOREM DetectInvariant == Spec => []IInv
  <1>1. Init => IInv
    BY InitInv
  <1>2. IInv /\ [Next]_vars => IInv'
    <2> SUFFICES ASSUME IInv, [Next]_vars PROVE IInv'
      OBVIOUS
    <2>1. CASE Send
      BY <2>1, SendInv
    <2>2. CASE Close
      BY <2>2, CloseInv
    <2>3. CASE PeekHead
      BY <2>3, PeekInv
    <2>4. CASE FirstLine
      BY <2>4, FirstLineInv
    <2>5. CASE Headers
      BY <2>5, HeadersInv
    <2>6. CASE SocksHead
      BY <2>6, SocksHeadInv
    <2>7. CASE SocksRequest
      BY <2>7, SocksRequestInv
    <2>8. CASE Respond
      BY <2>8, RespondInv
    <2>9. CASE CopyRead
      BY <2>9, CopyReadInv
    <2>10. CASE CopyEnds
      BY <2>10, CopyEndsInv
    <2>11. CASE GuessNo
      BY <2>11, GuessNoInv
    <2>12. CASE GuessYes
      BY <2>12, GuessYesInv
    <2>13. CASE UNCHANGED vars
      BY <2>13, StutterInv
    <2> QED
      BY <2>1, <2>2, <2>3, <2>4, <2>5, <2>6, <2>7, <2>8, <2>9, <2>10, <2>11, <2>12, <2>13
         DEF Next, Handler
  <1> QED
    BY <1>1, <1>2, PTL DEF Spec

\* The variables keep their types; a reader's positions stay within its buffer
\* (reader.go:16), and the units still owed to the server within the stream.
THEOREM DetectTypeCorrect == Spec => []DetectTypeOK
  <1>1. IInv => DetectTypeOK
    <2> SUFFICES ASSUME IInv PROVE DetectTypeOK
      OBVIOUS
    <2>1. Outside /\ Readers /\ Inside
      BY DEF IInv, Types
    <2>2. \A x \in Reader :
            rd[x].r <= rd[x].w /\ rd[x].w <= Size(rd[x]) /\ Size(rd[x]) <= BufSize
      BY <2>1 DEF Readers, GoodReader, Size
    <2> QED
      BY <2>1, <2>2 DEF DetectTypeOK, Outside, Readers, Inside
  <1> QED
    BY <1>1, DetectInvariant, PTL

\* What a reader has not handed out is the piece of the stream that was read last, in
\* order: sliding and filling the buffer keep every unit (reader.go:217).
THEOREM WindowFaithful == Spec => []WindowIsStream
  <1>1. IInv => WindowIsStream
    <2> SUFFICES ASSUME IInv, clean["req"]
                 PROVE  Window(B) = Span(next - Len(Window(B)), next - 1)
      BY DEF WindowIsStream
    <2> DEFINE N == Len(stream)
               W == Window(B)
               c == B.w - B.r
    <2>1. N \in Nat /\ GoodReader(N, B) /\ next \in Nat /\ c \in Nat
      BY Basics, Fields DEF IInv, Types, B
    <2>2. W \in Seq(1 .. N) /\ Len(W) = c
      BY <2>1, WindowIs
    <2>3. Runs(W, next - 1 + 1 - c)
      BY <2>1, WindowRuns DEF IInv, Stored
    <2> HIDE DEF c, N, W
    <2>4. /\ next - 1 + 1 - c = next - c /\ next - c \in Int /\ next - 1 \in Int
          /\ next - 1 - (next - c) + 1 = c
      BY <2>1
    <2>5. W = Span(next - c, next - 1)
      BY <2>2, <2>3, <2>4, RunsSpan
    <2> QED
      BY <2>2, <2>5 DEF W
  <1> QED
    BY <1>1, DetectInvariant, PTL

\* A connection is taken for HTTP just when its first line is an HTTP request line and
\* the first Read brought eight bytes, however the line arrives (http.go:51).
THEOREM HttpFound == Spec => []HttpRecognised
  <1>1. IInv => HttpRecognised
    <2> SUFFICES ASSUME IInv, pc = "respond", ~tcpcopy, ~keep
                 PROVE  IF IsHttp THEN proto["req"] = (IF seen >= HeadLen THEN "http" ELSE "tcp")
                        ELSE proto["req"] # "http"
      BY DEF HttpRecognised
    <2>1. Outside /\ Readers /\ Inside /\ GuessOK
      BY DEF IInv, Types
    <2>2. who = "req" /\ seen \in Nat /\ HeadLen \in Nat
      BY <2>1, DetectAssumption DEF GuessOK, Outside, Inside, Reader
    <2>3. \/ proto["req"] = "http" /\ IsHttp /\ seen >= HeadLen
          \/ proto["req"] = "socks5" /\ NoHttp
          \/ proto["req"] = "tcp" /\ (seen < HeadLen \/ NoHttp)
      BY <2>2 DEF IInv, Decided
    <2>4. ~(IsHttp /\ NoHttp)
      <3> SUFFICES ASSUME IsHttp, NoHttp PROVE FALSE
        OBVIOUS
      <3>1. EolUnits \subseteq Nat /\ sent \in Nat
        BY <2>1, Basics
      <3>2. stream[1] \in Methods
        BY DEF IsHttp
      <3>3. PICK i \in EolUnits : /\ i <= sent /\ stream[i] \in Versions
                                  /\ \A j \in EolUnits : i <= j
        BY DEF IsHttp
      <3>4. ASSUME NEW e \in EolUnits, stream[e] \notin Versions, \A j \in EolUnits : e <= j
            PROVE  FALSE
        <4>1. i = e
          BY <3>1, <3>3, <3>4
        <4> QED
          BY <3>3, <3>4, <4>1
      <3>5. ~(\A e \in EolUnits : e > sent)
        BY <3>1, <3>3
      <3> QED
        BY <3>2, <3>4, <3>5 DEF NoHttp
    <2> QED
      BY <2>2, <2>3, <2>4
  <1> QED
    BY <1>1, DetectInvariant, PTL

\* What went to the server, and what the reader still holds for it.
LEMMA OutIs ==
    ASSUME IInv, clean["req"], pc = "copy"
    PROVE  /\ Out = Span(First, next - 1) /\ First \in Int
           /\ Out # << >> => Out[1] = First
           /\ proto["req"] = "socks5" => First = port + 1
           /\ proto["req"] = "tcp" => First = start + Len(ReqHead)
           /\ proto["req"] = "http" /\ ~IsConnect => First = start
  <1> DEFINE N == Len(stream)
             W == Window(Req)
             c == Req.w - Req.r
             t == Len(toSrv)
             f == First
  <1>1. Outside /\ Readers /\ Inside /\ GuessOK
    BY DEF IInv, Types
  <1>2. who = "req"
    BY <1>1 DEF GuessOK, Outside, Reader
  <1>3. /\ N \in Nat /\ GoodReader(N, Req) /\ next \in Nat /\ c \in Nat
        /\ toSrv \in Seq(1 .. N) /\ t \in Nat
    <2>1. toSrv \in Seq(1 .. N)
      BY <1>1 DEF Inside
    <2>2. N \in Nat /\ GoodReader(N, Req) /\ next \in Nat /\ c \in Nat
      BY <1>1, Basics, Fields DEF Req, Reader
    <2> HIDE DEF N
    <2> QED
      BY <2>1, <2>2
  <1>4. f = next - c - t
    BY <1>2 DEF First, Held
  <1>5. W \in Seq(1 .. N) /\ Len(W) = c
    BY <1>3, WindowIs
  <1>6. Runs(W, next - 1 + 1 - c)
    <2>1. Holds(Req, next - 1)
      BY <1>2 DEF IInv, Stored, Req, B
    <2> QED
      BY <1>3, <2>1, WindowRuns
  <1>7. /\ Runs(toSrv, f)
        /\ proto["req"] = "socks5" => f = port + 1
        /\ proto["req"] = "tcp" => f = start + Len(ReqHead)
        /\ proto["req"] = "http" /\ ~IsConnect => f = start
    BY <1>2 DEF IInv, Forwarded
  <1> HIDE DEF c, N, W, f
  <1>8. Out \in Seq(1 .. N) /\ Len(Out) = t + c
        /\ \A a \in Int : Runs(toSrv, a) /\ Runs(W, a + t) => Runs(Out, a)
    BY <1>3, <1>5, JoinIs DEF Out, W
  <1> HIDE DEF t
  <1>9. /\ f \in Int /\ next - 1 + 1 - c = f + t /\ next - 1 \in Int
        /\ next - 1 - f + 1 = t + c
    BY <1>3, <1>4
  <1>10. Runs(Out, f)
    BY <1>6, <1>7, <1>8, <1>9
  <1>11. Out = Span(f, next - 1)
    BY <1>8, <1>9, <1>10, RunsSpan
  <1>12. ASSUME Out # << >> PROVE Out[1] = f
    <2>1. 1 \in 1 .. Len(Out)
      BY <1>8, <1>12, EmptySeq
    <2>2. Out[1] = f + 1 - 1
      BY <1>10, <2>1 DEF Runs
    <2> QED
      BY <1>9, <2>2
  <1> QED
    BY <1>7, <1>9, <1>11, <1>12 DEF f

\* A server sees consecutive units of the stream, up to the last one that was read
\* (stream.go:57).
THEOREM OrderKept == Spec => []InOrder
  <1>1. IInv => InOrder
    BY OutIs DEF InOrder
  <1> QED
    BY <1>1, DetectInvariant, PTL

\* What was read to find the protocol out is made up for: every stream begins at its
\* server where it should, and nothing after that is missing (stream.go:57, http.go:84).
THEOREM BytesMadeUp == Spec => []NothingLost
  <1>1. IInv => NothingLost
    BY OutIs DEF NothingLost
  <1> QED
    BY <1>1, DetectInvariant, PTL

\* A guess that has read nothing over its buffer is confirmed: the handler of the
\* further request finds HTTP where isKeepAliveHttp found it (keep.go:43).
THEOREM GuessConfirmed == Spec => []GuessAgrees
  <1>1. IInv => GuessAgrees
    <2> SUFFICES ASSUME IInv, clean["req"], keep, pc = "respond" PROVE proto["req"] = "http"
      BY DEF GuessAgrees
    <2>1. who = "req"
      BY DEF IInv, Types, GuessOK, Outside, Reader
    <2> QED
      BY <2>1 DEF IInv, Agreed
  <1> QED
    BY <1>1, DetectInvariant, PTL
=============================================================================
