------------------------------- MODULE Detect -------------------------------
(***************************************************************************)
(* What the proxy takes a connection for: ReadRequest tries HTTP, SOCKS5    *)
(* and plain TCP on what has arrived (proto/request.go), the stream that    *)
(* claims the connection reads its request and answers, and the request     *)
(* copier goes on with what is left.  Before it forwards something after a  *)
(* request, the copier guesses whether it is a further one                  *)
(* (isKeepAliveHttp): the same ReadRequest, over the copier's own buffer.   *)
(*                                                                         *)
(* The client's stream is cut into units, of a class each, that arrive in   *)
(* order but in any portions.  A reader holds positions of units, so that   *)
(* what a server gets can be compared with what the client sent.  An HTTP   *)
(* head counts in units of four bytes: eight bytes are HeadLen units.       *)
(*                                                                         *)
(* Servers, their answers and the races of a reuse are the subject of       *)
(* Tunnel; here a server takes everything.                                  *)
(***************************************************************************)
EXTENDS TcpReader

CONSTANTS
    Streams,        \* what clients send, as sequences of classes
    BufSize,        \* units in a reader's buffer, and in the copier's
    HeadLen,        \* units that have to be there to look for a method or a version
    SocksSize,      \* units in the buffer that a SOCKS5 request is read into
    BodyLen         \* the Content-Length that a "length" header gives, in units

Methods == {"GET", "CONNECT"}               \* units that begin with an HTTP method
Versions == {"http1", "http0"}              \* ends of a request line
HeaderLines == {"other", "length", "chunked", "bad"}
Eols == Versions \cup HeaderLines \cup {"blank"}
Classes == Methods \cup Eols \cup {"text", "data", "05", "cmd", "addr", "port"}

ASSUME DetectAssumption ==
    /\ Streams \subseteq Seq(Classes) /\ << >> \notin Streams
    /\ BufSize \in Nat /\ HeadLen \in 1 .. BufSize /\ SocksSize \in 2 .. BufSize - 1
    /\ BodyLen \in Nat

VARIABLES
    stream,     \* what this client sends ...
    sent,       \* ... how much of it so far ...
    fin,        \* ... and whether it has closed its side
    side,       \* the handler: "client" (ClientHandler) or "server" (ServerHandler)
    tcpcopy,    \* TcpCopy is configured
    next,       \* the first unit that has not been read from the connection
    who,        \* which Request ReadRequest works for: "req", or "guess"
    rd,         \* rd[x]: the reader of Request x
    proto,      \* proto[x]: its Proto, "none" until a stream has claimed the connection
    taken,      \* taken[x]: units that its first line and header have taken from rd[x]
    keep,       \* the request is served by KeepHandler
    pc,         \* what the goroutine does next
    unread,     \* clientUnRead
    toSrv,      \* what was written to the server, as units
    told,       \* what the proxy itself wrote to the client
    start,      \* the unit that the request served now begins with
    seen,       \* how much was there when the protocol was decided
    port,       \* the unit that the port of a SOCKS5 request was taken from
    clean       \* clean[x]: no guess has read over the units that rd[x] was made with

client == <<stream, sent, fin>>
parse  == <<proto, taken>>
relay  == <<unread, toSrv, told>>
ghosts == <<start, seen, port, clean>>
vars   == <<client, side, tcpcopy, next, rd, who, keep, pc, parse, relay, ghosts>>

Reader == {"req", "guess"}
B == rd[who]
Class(i) == IF i \in DOMAIN stream THEN stream[i] ELSE "data"
Span(a, b) == [i \in 1 .. b - a + 1 |-> a + i - 1]
EolUnits == {i \in DOMAIN stream : stream[i] \in Eols}

DetectTypeOK ==
    /\ stream \in Streams /\ sent \in 0 .. Len(stream) /\ next \in 1 .. sent + 1
    /\ fin \in BOOLEAN /\ tcpcopy \in BOOLEAN /\ keep \in BOOLEAN
    /\ clean \in [Reader -> BOOLEAN]
    /\ side \in {"client", "server"} /\ who \in Reader
    /\ rd \in [Reader -> [mem : Seq(0 .. Len(stream)), r : Nat, w : Nat, err : BOOLEAN]]
    /\ \A x \in Reader :
        rd[x].r <= rd[x].w /\ rd[x].w <= Size(rd[x]) /\ Size(rd[x]) <= BufSize
    /\ pc \in {"peek", "line", "headers", "socks", "sreq", "respond", "copy", "guessed", "end"}
    /\ proto \in [Reader -> {"none", "http", "socks5", "tcp"}]
    /\ taken \in [Reader -> Seq(1 .. Len(stream))] /\ toSrv \in Seq(1 .. Len(stream))
    /\ unread \in -Len(stream) .. BodyLen \cup {-1}
    /\ told \in Seq({"method", "granted", "established"})
    /\ start \in 1 .. Len(stream) + 1 /\ seen \in 0 .. BufSize /\ port \in 0 .. Len(stream)

Init ==
    /\ stream \in Streams /\ sent = 0 /\ fin = FALSE
    /\ side \in {"client", "server"} /\ tcpcopy \in BOOLEAN
    /\ next = 1
    /\ rd = [x \in Reader |-> IF x = "req" THEN NewReader(BufSize) ELSE NewReaderWithBuf(<< >>)]
    /\ who = "req" /\ keep = FALSE
    /\ pc = (IF tcpcopy THEN "respond" ELSE "peek")
    /\ proto = [x \in Reader |-> IF tcpcopy /\ x = "req" THEN "tcp" ELSE "none"]
    /\ taken = [x \in Reader |-> << >>] /\ unread = 0 /\ toSrv = << >> /\ told = << >>
    /\ start = 1 /\ seen = 0 /\ port = 0
    /\ clean = [x \in Reader |-> TRUE]

----------------------------------------------------------------------------
(* The client.                                                             *)

Send ==
    /\ ~fin /\ sent < Len(stream)
    /\ sent' = sent + 1
    /\ UNCHANGED <<stream, fin, side, tcpcopy, next, rd, who, keep, pc, parse, relay, ghosts>>

Close ==
    /\ ~fin /\ fin' = TRUE
    /\ UNCHANGED <<stream, sent, side, tcpcopy, next, rd, who, keep, pc, parse, relay, ghosts>>

----------------------------------------------------------------------------
(* ReadRequest.  The actions that follow are steps of it with reader B.     *)

Avail == sent - next + 1
AtEof == fin /\ Avail = 0

\* fill: the connection delivers some of what has arrived, or its end.
FillStep ==
    /\ \/ \E n \in 1 .. Avail :
            /\ n <= Room(B)
            /\ rd' = [rd EXCEPT ![who] = Fill(B, Span(next, next + n - 1))]
            /\ next' = next + n
       \/ AtEof /\ rd' = [rd EXCEPT ![who] = FillEof(B)] /\ UNCHANGED next
    /\ clean' = [clean EXCEPT !["guess"] = @ /\ who = "req"]

\* ReadRequest returns an error.  A guess only looks at Proto.
Fail == pc' = IF who = "guess" THEN "guessed" ELSE "end"

\* ReadRequest has found its stream p, whose readRequest does not read.
Claim(p) ==
    /\ proto' = [proto EXCEPT ![who] = p]
    /\ pc' = IF who = "guess" THEN "guessed" ELSE "respond"

\* Wrong variant: a unit more is asked for than is needed.
StartsLikeHttp_OffByOne(b) == Buffered(b) > HeadLen /\ Class(Window(b)[1]) \in Methods

\* httpStream.validHead, up to the first line: is there a method?
StartsLikeHttp(b) == Buffered(b) >= HeadLen /\ Class(Window(b)[1]) \in Methods

\* Peek(1), then the first question of httpStream.validHead.
PeekHead ==
    /\ pc = "peek"
    /\ \/ Buffered(B) = 0 /\ ~B.err /\ FillStep /\ UNCHANGED <<pc, seen>>
       \/ Buffered(B) = 0 /\ B.err /\ Fail /\ UNCHANGED <<rd, next, seen, clean>>
       \/ /\ Buffered(B) > 0
          /\ pc' = IF StartsLikeHttp(B) THEN "line" ELSE "socks"
          /\ seen' = IF who = "req" THEN Buffered(B) ELSE seen
          /\ UNCHANGED <<rd, next, clean>>
    /\ UNCHANGED <<client, side, tcpcopy, who, keep, parse, relay, start, port>>

\* One round of ReadSlice: n units of the window, all of one line, go to the caller.
TakeUnits(n) ==
    /\ taken' = [taken EXCEPT ![who] = @ \o SubSeq(Window(B), 1, n)]
    /\ rd' = [rd EXCEPT ![who] = ReadErr(Skip(B, n))]

\* readFistLine.  When the line is no request line, its units are gone from the
\* reader all the same.  The URL may fail to parse, and on the server's side its
\* encryption to be undone.
FirstLine ==
    /\ pc = "line"
    /\ \/ /\ HasLine(B, EolUnits)
          /\ TakeUnits(LineLen(B, EolUnits))
          /\ IF Class(Window(B)[LineLen(B, EolUnits)]) \in Versions
             THEN proto' = [proto EXCEPT ![who] = "http"] /\ (pc' = "headers" \/ Fail)
             ELSE pc' = "socks" /\ UNCHANGED proto
          /\ UNCHANGED <<next, clean>>
       \/ /\ ~HasLine(B, EolUnits) /\ CutShort(B)
          /\ TakeUnits(Buffered(B))
          /\ pc' = IF B.err THEN "socks" ELSE pc
          /\ UNCHANGED <<next, clean, proto>>
       \/ /\ ~HasLine(B, EolUnits) /\ ~CutShort(B)
          /\ FillStep /\ UNCHANGED <<pc, taken, proto>>
    /\ UNCHANGED <<client, side, tcpcopy, who, keep, relay, start, seen, port>>

\* ReadHeader: lines up to the empty one.  (upcomingHeaderNewlines fills the buffer
\* no further than the first ReadSlice would.)
Headers ==
    /\ pc = "headers"
    /\ \/ /\ HasLine(B, EolUnits)
          /\ TakeUnits(LineLen(B, EolUnits))
          /\ LET c == Class(Window(B)[LineLen(B, EolUnits)])
             IN  IF c = "bad" THEN Fail
                 ELSE IF c = "blank" THEN Claim("http") ELSE UNCHANGED pc
          /\ UNCHANGED <<next, clean, proto>>
       \/ /\ ~HasLine(B, EolUnits) /\ CutShort(B)
          /\ TakeUnits(Buffered(B))
          /\ IF B.err THEN Fail ELSE UNCHANGED pc
          /\ UNCHANGED <<next, clean, proto>>
       \/ /\ ~HasLine(B, EolUnits) /\ ~CutShort(B)
          /\ FillStep /\ UNCHANGED <<pc, taken, proto>>
    /\ UNCHANGED <<client, side, tcpcopy, who, keep, relay, start, seen, port>>

\* socks5Stream.validHead, which empties the buffer when it says yes, and sends
\* the choice of the method; else the connection is taken for plain TCP.
SocksHead ==
    /\ pc = "socks"
    /\ IF Buffered(B) >= HeadLen /\ Class(Window(B)[1]) = "05"
       THEN /\ rd' = [rd EXCEPT ![who] = Skip(B, Buffered(B))]
            /\ proto' = [proto EXCEPT ![who] = "socks5"] /\ pc' = "sreq"
            /\ told' = Append(told, "method")
       ELSE Claim("tcp") /\ UNCHANGED <<rd, told>>
    /\ UNCHANGED <<client, side, tcpcopy, next, who, keep, taken, unread, toSrv, ghosts>>

\* ParseHeader: what one Read returns is the request, and its end the port.
SocksRequest ==
    /\ pc = "sreq"
    /\ \/ \E n \in 1 .. Avail :
            LET given == Given(B, SocksSize, n)
            IN  /\ n <= ReadMax(B, SocksSize)
                /\ rd' = [rd EXCEPT ![who] = Load(B, SocksSize, Span(next, next + n - 1))]
                /\ next' = next + n
                /\ IF given < 2 THEN Fail /\ UNCHANGED port
                   ELSE Claim("socks5") /\ port' = next + given - 1
                /\ clean' = [clean EXCEPT !["guess"] = @ /\ who = "req"]
       \/ (AtEof \/ B.err) /\ Fail /\ UNCHANGED <<rd, next, port, clean>>
    /\ UNCHANGED <<client, side, tcpcopy, who, keep, proto, taken, relay, start, seen>>
----------------------------------------------------------------------------
(* response, of the stream that has claimed the connection.                *)

Req == rd["req"]
ReqHead == taken["req"]
IsConnect == Class(ReqHead[1]) = "CONNECT"

\* readBody: a request that is served as a long connection, the length of another's
\* body, and how much of either is in the buffer.
IsLong == \E i \in DOMAIN ReqHead : Class(ReqHead[i]) \in {"http0", "chunked"}
BodyMax ==
    IF IsLong THEN -1
    ELSE IF \E i \in DOMAIN ReqHead : Class(ReqHead[i]) = "length" THEN BodyLen ELSE 0
BodyCount == Unread(Req, BodyMax)

\* The loop of the copier begins, n of the buffered units written or dropped.
Transfer(written, n, left) ==
    /\ toSrv' = written
    /\ rd' = [rd EXCEPT !["req"] = Skip(Req, n)]
    /\ unread' = left /\ pc' = "copy"

\* The header, and the body as far as it is there; the rest stays in the reader.
Respond_Http ==
    /\ proto["req"] = "http" /\ ~IsConnect /\ side = "client"
    /\ Transfer(ReqHead \o SubSeq(Window(Req), 1, BodyCount), BodyCount,
                IF IsLong THEN -1 ELSE BodyMax - BodyCount)
    /\ UNCHANGED told

\* What came with the header of a CONNECT is taken from the reader and not sent.
Respond_Connect ==
    /\ proto["req"] = "http" /\ IsConnect
    /\ Transfer(<< >>, Buffered(Req), -1)
    /\ told' = Append(told, "established")

Respond_Socks5 ==
    /\ proto["req"] = "socks5" /\ side = "client" /\ ~keep
    /\ Transfer(<< >>, 0, -1)
    /\ told' = Append(told, "granted")

\* Wrong variant: the copier goes on with the reader that was written from.
Respond_Tcp_SameReader ==
    /\ proto["req"] = "tcp" /\ ~tcpcopy /\ side = "client" /\ ~keep
    /\ Transfer(Window(Req), 0, -1)
    /\ UNCHANGED told

\* Wrong variant: what was read is not made up for.
Respond_Tcp_Forgets ==
    /\ proto["req"] = "tcp" /\ ~tcpcopy /\ side = "client" /\ ~keep
    /\ toSrv' = << >>
    /\ rd' = [rd EXCEPT !["req"] = NewReader(BufSize)]
    /\ unread' = -1 /\ pc' = "copy"
    /\ UNCHANGED told

\* What was read is made up for, and a new reader on a new socket takes over.
Respond_Tcp ==
    /\ proto["req"] = "tcp" /\ ~tcpcopy /\ side = "client" /\ ~keep
    /\ toSrv' = Window(Req)
    /\ rd' = [rd EXCEPT !["req"] = NewReader(BufSize)]
    /\ unread' = -1 /\ pc' = "copy"
    /\ UNCHANGED told

Respond_TcpCopy ==
    /\ tcpcopy /\ side = "client"
    /\ Transfer(<< >>, 0, -1)
    /\ UNCHANGED told

\* The handler refuses the stream, or the handshake fails.  A SOCKS5 client has been
\* told before that it succeeded.
Respond_Refuse ==
    /\ pc' = "end"
    /\ told' = IF proto["req"] = "socks5" /\ side = "client" /\ ~keep
               THEN Append(told, "granted") ELSE told
    /\ UNCHANGED <<rd, toSrv, unread>>

Respond ==
    /\ pc = "respond"
    /\ \/ Respond_Http \/ Respond_Connect \/ Respond_Socks5 \/ Respond_Tcp
       \/ Respond_TcpCopy \/ Respond_Refuse
    /\ UNCHANGED <<client, side, tcpcopy, next, who, keep, parse, ghosts>>

----------------------------------------------------------------------------
(* copyBuffer(s.conn, s.req.reader, "request").                            *)

\* isKeepAliveHttp(buf[0:nr]): ReadRequest with a reader that works in buf.
Guess(d) ==
    /\ rd' = [rd EXCEPT !["req"] = Skip(@, Buffered(@)), !["guess"] = NewReaderWithBuf(d)]
    /\ proto' = [proto EXCEPT !["guess"] = "none"] /\ taken' = [taken EXCEPT !["guess"] = << >>]
    /\ clean' = [clean EXCEPT !["guess"] = clean["req"]]
    /\ who' = "guess" /\ pc' = "peek"
    /\ UNCHANGED <<unread, toSrv>>

\* Read into buf: what the reader has left, or else from the connection.
CopyRead ==
    /\ pc = "copy"
    /\ \E n \in 1 .. BufSize :
        /\ n <= Avail \/ Buffered(Req) > 0
        /\ Buffered(Req) > 0 => n = Buffered(Req)
        /\ LET d == IF Buffered(Req) > 0 THEN Window(Req) ELSE Span(next, next + n - 1)
           IN  /\ next' = IF Buffered(Req) > 0 THEN next ELSE next + n
               /\ \/ unread = 0 /\ Guess(d)
                  \/ /\ unread # 0
                     /\ toSrv' = toSrv \o d
                     /\ rd' = [rd EXCEPT !["req"] = Skip(@, Buffered(@))]
                     /\ unread' = IF unread > 0 THEN unread - n ELSE unread
                     /\ UNCHANGED <<who, pc, parse, clean>>
    /\ UNCHANGED <<client, side, tcpcopy, keep, told, start, seen, port>>

CopyEnds ==
    /\ pc = "copy" /\ Buffered(Req) = 0 /\ AtEof
    /\ pc' = "end"
    /\ UNCHANGED <<client, side, tcpcopy, next, rd, who, keep, parse, relay, ghosts>>

\* No further request: the connection is a long one from now on.
GuessNo ==
    /\ pc = "guessed" /\ proto["guess"] # "http"
    /\ toSrv' = toSrv \o rd["guess"].mem
    /\ unread' = -1 /\ who' = "req" /\ pc' = "copy"
    /\ clean' = [clean EXCEPT !["req"] = clean["guess"]]
    /\ UNCHANGED <<client, side, tcpcopy, next, rd, keep, parse, told, start, seen, port>>

\* Wrong variant: s.buf gets what the guess has left in its reader.
GuessYes_Rest ==
    /\ pc = "guessed" /\ proto["guess"] = "http"
    /\ rd' = [rd EXCEPT !["req"] = NewReaderWithBuf(Window(rd["guess"]))]
    /\ proto' = [proto EXCEPT !["req"] = "none"] /\ taken' = [taken EXCEPT !["req"] = << >>]
    /\ who' = "req" /\ keep' = TRUE /\ pc' = "peek"
    /\ toSrv' = << >> /\ start' = rd["guess"].mem[1]
    /\ clean' = [clean EXCEPT !["req"] = clean["guess"]]
    /\ UNCHANGED <<client, side, tcpcopy, next, unread, told, seen, port>>

\* A further request: KeepHandler serves it with a copy of buf, on a server of its own.
GuessYes ==
    /\ pc = "guessed" /\ proto["guess"] = "http"
    /\ rd' = [rd EXCEPT !["req"] = NewReaderWithBuf(rd["guess"].mem)]
    /\ proto' = [proto EXCEPT !["req"] = "none"] /\ taken' = [taken EXCEPT !["req"] = << >>]
    /\ who' = "req" /\ keep' = TRUE /\ pc' = "peek"
    /\ toSrv' = << >> /\ start' = rd["guess"].mem[1]
    /\ clean' = [clean EXCEPT !["req"] = clean["guess"]]
    /\ UNCHANGED <<client, side, tcpcopy, next, unread, told, seen, port>>

----------------------------------------------------------------------------
Handler ==
    \/ PeekHead \/ FirstLine \/ Headers \/ SocksHead \/ SocksRequest
    \/ Respond \/ CopyRead \/ CopyEnds \/ GuessNo \/ GuessYes

Next == Send \/ Close \/ Handler

Spec == Init /\ [][Next]_vars

\* The goroutine runs.  The client owes nothing.
FairSpec == Spec /\ WF_vars(Handler)

----------------------------------------------------------------------------
\* What a reader holds is the piece of the stream that was read last, in order:
\* nothing is lost, repeated or overwritten by sliding and filling (reader.go:217).
WindowIsStream ==
    LET w == Window(B)
    IN  clean["req"] => w = Span(next - Len(w), next - 1)

\* Has the client sent an HTTP request line first?
IsHttp ==
    /\ stream[1] \in Methods
    /\ \E i \in EolUnits :
        /\ i <= sent /\ stream[i] \in Versions
        /\ \A j \in EolUnits : i <= j

\* A first Read that brings eight bytes settles whether a connection is HTTP, however
\* the rest of the request line is cut up and however long it is; a shorter one makes
\* TCP of it (http.go:51).
HttpRecognised ==
    (pc = "respond" /\ ~tcpcopy /\ ~keep) =>
        IF IsHttp THEN proto["req"] = (IF seen >= HeadLen THEN "http" ELSE "tcp")
        ELSE proto["req"] # "http"

\* What went to the server, and what the reader still holds for it.
Out == toSrv \o Window(Req)

\* A server sees consecutive units of the stream, up to the last one that was read.
InOrder == (clean["req"] /\ pc = "copy" /\ Out # << >>) => Out = Span(Out[1], next - 1)

\* stream.go:57: bytes that were read to find the protocol out are made up for.  An
\* HTTP request reaches its server from its first unit on, and so does a TCP stream
\* unless its first line began like HTTP: then it lacks what was taken (http.go:84).
\* What follows the one Read that a SOCKS5 request is taken from goes on as well.
NothingLost ==
    (clean["req"] /\ pc = "copy" /\ next > start) =>
        CASE proto["req"] = "socks5" -> Out = Span(port + 1, next - 1)
          [] proto["req"] = "tcp" -> Out = Span(start + Len(ReqHead), next - 1)
          [] proto["req"] = "http" /\ ~IsConnect -> Out = Span(start, next - 1)
          [] OTHER -> TRUE

\* The guess and the handler agree: KeepHandler finds HTTP where isKeepAliveHttp found
\* it, unless the guess read over the buffer that it was made from (keep.go:43).
GuessAgrees == (clean["req"] /\ keep /\ pc = "respond") => proto["req"] = "http"

\* When the client has gone the handler ends, in the middle of whatever it parses.
ClientGoneEnds == fin ~> pc = "end"
=============================================================================
