----------------------------- MODULE TcpReader -----------------------------
(***************************************************************************)
(* The buffered reader that every protocol of the proxy parses with         *)
(* (proto/tcp/reader.go), as operators on one reader.                       *)
(*                                                                         *)
(* A reader is a record: mem is the memory of buf, r and w are the read and *)
(* write positions, err says that Read has returned EOF and nobody has been *)
(* told yet.  A cell of mem holds the position of a unit in the stream that *)
(* the connection delivers, 0 if nothing was stored in it.  Reads from the  *)
(* connection are the caller's steps: Fill and Load take what they returned.*)
(***************************************************************************)
EXTENDS Integers, Sequences

Size(b) == Len(b.mem)
Buffered(b) == b.w - b.r
Window(b) == SubSeq(b.mem, b.r + 1, b.w)
Room(b) == Size(b) - Buffered(b)

NewReader(size) == [mem |-> [i \in 1 .. size |-> 0], r |-> 0, w |-> 0, err |-> FALSE]

\* The reader works in the memory d that it is given, and takes it for full.
NewReaderWithBuf(d) == [mem |-> d, r |-> 0, w |-> Len(d), err |-> FALSE]

\* The memory after d was copied to the cells from at + 1 on.
Put(mem, at, d) ==
    [i \in DOMAIN mem |-> IF at < i /\ i <= at + Len(d) THEN d[i - at] ELSE mem[i]]

\* Wrong variant: the positions move, the units do not.
Slide_PositionsOnly(b) == [b EXCEPT !.r = 0, !.w = Buffered(b)]

\* fill slides what has not been read yet to the beginning ...
Slide(b) == [b EXCEPT !.mem = Put(@, 0, Window(b)), !.r = 0, !.w = Buffered(b)]

\* Wrong variant: the units are added behind, wherever that is.
Fill_NoSlide(b, d) == [b EXCEPT !.mem = Put(@, b.w, d), !.w = @ + Len(d)]

\* ... and adds what a Read into the rest returned ...
Fill(b, d) ==
    LET s == Slide(b) IN [s EXCEPT !.mem = Put(@, s.w, d), !.w = @ + Len(d)]

\* Wrong variant: the end of the stream is not remembered.
FillEof_Forgets(b) == Slide(b)

\* ... or notes that the stream has ended.
FillEof(b) == [Slide(b) EXCEPT !.err = TRUE]

ReadErr(b) == [b EXCEPT !.err = FALSE]

\* Advance the read position by n units.
Skip(b, n) == [b EXCEPT !.r = @ + n]

\* ReadSlice: where the first unit of the window that ends a line is, if one does.
LineEnds(b, eol) == {i \in 1 .. Buffered(b) : Window(b)[i] \in eol}
HasLine(b, eol) == LineEnds(b, eol) # {}
LineLen(b, eol) == CHOOSE i \in LineEnds(b, eol) : \A j \in LineEnds(b, eol) : i <= j

\* ReadSlice has to return without a line: the stream has ended, or the line is
\* longer than the buffer (ErrBufferFull).
CutShort(b) == b.err \/ Room(b) = 0

\* UnreadBuf(max): how many units it hands out and skips; -1 stands for all.
Unread(b, max) == IF max >= 0 /\ Buffered(b) > max THEN max ELSE Buffered(b)

\* Read(p) with size = len(p), when nothing is buffered: a large p is read into
\* directly, else one Read into the whole buffer, of which p gets what it can hold.
Direct(b, size) == size >= Size(b)
ReadMax(b, size) == IF Direct(b, size) THEN size ELSE Size(b)
Given(b, size, n) == IF n <= size THEN n ELSE size
Load(b, size, d) ==
    IF Direct(b, size) THEN b
    ELSE [b EXCEPT !.mem = Put(@, 0, d), !.r = Given(b, size, Len(d)), !.w = Len(d)]
=============================================================================
