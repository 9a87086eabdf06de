--------------------------- MODULE RestartProofs ---------------------------
(***************************************************************************)
(* Proofs about the processes of a restart and their log files: what is     *)
(* proved of the chain of processes holds of them while they log, and for   *)
(* any number of processes, days and lines no line is lost unless a step    *)
(* has put its file at risk, which takes two processes at once.             *)
(***************************************************************************)
EXTENDS Restart, GraceProofs, WellFoundedInduction

\* Day d's lines are the model's business.
Safe(d) == ~clash[d] /\ ~Expired(d)

\* A process that has written nothing has no mill; the mill looks at days that were.
WriterOf(w) ==
    /\ fd[w] = "nil" => cur[w] = 0 /\ ~lock[w] /\ mill[w] = "idle" /\ ~full[w] /\ todo[w] = {}
    /\ fd[w] # "nil" => cur[w] \in 1 .. today
    /\ pos[w] <= lines
    /\ mill[w] \in {"idle", "list"} => todo[w] = {}
    /\ mill[w] \in {"open", "made", "copied"} => todo[w] # {}
    /\ \A d \in todo[w] : d <= today

WriterInv == \A w \in Writer : WriterOf(w)

DayInv == \A d \in Day : exists[d] \/ gz[d] # "none" => d <= today

\* A file that is open is in the directory and is not compressed by its own process; a
\* process that writes at its own position is alone with the file, and at its end.
OpenInv(d) ==
    \A w \in Writer : HasOpen(w, d) =>
        /\ exists[d] /\ d \notin todo[w]
        /\ fd[w] = "own" => pos[w] = Len(file[d]) /\ \A v \in Writer \ {w} : ~HasOpen(v, d)

\* A file that is being compressed is open nowhere, and its copy is the file.
MillInv(d) ==
    \A w \in Writer :
        /\ d \in todo[w] => exists[d] \/ gz[d] # "none"
        /\ Milling(w, d) =>
            /\ exists[d] /\ src[w] = file[d]
            /\ \A v \in Writer : ~HasOpen(v, d)
            /\ \A v \in Writer \ {w} : ~Milling(v, d)
            /\ mill[w] = "copied" => gz[d] = "whole" /\ packed[d] = file[d]

\* The lines of the day are in the file, or in the copy once the file is gone.
LineInv(d) ==
    /\ exists[d] => logged[d] \subseteq Elements(file[d])
    /\ ~exists[d] => logged[d] = {} \/ (gz[d] = "whole" /\ logged[d] \subseteq Elements(packed[d]))

DayOK(d) == OpenInv(d) /\ MillInv(d) /\ LineInv(d)

FileInv == \A d \in Day : Safe(d) => DayOK(d)

\* A process that is alone has seen every day that has a file, and compresses none but days
\* before its own.
AloneOf ==
    /\ \A d \in Day : ~clash[d] /\ (gz[d] # "none" => d < today)
    /\ \A w \in Writer : fd[w] # "nil" =>
        /\ \A d \in Day : exists[d] => d <= cur[w]
        /\ \A d \in todo[w] : d < cur[w]

\* Who has a file open is alive.
AloneInv ==
    /\ \A w \in Writer : fd[w] # "nil" => load = "lines" /\ w \in alive
    /\ ~overlap => (\A v, w \in alive : v = w) /\ AloneOf

LogState == LogTypeOK /\ WriterInv /\ DayInv /\ FileInv

ChainOK ==
    /\ load \in {"conns", "lines"}
    /\ alive \subseteq started /\ started \subseteq Proc /\ overlap \in BOOLEAN

RestartInv == ChainOK /\ LogState /\ AloneInv

----------------------------------------------------------------------------
(* Operators.                                                              *)

Descent == {ss \in Nat \X Nat : ss[1] < ss[2]}

\* The numbers have no endless descent.
LEMMA DescentWellFounded == IsWellFoundedOn(Descent, Nat)
<1>1. Descent = OpToRel(<, Nat)
    BY Zenon DEF Descent, OpToRel
<1>2. QED
    BY <1>1, NatLessThanWellFounded, Zenon

\* The mill's next file is one that it has to compress.
LEMMA NewestIsOne ==
    ASSUME NEW S, S \subseteq Day, S # {}
    PROVE  Max(S) \in S
<1> DEFINE T == {MaxDay - d : d \in S}
<1>1. T \subseteq Nat /\ T # {}
    <2>1. \A d \in S : MaxDay - d \in Nat
        BY TimeWriterAssumption DEF Day
    <2>2. PICK d : d \in S
        OBVIOUS
    <2>3. MaxDay - d \in T
        BY <2>2
    <2>4. QED
        BY <2>1, <2>3
<1>2. PICK i \in T : \A j \in T : ~(<<j, i>> \in Descent)
    <2> HIDE DEF T
    <2>1. QED
        BY <1>1, DescentWellFounded, WFMin, Zenon
<1>3. PICK x \in S : i = MaxDay - x
    BY <1>2
<1>4. ASSUME NEW y \in S PROVE x >= y
    <2>1. MaxDay - y \in T
        OBVIOUS
    <2>2. <<MaxDay - y, i>> \notin Descent
        BY <1>2, <2>1
    <2>3. MaxDay - y \in Nat /\ i \in Nat
        BY <1>1, <1>2, <2>1
    <2>4. ~(MaxDay - y < i)
        BY <2>2, <2>3 DEF Descent
    <2>5. QED
        BY <1>3, <2>4, TimeWriterAssumption DEF Day
<1>5. \E z \in S : \A y \in S : z >= y
    BY <1>4
<1>6. QED
    BY <1>5 DEF Max

\* What a line does to a file of which it comes to the end.
LEMMA PutAtEnd ==
    ASSUME NEW s \in Content, NEW l \in Line
    PROVE  /\ Len(Put(s, Len(s) + 1, l)) = Len(s) + 1
           /\ Elements(s) \cup {l} \subseteq Elements(Put(s, Len(s) + 1, l))
<1> DEFINE n == Len(s) + 1
           t == [j \in 1 .. n |-> IF j = n THEN l ELSE IF j <= Len(s) THEN s[j] ELSE Hole]
<1>1. Len(s) \in Nat /\ DOMAIN s = 1 .. Len(s)
    BY DEF Content
<1>2. Put(s, n, l) = t
    BY <1>1 DEF Put
<1>3. Len(t) = n
    BY <1>1
<1>4. t[n] = l /\ \A j \in 1 .. Len(s) : t[j] = s[j]
    BY <1>1
<1>5. DOMAIN t = 1 .. n /\ n \in 1 .. n /\ 1 .. Len(s) \subseteq 1 .. n
    BY <1>1
<1>6. Elements(s) \cup {l} \subseteq Elements(t)
    BY <1>1, <1>4, <1>5 DEF Elements
<1>7. QED
    BY <1>2, <1>3, <1>6

\* A line leaves a file of lines and holes.
LEMMA PutType ==
    ASSUME NEW s \in Content, NEW i \in Nat \ {0}, NEW l \in Line
    PROVE  Put(s, i, l) \in Content
<1>1. CASE i <= Len(s)
    BY <1>1 DEF Put, Content
<1>2. CASE ~(i <= Len(s))
    <2> DEFINE t == [j \in 1 .. i |-> IF j = i THEN l ELSE IF j <= Len(s) THEN s[j] ELSE Hole]
    <2>1. Put(s, i, l) = t
        BY <1>2 DEF Put
    <2>2. \A j \in 1 .. i : t[j] \in Line \cup {Hole}
        BY DEF Content
    <2>3. t \in Seq(Line \cup {Hole})
        BY <2>2
    <2>4. QED
        BY <2>1, <2>3 DEF Content
<1>3. QED
    BY <1>1, <1>2

----------------------------------------------------------------------------
(* Types.                                                                  *)

Hows == {"nil", "append", "own"}
Mills == {"idle", "list", "next", "open", "made", "copied"}

\* The writer's part of the state, and the disk's.
MineOK ==
    /\ cur \in [Writer -> {0} \cup Day] /\ fd \in [Writer -> Hows]
    /\ pos \in [Writer -> 0 .. MaxLine] /\ lock \in [Writer -> BOOLEAN]

MillOK ==
    /\ mill \in [Writer -> Mills] /\ full \in [Writer -> BOOLEAN]
    /\ todo \in [Writer -> SUBSET Day] /\ src \in [Writer -> Content]

DiskOK ==
    /\ file \in [Day -> Content] /\ exists \in [Day -> BOOLEAN]
    /\ gz \in [Day -> {"none", "part", "whole"}] /\ packed \in [Day -> Content]

GhostOK ==
    /\ lines \in 0 .. MaxLine
    /\ logged \in [Day -> SUBSET Line] /\ clash \in [Day -> BOOLEAN]

LEMMA TypeParts == LogTypeOK <=> today \in Day /\ MineOK /\ MillOK /\ DiskOK /\ GhostOK
BY DEF LogTypeOK, MineOK, MillOK, DiskOK, GhostOK, Hows, Mills

LEMMA TypeWhole ==
    ASSUME today' \in Day, MineOK', MillOK', DiskOK', GhostOK'
    PROVE  LogTypeOK'
BY DEF LogTypeOK, MineOK, MillOK, DiskOK, GhostOK, Hows, Mills

LEMMA EmptyContent == << >> \in Content
BY DEF Content

\* A file is made anew, or opened for the first time.
LEMMA OpenedType ==
    ASSUME LogTypeOK, NEW w \in Writer, NEW how \in Hows, Opened(w, how)
    PROVE  today' \in Day /\ MineOK' /\ GhostOK'
<1>1. today \in Day /\ MineOK /\ GhostOK
    BY TypeParts
<1>2. clash' = [clash EXCEPT ![today] = @ \/ Risky(w, how)] /\ UNCHANGED <<lines, logged>>
    BY DEF Opened
<1>3. clash' \in [Day -> BOOLEAN]
    BY <1>1, <1>2, Zenon DEF GhostOK
<1>4. GhostOK'
    BY <1>1, <1>2, <1>3 DEF GhostOK
<1>5. 0 \in 0 .. MaxLine
    BY TimeWriterAssumption
<1>6. MineOK'
    BY <1>1, <1>5 DEF Opened, MineOK
<1>7. QED
    BY <1>1, <1>4, <1>6 DEF Opened

LEMMA OpenNewType ==
    ASSUME LogTypeOK, NEW w \in Writer, OpenNew(w)
    PROVE  today' \in Day /\ MineOK' /\ GhostOK' /\ DiskOK'
<1>1. today' \in Day /\ MineOK' /\ GhostOK'
    BY OpenedType DEF OpenNew, Hows
<1>2. today \in Day /\ DiskOK
    BY TypeParts
<1>3. DiskOK'
    BY <1>2, EmptyContent DEF OpenNew, Opened, DiskOK
<1>4. QED
    BY <1>1, <1>3

\* The steps of Write.
LEMMA WriteType ==
    ASSUME LogTypeOK, WriterInv, NEW w \in Writer,
           OpenExistingOrNew(w) \/ Rotate(w) \/ Ready(w) \/ WriteLine(w)
    PROVE  LogTypeOK'
<1>1. today \in Day /\ MineOK /\ MillOK /\ DiskOK /\ GhostOK
    BY TypeParts
<1>2. CASE OpenExistingOrNew(w)
    <2>1. UNCHANGED milling
        BY <1>2 DEF OpenExistingOrNew
    <2>2. MillOK'
        BY <1>1, <2>1 DEF MillOK, milling
    <2>3. CASE OpenNew(w)
        BY <2>2, <2>3, OpenNewType, TypeWhole
    <2>4. CASE Opened(w, "append") /\ UNCHANGED <<file, exists>>
        <3>1. today' \in Day /\ MineOK' /\ GhostOK'
            BY <2>4, OpenedType DEF Hows
        <3>2. DiskOK'
            BY <1>1, <2>4 DEF Opened, DiskOK
        <3>3. QED
            BY <2>2, <3>1, <3>2, TypeWhole
    <2>5. QED
        BY <1>2, <2>3, <2>4, Zenon DEF OpenExistingOrNew
<1>3. CASE Rotate(w)
    <2>1. today' \in Day /\ MineOK' /\ GhostOK' /\ DiskOK'
        BY <1>3, OpenNewType DEF Rotate
    <2>2. full' = [full EXCEPT ![w] = TRUE] /\ UNCHANGED <<mill, todo, src>>
        BY <1>3 DEF Rotate
    <2>3. full' \in [Writer -> BOOLEAN]
        BY <1>1, <2>2, Zenon DEF MillOK
    <2>4. MillOK'
        BY <1>1, <2>2, <2>3 DEF MillOK
    <2>5. QED
        BY <2>1, <2>4, TypeWhole
<1>4. CASE Ready(w)
    <2>1. lock' = [lock EXCEPT ![w] = TRUE]
        BY <1>4 DEF Ready
    <2>2. lock' \in [Writer -> BOOLEAN]
        BY <1>1, <2>1, Zenon DEF MineOK
    <2>3. QED
        BY <1>4, <2>2 DEF Ready, LogTypeOK, disk, milling, ghost
<1>5. CASE WriteLine(w)
    <2>1. /\ lines < MaxLine /\ lines' = lines + 1
          /\ lock' = [lock EXCEPT ![w] = FALSE]
          /\ pos' = [pos EXCEPT ![w] = IF fd[w] = "own" THEN @ + 1 ELSE @]
          /\ UNCHANGED <<today, exists, gz, packed, cur, fd, milling, clash>>
        BY <1>5 DEF WriteLine
    <2>2. lock' \in [Writer -> BOOLEAN]
        BY <1>1, <2>1, Zenon DEF MineOK
    <2>3. lines + 1 \in Line /\ lines' \in 0 .. MaxLine
        BY <1>1, <2>1, TimeWriterAssumption DEF GhostOK, Line
    <2>4. pos[w] \in 0 .. MaxLine /\ pos[w] <= lines
        <3>1. pos[w] \in 0 .. MaxLine
            BY <1>1 DEF MineOK
        <3>2. pos[w] <= lines
            BY DEF WriterInv, WriterOf
        <3>3. QED
            BY <3>1, <3>2
    <2>5. pos[w] + 1 \in 0 .. MaxLine
        <3>1. lines \in Nat /\ lines < MaxLine
            BY <1>1, <2>1, TimeWriterAssumption DEF GhostOK
        <3>2. QED
            BY <2>4, <3>1, TimeWriterAssumption
    <2>6. pos' \in [Writer -> 0 .. MaxLine]
        BY <1>1, <2>1, <2>5 DEF MineOK
    <2>7. PICK d, i : /\ d = cur[w] /\ i = (IF fd[w] = "append" THEN Len(file[d]) + 1 ELSE pos[w] + 1)
                      /\ file' = [file EXCEPT ![d] = IF exists[d] THEN Put(@, i, lines + 1) ELSE @]
                      /\ logged' = [logged EXCEPT ![d] = @ \cup {lines + 1}]
        BY <1>5, Zenon DEF WriteLine
    <2>8. logged' \in [Day -> SUBSET Line]
        BY <1>1, <2>3, <2>7 DEF GhostOK
    <2>9. file' \in [Day -> Content]
        <3>1. CASE d \in Day
            <4>1. file[d] \in Content /\ i \in Nat \ {0}
                <5>1. file[d] \in Content /\ Len(file[d]) \in Nat
                    BY <1>1, <3>1 DEF DiskOK, Content
                <5>2. i = Len(file[d]) + 1 \/ i = pos[w] + 1
                    BY <2>7
                <5>3. QED
                    BY <2>4, <5>1, <5>2
            <4>2. Put(file[d], i, lines + 1) \in Content
                BY <2>3, <4>1, PutType
            <4>3. QED
                BY <1>1, <2>7, <4>1, <4>2 DEF DiskOK
        <3>2. CASE d \notin Day
            BY <1>1, <2>7, <3>2 DEF DiskOK
        <3>3. QED
            BY <3>1, <3>2
    <2>10. QED
        BY <2>1, <2>2, <2>3, <2>6, <2>8, <2>9 DEF LogTypeOK, milling
<1>6. QED
    BY <1>2, <1>3, <1>4, <1>5

\* The file that the mill is at.
LEMMA NewestType ==
    ASSUME LogTypeOK, WriterInv, NEW w \in Writer, mill[w] \in {"open", "made", "copied"}
    PROVE  Newest(w) \in todo[w] /\ Newest(w) \in Day
<1>1. todo[w] \subseteq Day
    BY DEF LogTypeOK
<1>2. todo[w] # {}
    BY DEF WriterInv, WriterOf
<1>3. QED
    BY <1>1, <1>2, NewestIsOne DEF Newest

\* The steps of the mill.
LEMMA MillType ==
    ASSUME LogTypeOK, WriterInv, NEW w \in Writer,
           \/ MillTake(w) \/ MillList(w) \/ CompressOpen(w) \/ CompressCreate(w)
           \/ CompressCopy(w) \/ CompressRemove(w) \/ MillDone(w)
    PROVE  LogTypeOK'
<1>1. today \in Day /\ MineOK /\ MillOK /\ DiskOK /\ GhostOK
    BY TypeParts
<1>2. CASE MillTake(w)
    <2>1. full' = [full EXCEPT ![w] = FALSE]
        BY <1>2 DEF MillTake
    <2>2. full' \in [Writer -> BOOLEAN]
        BY <1>1, <2>1, Zenon DEF MillOK
    <2>3. QED
        BY <1>2, <2>2 DEF MillTake, LogTypeOK, disk, mine, ghost
<1>3. CASE MillList(w)
    <2> DEFINE Old == {d \in Day \ {cur[w]} : Expired(d)}
    <2>1. /\ exists' = [d \in Day |-> exists[d] /\ d \notin Old]
          /\ file' = [d \in Day |-> IF d \in Old THEN << >> ELSE file[d]]
          /\ todo' = [todo EXCEPT ![w] = {d \in Day \ {cur[w]} : exists[d] /\ d \notin Old}]
          /\ gz' = [d \in Day |-> IF Expired(d) THEN "none" ELSE gz[d]]
          /\ packed' = [d \in Day |-> IF Expired(d) THEN << >> ELSE packed[d]]
          /\ mill' = [mill EXCEPT ![w] = "next"]
          /\ UNCHANGED <<today, mine, full, src, ghost>>
        BY <1>3, Zenon DEF MillList
    <2> HIDE DEF Old
    <2>2. exists' \in [Day -> BOOLEAN]
        BY <2>1, Zenon
    <2>3. file' \in [Day -> Content] /\ packed' \in [Day -> Content]
        BY <1>1, <2>1, EmptyContent DEF DiskOK
    <2>4. gz' \in [Day -> {"none", "part", "whole"}]
        BY <1>1, <2>1 DEF DiskOK
    <2>5. DiskOK'
        BY <2>2, <2>3, <2>4 DEF DiskOK
    <2>6. todo' \in [Writer -> SUBSET Day]
        <3>1. {d \in Day \ {cur[w]} : exists[d] /\ d \notin Old} \in SUBSET Day
            BY Zenon
        <3>2. QED
            BY <1>1, <2>1, <3>1 DEF MillOK
    <2>7. MillOK'
        BY <1>1, <2>1, <2>6 DEF MillOK, Mills
    <2>8. today' \in Day /\ MineOK' /\ GhostOK'
        BY <1>1, <2>1 DEF mine, ghost, MineOK, GhostOK
    <2>9. QED
        BY <2>5, <2>7, <2>8, TypeWhole
<1>4. CASE CompressOpen(w)
    <2>1. PICK d : /\ d = Newest(w)
                   /\ \/ /\ exists[d] /\ src' = [src EXCEPT ![w] = file[d]]
                         /\ mill' = [mill EXCEPT ![w] = "open"]
                         /\ clash' = [clash EXCEPT ![d] = @ \/ \E v \in Writer \ {w} :
                                                               HasOpen(v, d) \/ Milling(v, d)]
                         /\ UNCHANGED todo
                      \/ /\ todo' = [todo EXCEPT ![w] = @ \ {d}]
                         /\ UNCHANGED <<mill, src, clash>>
        BY <1>4, Zenon DEF CompressOpen
    <2>2. d \in Day
        BY <1>1, <1>4, <2>1, NewestIsOne DEF CompressOpen, Newest, MillOK
    <2>3. UNCHANGED <<today, disk, mine, full, lines, logged>>
        BY <1>4 DEF CompressOpen
    <2>4. clash' \in [Day -> BOOLEAN]
        BY <1>1, <2>1, Zenon DEF GhostOK
    <2>5. MillOK'
        BY <1>1, <2>1, <2>2, <2>3 DEF MillOK, DiskOK, Mills
    <2>6. QED
        BY <1>1, <2>3, <2>4, <2>5, TypeWhole DEF GhostOK, DiskOK, MineOK, disk, mine
<1>5. CASE CompressCreate(w) \/ CompressCopy(w)
    <2>1. Newest(w) \in Day /\ src[w] \in Content
        BY <1>1, <1>5, NewestType DEF CompressCreate, CompressCopy, MillOK
    <2>2. gz' \in [Day -> {"none", "part", "whole"}] /\ packed' \in [Day -> Content]
        BY <1>1, <1>5, <2>1, EmptyContent DEF CompressCreate, CompressCopy, DiskOK
    <2>3. mill' \in [Writer -> Mills]
        BY <1>1, <1>5 DEF CompressCreate, CompressCopy, MillOK, Mills
    <2>4. UNCHANGED <<today, file, exists, mine, full, todo, src, ghost>>
        BY <1>5 DEF CompressCreate, CompressCopy
    <2>5. QED
        BY <1>1, <2>2, <2>3, <2>4, TypeWhole DEF DiskOK, MillOK, MineOK, GhostOK, mine, ghost
<1>6. CASE CompressRemove(w)
    <2>1. exists' = [exists EXCEPT ![Newest(w)] = FALSE]
        BY <1>6 DEF CompressRemove
    <2>2. exists' \in [Day -> BOOLEAN]
        BY <1>1, <2>1, Zenon DEF DiskOK
    <2>3. file' \in [Day -> Content]
        BY <1>1, <1>6, EmptyContent DEF CompressRemove, DiskOK
    <2>4. UNCHANGED <<today, gz, packed, mine, full, ghost>>
        BY <1>6 DEF CompressRemove
    <2>5. MillOK'
        BY <1>1, <1>6, EmptyContent DEF CompressRemove, MillOK, Mills
    <2>6. QED
        BY <1>1, <2>2, <2>3, <2>4, <2>5, TypeWhole DEF DiskOK, MineOK, GhostOK, mine, ghost
<1>7. CASE MillDone(w)
    BY <1>7 DEF MillDone, LogTypeOK, disk, mine, ghost
<1>8. QED
    BY <1>2, <1>3, <1>4, <1>5, <1>6, <1>7

\* The end of a process.
LEMMA ExitType ==
    ASSUME LogTypeOK, NEW w \in Writer, LogExit(w)
    PROVE  LogTypeOK'
<1>1. today \in Day /\ MineOK /\ MillOK /\ DiskOK /\ GhostOK
    BY TypeParts
<1>2. lock' = [lock EXCEPT ![w] = FALSE] /\ full' = [full EXCEPT ![w] = FALSE]
    BY DEF LogExit
<1>3. lock' \in [Writer -> BOOLEAN] /\ full' \in [Writer -> BOOLEAN]
    BY <1>1, <1>2, Zenon DEF MineOK, MillOK
<1>4. 0 \in 0 .. MaxLine
    BY TimeWriterAssumption
<1>5. MineOK' /\ MillOK'
    BY <1>1, <1>3, <1>4, EmptyContent DEF LogExit, MineOK, MillOK, Hows, Mills
<1>6. UNCHANGED <<today, disk, ghost>>
    BY DEF LogExit
<1>7. QED
    BY <1>1, <1>5, <1>6, TypeWhole DEF disk, ghost, DiskOK, GhostOK

----------------------------------------------------------------------------
(* Writers and days.                                                       *)

\* The steps of one process leave the others' writers alone.
WriterAlone(v) ==
    UNCHANGED <<fd[v], cur[v], lock[v], mill[v], full[v], todo[v], pos[v]>>

LEMMA AloneWriter ==
    ASSUME LogTypeOK, NEW v \in Writer, WriterOf(v), WriterAlone(v),
           today <= today', lines <= lines', today' \in Nat, lines' \in Nat
    PROVE  WriterOf(v)'
<1>1. /\ today \in Nat /\ lines \in Nat /\ pos[v] \in Nat /\ cur[v] \in Nat /\ todo[v] \subseteq Nat
    BY TimeWriterAssumption DEF LogTypeOK, Day
<1>2. /\ fd'[v] = fd[v] /\ cur'[v] = cur[v] /\ mill'[v] = mill[v] /\ todo'[v] = todo[v]
      /\ pos'[v] = pos[v] /\ lock'[v] = lock[v] /\ full'[v] = full[v]
    BY Zenon DEF WriterAlone
<1>3. fd[v] = "nil" =>
          cur'[v] = 0 /\ ~lock'[v] /\ mill'[v] = "idle" /\ ~full'[v] /\ todo'[v] = {}
    BY <1>2, Zenon DEF WriterOf
<1>4. /\ fd[v] # "nil" => cur'[v] \in 1 .. today'
      /\ pos'[v] <= lines' /\ \A d \in todo'[v] : d <= today'
    BY <1>1, <1>2 DEF WriterOf
<1>5. QED
    BY <1>2, <1>3, <1>4 DEF WriterOf

\* Write opens a file.
LEMMA OpenedWriter ==
    ASSUME LogTypeOK, WriterInv, NEW w \in Writer, NEW how \in {"append", "own"},
           Opened(w, how), UNCHANGED <<mill, todo>>,
           \A v \in Writer : v # w => full'[v] = full[v]
    PROVE  WriterInv'
<1> SUFFICES ASSUME NEW v \in Writer PROVE WriterOf(v)'
    BY DEF WriterInv
<1>1. today \in Nat /\ today >= 1 /\ lines \in Nat /\ UNCHANGED <<today, lines>>
    BY TimeWriterAssumption DEF LogTypeOK, Day, Opened
<1>2. WriterOf(v)
    BY DEF WriterInv
<1>3. CASE v # w
    <2>1. WriterAlone(v)
        BY <1>3 DEF Opened, LogTypeOK, WriterAlone
    <2>2. QED
        BY <1>1, <1>2, <2>1, AloneWriter
<1>4. CASE v = w
    <2>1. fd'[w] = how /\ cur'[w] = today /\ pos'[w] = 0
        BY DEF Opened, LogTypeOK
    <2>2. QED
        BY <1>1, <1>2, <1>4, <2>1 DEF WriterOf
<1>5. QED
    BY <1>3, <1>4

\* A new file is one of today.
LEMMA OpenNewDay ==
    ASSUME LogTypeOK, DayInv, NEW w \in Writer, OpenNew(w)
    PROVE  DayInv'
<1>1. today \in Nat /\ UNCHANGED <<today, gz>>
    BY TimeWriterAssumption DEF LogTypeOK, Day, OpenNew, Opened
<1>2. \A d \in Day : d # today => (exists'[d] <=> exists[d])
    BY DEF OpenNew, LogTypeOK
<1>3. QED
    BY <1>1, <1>2 DEF DayInv

\* A process's own step keeps the others' part.
LEMMA OthersWriter ==
    ASSUME LogTypeOK, WriterInv, NEW w \in Writer, WriterOf(w)',
           \A v \in Writer : v # w => WriterAlone(v),
           today <= today', lines <= lines', today' \in Nat, lines' \in Nat
    PROVE  WriterInv'
BY AloneWriter DEF WriterInv

\* The steps of Write.
LEMMA WriteWriter ==
    ASSUME LogTypeOK, WriterInv, DayInv, NEW w \in Writer,
           OpenExistingOrNew(w) \/ Rotate(w) \/ Ready(w) \/ WriteLine(w)
    PROVE  WriterInv' /\ DayInv'
<1>1. today \in Nat /\ lines \in Nat
    BY TimeWriterAssumption DEF LogTypeOK, Day
<1>2. CASE OpenExistingOrNew(w)
    <2>1. UNCHANGED <<mill, todo, full>>
        BY <1>2 DEF OpenExistingOrNew, milling
    <2>2. CASE OpenNew(w)
        BY <2>1, <2>2, OpenedWriter, OpenNewDay DEF OpenNew
    <2>3. CASE Opened(w, "append") /\ UNCHANGED <<file, exists>>
        <3>1. WriterInv'
            BY <2>1, <2>3, OpenedWriter
        <3>2. DayInv'
            BY <2>3 DEF DayInv, Opened
        <3>3. QED
            BY <3>1, <3>2
    <2>4. QED
        BY <1>2, <2>2, <2>3, Zenon DEF OpenExistingOrNew
<1>3. CASE Rotate(w)
    <2>1. UNCHANGED <<mill, todo>> /\ \A v \in Writer : v # w => full'[v] = full[v]
        BY <1>3 DEF Rotate, LogTypeOK
    <2>2. QED
        BY <1>3, <2>1, OpenedWriter, OpenNewDay DEF Rotate, OpenNew
<1>4. CASE Ready(w)
    <2>1. fd[w] # "nil" /\ UNCHANGED <<today, disk, cur, fd, pos, milling, ghost>>
        BY <1>4 DEF Ready
    <2>2. \A v \in Writer : v # w => WriterAlone(v)
        BY <1>4, <2>1 DEF Ready, LogTypeOK, milling, WriterAlone
    <2>3. WriterOf(w)'
        BY <1>1, <2>1 DEF WriterInv, WriterOf, milling, ghost
    <2>4. DayInv'
        BY <2>1 DEF DayInv, disk
    <2>5. QED
        BY <1>1, <2>1, <2>2, <2>3, <2>4, OthersWriter DEF ghost
<1>5. CASE WriteLine(w)
    <2>1. /\ lock[w] /\ lines' = lines + 1
          /\ lock' = [lock EXCEPT ![w] = FALSE]
          /\ pos' = [pos EXCEPT ![w] = IF fd[w] = "own" THEN @ + 1 ELSE @]
          /\ UNCHANGED <<today, exists, gz, packed, cur, fd, milling, clash>>
        BY <1>5 DEF WriteLine
    <2>2. WriterOf(w)
        BY DEF WriterInv
    <2>3. fd[w] # "nil"
        BY <2>1, <2>2, Zenon DEF WriterOf
    <2>4. \A v \in Writer : v # w => WriterAlone(v)
        BY <2>1 DEF LogTypeOK, milling, WriterAlone
    <2>5. pos'[w] <= lines'
        <3>1. pos[w] \in Nat /\ pos'[w] \in {pos[w], pos[w] + 1}
            BY <2>1, TimeWriterAssumption DEF LogTypeOK
        <3>2. pos[w] <= lines
            BY <2>2 DEF WriterOf
        <3>3. QED
            BY <1>1, <2>1, <3>1, <3>2
    <2>6. WriterOf(w)'
        BY <2>1, <2>2, <2>3, <2>5 DEF WriterOf, milling
    <2>7. DayInv'
        BY <2>1 DEF DayInv
    <2>8. lines <= lines' /\ lines' \in Nat /\ today' = today
        BY <1>1, <2>1
    <2>9. QED
        BY <1>1, <2>4, <2>6, <2>7, <2>8, OthersWriter
<1>6. QED
    BY <1>2, <1>3, <1>4, <1>5

\* The steps of the mill.
LEMMA MillWriter ==
    ASSUME LogTypeOK, WriterInv, DayInv, NEW w \in Writer,
           \/ MillTake(w) \/ MillList(w) \/ CompressOpen(w) \/ CompressCreate(w)
           \/ CompressCopy(w) \/ CompressRemove(w) \/ MillDone(w)
    PROVE  WriterInv' /\ DayInv'
<1>1. today \in Nat /\ lines \in Nat /\ UNCHANGED <<today, mine, lines>>
    BY TimeWriterAssumption DEF LogTypeOK, Day, MillTake, MillList, CompressOpen, CompressCreate,
       CompressCopy, CompressRemove, MillDone, ghost
<1>3. fd[w] # "nil"
    <2>1. mill[w] # "idle" \/ full[w]
        BY DEF MillTake, MillList, CompressOpen, CompressCreate, CompressCopy,
               CompressRemove, MillDone
    <2>2. QED
        BY <2>1, Zenon DEF WriterInv, WriterOf
<1>4. \A v \in Writer : v # w => WriterAlone(v)
    BY <1>1 DEF MillTake, MillList, CompressOpen, CompressCreate, CompressCopy, CompressRemove,
                MillDone, LogTypeOK, mine, WriterAlone
<1>5. DayInv' /\ \A d \in todo'[w] : d <= today
    <2>1. CASE MillList(w)
        <3> DEFINE Old == {d \in Day \ {cur[w]} : Expired(d)}
        <3>1. /\ exists' = [d \in Day |-> exists[d] /\ d \notin Old]
              /\ todo' = [todo EXCEPT ![w] = {d \in Day \ {cur[w]} : exists[d] /\ d \notin Old}]
              /\ gz' = [d \in Day |-> IF Expired(d) THEN "none" ELSE gz[d]]
            BY <2>1, Zenon DEF MillList
        <3> HIDE DEF Old
        <3>2. todo'[w] = {d \in Day \ {cur[w]} : exists[d] /\ d \notin Old}
            BY <3>1 DEF LogTypeOK
        <3>3. \A d \in Day : (exists'[d] => exists[d]) /\ (gz'[d] # "none" => gz[d] # "none")
            BY <3>1
        <3>4. \A d \in todo'[w] : d \in Day /\ exists[d]
            BY <3>2
        <3>5. QED
            BY <1>1, <3>3, <3>4 DEF DayInv
    <2>2. CASE ~MillList(w)
        <3>1. todo'[w] \subseteq todo[w]
            BY <2>2 DEF MillTake, CompressOpen, CompressCreate, CompressCopy, CompressRemove,
                        MillDone, LogTypeOK
        <3>2. \A d \in todo[w] : d <= today
            BY DEF WriterInv, WriterOf
        <3>3. CASE CompressCreate(w) \/ CompressCopy(w)
            <4>1. Newest(w) \in todo[w] /\ Newest(w) \in Day
                BY <3>3, NewestType DEF CompressCreate, CompressCopy
            <4>2. \A d \in Day : d # Newest(w) => gz'[d] = gz[d]
                BY <3>3 DEF CompressCreate, CompressCopy, LogTypeOK
            <4>3. exists' = exists
                BY <3>3 DEF CompressCreate, CompressCopy
            <4>4. QED
                BY <1>1, <3>1, <3>2, <4>1, <4>2, <4>3 DEF DayInv
        <3>4. CASE ~(CompressCreate(w) \/ CompressCopy(w))
            <4>1. gz' = gz /\ \A d \in Day : exists'[d] => exists[d]
                <5>1. CASE CompressRemove(w)
                    BY <5>1 DEF CompressRemove, LogTypeOK
                <5>2. CASE ~CompressRemove(w)
                    BY <2>2, <3>4, <5>2 DEF MillTake, CompressOpen, MillDone, disk
                <5>3. QED
                    BY <5>1, <5>2
            <4>2. QED
                BY <1>1, <3>1, <3>2, <4>1 DEF DayInv
        <3>5. QED
            BY <3>3, <3>4
    <2>3. QED
        BY <2>1, <2>2
<1>6. WriterOf(w)'
    <2>1. /\ mill'[w] \in {"idle", "list"} => todo'[w] = {}
          /\ mill'[w] \in {"open", "made", "copied"} => todo'[w] # {}
        <3>1. WriterOf(w)
            BY DEF WriterInv
        <3>2. QED
            BY <3>1 DEF MillTake, MillList, CompressOpen, CompressCreate, CompressCopy,
                        CompressRemove, MillDone, LogTypeOK, WriterOf
    <2>2. fd'[w] # "nil" /\ cur'[w] \in 1 .. today /\ pos'[w] <= lines
        BY <1>1, <1>3 DEF mine, WriterInv, WriterOf
    <2>3. QED
        BY <1>1, <1>5, <2>1, <2>2 DEF WriterOf
<1>7. QED
    BY <1>1, <1>4, <1>5, <1>6, OthersWriter

\* The end of a process.
LEMMA ExitWriter ==
    ASSUME LogTypeOK, WriterInv, DayInv, NEW w \in Writer, LogExit(w)
    PROVE  WriterInv' /\ DayInv'
<1>1. today \in Nat /\ lines \in Nat /\ UNCHANGED <<today, disk, lines>>
    BY TimeWriterAssumption DEF LogTypeOK, Day, LogExit, disk, ghost
<1>2. \A v \in Writer : v # w => WriterAlone(v)
    BY DEF LogExit, LogTypeOK, WriterAlone
<1>3. /\ fd'[w] = "nil" /\ cur'[w] = 0 /\ pos'[w] = 0 /\ mill'[w] = "idle" /\ todo'[w] = {}
      /\ ~lock'[w] /\ ~full'[w]
    BY DEF LogExit, LogTypeOK
<1>4. WriterOf(w)'
    BY <1>1, <1>3 DEF WriterOf
<1>5. DayInv'
    BY <1>1 DEF DayInv, disk
<1>6. QED
    BY <1>1, <1>2, <1>4, <1>5, OthersWriter

----------------------------------------------------------------------------
(* Files.                                                                  *)

\* A step that brings nobody to day d and changes nothing there.
DayFrame(d) ==
    /\ UNCHANGED <<file[d], exists[d], gz[d], packed[d], logged[d]>>
    /\ \A w \in Writer :
        /\ HasOpen(w, d)' => HasOpen(w, d) /\ UNCHANGED <<fd[w], pos[w]>>
        /\ Milling(w, d)' => Milling(w, d) /\ UNCHANGED <<mill[w], src[w]>>
        /\ d \in todo'[w] => d \in todo[w]

LEMMA FrameDay == ASSUME NEW d \in Day, DayOK(d), DayFrame(d) PROVE DayOK(d)'
<1>1. file'[d] = file[d] /\ exists'[d] = exists[d] /\ gz'[d] = gz[d] /\ packed'[d] = packed[d]
      /\ logged'[d] = logged[d]
    BY Zenon DEF DayFrame
<1>2. OpenInv(d)'
    <2> SUFFICES ASSUME NEW w \in Writer, HasOpen(w, d)'
                 PROVE  /\ exists'[d] /\ d \notin todo'[w]
                        /\ fd'[w] = "own" => /\ pos'[w] = Len(file'[d])
                                             /\ \A v \in Writer \ {w} : ~HasOpen(v, d)'
        BY DEF OpenInv
    <2>1. HasOpen(w, d) /\ fd'[w] = fd[w] /\ pos'[w] = pos[w] /\ (d \in todo'[w] => d \in todo[w])
        BY DEF DayFrame
    <2>2. /\ exists[d] /\ d \notin todo[w]
          /\ fd[w] = "own" => pos[w] = Len(file[d]) /\ \A v \in Writer \ {w} : ~HasOpen(v, d)
        BY <2>1 DEF DayOK, OpenInv
    <2>3. \A v \in Writer : HasOpen(v, d)' => HasOpen(v, d)
        BY DEF DayFrame
    <2>4. exists'[d] /\ d \notin todo'[w]
        BY <1>1, <2>1, <2>2, Zenon
    <2>5. ASSUME fd'[w] = "own"
          PROVE  pos'[w] = Len(file'[d]) /\ \A v \in Writer \ {w} : ~HasOpen(v, d)'
        <3>1. pos[w] = Len(file[d]) /\ \A v \in Writer \ {w} : ~HasOpen(v, d)
            BY <2>1, <2>2, <2>5
        <3>2. QED
            BY <1>1, <2>1, <2>3, <3>1
    <2>6. QED
        BY <2>4, <2>5, Zenon
<1>3. MillInv(d)'
    <2> SUFFICES ASSUME NEW w \in Writer
                 PROVE  /\ d \in todo'[w] => exists'[d] \/ gz'[d] # "none"
                        /\ Milling(w, d)' =>
                            /\ exists'[d] /\ src'[w] = file'[d]
                            /\ \A v \in Writer : ~HasOpen(v, d)'
                            /\ \A v \in Writer \ {w} : ~Milling(v, d)'
                            /\ mill'[w] = "copied" => gz'[d] = "whole" /\ packed'[d] = file'[d]
        BY DEF MillInv
    <2>1. d \in todo'[w] => exists'[d] \/ gz'[d] # "none"
        BY <1>1, Zenon DEF DayOK, MillInv, DayFrame
    <2>2. ASSUME Milling(w, d)'
          PROVE  /\ exists'[d] /\ src'[w] = file'[d]
                 /\ \A v \in Writer : ~HasOpen(v, d)'
                 /\ \A v \in Writer \ {w} : ~Milling(v, d)'
                 /\ mill'[w] = "copied" => gz'[d] = "whole" /\ packed'[d] = file'[d]
        <3>1. Milling(w, d) /\ mill'[w] = mill[w] /\ src'[w] = src[w]
            BY <2>2 DEF DayFrame
        <3>2. /\ exists[d] /\ src[w] = file[d]
              /\ \A v \in Writer : ~HasOpen(v, d)
              /\ \A v \in Writer \ {w} : ~Milling(v, d)
              /\ mill[w] = "copied" => gz[d] = "whole" /\ packed[d] = file[d]
            BY <3>1 DEF DayOK, MillInv
        <3>3. \A v \in Writer : (HasOpen(v, d)' => HasOpen(v, d)) /\ (Milling(v, d)' => Milling(v, d))
            BY DEF DayFrame
        <3>4. exists'[d]
            BY <1>1, <3>2, Zenon
        <3>5. QED
            BY <1>1, <3>1, <3>2, <3>3, <3>4
    <2>3. QED
        BY <2>1, <2>2
<1>4. LineInv(d)'
    <2>1. /\ exists[d] => logged[d] \subseteq Elements(file[d])
          /\ ~exists[d] => logged[d] = {} \/ (gz[d] = "whole" /\ logged[d] \subseteq Elements(packed[d]))
        BY DEF DayOK, LineInv
    <2>2. /\ exists'[d] => logged'[d] \subseteq Elements(file'[d])
          /\ ~exists'[d] => \/ logged'[d] = {}
                            \/ gz'[d] = "whole" /\ logged'[d] \subseteq Elements(packed'[d])
        BY <1>1, <2>1, Zenon
    <2>3. Elements(file[d])' = Elements(file'[d]) /\ Elements(packed[d])' = Elements(packed'[d])
        BY DEF Elements
    <2>4. QED
        BY <2>2, <2>3, Zenon DEF LineInv
<1>5. QED
    BY <1>2, <1>3, <1>4 DEF DayOK

\* What is at risk, or over, stays so.
LEMMA SafeBefore ==
    ASSUME LogTypeOK, NEW d \in Day, Safe(d)', clash[d] => clash'[d], today <= today', today' \in Nat
    PROVE  Safe(d)
<1>1. today \in Nat /\ d \in Nat /\ Reserve \in Nat
    BY TimeWriterAssumption DEF LogTypeOK, Day
<1>2. ~(d + Reserve <= today')
    BY DEF Safe, Expired
<1>3. ~Expired(d)
    BY <1>1, <1>2 DEF Expired
<1>4. ~clash[d]
    BY Zenon DEF Safe
<1>5. QED
    BY <1>3, <1>4 DEF Safe

\* A step that changes nothing on any day that is safe.
LEMMA FrameFiles ==
    ASSUME FileInv, \A d \in Day : Safe(d)' => Safe(d) /\ DayFrame(d)
    PROVE  FileInv'
BY FrameDay DEF FileInv

\* What Write does when it opens a file.
OpenedBy(w, how) ==
    /\ today' = today
    /\ \A v \in Writer :
        /\ cur'[v] = (IF v = w THEN today ELSE cur[v]) /\ fd'[v] = (IF v = w THEN how ELSE fd[v])
        /\ pos'[v] = (IF v = w THEN 0 ELSE pos[v])
        /\ mill'[v] = mill[v] /\ todo'[v] = todo[v] /\ src'[v] = src[v]
    /\ gz' = gz /\ packed' = packed /\ logged' = logged
    /\ \A d \in Day : clash[d] => clash'[d]
    /\ ~clash'[today] => ~Risky(w, how)

LEMMA OpenedEffect ==
    ASSUME LogTypeOK, NEW w \in Writer, NEW how, Opened(w, how), UNCHANGED <<mill, todo, src>>
    PROVE  OpenedBy(w, how)
<1>1. /\ clash' = [clash EXCEPT ![today] = @ \/ Risky(w, how)]
      /\ cur' = [cur EXCEPT ![w] = today] /\ fd' = [fd EXCEPT ![w] = how]
      /\ pos' = [pos EXCEPT ![w] = 0]
      /\ UNCHANGED <<today, gz, packed, lines, logged>>
    BY DEF Opened
<1>2. clash = [d \in Day |-> clash[d]] /\ today \in Day
    BY Zenon DEF LogTypeOK
<1>3. /\ \A d \in Day : clash[d] => clash'[d]
      /\ ~clash'[today] => ~Risky(w, how)
    BY <1>1, <1>2, Zenon
<1>4. \A v \in Writer :
        /\ cur'[v] = (IF v = w THEN today ELSE cur[v]) /\ fd'[v] = (IF v = w THEN how ELSE fd[v])
        /\ pos'[v] = (IF v = w THEN 0 ELSE pos[v])
    BY <1>1 DEF LogTypeOK
<1>5. QED
    BY <1>1, <1>3, <1>4 DEF OpenedBy

\* The other days' files.
LEMMA OpenedOthers ==
    ASSUME LogTypeOK, FileInv, NEW w \in Writer, NEW how, OpenedBy(w, how),
           NEW d \in Day, d # today, Safe(d)', file'[d] = file[d], exists'[d] = exists[d]
    PROVE  DayOK(d)'
<1>1. Safe(d)
    <2>1. today \in Nat /\ today' = today /\ (clash[d] => clash'[d])
        BY TimeWriterAssumption DEF OpenedBy, LogTypeOK, Day
    <2>2. QED
        BY <2>1, SafeBefore
<1>2. DayFrame(d)
    <2>1. UNCHANGED <<file[d], exists[d], gz[d], packed[d], logged[d]>>
        BY Zenon DEF OpenedBy
    <2>2. ASSUME NEW v \in Writer
          PROVE  /\ HasOpen(v, d)' => HasOpen(v, d) /\ UNCHANGED <<fd[v], pos[v]>>
                 /\ Milling(v, d)' => Milling(v, d) /\ UNCHANGED <<mill[v], src[v]>>
                 /\ d \in todo'[v] => d \in todo[v]
        BY DEF OpenedBy, HasOpen, Milling, Newest
    <2>3. QED
        BY <2>1, <2>2 DEF DayFrame
<1>3. QED
    BY <1>1, <1>2, FrameDay DEF FileInv

\* A new file: nobody has a file of this day, nobody compresses it, no line is in it.
LEMMA OpenNewFiles ==
    ASSUME LogTypeOK, WriterInv, FileInv, NEW w \in Writer, OpenNew(w), UNCHANGED <<mill, todo, src>>
    PROVE  FileInv'
<1> SUFFICES ASSUME NEW d \in Day, Safe(d)' PROVE DayOK(d)'
    BY DEF FileInv
<1>1. OpenedBy(w, "own") /\ today \in Day
    BY OpenedEffect DEF OpenNew, LogTypeOK
<1>2. /\ file' = [file EXCEPT ![today] = << >>]
      /\ exists' = [exists EXCEPT ![today] = TRUE]
    BY DEF OpenNew
<1>3. exists'[today] /\ (d # today => exists'[d] = exists[d])
    <2>1. exists = [e \in Day |-> exists[e]]
        BY Zenon DEF LogTypeOK
    <2>2. QED
        BY <1>1, <1>2, <2>1, Zenon
<1>4. file'[today] = << >> /\ (d # today => file'[d] = file[d])
    BY <1>1, <1>2 DEF LogTypeOK
<1>5. CASE d # today
    BY <1>1, <1>3, <1>4, <1>5, OpenedOthers
<1>6. CASE d = today
    <2>1. Safe(d)
        <3>1. today \in Nat /\ today' = today /\ (clash[d] => clash'[d])
            BY <1>1, TimeWriterAssumption DEF OpenedBy, LogTypeOK, Day
        <3>2. QED
            BY <3>1, SafeBefore
    <2>2. ~Risky(w, "own")
        <3>1. ~clash'[today]
            BY <1>6, Zenon DEF Safe
        <3>2. QED
            BY <1>1, <3>1 DEF OpenedBy
    <2>3. /\ ~exists[d] /\ gz[d] = "none"
          /\ \A v \in Writer \ {w} : ~HasOpen(v, d) /\ ~Milling(v, d)
        BY <1>6, <2>2 DEF Risky
    <2>4. DayOK(d)
        BY <2>1 DEF FileInv
    <2>5. ~Milling(w, d) /\ \A v \in Writer : d \notin todo[v]
        BY <2>3, <2>4 DEF DayOK, MillInv
    <2>6. logged[d] = {}
        BY <2>3, <2>4 DEF DayOK, LineInv
    <2>7. \A v \in Writer : /\ v # w => ~HasOpen(v, d)'
                            /\ ~Milling(v, d)' /\ d \notin todo'[v]
        BY <1>1, <2>3, <2>5 DEF OpenedBy, HasOpen, Milling, Newest
    <2>8. pos'[w] = 0 /\ logged'[d] = {} /\ file'[d] = << >> /\ exists'[d]
        BY <1>1, <1>3, <1>4, <1>6, <2>6 DEF OpenedBy
    <2>9. OpenInv(d)'
        BY <2>7, <2>8 DEF OpenInv
    <2>10. MillInv(d)'
        BY <2>7 DEF MillInv
    <2>11. LineInv(d)'
        BY <2>8 DEF LineInv
    <2>12. QED
        BY <2>9, <2>10, <2>11 DEF DayOK
<1>7. QED
    BY <1>5, <1>6

\* The first line of a process goes to the end of the file that is there.
LEMMA AppendFiles ==
    ASSUME LogTypeOK, WriterInv, FileInv, NEW w \in Writer, fd[w] = "nil", exists[today],
           Opened(w, "append"), UNCHANGED <<file, exists, mill, todo, src>>
    PROVE  FileInv'
<1> SUFFICES ASSUME NEW d \in Day, Safe(d)' PROVE DayOK(d)'
    BY DEF FileInv
<1>1. OpenedBy(w, "append") /\ today \in Day
    BY OpenedEffect DEF LogTypeOK
<1>2. CASE d # today
    BY <1>1, <1>2, OpenedOthers
<1>3. CASE d = today
    <2>1. Safe(d)
        <3>1. today \in Nat /\ today' = today /\ (clash[d] => clash'[d])
            BY <1>1, TimeWriterAssumption DEF OpenedBy, LogTypeOK, Day
        <3>2. QED
            BY <3>1, SafeBefore
    <2>2. ~Risky(w, "append")
        <3>1. ~clash'[today]
            BY <1>3, Zenon DEF Safe
        <3>2. QED
            BY <1>1, <3>1 DEF OpenedBy
    <2>3. \A v \in Writer \ {w} : (HasOpen(v, d) => fd[v] # "own") /\ ~Milling(v, d)
        BY <1>3, <2>2 DEF Risky
    <2>4. DayOK(d)
        BY <2>1 DEF FileInv
    <2>5. mill[w] = "idle" /\ todo[w] = {}
        BY Zenon DEF WriterInv, WriterOf
    <2>6. \A v \in Writer : ~Milling(v, d)' /\ (d \in todo'[v] => d \in todo[v])
        BY <1>1, <2>3, <2>5 DEF OpenedBy, Milling, Newest
    <2>7. \A v \in Writer : HasOpen(v, d)' => d \notin todo'[v] /\ fd'[v] # "own"
        BY <1>1, <2>3, <2>4, <2>5 DEF OpenedBy, HasOpen, DayOK, OpenInv
    <2>8. /\ exists'[d] /\ gz' = gz
          /\ exists[d] => logged[d] \subseteq Elements(file[d])
        BY <1>1, <1>3, <2>4 DEF OpenedBy, DayOK, LineInv
    <2>9. OpenInv(d)'
        BY <2>7, <2>8 DEF OpenInv
    <2>10. MillInv(d)'
        BY <2>6, <2>8 DEF MillInv
    <2>11. LineInv(d)'
        <3>1. logged' = logged /\ file' = file
            BY <1>1 DEF OpenedBy
        <3>2. exists'[d] /\ logged[d] \subseteq Elements(file[d])
            BY <1>3, <2>8
        <3>3. QED
            BY <3>1, <3>2 DEF LineInv, Elements
    <2>12. QED
        BY <2>9, <2>10, <2>11 DEF DayOK
<1>4. QED
    BY <1>2, <1>3

\* A line is written to the end of the file that the process has open.
LEMMA LineFiles ==
    ASSUME LogTypeOK, WriterInv, FileInv, NEW w \in Writer, WriteLine(w)
    PROVE  FileInv'
<1> DEFINE c == cur[w]
           i == IF fd[w] = "append" THEN Len(file[c]) + 1 ELSE pos[w] + 1
           l == lines + 1
<1>1. /\ lock[w] /\ lines < MaxLine
      /\ file' = [file EXCEPT ![c] = IF exists[c] THEN Put(@, i, l) ELSE @]
      /\ logged' = [logged EXCEPT ![c] = @ \cup {l}]
      /\ pos' = [pos EXCEPT ![w] = IF fd[w] = "own" THEN @ + 1 ELSE @]
      /\ UNCHANGED <<today, exists, gz, packed, cur, fd, mill, full, todo, src, clash>>
    BY Zenon DEF WriteLine, milling
<1>2. fd[w] \in {"append", "own"}
    <2>1. fd[w] # "nil"
        BY <1>1, Zenon DEF WriterInv, WriterOf
    <2>2. QED
        BY <2>1 DEF LogTypeOK
<1>3. c \in Day
    BY <1>2 DEF WriterInv, WriterOf, LogTypeOK
<1>4. \A v \in Writer : v # w => pos'[v] = pos[v]
    BY <1>1 DEF LogTypeOK
<1> HIDE DEF c, i, l
<1>5. \A d \in Day : Safe(d)' <=> Safe(d)
    BY <1>1 DEF Safe, Expired
<1> SUFFICES ASSUME NEW d \in Day, Safe(d) PROVE DayOK(d)'
    BY <1>5 DEF FileInv
<1>6. \A v \in Writer : /\ HasOpen(v, d)' <=> HasOpen(v, d)
                        /\ Milling(v, d)' <=> Milling(v, d)
    BY <1>1 DEF HasOpen, Milling, Newest
<1>7. DayOK(d)
    BY DEF FileInv
<1>8. CASE d # c
    <2>1. \A v \in Writer : HasOpen(v, d) => pos'[v] = pos[v]
        BY <1>4, <1>8 DEF HasOpen, c
    <2>2. file'[d] = file[d] /\ logged'[d] = logged[d]
        BY <1>1, <1>8 DEF LogTypeOK
    <2>3. exists'[d] = exists[d] /\ gz'[d] = gz[d] /\ packed'[d] = packed[d]
        BY <1>1, Zenon
    <2>4. UNCHANGED <<file[d], exists[d], gz[d], packed[d], logged[d]>>
        BY <2>2, <2>3, Zenon
    <2>5. \A v \in Writer :
            /\ HasOpen(v, d)' => HasOpen(v, d) /\ UNCHANGED <<fd[v], pos[v]>>
            /\ Milling(v, d)' => Milling(v, d) /\ UNCHANGED <<mill[v], src[v]>>
            /\ d \in todo'[v] => d \in todo[v]
        BY <1>1, <1>6, <2>1
    <2>6. DayFrame(d)
        BY <2>4, <2>5 DEF DayFrame
    <2>7. QED
        BY <1>7, <2>6, FrameDay
<1>9. CASE d = c
    <2>1. HasOpen(w, d)
        BY <1>2, <1>9 DEF HasOpen, c
    <2>2. /\ exists[d] /\ d \notin todo[w]
          /\ fd[w] = "own" => pos[w] = Len(file[d]) /\ \A v \in Writer \ {w} : ~HasOpen(v, d)
        BY <1>7, <2>1 DEF DayOK, OpenInv
    <2>3. i = Len(file[d]) + 1
        BY <1>2, <1>9, <2>2 DEF i
    <2>4. file[d] \in Content /\ l \in Line
        BY <1>1, TimeWriterAssumption DEF LogTypeOK, l, Line
    <2>5. file'[d] = Put(file[d], i, l) /\ logged'[d] = logged[d] \cup {l}
        BY <1>1, <1>9, <2>2 DEF LogTypeOK
    <2>6. /\ Len(file'[d]) = Len(file[d]) + 1
          /\ Elements(file[d]) \cup {l} \subseteq Elements(file'[d])
        BY <2>3, <2>4, <2>5, PutAtEnd
    <2>7. exists'[d] /\ \A v \in Writer : todo'[v] = todo[v] /\ fd'[v] = fd[v]
        BY <1>1, <2>2, Zenon
    <2>8. OpenInv(d)'
        <3> SUFFICES ASSUME NEW v \in Writer, HasOpen(v, d)
                     PROVE  /\ d \notin todo[v]
                            /\ fd[v] = "own" => /\ pos'[v] = Len(file'[d])
                                                /\ \A u \in Writer \ {v} : ~HasOpen(u, d)
            BY <1>6, <2>7 DEF OpenInv
        <3>1. /\ d \notin todo[v]
              /\ fd[v] = "own" => pos[v] = Len(file[d]) /\ \A u \in Writer \ {v} : ~HasOpen(u, d)
            BY <1>7 DEF DayOK, OpenInv
        <3>2. fd[v] = "own" => v = w
            BY <2>1, <3>1
        <3>3. fd[w] = "own" => pos'[w] = pos[w] + 1
            BY <1>1 DEF LogTypeOK
        <3>4. QED
            BY <2>2, <2>6, <3>1, <3>2, <3>3
    <2>9. MillInv(d)'
        <3>1. \A v \in Writer : ~Milling(v, d)
            BY <1>7, <2>1 DEF DayOK, MillInv
        <3>2. QED
            BY <1>6, <2>7, <3>1 DEF MillInv
    <2>10. LineInv(d)'
        <3>1. logged[d] \subseteq Elements(file[d])
            BY <1>7, <2>2 DEF DayOK, LineInv
        <3>2. logged'[d] \subseteq Elements(file'[d])
            BY <2>5, <2>6, <3>1
        <3>3. Elements(file[d])' = Elements(file'[d])
            BY DEF Elements
        <3>4. QED
            BY <2>7, <3>2, <3>3, Zenon DEF LineInv
    <2>11. QED
        BY <2>8, <2>9, <2>10 DEF DayOK
<1>10. QED
    BY <1>8, <1>9

\* The end of a process, the start of a day, and a step that only goes on.
LEMMA StillFiles ==
    ASSUME LogTypeOK, FileInv, today <= today', today' \in Nat,
           UNCHANGED <<file, exists, gz, packed, logged, clash>>,
           \A v \in Writer :
                /\ \/ UNCHANGED <<fd[v], cur[v], pos[v]>>
                   \/ fd'[v] = "nil"
                /\ \/ UNCHANGED <<mill[v], todo[v], src[v]>>
                   \/ mill'[v] \in {"idle", "list", "next"} /\ todo'[v] \subseteq todo[v]
    PROVE  FileInv'
<1>1. ASSUME NEW d \in Day, Safe(d)' PROVE Safe(d) /\ DayFrame(d)
    <2>1. Safe(d)
        BY <1>1, SafeBefore
    <2>2. file'[d] = file[d] /\ exists'[d] = exists[d] /\ gz'[d] = gz[d] /\ packed'[d] = packed[d]
          /\ logged'[d] = logged[d]
        BY Zenon
    <2>3. ASSUME NEW v \in Writer
          PROVE  /\ HasOpen(v, d)' => HasOpen(v, d) /\ UNCHANGED <<fd[v], pos[v]>>
                 /\ Milling(v, d)' => Milling(v, d) /\ UNCHANGED <<mill[v], src[v]>>
                 /\ d \in todo'[v] => d \in todo[v]
        BY DEF HasOpen, Milling, Newest
    <2>4. UNCHANGED <<file[d], exists[d], gz[d], packed[d], logged[d]>>
        BY <2>2, Zenon
    <2>5. QED
        BY <2>1, <2>3, <2>4 DEF DayFrame
<1>2. QED
    BY <1>1, FrameFiles

\* A process ends: it has nothing open.
LEMMA ExitFiles ==
    ASSUME LogTypeOK, FileInv, NEW w \in Writer, LogExit(w)
    PROVE  FileInv'
<1>1. today \in Nat /\ UNCHANGED <<today, file, exists, gz, packed, logged, clash>>
    BY TimeWriterAssumption DEF LogExit, LogTypeOK, Day, disk, ghost
<1>2. \A v \in Writer :
            /\ \/ UNCHANGED <<fd[v], cur[v], pos[v]>>
               \/ fd'[v] = "nil"
            /\ \/ UNCHANGED <<mill[v], todo[v], src[v]>>
               \/ mill'[v] \in {"idle", "list", "next"} /\ todo'[v] \subseteq todo[v]
    BY DEF LogExit, LogTypeOK
<1>3. QED
    BY <1>1, <1>2, StillFiles

\* The mill makes its list: what it removes is over, and it leaves its own file alone.
LEMMA ListFiles ==
    ASSUME LogTypeOK, WriterInv, FileInv, NEW w \in Writer, MillList(w)
    PROVE  FileInv'
<1> DEFINE Old == {d \in Day \ {cur[w]} : Expired(d)}
<1>1. /\ mill[w] = "list"
      /\ exists' = [d \in Day |-> exists[d] /\ d \notin Old]
      /\ file' = [d \in Day |-> IF d \in Old THEN << >> ELSE file[d]]
      /\ todo' = [todo EXCEPT ![w] = {d \in Day \ {cur[w]} : exists[d] /\ d \notin Old}]
      /\ gz' = [d \in Day |-> IF Expired(d) THEN "none" ELSE gz[d]]
      /\ packed' = [d \in Day |-> IF Expired(d) THEN << >> ELSE packed[d]]
      /\ mill' = [mill EXCEPT ![w] = "next"]
      /\ UNCHANGED <<today, cur, fd, pos, lock, full, src, lines, logged, clash>>
    BY Zenon DEF MillList, mine, ghost
<1>2. \A d \in Day : Safe(d)' <=> Safe(d)
    BY <1>1 DEF Safe, Expired
<1> SUFFICES ASSUME NEW d \in Day, Safe(d) PROVE DayOK(d)'
    BY <1>2 DEF FileInv
<1>3. DayOK(d) /\ d \notin Old
    BY DEF FileInv, Safe
<1>4. ~Expired(d)
    BY DEF Safe
<1> HIDE DEF Old
<1>5. file'[d] = file[d] /\ gz'[d] = gz[d] /\ packed'[d] = packed[d] /\ logged'[d] = logged[d]
    BY <1>1, <1>3, <1>4
<1>6. exists'[d] <=> exists[d]
    BY <1>1, <1>3, Zenon
<1>7. \A v \in Writer : (HasOpen(v, d)' <=> HasOpen(v, d)) /\ fd'[v] = fd[v] /\ pos'[v] = pos[v]
    BY <1>1 DEF HasOpen
<1>8. \A v \in Writer : v # w => todo'[v] = todo[v] /\ mill'[v] = mill[v] /\ src'[v] = src[v]
    BY <1>1 DEF LogTypeOK
<1>9. mill'[w] = "next"
    BY <1>1 DEF LogTypeOK
<1>10. \A v \in Writer : Milling(v, d)' => Milling(v, d) /\ v # w
    BY <1>8, <1>9 DEF Milling, Newest
<1>11. d \in todo'[w] => exists[d] /\ d # cur[w]
    <2>1. todo'[w] = {e \in Day \ {cur[w]} : exists[e] /\ e \notin Old}
        BY <1>1 DEF LogTypeOK
    <2>2. QED
        BY <2>1, Zenon
<1>12. OpenInv(d)'
    <2>1. \A v \in Writer : HasOpen(v, d)' => exists'[d] /\ d \notin todo'[v]
        BY <1>3, <1>6, <1>7, <1>8, <1>11 DEF DayOK, OpenInv, HasOpen
    <2>2. ASSUME NEW v \in Writer, HasOpen(v, d)', fd'[v] = "own"
          PROVE  pos'[v] = Len(file'[d]) /\ \A u \in Writer \ {v} : ~HasOpen(u, d)'
        <3>1. pos[v] = Len(file[d]) /\ \A u \in Writer \ {v} : ~HasOpen(u, d)
            BY <1>3, <1>7, <2>2 DEF DayOK, OpenInv
        <3>2. QED
            BY <1>5, <1>7, <3>1
    <2>3. QED
        BY <2>1, <2>2 DEF OpenInv
<1>13. MillInv(d)'
    <2>1. ASSUME NEW v \in Writer, d \in todo'[v] PROVE exists'[d] \/ gz'[d] # "none"
        BY <1>3, <1>5, <1>6, <1>8, <1>11, <2>1 DEF DayOK, MillInv
    <2>2. ASSUME NEW v \in Writer, Milling(v, d)'
          PROVE  /\ exists'[d] /\ src'[v] = file'[d]
                 /\ \A u \in Writer : ~HasOpen(u, d)'
                 /\ \A u \in Writer \ {v} : ~Milling(u, d)'
                 /\ mill'[v] = "copied" => gz'[d] = "whole" /\ packed'[d] = file'[d]
        <3>1. Milling(v, d) /\ v # w
            BY <1>10, <2>2
        <3>2. /\ exists[d] /\ src[v] = file[d]
              /\ \A u \in Writer : ~HasOpen(u, d)
              /\ \A u \in Writer \ {v} : ~Milling(u, d)
              /\ mill[v] = "copied" => gz[d] = "whole" /\ packed[d] = file[d]
            BY <1>3, <3>1 DEF DayOK, MillInv
        <3>3. \A u \in Writer : ~HasOpen(u, d)'
            BY <1>7, <3>2
        <3>4. \A u \in Writer \ {v} : ~Milling(u, d)'
            BY <1>10, <3>2
        <3>5. QED
            BY <1>5, <1>6, <1>8, <3>1, <3>2, <3>3, <3>4
    <2>3. QED
        BY <2>1, <2>2 DEF MillInv
<1>14. LineInv(d)'
    <2>1. /\ exists[d] => logged[d] \subseteq Elements(file[d])
          /\ ~exists[d] => logged[d] = {} \/ (gz[d] = "whole" /\ logged[d] \subseteq Elements(packed[d]))
        BY <1>3 DEF DayOK, LineInv
    <2>2. Elements(file[d])' = Elements(file'[d]) /\ Elements(packed[d])' = Elements(packed'[d])
        BY DEF Elements
    <2>3. QED
        BY <1>5, <1>6, <2>1, <2>2, Zenon DEF LineInv
<1>15. QED
    BY <1>12, <1>13, <1>14 DEF DayOK

\* The other days, while the mill is at one.
LEMMA MillOthers ==
    ASSUME LogTypeOK, FileInv, NEW w \in Writer, NEW d \in Day, Safe(d), d # Newest(w),
           UNCHANGED <<fd, cur, pos, todo>> \/ (UNCHANGED <<fd, cur, pos>> /\ mill'[w] = "next"),
           file'[d] = file[d], exists'[d] = exists[d], gz'[d] = gz[d], packed'[d] = packed[d],
           logged'[d] = logged[d], todo'[w] \subseteq todo[w],
           \A v \in Writer \ {w} : mill'[v] = mill[v] /\ todo'[v] = todo[v] /\ src'[v] = src[v]
    PROVE  DayOK(d)'
<1>1. UNCHANGED <<file[d], exists[d], gz[d], packed[d], logged[d]>>
    BY Zenon
<1>2. ASSUME NEW v \in Writer
      PROVE  /\ HasOpen(v, d)' => HasOpen(v, d) /\ UNCHANGED <<fd[v], pos[v]>>
             /\ Milling(v, d)' => Milling(v, d) /\ UNCHANGED <<mill[v], src[v]>>
             /\ d \in todo'[v] => d \in todo[v]
    BY DEF HasOpen, Milling, Newest
<1>3. DayFrame(d)
    BY <1>1, <1>2 DEF DayFrame
<1>4. QED
    BY <1>3, FrameDay DEF FileInv

\* The mill opens a file: nobody else has it, so nobody writes it, and nobody else
\* compresses it.
LEMMA CompressOpenFiles ==
    ASSUME LogTypeOK, WriterInv, FileInv, NEW w \in Writer, CompressOpen(w)
    PROVE  FileInv'
<1> DEFINE e == Newest(w)
<1>1. /\ mill[w] = "next"
      /\ \/ /\ exists[e] /\ src' = [src EXCEPT ![w] = file[e]]
            /\ mill' = [mill EXCEPT ![w] = "open"]
            /\ clash' = [clash EXCEPT ![e] = @ \/ \E v \in Writer \ {w} :
                                                  HasOpen(v, e) \/ Milling(v, e)]
            /\ UNCHANGED todo
         \/ /\ todo' = [todo EXCEPT ![w] = @ \ {e}]
            /\ UNCHANGED <<mill, src, clash>>
      /\ UNCHANGED <<today, file, exists, gz, packed, cur, fd, pos, lock, full, lines, logged>>
    BY Zenon DEF CompressOpen, disk, mine
<1>2. e \in todo[w] /\ e \in Day
    BY NewestIsOne DEF CompressOpen, Newest, LogTypeOK
<1>3. today \in Nat
    BY TimeWriterAssumption DEF LogTypeOK, Day
<1>4. CASE UNCHANGED <<mill, src, clash>> /\ todo' = [todo EXCEPT ![w] = @ \ {e}]
    <2>1. \A v \in Writer :
            /\ \/ UNCHANGED <<fd[v], cur[v], pos[v]>>
               \/ fd'[v] = "nil"
            /\ \/ UNCHANGED <<mill[v], todo[v], src[v]>>
               \/ mill'[v] \in {"idle", "list", "next"} /\ todo'[v] \subseteq todo[v]
        BY <1>1, <1>4 DEF LogTypeOK
    <2>2. QED
        BY <1>1, <1>3, <1>4, <2>1, StillFiles
<1>5. CASE /\ exists[e] /\ src' = [src EXCEPT ![w] = file[e]]
           /\ mill' = [mill EXCEPT ![w] = "open"]
           /\ clash' = [clash EXCEPT ![e] = @ \/ \E v \in Writer \ {w} :
                                                 HasOpen(v, e) \/ Milling(v, e)]
           /\ UNCHANGED todo
    <2>1. clash = [d \in Day |-> clash[d]]
        BY Zenon DEF LogTypeOK
    <2>2. /\ \A d \in Day : clash[d] => clash'[d]
          /\ ~clash'[e] => ~\E v \in Writer \ {w} : HasOpen(v, e) \/ Milling(v, e)
        BY <1>2, <1>5, <2>1, Zenon
    <2>3. /\ src'[w] = file[e] /\ mill'[w] = "open"
          /\ \A v \in Writer \ {w} : mill'[v] = mill[v] /\ src'[v] = src[v] /\ todo'[v] = todo[v]
        BY <1>5 DEF LogTypeOK
    <2> HIDE DEF e
    <2> SUFFICES ASSUME NEW d \in Day, Safe(d)' PROVE DayOK(d)'
        BY DEF FileInv
    <2>4. Safe(d) /\ DayOK(d)
        BY <1>1, <1>3, <2>2, SafeBefore DEF FileInv
    <2>5. CASE d # e
        BY <1>1, <1>5, <2>3, <2>4, <2>5, MillOthers DEF e
    <2>6. CASE d = e
        <3>1. ~clash'[e]
            BY <2>6, Zenon DEF Safe
        <3>2. \A v \in Writer \ {w} : ~HasOpen(v, d) /\ ~Milling(v, d)
            BY <2>2, <2>6, <3>1
        <3>3. ~HasOpen(w, d)
            BY <1>2, <2>4, <2>6 DEF DayOK, OpenInv
        <3>4. \A v \in Writer : ~HasOpen(v, d)' /\ (Milling(v, d)' => v = w)
            BY <1>1, <1>5, <2>3, <3>2, <3>3 DEF HasOpen, Milling, Newest
        <3>5. exists'[d] /\ src'[w] = file'[d] /\ mill'[w] # "copied"
            BY <1>1, <1>5, <2>3, <2>6
        <3>6. OpenInv(d)'
            BY <3>4 DEF OpenInv
        <3>7. MillInv(d)'
            BY <3>4, <3>5 DEF MillInv
        <3>8. LineInv(d)'
            <4>1. logged[d] \subseteq Elements(file[d])
                BY <1>5, <2>4, <2>6 DEF DayOK, LineInv
            <4>2. logged' = logged /\ Elements(file[d])' = Elements(file[d])
                BY <1>1 DEF Elements
            <4>3. QED
                BY <3>5, <4>1, <4>2 DEF LineInv
        <3>9. QED
            BY <3>6, <3>7, <3>8 DEF DayOK
    <2>7. QED
        BY <2>5, <2>6
<1>6. QED
    BY <1>1, <1>4, <1>5

\* The compressed copy is made, then filled: the file is there meanwhile.
LEMMA CompressCopyFiles ==
    ASSUME LogTypeOK, WriterInv, FileInv, NEW w \in Writer, CompressCreate(w) \/ CompressCopy(w)
    PROVE  FileInv'
<1> DEFINE e == Newest(w)
<1>1. e \in todo[w] /\ e \in Day
    BY NewestType DEF CompressCreate, CompressCopy
<1>2. mill[w] \in {"open", "made"} /\ Milling(w, e)
    BY DEF CompressCreate, CompressCopy, Milling
<1>3. /\ UNCHANGED <<today, file, exists, cur, fd, pos, todo, src, logged, clash>>
      /\ \A v \in Writer : v # w => mill'[v] = mill[v]
      /\ \A d \in Day : d # e => gz'[d] = gz[d] /\ packed'[d] = packed[d]
      /\ mill'[w] \in {"made", "copied"}
      /\ mill'[w] = "copied" => gz'[e] = "whole" /\ packed'[e] = src[w]
    BY <1>1 DEF CompressCreate, CompressCopy, mine, ghost, LogTypeOK
<1>4. \A d \in Day : Safe(d)' <=> Safe(d)
    BY <1>3 DEF Safe, Expired
<1> HIDE DEF e
<1> SUFFICES ASSUME NEW d \in Day, Safe(d) PROVE DayOK(d)'
    BY <1>4 DEF FileInv
<1>5. DayOK(d)
    BY DEF FileInv
<1>6. CASE d # e
    <2>1. file'[d] = file[d] /\ exists'[d] = exists[d] /\ logged'[d] = logged[d]
        BY <1>3, Zenon
    <2>2. QED
        BY <1>3, <1>6, <2>1, MillOthers DEF e
<1>7. CASE d = e
    <2>1. /\ exists[d] /\ src[w] = file[d]
          /\ \A v \in Writer : ~HasOpen(v, d)
          /\ \A v \in Writer \ {w} : ~Milling(v, d)
        BY <1>2, <1>5, <1>7 DEF DayOK, MillInv
    <2>2. \A v \in Writer : ~HasOpen(v, d)' /\ (Milling(v, d)' => v = w)
        BY <1>3, <2>1 DEF HasOpen, Milling, Newest
    <2>3. exists'[d] /\ src'[w] = file'[d] /\ logged'[d] = logged[d] /\ file'[d] = file[d]
        BY <1>3, <2>1
    <2>4. mill'[w] = "copied" => gz'[d] = "whole" /\ packed'[d] = file'[d]
        BY <1>3, <1>7, <2>1
    <2>5. OpenInv(d)'
        BY <2>2 DEF OpenInv
    <2>6. MillInv(d)'
        BY <2>2, <2>3, <2>4 DEF MillInv
    <2>7. LineInv(d)'
        <3>1. logged[d] \subseteq Elements(file[d])
            BY <1>5, <2>1 DEF DayOK, LineInv
        <3>2. Elements(file[d])' = Elements(file'[d])
            BY DEF Elements
        <3>3. QED
            BY <2>3, <3>1, <3>2 DEF LineInv
    <2>8. QED
        BY <2>5, <2>6, <2>7 DEF DayOK
<1>8. QED
    BY <1>6, <1>7

\* The file goes when its copy is whole.
LEMMA CompressRemoveFiles ==
    ASSUME LogTypeOK, WriterInv, FileInv, NEW w \in Writer, CompressRemove(w)
    PROVE  FileInv'
<1> DEFINE e == Newest(w)
<1>1. e \in todo[w] /\ e \in Day
    BY NewestType DEF CompressRemove
<1>2. mill[w] = "copied" /\ Milling(w, e)
    BY DEF CompressRemove, Milling
<1>3. /\ exists' = [exists EXCEPT ![e] = FALSE]
      /\ UNCHANGED <<today, gz, packed, cur, fd, pos, logged, clash>>
      /\ \A v \in Writer : v # w => mill'[v] = mill[v] /\ todo'[v] = todo[v] /\ src'[v] = src[v]
      /\ todo'[w] = todo[w] \ {e} /\ mill'[w] = "next"
      /\ \A d \in Day : d # e => file'[d] = file[d]
    BY <1>1 DEF CompressRemove, mine, ghost, LogTypeOK
<1>4. ~exists'[e] /\ \A d \in Day : d # e => exists'[d] = exists[d]
    <2>1. exists = [d \in Day |-> exists[d]]
        BY Zenon DEF LogTypeOK
    <2>2. QED
        BY <1>1, <1>3, <2>1, Zenon
<1>5. \A d \in Day : Safe(d)' <=> Safe(d)
    BY <1>3 DEF Safe, Expired
<1> HIDE DEF e
<1> SUFFICES ASSUME NEW d \in Day, Safe(d) PROVE DayOK(d)'
    BY <1>5 DEF FileInv
<1>6. DayOK(d)
    BY DEF FileInv
<1>7. CASE d # e
    BY <1>3, <1>4, <1>7, MillOthers DEF e
<1>8. CASE d = e
    <2>1. /\ exists[d] /\ gz[d] = "whole" /\ packed[d] = file[d]
          /\ \A v \in Writer : ~HasOpen(v, d)
          /\ \A v \in Writer \ {w} : ~Milling(v, d)
        BY <1>2, <1>6, <1>8 DEF DayOK, MillInv
    <2>2. \A v \in Writer : ~HasOpen(v, d)' /\ ~Milling(v, d)'
        BY <1>3, <2>1 DEF HasOpen, Milling, Newest
    <2>3. ~exists'[d] /\ gz'[d] = "whole" /\ packed'[d] = file[d] /\ logged'[d] = logged[d]
        BY <1>3, <1>4, <1>8, <2>1
    <2>4. OpenInv(d)'
        BY <2>2 DEF OpenInv
    <2>5. MillInv(d)'
        BY <2>2, <2>3 DEF MillInv
    <2>6. LineInv(d)'
        <3>1. logged[d] \subseteq Elements(file[d])
            BY <1>6, <2>1 DEF DayOK, LineInv
        <3>2. Elements(packed[d])' = Elements(packed'[d])
            BY DEF Elements
        <3>3. QED
            BY <2>3, <3>1, <3>2 DEF LineInv
    <2>7. QED
        BY <2>4, <2>5, <2>6 DEF DayOK
<1>9. QED
    BY <1>7, <1>8

\* All steps of a process.
LEMMA StepFiles ==
    ASSUME LogTypeOK, WriterInv, DayInv, FileInv, NEW w \in Writer, LogStep(w) \/ LogExit(w)
    PROVE  LogTypeOK' /\ WriterInv' /\ DayInv' /\ FileInv'
<1>1. LogTypeOK'
    BY WriteType, MillType, ExitType DEF LogStep
<1>2. WriterInv' /\ DayInv'
    BY WriteWriter, MillWriter, ExitWriter DEF LogStep
<1>3. CASE OpenExistingOrNew(w)
    <2>1. UNCHANGED <<mill, todo, src>> /\ fd[w] = "nil"
        BY <1>3 DEF OpenExistingOrNew, milling
    <2>2. CASE OpenNew(w)
        BY <1>1, <1>2, <2>1, <2>2, OpenNewFiles
    <2>3. CASE exists[today] /\ Opened(w, "append") /\ UNCHANGED <<file, exists>>
        BY <1>1, <1>2, <2>1, <2>3, AppendFiles
    <2>4. QED
        BY <1>3, <2>2, <2>3, Zenon DEF OpenExistingOrNew
<1>4. CASE Rotate(w)
    BY <1>1, <1>2, <1>4, OpenNewFiles DEF Rotate
<1>5. CASE Ready(w) \/ MillTake(w) \/ MillDone(w)
    <2>1. today \in Nat /\ UNCHANGED <<today, file, exists, gz, packed, logged, clash>>
        BY <1>5, TimeWriterAssumption
        DEF Ready, MillTake, MillDone, LogTypeOK, Day, disk, ghost
    <2>2. \A v \in Writer :
            /\ UNCHANGED <<fd[v], cur[v], pos[v]>>
            /\ \/ UNCHANGED <<mill[v], todo[v], src[v]>>
               \/ mill'[v] \in {"idle", "list", "next"} /\ todo'[v] \subseteq todo[v]
        BY <1>5 DEF Ready, MillTake, MillDone, LogTypeOK, mine, milling
    <2>3. FileInv'
        BY <2>1, <2>2, StillFiles
    <2>4. QED
        BY <1>1, <1>2, <2>3
<1>6. QED
    BY <1>1, <1>2, <1>3, <1>4, <1>5, LineFiles, ListFiles, CompressOpenFiles, CompressCopyFiles,
       CompressRemoveFiles, ExitFiles DEF LogStep

\* A day begins.
LEMMA MidnightFiles ==
    ASSUME LogTypeOK, WriterInv, DayInv, FileInv, Midnight
    PROVE  LogTypeOK' /\ WriterInv' /\ DayInv' /\ FileInv'
<1>1. /\ today \in Nat /\ today >= 1 /\ today < MaxDay /\ today' = today + 1
      /\ UNCHANGED <<file, exists, gz, packed, cur, fd, pos, lock, mill, full, todo, src, lines,
                     logged, clash>>
    BY TimeWriterAssumption DEF Midnight, LogTypeOK, Day, disk, mine, milling, ghost
<1>2. lines \in Nat /\ today <= today' /\ today' \in Nat
    BY <1>1, TimeWriterAssumption DEF LogTypeOK
<1>3. LogTypeOK'
    BY <1>1, TimeWriterAssumption DEF LogTypeOK, Day
<1>4. WriterInv'
    <2> SUFFICES ASSUME NEW v \in Writer PROVE WriterOf(v)'
        BY DEF WriterInv
    <2>1. WriterOf(v) /\ WriterAlone(v)
        BY <1>1, Zenon DEF WriterInv, WriterAlone
    <2>2. QED
        BY <1>1, <1>2, <2>1, AloneWriter
<1>5. DayInv'
    BY <1>1 DEF DayInv, Day
<1>6. FileInv'
    <2>1. \A v \in Writer : /\ UNCHANGED <<fd[v], cur[v], pos[v]>>
                            /\ UNCHANGED <<mill[v], todo[v], src[v]>>
        BY <1>1
    <2>2. QED
        BY <1>1, <1>2, <2>1, StillFiles
<1>7. QED
    BY <1>3, <1>4, <1>5, <1>6

----------------------------------------------------------------------------
(* One process at a time.                                                  *)

\* Of one process at most there are no two.
LEMMA OneAtMost ==
    ASSUME NEW A, IsFiniteSet(A), ~(Cardinality(A) > 1)
    PROVE  \A v, w \in A : v = w
<1> SUFFICES ASSUME NEW v \in A, NEW w \in A, v # w PROVE FALSE
    OBVIOUS
<1>1. /\ IsFiniteSet(A \ {v}) /\ Cardinality(A) \in Nat
      /\ Cardinality(A \ {v}) = Cardinality(A) - 1
    BY FS_RemoveElement, FS_CardinalityType
<1>2. w \in A \ {v}
    OBVIOUS
<1>3. Cardinality((A \ {v}) \ {w}) = Cardinality(A \ {v}) - 1
    BY <1>1, <1>2, FS_RemoveElement
<1>4. Cardinality((A \ {v}) \ {w}) \in Nat
    BY <1>1, FS_RemoveElement, FS_CardinalityType
<1>5. QED
    BY <1>1, <1>3, <1>4

\* A process that is alone has a file to open: it is a new one, or it appends to it.
LEMMA AloneOpened ==
    ASSUME LogTypeOK, WriterInv, DayInv, AloneOf, NEW w \in Writer, NEW how \in {"own", "append"},
           \A v \in Writer : v # w => fd[v] = "nil",
           how = "own" => ~exists[today],
           Opened(w, how), UNCHANGED <<mill, todo, src>>,
           \A d \in Day : exists'[d] => exists[d] \/ d = today
    PROVE  AloneOf'
<1>1. today \in Day /\ today \in Nat /\ Day \subseteq Nat
    BY TimeWriterAssumption DEF LogTypeOK, Day
<1>2. \A v \in Writer : v # w => ~HasOpen(v, today) /\ ~Milling(v, today)
    BY DEF HasOpen, Milling, WriterInv, WriterOf
<1>3. gz[today] = "none"
    BY <1>1 DEF AloneOf
<1>4. ~Risky(w, how)
    BY <1>2, <1>3 DEF Risky
<1>5. /\ UNCHANGED <<today, gz>>
      /\ \A v \in Writer : /\ cur'[v] = (IF v = w THEN today ELSE cur[v])
                           /\ fd'[v] = (IF v = w THEN how ELSE fd[v])
    BY DEF Opened, LogTypeOK
<1>6. \A d \in Day : ~clash'[d]
    <2>1. clash' = [clash EXCEPT ![today] = @ \/ Risky(w, how)]
        BY DEF Opened
    <2>2. clash = [d \in Day |-> clash[d]] /\ \A d \in Day : ~clash[d]
        BY Zenon DEF LogTypeOK, AloneOf
    <2>3. QED
        BY <1>1, <1>4, <2>1, <2>2, Zenon
<1>7. \A d \in Day : exists'[d] => d <= today
    BY <1>1 DEF DayInv
<1>8. \A d \in todo[w] : d < today
    <2>1. CASE fd[w] = "nil"
        BY <2>1, Zenon DEF WriterInv, WriterOf
    <2>2. CASE fd[w] # "nil"
        <3> SUFFICES ASSUME NEW d \in todo[w] PROVE d < today
            OBVIOUS
        <3>1. cur[w] \in 1 .. today /\ d < cur[w]
            BY <2>2, Zenon DEF WriterInv, WriterOf, AloneOf
        <3>2. d \in Nat
            BY <1>1 DEF LogTypeOK
        <3>3. QED
            BY <1>1, <3>1, <3>2
    <2>3. QED
        BY <2>1, <2>2
<1>9. QED
    BY <1>5, <1>6, <1>7, <1>8 DEF AloneOf

\* The steps of a process that is alone.
LEMMA AloneStep ==
    ASSUME LogTypeOK, WriterInv, DayInv, AloneOf, NEW w \in Writer, LogStep(w),
           \A v \in Writer : v # w => fd[v] = "nil"
    PROVE  AloneOf'
<1>1. today \in Day /\ today \in Nat /\ Day \subseteq Nat
    BY TimeWriterAssumption DEF LogTypeOK, Day
<1>2. CASE OpenExistingOrNew(w)
    <2>1. UNCHANGED <<mill, todo, src>>
        BY <1>2 DEF OpenExistingOrNew, milling
    <2>2. CASE ~exists[today] /\ OpenNew(w)
        <3>1. Opened(w, "own") /\ \A d \in Day : exists'[d] => exists[d] \/ d = today
            BY <2>2 DEF OpenNew, LogTypeOK
        <3>2. QED
            BY <2>1, <2>2, <3>1, AloneOpened
    <2>3. CASE Opened(w, "append") /\ UNCHANGED <<file, exists>>
        BY <2>1, <2>3, AloneOpened
    <2>4. QED
        BY <1>2, <2>2, <2>3, Zenon DEF OpenExistingOrNew
<1>3. CASE Rotate(w)
    <2>1. fd[w] # "nil" /\ cur[w] # today /\ UNCHANGED <<mill, todo, src>>
        BY <1>3 DEF Rotate
    <2>2. cur[w] \in 1 .. today /\ \A d \in Day : exists[d] => d <= cur[w]
        BY <2>1 DEF WriterInv, WriterOf, AloneOf
    <2>3. ~exists[today]
        BY <1>1, <2>1, <2>2
    <2>4. Opened(w, "own") /\ \A d \in Day : exists'[d] => exists[d] \/ d = today
        BY <1>3 DEF Rotate, OpenNew, LogTypeOK
    <2>5. QED
        BY <2>1, <2>3, <2>4, AloneOpened
<1>4. CASE Ready(w) \/ WriteLine(w) \/ MillTake(w) \/ MillDone(w)
    <2>1. UNCHANGED <<today, gz, exists, cur, fd, todo, clash>>
        BY <1>4 DEF Ready, WriteLine, MillTake, MillDone, disk, mine, milling, ghost
    <2>2. QED
        BY <2>1 DEF AloneOf
<1>5. CASE MillList(w)
    <2> DEFINE Old == {d \in Day \ {cur[w]} : Expired(d)}
    <2>1. /\ mill[w] = "list"
          /\ exists' = [d \in Day |-> exists[d] /\ d \notin Old]
          /\ todo' = [todo EXCEPT ![w] = {d \in Day \ {cur[w]} : exists[d] /\ d \notin Old}]
          /\ gz' = [d \in Day |-> IF Expired(d) THEN "none" ELSE gz[d]]
          /\ UNCHANGED <<today, cur, fd, clash>>
        BY <1>5, Zenon DEF MillList, mine, ghost
    <2> HIDE DEF Old
    <2>2. todo'[w] = {d \in Day \ {cur[w]} : exists[d] /\ d \notin Old}
        BY <2>1 DEF LogTypeOK
    <2>3. \A d \in todo'[w] : d \in Day /\ exists[d] /\ d # cur[w]
        BY <2>2, Zenon
    <2>4. \A d \in Day : (exists'[d] => exists[d]) /\ (gz'[d] # "none" => gz[d] # "none")
        BY <2>1
    <2>5. fd[w] # "nil"
        BY <2>1 DEF WriterInv, WriterOf
    <2>6. cur[w] \in Nat /\ \A d \in Day : exists[d] => d <= cur[w]
        <3>1. cur[w] \in 1 .. today /\ \A d \in Day : exists[d] => d <= cur[w]
            BY <2>5, Zenon DEF WriterInv, WriterOf, AloneOf
        <3>2. QED
            BY <1>1, <3>1
    <2>7. ASSUME NEW d \in todo'[w] PROVE d < cur[w]
        <3>1. d \in Day /\ d # cur[w] /\ d <= cur[w]
            BY <2>3, <2>6, Zenon
        <3>2. cur[w] \in Nat
            BY <2>6, Zenon
        <3>3. QED
            BY <1>1, <3>1, <3>2
    <2>8. \A v \in Writer : fd'[v] # "nil" => v = w
        BY <2>1
    <2>9. QED
        BY <2>1, <2>4, <2>6, <2>7, <2>8 DEF AloneOf
<1>6. CASE CompressOpen(w)
    <2> DEFINE e == Newest(w)
    <2>1. /\ \/ clash' = [clash EXCEPT ![e] = @ \/ \E v \in Writer \ {w} :
                                                  HasOpen(v, e) \/ Milling(v, e)]
             \/ UNCHANGED clash
          /\ UNCHANGED <<today, gz, exists, cur, fd>>
          /\ \A v \in Writer : todo'[v] \subseteq todo[v]
        BY <1>6 DEF CompressOpen, LogTypeOK, disk, mine
    <2>2. ~\E v \in Writer \ {w} : HasOpen(v, e) \/ Milling(v, e)
        BY DEF HasOpen, Milling, WriterInv, WriterOf
    <2> HIDE DEF e
    <2>3. clash = [d \in Day |-> clash[d]] /\ \A d \in Day : ~clash[d]
        BY Zenon DEF LogTypeOK, AloneOf
    <2>4. \A d \in Day : ~clash'[d]
        BY <2>1, <2>2, <2>3, Zenon
    <2>5. QED
        BY <2>1, <2>4 DEF AloneOf
<1>7. CASE CompressCreate(w) \/ CompressCopy(w)
    <2>1. Newest(w) \in todo[w] /\ Newest(w) \in Day
        BY <1>7, NewestType DEF CompressCreate, CompressCopy
    <2>2. fd[w] # "nil"
        BY <1>7 DEF WriterInv, WriterOf, CompressCreate, CompressCopy
    <2>3. Newest(w) < cur[w] /\ cur[w] \in 1 .. today
        BY <2>1, <2>2 DEF WriterInv, WriterOf, AloneOf
    <2>4. Newest(w) < today
        BY <1>1, <2>1, <2>3
    <2>5. /\ UNCHANGED <<today, exists, cur, fd, todo, clash>>
          /\ \A d \in Day : d # Newest(w) => gz'[d] = gz[d]
        BY <1>7 DEF CompressCreate, CompressCopy, LogTypeOK, mine, ghost
    <2>6. QED
        BY <2>4, <2>5 DEF AloneOf
<1>8. CASE CompressRemove(w)
    <2>1. /\ UNCHANGED <<today, gz, cur, fd, clash>>
          /\ \A d \in Day : exists'[d] => exists[d]
          /\ \A v \in Writer : todo'[v] \subseteq todo[v]
        BY <1>8 DEF CompressRemove, LogTypeOK, mine, ghost
    <2>2. QED
        BY <2>1 DEF AloneOf
<1>9. QED
    BY <1>2, <1>3, <1>4, <1>5, <1>6, <1>7, <1>8 DEF LogStep

\* Only a process's own step opens a file for it.
LEMMA OthersOpen ==
    ASSUME LogTypeOK, NEW w \in Writer, LogStep(w), NEW v \in Writer, v # w
    PROVE  fd'[v] = fd[v]
BY DEF LogStep, OpenExistingOrNew, OpenNew, Opened, Rotate, Ready, WriteLine, MillTake, MillList,
       CompressOpen, CompressCreate, CompressCopy, CompressRemove, MillDone, LogTypeOK, mine

----------------------------------------------------------------------------
(* The processes together.                                                 *)

\* The log files are the business of the processes' log steps alone.
LEMMA LogKept ==
    ASSUME UNCHANGED logVars
    PROVE  /\ LogState => LogState'
           /\ AloneOf => AloneOf'
<1>1. UNCHANGED <<today, file, exists, gz, packed, cur, fd, pos, lock, mill, full, todo, src, lines,
                  logged, clash>>
    BY DEF logVars, disk, mine, milling, ghost
<1>2. LogTypeOK => LogTypeOK'
    BY <1>1 DEF LogTypeOK
<1>3. WriterInv => WriterInv'
    BY <1>1 DEF WriterInv, WriterOf
<1>4. DayInv => DayInv'
    BY <1>1 DEF DayInv
<1>5. FileInv => FileInv'
    BY <1>1 DEF FileInv, Safe, Expired, DayOK, OpenInv, MillInv, LineInv, HasOpen, Milling, Newest,
                Elements
<1>6. AloneOf => AloneOf'
    BY <1>1 DEF AloneOf
<1>7. QED
    BY <1>2, <1>3, <1>4, <1>5, <1>6 DEF LogState

\* Who is alive stays within the processes there are.
LEMMA ChainKept ==
    ASSUME ChainOK, NEW A, A \subseteq Proc, Processes(A), UNCHANGED load
    PROVE  ChainOK' /\ (~overlap' => ~overlap /\ \A v, w \in alive' : v = w)
<1>1. /\ alive' = A /\ started' = started \cup A
      /\ overlap' = (overlap \/ Cardinality(A) > 1)
    BY DEF Processes
<1>2. overlap' \in BOOLEAN
    BY <1>1, Zenon
<1>3. alive' \subseteq started' /\ started' \subseteq Proc
    BY <1>1 DEF ChainOK
<1>4. ChainOK'
    BY <1>2, <1>3 DEF ChainOK
<1>5. IsFiniteSet(A)
    <2>1. IsFiniteSet(Proc)
        BY FS_Interval, GraceAssumption DEF Proc
    <2>2. QED
        BY <2>1, FS_Subset
<1>6. ASSUME ~overlap' PROVE ~overlap /\ \A v, w \in alive' : v = w
    <2>1. ~overlap /\ ~(Cardinality(A) > 1)
        BY <1>1, <1>6, Zenon
    <2>2. \A v, w \in A : v = w
        BY <1>5, <2>1, OneAtMost
    <2>3. QED
        BY <1>1, <2>1, <2>2, Zenon
<1>7. QED
    BY <1>4, <1>6

LEMMA ChainStays ==
    ASSUME ChainOK, UNCHANGED <<load, chain>>
    PROVE  ChainOK'
<1>1. alive' = alive /\ started' = started /\ overlap' = overlap /\ load' = load
    BY DEF chain
<1>2. overlap' \in BOOLEAN
    BY <1>1, Zenon DEF ChainOK
<1>3. QED
    BY <1>1, <1>2 DEF ChainOK

\* A step of the chain of processes: no process has a log file open.
LEMMA GraceTurn ==
    ASSUME ChainOK, LogState, AloneInv, GraceStep
    PROVE  ChainOK' /\ LogState' /\ AloneInv'
<1>1. load = "conns" /\ UNCHANGED logVars /\ UNCHANGED load
    BY DEF GraceStep
<1>2. PICK A : A \subseteq Proc /\ Processes(A)
    <2>1. {p \in Proc : Alive(p)'} \subseteq Proc
        OBVIOUS
    <2>2. Processes({p \in Proc : Alive(p)'})
        BY DEF GraceStep
    <2>3. QED
        BY <2>1, <2>2
<1>3. ChainOK' /\ (~overlap' => ~overlap /\ \A v, w \in alive' : v = w)
    BY <1>1, <1>2, ChainKept
<1>4. LogState' /\ (AloneOf => AloneOf')
    BY <1>1, LogKept
<1>5. \A w \in Writer : fd'[w] = "nil"
    BY <1>1 DEF AloneInv, logVars, mine
<1>6. AloneInv'
    BY <1>3, <1>4, <1>5, Zenon DEF AloneInv
<1>7. QED
    BY <1>3, <1>4, <1>6

\* A process starts.
LEMMA StartsTurn ==
    ASSUME ChainOK, LogState, AloneInv, Starts
    PROVE  ChainOK' /\ LogState' /\ AloneInv'
<1>1. UNCHANGED logVars /\ UNCHANGED load
    BY DEF Starts
<1>2. PICK p \in Proc : Processes(alive \cup {p})
    BY DEF Starts
<1>3. alive \cup {p} \subseteq Proc /\ alive' = alive \cup {p}
    BY <1>2 DEF ChainOK, Processes
<1>4. ChainOK' /\ (~overlap' => ~overlap /\ \A v, w \in alive' : v = w)
    BY <1>1, <1>2, <1>3, ChainKept
<1>5. LogState' /\ (AloneOf => AloneOf')
    BY <1>1, LogKept
<1>6. fd' = fd /\ load' = load
    BY <1>1 DEF logVars, mine
<1>7. AloneInv'
    BY <1>3, <1>4, <1>5, <1>6, Zenon DEF AloneInv
<1>8. QED
    BY <1>4, <1>5, <1>7

\* A process ends.
LEMMA EndsTurn ==
    ASSUME ChainOK, LogState, AloneInv, Ends
    PROVE  ChainOK' /\ LogState' /\ AloneInv'
<1>1. UNCHANGED load
    BY DEF Ends
<1>2. PICK p \in alive : Processes(alive \ {p}) /\ LogExit(p)
    BY DEF Ends
<1>3. p \in Writer /\ alive \ {p} \subseteq Proc /\ alive' = alive \ {p}
    BY <1>2, RestartAssumption DEF ChainOK, Processes
<1>4. ChainOK' /\ (~overlap' => ~overlap /\ \A v, w \in alive' : v = w)
    BY <1>1, <1>2, <1>3, ChainKept
<1>5. LogState'
    BY <1>2, <1>3, StepFiles DEF LogState
<1>6. /\ UNCHANGED <<today, exists, gz, clash>>
      /\ \A v \in Writer : /\ fd'[v] = IF v = p THEN "nil" ELSE fd[v]
                           /\ v # p => cur'[v] = cur[v] /\ todo'[v] = todo[v]
    BY <1>2 DEF LogExit, LogState, LogTypeOK, disk, ghost
<1>7. AloneOf => AloneOf'
    BY <1>6 DEF AloneOf
<1>8. ASSUME NEW v \in Writer, fd'[v] # "nil" PROVE load' = "lines" /\ v \in alive'
    BY <1>1, <1>3, <1>6, <1>8 DEF AloneInv
<1>9. AloneInv'
    BY <1>4, <1>7, <1>8, Zenon DEF AloneInv
<1>10. QED
    BY <1>4, <1>5, <1>9

\* A process logs or its mill works, or midnight comes.
LEMMA LoggingTurn ==
    ASSUME ChainOK, LogState, AloneInv, LogTurn
    PROVE  ChainOK' /\ LogState' /\ AloneInv'
<1>1. load = "lines" /\ UNCHANGED <<load, chain>>
    BY DEF LogTurn
<1>2. ChainOK'
    BY <1>1, ChainStays
<1>3. alive' = alive /\ overlap' = overlap /\ load' = load
    BY <1>1 DEF chain
<1>4. CASE Midnight
    <2>1. LogState'
        BY <1>4, MidnightFiles DEF LogState
    <2>2. UNCHANGED <<exists, gz, cur, fd, todo, clash>> /\ today' = today + 1 /\ today \in Nat
        BY <1>4, TimeWriterAssumption
        DEF Midnight, LogState, LogTypeOK, Day, disk, mine, milling, ghost
    <2>3. ASSUME AloneOf PROVE AloneOf'
        <3>1. \A d \in Day : d < today => d < today'
            BY <2>2, TimeWriterAssumption DEF Day
        <3>2. QED
            BY <2>2, <2>3, <3>1, Zenon DEF AloneOf
    <2>4. AloneInv'
        BY <1>3, <2>2, <2>3, Zenon DEF AloneInv
    <2>5. QED
        BY <1>2, <2>1, <2>4
<1>5. ASSUME NEW w \in alive, LogStep(w) PROVE LogState' /\ AloneInv'
    <2>1. w \in Writer
        BY RestartAssumption DEF ChainOK
    <2>2. LogState'
        BY <1>5, <2>1, StepFiles DEF LogState
    <2>3. ASSUME NEW v \in Writer, fd'[v] # "nil" PROVE load' = "lines" /\ v \in alive'
        <3>1. CASE v = w
            BY <1>1, <1>3, <3>1
        <3>2. CASE v # w
            <4>1. fd'[v] = fd[v]
                BY <1>5, <2>1, <3>2, OthersOpen DEF LogState
            <4>2. QED
                BY <1>3, <2>3, <4>1 DEF AloneInv
        <3>3. QED
            BY <3>1, <3>2
    <2>4. ASSUME ~overlap' PROVE (\A u, v \in alive' : u = v) /\ AloneOf'
        <3>1. (\A u, v \in alive : u = v) /\ AloneOf
            BY <1>3, <2>4, Zenon DEF AloneInv
        <3>2. \A v \in Writer : v # w => fd[v] = "nil"
            BY <3>1, Zenon DEF AloneInv
        <3>3. AloneOf'
            BY <1>5, <2>1, <3>1, <3>2, AloneStep DEF LogState
        <3>4. QED
            BY <1>3, <3>1, <3>3
    <2>5. AloneInv'
        BY <2>3, <2>4, Zenon DEF AloneInv
    <2>6. QED
        BY <2>2, <2>5
<1>6. QED
    BY <1>2, <1>4, <1>5 DEF LogTurn

LEMMA TurnKeeps ==
    ASSUME ChainOK, LogState, AloneInv, [Turn]_restartVars
    PROVE  ChainOK' /\ LogState' /\ AloneInv'
<1>1. CASE UNCHANGED restartVars
    <2>1. UNCHANGED logVars /\ UNCHANGED <<load, chain>>
        BY <1>1 DEF restartVars
    <2>2. ChainOK' /\ LogState' /\ (AloneOf => AloneOf')
        BY <2>1, ChainStays, LogKept
    <2>3. fd' = fd /\ alive' = alive /\ overlap' = overlap /\ load' = load
        BY <2>1 DEF logVars, mine, chain
    <2>4. AloneInv'
        BY <2>2, <2>3, Zenon DEF AloneInv
    <2>5. QED
        BY <2>2, <2>4
<1>2. QED
    BY <1>1, GraceTurn, StartsTurn, EndsTurn, LoggingTurn DEF Turn

\* The first process has logged nothing.
LEMMA BeginKeeps ==
    ASSUME Begin
    PROVE  ChainOK /\ LogState /\ AloneInv
<1>1. /\ today = 1 /\ fd = [w \in Writer |-> "nil"] /\ cur = [w \in Writer |-> 0]
      /\ pos = [w \in Writer |-> 0] /\ mill = [w \in Writer |-> "idle"]
      /\ todo = [w \in Writer |-> {}] /\ lines = 0
      /\ gz = [d \in Day |-> "none"] /\ logged = [d \in Day |-> {}]
    BY DEF Begin, LogInit
<1>2. /\ lock = [w \in Writer |-> FALSE] /\ full = [w \in Writer |-> FALSE]
      /\ exists = [d \in Day |-> FALSE] /\ clash = [d \in Day |-> FALSE]
    BY DEF Begin, LogInit
<1>3. /\ \A w \in Writer : ~lock[w] /\ ~full[w]
      /\ \A d \in Day : ~exists[d] /\ ~clash[d]
    BY <1>2, Zenon
<1>4. 1 \in Day /\ 0 \in 0 .. MaxLine
    BY TimeWriterAssumption DEF Day
<1>5. LogTypeOK
    BY <1>4, EmptyContent DEF Begin, LogInit, LogTypeOK
<1>6. WriterInv
    BY <1>1, <1>3 DEF WriterInv, WriterOf
<1>7. DayInv
    BY <1>1, <1>3 DEF DayInv
<1>8. FileInv
    BY <1>1, <1>3 DEF FileInv, DayOK, OpenInv, MillInv, LineInv, HasOpen, Milling
<1>9. alive = {1} /\ started = {1} /\ overlap = FALSE /\ load \in {"conns", "lines"} /\ 1 \in Proc
    BY GraceAssumption DEF Begin, Proc
<1>10. overlap \in BOOLEAN
    BY <1>9, Zenon
<1>11. ChainOK
    BY <1>9, <1>10 DEF ChainOK
<1>12. AloneOf
    BY <1>1, <1>3 DEF AloneOf
<1>13. AloneInv
    BY <1>1, <1>9, <1>12 DEF AloneInv
<1>14. QED
    BY <1>5, <1>6, <1>7, <1>8, <1>11, <1>13 DEF LogState

\* Every step of a restart is one of the chain of processes or leaves it alone.
LEMMA TurnIsNext == [Turn]_restartVars => [Next]_vars
BY DEF Turn, GraceStep, Starts, Ends, LogTurn, restartVars

\* The processes that log are those of a graceful restart: what is proved of them there
\* holds here (grace/server.go).
THEOREM RestartIsGrace == RestartSteps => Spec
<1>1. Begin => Init
    BY DEF Begin
<1>2. [Turn]_restartVars => [Next]_vars
    BY TurnIsNext
<1>3. QED
    BY <1>1, <1>2, PTL DEF RestartSteps, Spec

\* What holds of the log files in every state, with any number of processes, days and lines.
THEOREM RestartInvariant == RestartSteps => []RestartInv
<1>1. Begin => RestartInv
    BY BeginKeeps DEF RestartInv
<1>2. RestartInv /\ [Turn]_restartVars => RestartInv'
    BY TurnKeeps DEF RestartInv
<1>3. QED
    BY <1>1, <1>2, PTL DEF RestartSteps

\* The types of the whole model.
THEOREM RestartTypeCorrect == RestartSteps => []RestartTypeOK
<1>1. TypeOK /\ RestartInv => RestartTypeOK
    BY DEF RestartTypeOK, RestartInv, ChainOK, LogState
<1>2. QED
    BY <1>1, RestartIsGrace, RestartInvariant, GraceTypeCorrect, PTL

\* timewriter.go:240: a line that was written stays in its file or in the compressed copy
\* until its time is over, wherever the processes end, unless the file was put at risk.
THEOREM LinesStay == RestartSteps => []LinesKept
<1>1. RestartInv => LinesKept
    <2> SUFFICES ASSUME RestartInv, NEW d \in Day, ~clash[d], ~Expired(d)
                 PROVE  logged[d] \subseteq Kept(d)
        BY DEF LinesKept
    <2>1. LineInv(d)
        BY DEF RestartInv, LogState, FileInv, Safe, DayOK
    <2>2. QED
        BY <2>1 DEF LineInv, Kept
<1>2. QED
    BY <1>1, RestartInvariant, PTL

\* timewriter.go:267: no file is put at risk by processes that follow one another, in
\* however many generations and wherever they end.
THEOREM AloneSafe == RestartSteps => []AloneIsSafe
<1>1. RestartInv => AloneIsSafe
    BY Zenon DEF RestartInv, AloneInv, AloneOf, AloneIsSafe
<1>2. QED
    BY <1>1, RestartInvariant, PTL

\* The two promises of a graceful restart, of the processes that also log.
THEOREM RestartKeepsUp == RestartSteps => StaysUp /\ QuietEnd
BY RestartIsGrace, GraceStaysUp, GraceQuietEnd, PTL
=============================================================================
