----------------------------- MODULE TimeWriter -----------------------------
(***************************************************************************)
(* The log files of logging.TimeWriter: one file per day, opened by each    *)
(* process on its own, rotated by the first line of a new day, compressed   *)
(* and removed by a goroutine of the process, the mill.                    *)
(*                                                                         *)
(* A file is the sequence of the lines in it.  A file that openNew opened   *)
(* is written at the process's own position, not at the end of the file, so *)
(* a second process's lines may be overwritten and a position beyond the    *)
(* end leaves a Hole.                                                      *)
(*                                                                         *)
(* The module has no Next of its own: processes come and go as Restart says.*)
(***************************************************************************)
EXTENDS Naturals, Sequences, FiniteSets, SequencesExt

CONSTANTS
    Writer,     \* the processes
    MaxDay,     \* bound: days
    MaxLine,    \* bound: lines logged
    Reserve     \* ReserveDay

ASSUME TimeWriterAssumption ==
    MaxDay \in Nat \ {0} /\ MaxLine \in Nat /\ Reserve \in Nat \ {0}

Day == 1 .. MaxDay
Line == 1 .. MaxLine
Hole == 0
Content == Seq(Line \cup {Hole})

VARIABLES
    today,
    file,       \* file[d]: the content of the log file of day d
    exists,     \* exists[d]: the log file is in the directory
    gz,         \* gz[d]: its compressed copy, "none", "part" or "whole"
    packed,     \* packed[d]: the lines in the compressed copy
    cur,        \* cur[w]: the day of curFilename, 0 if none
    fd,         \* fd[w]: "nil", "append" or "own" (its own position)
    pos,        \* pos[w]: that position
    lock,       \* lock[w]: Write is between its two halves
    mill,       \* mill[w]: millRun, "idle", "list", "next", "open", "made" or "copied"
    full,       \* full[w]: millCh holds a value
    todo,       \* todo[w]: days that millRunOnce has yet to compress
    src,        \* src[w]: the content of the file it has open
    lines,      \* lines written so far
    logged,     \* logged[d]: the lines that were written for day d
    clash       \* clash[d]: a step after which lines of day d may be lost

disk == <<file, exists, gz, packed>>
mine == <<cur, fd, pos, lock>>
milling == <<mill, full, todo, src>>
ghost == <<lines, logged, clash>>
logVars == <<today, disk, mine, milling, ghost>>

LogTypeOK ==
    /\ today \in Day
    /\ file \in [Day -> Content] /\ exists \in [Day -> BOOLEAN]
    /\ gz \in [Day -> {"none", "part", "whole"}] /\ packed \in [Day -> Content]
    /\ cur \in [Writer -> {0} \cup Day]
    /\ fd \in [Writer -> {"nil", "append", "own"}]
    /\ pos \in [Writer -> 0 .. MaxLine]
    /\ lock \in [Writer -> BOOLEAN]
    /\ mill \in [Writer -> {"idle", "list", "next", "open", "made", "copied"}]
    /\ full \in [Writer -> BOOLEAN] /\ todo \in [Writer -> SUBSET Day]
    /\ src \in [Writer -> Content]
    /\ lines \in 0 .. MaxLine
    /\ logged \in [Day -> SUBSET Line] /\ clash \in [Day -> BOOLEAN]

LogInit ==
    /\ today = 1
    /\ file = [d \in Day |-> << >>] /\ exists = [d \in Day |-> FALSE]
    /\ gz = [d \in Day |-> "none"] /\ packed = [d \in Day |-> << >>]
    /\ cur = [w \in Writer |-> 0] /\ fd = [w \in Writer |-> "nil"]
    /\ pos = [w \in Writer |-> 0] /\ lock = [w \in Writer |-> FALSE]
    /\ mill = [w \in Writer |-> "idle"] /\ full = [w \in Writer |-> FALSE]
    /\ todo = [w \in Writer |-> {}] /\ src = [w \in Writer |-> << >>]
    /\ lines = 0 /\ logged = [d \in Day |-> {}] /\ clash = [d \in Day |-> FALSE]

Midnight ==
    /\ today < MaxDay /\ today' = today + 1
    /\ UNCHANGED <<disk, mine, milling, ghost>>

----------------------------------------------------------------------------
(* Write.                                                                  *)

HasOpen(w, d) == fd[w] # "nil" /\ cur[w] = d

\* The mill goes from the newest file to the oldest.
Newest(w) == Max(todo[w])
Milling(w, d) == mill[w] \in {"open", "made", "copied"} /\ d = Newest(w)

\* The file of the day is put at risk by a step of w: it is made anew although it is
\* there, or although its compressed copy is, which the next one will replace; or
\* another process has it open too, and one of the two at a position of its own, or
\* compresses it.
Risky(w, how) ==
    \/ how = "own" /\ (exists[today] \/ gz[today] # "none")
    \/ \E v \in Writer \ {w} : HasOpen(v, today) /\ (how = "own" \/ fd[v] = "own")
    \/ \E v \in Writer \ {w} : Milling(v, today)

Opened(w, how) ==
    /\ cur' = [cur EXCEPT ![w] = today]
    /\ fd' = [fd EXCEPT ![w] = how]
    /\ pos' = [pos EXCEPT ![w] = 0]
    /\ lock' = [lock EXCEPT ![w] = TRUE]
    /\ clash' = [clash EXCEPT ![today] = @ \/ Risky(w, how)]
    /\ UNCHANGED <<today, gz, packed, lines, logged>>

\* openNew: O_CREATE and O_TRUNC, not O_APPEND.
OpenNew(w) ==
    /\ file' = [file EXCEPT ![today] = << >>]
    /\ exists' = [exists EXCEPT ![today] = TRUE]
    /\ Opened(w, "own")

\* Wrong variant: the first line of a process opens the file anew.
OpenExistingOrNew_New(w) ==
    /\ ~lock[w] /\ fd[w] = "nil"
    /\ OpenNew(w)
    /\ UNCHANGED milling

\* The first line of a process: openExistingOrNew.
OpenExistingOrNew(w) ==
    /\ ~lock[w] /\ fd[w] = "nil"
    /\ \/ ~exists[today] /\ OpenNew(w)
       \/ exists[today] /\ Opened(w, "append") /\ UNCHANGED <<file, exists>>
    /\ UNCHANGED milling

\* The first line of a new day: rotate, and wake the mill.
Rotate(w) ==
    /\ ~lock[w] /\ fd[w] # "nil" /\ cur[w] # today
    /\ OpenNew(w)
    /\ full' = [full EXCEPT ![w] = TRUE]
    /\ UNCHANGED <<mill, todo, src>>

\* The file is open and of this day.
Ready(w) ==
    /\ ~lock[w] /\ fd[w] # "nil" /\ cur[w] = today
    /\ lock' = [lock EXCEPT ![w] = TRUE]
    /\ UNCHANGED <<today, disk, cur, fd, pos, milling, ghost>>

Put(s, i, l) ==
    IF i <= Len(s) THEN [s EXCEPT ![i] = l]
    ELSE [j \in 1 .. i |-> IF j = i THEN l ELSE IF j <= Len(s) THEN s[j] ELSE Hole]

\* l.file.Write: midnight may have passed since the name was compared.  A file
\* that is no longer in the directory takes the line with it.
WriteLine(w) ==
    /\ lock[w] /\ lines < MaxLine
    /\ LET d == cur[w]
           i == IF fd[w] = "append" THEN Len(file[d]) + 1 ELSE pos[w] + 1
       IN  /\ file' = [file EXCEPT ![d] = IF exists[d] THEN Put(@, i, lines + 1) ELSE @]
           /\ logged' = [logged EXCEPT ![d] = @ \cup {lines + 1}]
    /\ lines' = lines + 1
    /\ pos' = [pos EXCEPT ![w] = IF fd[w] = "own" THEN @ + 1 ELSE @]
    /\ lock' = [lock EXCEPT ![w] = FALSE]
    /\ UNCHANGED <<today, exists, gz, packed, cur, fd, milling, clash>>

----------------------------------------------------------------------------
(* The mill.                                                               *)

\* The midnight that began day d is more than ReserveDay days ago.
Expired(d) == d + Reserve <= today

MillTake(w) ==
    /\ mill[w] = "idle" /\ full[w]
    /\ mill' = [mill EXCEPT ![w] = "list"]
    /\ full' = [full EXCEPT ![w] = FALSE]
    /\ UNCHANGED <<today, disk, mine, todo, src, ghost>>

\* oldLogFiles, all but the current file; the expired ones are removed, the
\* others compressed.
MillList(w) ==
    /\ mill[w] = "list"
    /\ LET Old == {d \in Day \ {cur[w]} : Expired(d)}
       IN  /\ exists' = [d \in Day |-> exists[d] /\ d \notin Old]
           /\ file' = [d \in Day |-> IF d \in Old THEN << >> ELSE file[d]]
           /\ todo' = [todo EXCEPT ![w] = {d \in Day \ {cur[w]} : exists[d] /\ d \notin Old}]
    /\ gz' = [d \in Day |-> IF Expired(d) THEN "none" ELSE gz[d]]
    /\ packed' = [d \in Day |-> IF Expired(d) THEN << >> ELSE packed[d]]
    /\ mill' = [mill EXCEPT ![w] = "next"]
    /\ UNCHANGED <<today, mine, full, src, ghost>>

\* compressLogFile opens the next file; one that has gone is an error.
CompressOpen(w) ==
    /\ mill[w] = "next" /\ todo[w] # {}
    /\ LET d == Newest(w)
       IN  \/ /\ exists[d]
              /\ src' = [src EXCEPT ![w] = file[d]]
              /\ mill' = [mill EXCEPT ![w] = "open"]
              /\ clash' = [clash EXCEPT ![d] = @ \/ \E v \in Writer \ {w} :
                                                        HasOpen(v, d) \/ Milling(v, d)]
              /\ UNCHANGED todo
           \/ /\ ~exists[d]
              /\ todo' = [todo EXCEPT ![w] = @ \ {d}]
              /\ UNCHANGED <<mill, src, clash>>
    /\ UNCHANGED <<today, disk, mine, full, lines, logged>>

\* The compressed file is created, or truncated if there is one ...
CompressCreate(w) ==
    /\ mill[w] = "open"
    /\ gz' = [gz EXCEPT ![Newest(w)] = "part"]
    /\ packed' = [packed EXCEPT ![Newest(w)] = << >>]
    /\ mill' = [mill EXCEPT ![w] = "made"]
    /\ UNCHANGED <<today, file, exists, mine, full, todo, src, ghost>>

\* Wrong variant: the source is removed before the copy is complete.
CompressCopy_Removes(w) ==
    /\ mill[w] = "made"
    /\ exists' = [exists EXCEPT ![Newest(w)] = FALSE]
    /\ file' = [file EXCEPT ![Newest(w)] = << >>]
    /\ mill' = [mill EXCEPT ![w] = "copied"]
    /\ UNCHANGED <<today, gz, packed, mine, full, todo, src, ghost>>

\* ... filled and closed ...
CompressCopy(w) ==
    /\ mill[w] = "made"
    /\ gz' = [gz EXCEPT ![Newest(w)] = "whole"]
    /\ packed' = [packed EXCEPT ![Newest(w)] = src[w]]
    /\ mill' = [mill EXCEPT ![w] = "copied"]
    /\ UNCHANGED <<today, file, exists, mine, full, todo, src, ghost>>

\* ... and the source is removed.
CompressRemove(w) ==
    /\ mill[w] = "copied"
    /\ exists' = [exists EXCEPT ![Newest(w)] = FALSE]
    /\ file' = [file EXCEPT ![Newest(w)] = << >>]
    /\ todo' = [todo EXCEPT ![w] = @ \ {Newest(w)}]
    /\ src' = [src EXCEPT ![w] = << >>]
    /\ mill' = [mill EXCEPT ![w] = "next"]
    /\ UNCHANGED <<today, gz, packed, mine, full, ghost>>

MillDone(w) ==
    /\ mill[w] = "next" /\ todo[w] = {}
    /\ mill' = [mill EXCEPT ![w] = "idle"]
    /\ UNCHANGED <<today, disk, mine, full, todo, src, ghost>>

----------------------------------------------------------------------------
\* A step of a process that is alive, and the end of one.
LogStep(w) ==
    \/ OpenExistingOrNew(w) \/ Rotate(w) \/ Ready(w) \/ WriteLine(w)
    \/ MillTake(w) \/ MillList(w) \/ CompressOpen(w) \/ CompressCreate(w)
    \/ CompressCopy(w) \/ CompressRemove(w) \/ MillDone(w)

LogExit(w) ==
    /\ cur' = [cur EXCEPT ![w] = 0] /\ fd' = [fd EXCEPT ![w] = "nil"]
    /\ pos' = [pos EXCEPT ![w] = 0] /\ lock' = [lock EXCEPT ![w] = FALSE]
    /\ mill' = [mill EXCEPT ![w] = "idle"] /\ full' = [full EXCEPT ![w] = FALSE]
    /\ todo' = [todo EXCEPT ![w] = {}] /\ src' = [src EXCEPT ![w] = << >>]
    /\ UNCHANGED <<today, disk, ghost>>

----------------------------------------------------------------------------
Elements(s) == {s[i] : i \in DOMAIN s}
Kept(d) == Elements(file[d]) \cup (IF gz[d] = "whole" THEN Elements(packed[d]) ELSE {})

\* timewriter.go:240: a line that was written stays in the file of its day or in
\* the compressed copy until its time is over, whatever the processes do and
\* wherever they end; unless a step has put the file at risk.
LinesKept == \A d \in Day : (~clash[d] /\ ~Expired(d)) => logged[d] \subseteq Kept(d)
=============================================================================
