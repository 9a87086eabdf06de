------------------------------ MODULE Restart ------------------------------
(***************************************************************************)
(* The processes of a graceful restart (Grace) and the log files that they   *)
(* share (TimeWriter): while a child takes over and its parent waits for    *)
(* its connections, both of them write, rotate and compress the same files. *)
(*                                                                         *)
(* Bound: a behaviour is about the connections or about the lines that are   *)
(* logged.  In the second kind of behaviour the processes come and go as     *)
(* they do in Grace, and also as an operator starts a new one, but without  *)
(* the steps between: nothing but the end of a process reaches its writer.  *)
(***************************************************************************)
EXTENDS Grace, TimeWriter

ASSUME RestartAssumption == Writer = Proc

VARIABLES
    load,       \* what this behaviour is about, "conns" or "lines"
    alive,      \* the processes
    started,    \* those that there have been
    overlap     \* two of them were alive at once

chain == <<alive, started, overlap>>
restartVars == <<vars, logVars, load, chain>>

Begin ==
    /\ Init /\ LogInit
    /\ load \in {"conns", "lines"}
    /\ alive = {1} /\ started = {1} /\ overlap = FALSE

Processes(A) ==
    /\ alive' = A
    /\ started' = started \cup A
    /\ overlap' = (overlap \/ Cardinality(A) > 1)

GraceStep ==
    /\ load = "conns"
    /\ Next
    /\ Processes({p \in Proc : Alive(p)'})
    /\ UNCHANGED <<logVars, load>>

\* A process forks, or the operator starts one when there is none.
Starts ==
    /\ load = "lines"
    /\ \E p \in Proc \ started :
        /\ p - 1 \in started /\ (alive = {} \/ p - 1 \in alive)
        /\ Processes(alive \cup {p})
    /\ UNCHANGED <<logVars, load, vars>>

\* A process ends between any two steps of its writer and its mill.
Ends ==
    /\ load = "lines"
    /\ \E p \in alive : Processes(alive \ {p}) /\ LogExit(p)
    /\ UNCHANGED <<load, vars>>

LogTurn ==
    /\ load = "lines"
    /\ Midnight \/ \E p \in alive : LogStep(p)
    /\ UNCHANGED <<vars, load, chain>>

Turn == GraceStep \/ Starts \/ Ends \/ LogTurn

RestartSteps == Begin /\ [][Turn]_restartVars

\* Fairness is about the first kind of behaviour.
RestartSpec == RestartSteps /\ (load = "conns" => Fairness)
----------------------------------------------------------------------------
RestartTypeOK ==
    /\ TypeOK /\ LogTypeOK
    /\ load \in {"conns", "lines"}
    /\ alive \subseteq started /\ started \subseteq Proc /\ overlap \in BOOLEAN

\* timewriter.go:267: a process that starts appends to the log file of the day, and
\* the mill leaves the file in use alone.  As long as no two processes are alive at
\* once no line is put at risk, in however many generations and wherever they end.
AloneIsSafe == ~overlap => \A d \in Day : ~clash[d]
=============================================================================
