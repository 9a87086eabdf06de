---------------------------- MODULE GraceProofs ----------------------------
(***************************************************************************)
(* Proofs about the graceful restart: for any number of processes, signals,  *)
(* failures and connections there is a process that listens, and a quiet end *)
(* cuts one connection at most.                                            *)
(***************************************************************************)
EXTENDS Grace, FiniteSetTheorems, TLAPS

\* shutdown has begun.
Closing == {"close", "poll", "check", "select", "end"}

\* A child that is past telling its parent, now or once.
Past == {"run", "accept", "hand", "term", "dead"}

\* Process p has been told to end.
Told(p) == Alive(p) /\ ("TERM" \in pending[p] \/ handler[p] \in Closing)

\* The phases of a process and of its socket go together.
PhaseOf(p) ==
    /\ main[p] \in {"none", "listen"} => ln[p] = "none"
    /\ main[p] \in {"child", "tell", "run"} => ln[p] = "open"
    /\ main[p] = "term" => ln[p] = "closed"
    /\ main[p] = "dead" => handler[p] = "dead"
    /\ main[p] = "none" => handler[p] = "off" /\ pending[p] = {}
    /\ main[p] = "tell" => p > 1
    /\ state[p] = "running" => main[p] \in {"accept", "hand", "term"}
    /\ handler[p] \in Closing => main[p] \in {"accept", "hand", "term"}
    /\ ln[p] = "closed" /\ main[p] # "dead" => handler[p] \in Closing \ {"close"}
    /\ handler[p] \in Closing \ {"close"} => ln[p] = "closed"

PhaseInv == \A p \in Proc : PhaseOf(p)

\* A process has one child, and none that is given a socket before it has one itself.
ChildInv ==
    \A p \in Proc : p + 1 \in Proc =>
        /\ main[p] # "dead" /\ ~forked[p] => main[p + 1] = "none"
        /\ main[p] \in {"none", "listen"} =>
                \/ main[p + 1] \in {"none", "dead"}
                \/ main[p + 1] = "listen" /\ ~inherited[p + 1]

\* As long as the operator has ended nothing and nothing has failed: a process is told to
\* end by its child alone, when that has the socket; whoever has been told has a
\* descendant that listens; and a child that is about to tell has a parent to tell.
HandOverInv ==
    ~excused => \A p \in Proc :
        /\ "INT" \notin pending[p]
        /\ main[p] = "tell" => Alive(p - 1)
        /\ Told(p) => /\ p + 1 \in Proc /\ main[p + 1] \in Past
                      /\ \E q \in Proc : q > p /\ ln[q] = "open"

\* The goroutine that accepts has one connection in its hands, and none is accepted
\* once the listener is closed.
ConnInv ==
    /\ \A c \in Conn : conn[c] \in {"hand", "added"} => owner[c] \in Proc /\ main[owner[c]] = "hand"
    /\ \A c, d \in Conn :
        conn[c] \in {"hand", "added"} /\ conn[d] \in {"hand", "added"} /\ owner[c] = owner[d] =>
            c = d
    /\ \A p \in Proc : end[p] = "quiet" => handler[p] = "end" /\ \A c, d \in Open(p) : c = d

GraceInv == TypeOK /\ PhaseInv /\ ChildInv /\ HandOverInv /\ ConnInv

----------------------------------------------------------------------------
(* Types.                                                                  *)

\* The end of a process leaves values of the right kind.
LEMMA DiesType ==
    ASSUME TypeOK, NEW p \in Proc, Dies(p)
    PROVE  /\ main' \in [Proc -> {"none", "listen", "child", "tell", "run", "accept", "hand",
                                  "term", "dead"}]
           /\ handler' \in [Proc -> {"off", "wait", "fork", "close", "poll", "check", "select",
                                     "end", "dead"}]
           /\ pending' \in [Proc -> SUBSET Signals]
           /\ state' \in [Proc -> {"init", "running", "shutting", "terminate"}]
           /\ ln' \in [Proc -> {"none", "open", "closed"}]
           /\ inherited' \in [Proc -> BOOLEAN] /\ forked' \in [Proc -> BOOLEAN]
           /\ ticks' \in [Proc -> 0 .. MaxTick]
           /\ end' \in [Proc -> {"no", "quiet", "forced"}]
           /\ conn' \in [Conn -> {"off", "queue", "hand", "added", "new", "active", "gone"}]
           /\ owner' \in [Conn -> 0 .. MaxProc]
<1>1. 0 \in 0 .. MaxTick /\ 0 \in 0 .. MaxProc
    BY GraceAssumption
<1>2. QED
    BY <1>1 DEF TypeOK, Dies, Refuse

\* The steps of handleSignals.
LEMMA HandlerType ==
    ASSUME TypeOK, NEW p \in Proc, Handler(p)
    PROVE  TypeOK'
<1>1. CASE Notify(p)
    BY <1>1, GraceAssumption DEF Notify, TypeOK, conns, env, procs, Refuse, Signals
<1>2. CASE Receive(p)
    <2>1. missed' \in [Proc -> BOOLEAN]
        <3>1. missed' = missed \/ \E s : missed' = [missed EXCEPT ![p] = @ \/ s = "TERM"]
            BY <1>2 DEF Receive
        <3>2. QED
            BY <3>1, Zenon DEF TypeOK
    <2>2. /\ handler' \in [Proc -> {"off", "wait", "fork", "close", "poll", "check", "select",
                                     "end", "dead"}]
          /\ pending' \in [Proc -> SUBSET Signals]
          /\ state' \in [Proc -> {"init", "running", "shutting", "terminate"}]
          /\ end' \in [Proc -> {"no", "quiet", "forced"}]
        BY <1>2, SMTT(30) DEF Receive, TypeOK
    <2>3. QED
        BY <1>2, <2>1, <2>2 DEF Receive, TypeOK, conns
<1>3. CASE Fork(p)
    <2>1. forked' \in [Proc -> BOOLEAN] /\ inherited' \in [Proc -> BOOLEAN]
        BY <1>3, Zenon DEF Fork, TypeOK
    <2>2. /\ main' = main \/ main' = [main EXCEPT ![p + 1] = "listen"]
          /\ handler' = [handler EXCEPT ![p] = "wait"]
          /\ UNCHANGED <<pending, state, ln, ticks, end, conn, owner, signals, fails, excused, missed>>
        BY <1>3 DEF Fork, conns, env
    <2>3. QED
        BY <2>1, <2>2 DEF TypeOK
<1>4. CASE CloseListener(p)
    BY <1>4, GraceAssumption DEF CloseListener, TypeOK, conns, env, procs, Refuse, Signals
<1>5. CASE CloseIdleConns(p)
    BY <1>5, GraceAssumption DEF CloseIdleConns, TypeOK, conns, env, procs, Refuse, Signals
<1>6. CASE CheckConns(p)
    BY <1>6, GraceAssumption DEF CheckConns, TypeOK, conns, env, procs, Refuse, Signals
<1>7. CASE Select(p)
    BY <1>7, GraceAssumption DEF Select, TypeOK, conns, env, procs, Refuse, Signals
<1>8. CASE ForkFails(p)
    BY <1>8, DiesType, GraceAssumption DEF ForkFails, Fails, TypeOK
<1>9. QED
    BY <1>1, <1>2, <1>3, <1>4, <1>5, <1>6, <1>7, <1>8 DEF Handler

\* The steps of ListenAndServe.
LEMMA MainType ==
    ASSUME TypeOK, NEW p \in Proc, Main(p)
    PROVE  TypeOK'
<1>1. CASE GetListener(p)
    BY <1>1 DEF GetListener, Goto, TypeOK, conns, env
<1>2. CASE CheckParent(p)
    BY <1>2 DEF CheckParent, Goto, TypeOK, conns, env
<1>3. CASE Serve(p)
    BY <1>3 DEF Serve, Goto, TypeOK, conns, env
<1>4. CASE ListenerClosed(p)
    BY <1>4 DEF ListenerClosed, Goto, TypeOK, conns, env
<1>5. CASE GetListenerFails(p)
    <2>1. Dies(p) /\ (UNCHANGED env \/ Fails)
        BY <1>5, Zenon DEF GetListenerFails
    <2>2. CASE UNCHANGED env
        BY <2>1, <2>2, DiesType DEF TypeOK, env
    <2>3. CASE Fails
        BY <2>1, <2>3, DiesType, GraceAssumption DEF Fails, TypeOK
    <2>4. QED
        BY <2>1, <2>2, <2>3
<1>6. CASE AcceptFails(p)
    BY <1>6, DiesType, GraceAssumption DEF AcceptFails, Fails, TypeOK, env
<1>7. CASE Terminate(p)
    BY <1>7, DiesType, GraceAssumption DEF Terminate, Fails, TypeOK, env
<1>8. CASE TellParent(p)
    BY <1>8, DiesType DEF TellParent, Raise, Goto, Signals, TypeOK, conns, env
<1>9. ASSUME NEW c \in Conn, Accept(p, c) \/ TrackConn(p, c) \/ StoreNew(p, c)
      PROVE  TypeOK'
    <2>1. p \in 0 .. MaxProc
        BY GraceAssumption DEF Proc
    <2>2. CASE Accept(p, c)
        BY <2>1, <2>2 DEF Accept, Goto, TypeOK, env
    <2>3. CASE TrackConn(p, c)
        BY <2>3 DEF TrackConn, TypeOK, procs, env
    <2>4. CASE StoreNew(p, c)
        BY <2>4 DEF StoreNew, Goto, TypeOK, env
    <2>5. QED
        BY <1>9, <2>2, <2>3, <2>4
<1>10. QED
    BY <1>1, <1>2, <1>3, <1>4, <1>5, <1>6, <1>7, <1>8, <1>9 DEF Main

\* All steps.
LEMMA NextType == ASSUME TypeOK, [Next]_vars PROVE TypeOK'
<1>1. CASE Operator
    BY <1>1, GraceAssumption DEF Operator, Raise, Signals, TypeOK, conns
<1>2. ASSUME NEW p \in Proc, Handler(p) \/ Main(p) PROVE TypeOK'
    BY <1>2, HandlerType, MainType
<1>3. ASSUME NEW p \in Proc, DefaultAction(p) PROVE TypeOK'
    BY <1>3, DiesType DEF DefaultAction, TypeOK
<1>4. ASSUME NEW p \in Proc, Dropped(p) PROVE TypeOK'
    BY <1>4 DEF Dropped, TypeOK, conns
<1>5. ASSUME NEW c \in Conn, ClientConnect(c) \/ ConnActive(c) \/ ConnClosed(c) PROVE TypeOK'
    BY <1>5, GraceAssumption DEF ClientConnect, ConnActive, ConnClosed, TypeOK, procs, env
<1>6. CASE UNCHANGED vars
    BY <1>6 DEF vars, procs, conns, env, TypeOK
<1>7. QED
    BY <1>1, <1>2, <1>3, <1>4, <1>5, <1>6 DEF Next

\* The start.
LEMMA InitType == Init => TypeOK
<1>1. 0 \in 0 .. MaxTick /\ 0 \in 0 .. MaxProc /\ 0 \in 0 .. MaxSignal /\ 0 \in 0 .. MaxFail
    BY GraceAssumption
<1>2. Init => /\ inherited = [p \in Proc |-> FALSE] /\ forked = [p \in Proc |-> FALSE]
              /\ missed = [p \in Proc |-> FALSE] /\ excused = FALSE
    BY Zenon DEF Init
<1>3. [p \in Proc |-> FALSE] \in [Proc -> BOOLEAN] /\ FALSE \in BOOLEAN
    BY Zenon
<1>4. Init => /\ inherited \in [Proc -> BOOLEAN] /\ forked \in [Proc -> BOOLEAN]
              /\ missed \in [Proc -> BOOLEAN] /\ excused \in BOOLEAN
    BY <1>2, <1>3, Zenon
<1>5. QED
    BY <1>1, <1>4 DEF Init, TypeOK

\* grace/server.go: the phases of the processes and of their connections stay among
\* those that there are, for any number of each.
THEOREM GraceTypeCorrect == Spec => []TypeOK
<1>1. Init => TypeOK
    BY InitType
<1>2. TypeOK /\ [Next]_vars => TypeOK'
    BY NextType
<1>3. QED
    BY <1>1, <1>2, PTL DEF Spec

----------------------------------------------------------------------------
(* The phases of one process.                                              *)

\* Only its own steps and the last one of its parent's fork change the phases of a
\* process, and a signal that is sent to it.
PhasesAlone(q) ==
    UNCHANGED <<main[q], handler[q], pending[q], state[q], ln[q]>>

\* The phases of a process whose steps these are not.
LEMMA AloneKeeps ==
    ASSUME NEW q, PhaseOf(q), PhasesAlone(q)
    PROVE  PhaseOf(q)'
BY DEF PhaseOf, PhasesAlone

\* The end of a process.
LEMMA DiesPhase ==
    ASSUME TypeOK, PhaseInv, NEW p \in Proc, Dies(p)
    PROVE  PhaseInv'
<1> SUFFICES ASSUME NEW q \in Proc PROVE PhaseOf(q)'
    BY DEF PhaseInv
<1>1. CASE q = p
    <2>1. main'[p] = "dead" /\ handler'[p] = "dead" /\ state'[p] = "terminate" /\ ln'[p] = "closed"
        BY DEF Dies, TypeOK
    <2>2. QED
        BY <1>1, <2>1 DEF PhaseOf, Closing
<1>2. CASE q # p
    <2>1. PhasesAlone(q)
        BY <1>2 DEF Dies, TypeOK, PhasesAlone
    <2>2. QED
        BY <2>1, AloneKeeps DEF PhaseInv
<1>3. QED
    BY <1>1, <1>2

\* What fork does: with a first child, and then never again.
LEMMA ForkEffect ==
    ASSUME TypeOK, NEW p \in Proc, Fork(p), NEW q \in Proc
    PROVE  /\ handler[p] = "fork"
           /\ handler'[q] = (IF q = p THEN "wait" ELSE handler[q])
           /\ main'[q] = (IF q = p + 1 /\ ~forked[p] THEN "listen" ELSE main[q])
           /\ q # p => forked'[q] = forked[q]
           /\ forked'[p]
           /\ q = p + 1 /\ ~forked[p] => inherited'[q] = (ln[p] = "open")
           /\ q # p + 1 \/ forked[p] => inherited'[q] = inherited[q]
           /\ UNCHANGED <<pending, state, ln, end, conn, owner, excused, missed>>
<1>1. /\ handler[p] = "fork" /\ handler' = [handler EXCEPT ![p] = "wait"]
      /\ UNCHANGED <<pending, state, ln, end, conn, owner, excused, missed>>
    BY DEF Fork, conns, env
<1>2. handler'[q] = (IF q = p THEN "wait" ELSE handler[q])
    BY <1>1 DEF TypeOK
<1>3. CASE forked[p]
    <2>1. UNCHANGED <<main, inherited, forked>>
        BY <1>3, Zenon DEF Fork
    <2>2. QED
        BY <1>1, <1>2, <1>3, <2>1, Zenon
<1>4. CASE ~forked[p]
    <2>1. /\ forked' = [forked EXCEPT ![p] = TRUE]
          /\ main' = [main EXCEPT ![p + 1] = "listen"]
          /\ inherited' = [inherited EXCEPT ![p + 1] = (ln[p] = "open")]
        BY <1>4, Zenon DEF Fork
    <2>2. /\ DOMAIN main = Proc /\ main = [r \in Proc |-> main[r]]
          /\ forked = [r \in Proc |-> forked[r]] /\ inherited = [r \in Proc |-> inherited[r]]
        BY Zenon DEF TypeOK
    <2>3. main'[q] = (IF q = p + 1 /\ ~forked[p] THEN "listen" ELSE main[q])
        BY <1>4, <2>1, <2>2
    <2>4. /\ q # p => forked'[q] = forked[q]
          /\ forked'[p]
          /\ q = p + 1 => inherited'[q] = (ln[p] = "open")
          /\ q # p + 1 => inherited'[q] = inherited[q]
        BY <2>1, <2>2, Zenon
    <2>5. QED
        BY <1>1, <1>2, <1>4, <2>3, <2>4, Zenon
<1>5. QED
    BY <1>3, <1>4

\* The steps of handleSignals.
LEMMA HandlerPhase ==
    ASSUME TypeOK, PhaseInv, ChildInv, NEW p \in Proc, Handler(p)
    PROVE  PhaseInv'
<1> SUFFICES ASSUME NEW q \in Proc PROVE PhaseOf(q)'
    BY DEF PhaseInv
<1>1. PhaseOf(p) /\ PhaseOf(q)
    BY DEF PhaseInv
<1>2. CASE Notify(p)
    BY <1>1, <1>2 DEF Notify, PhaseOf, TypeOK, Alive, Closing
<1>3. CASE Receive(p)
    <2>1. CASE q = p
        BY <1>1, <1>3, <2>1 DEF Receive, PhaseOf, TypeOK, Closing
    <2>2. CASE q # p
        <3>1. PhasesAlone(q)
            BY <1>3, <2>2 DEF Receive, TypeOK, PhasesAlone
        <3>2. QED
            BY <1>1, <3>1, AloneKeeps
    <2>3. QED
        BY <2>1, <2>2
<1>4. CASE Fork(p)
    <2> DEFINE first == q = p + 1 /\ ~forked[p]
    <2>1. /\ handler[p] = "fork" /\ handler'[q] = (IF q = p THEN "wait" ELSE handler[q])
          /\ main'[q] = (IF first THEN "listen" ELSE main[q])
          /\ UNCHANGED <<pending, state, ln>>
        BY <1>4, ForkEffect
    <2>2. first => main[q] = "none" /\ q # p
        BY <1>1, <2>1, GraceAssumption DEF PhaseOf, ChildInv, Proc
    <2>3. QED
        BY <1>1, <2>1, <2>2 DEF PhaseOf, Closing
<1>5. CASE CloseListener(p)
    BY <1>1, <1>5 DEF CloseListener, PhaseOf, TypeOK, Closing
<1>6. CASE CloseIdleConns(p)
    BY <1>1, <1>6 DEF CloseIdleConns, PhaseOf, TypeOK, Closing
<1>7. CASE CheckConns(p)
    BY <1>1, <1>7 DEF CheckConns, PhaseOf, TypeOK, Closing
<1>8. CASE Select(p)
    BY <1>1, <1>8 DEF Select, PhaseOf, TypeOK, Closing
<1>9. CASE ForkFails(p)
    <2>1. PhaseInv'
        BY <1>9, DiesPhase DEF ForkFails
    <2>2. QED
        BY <2>1 DEF PhaseInv
<1>10. QED
    BY <1>2, <1>3, <1>4, <1>5, <1>6, <1>7, <1>8, <1>9 DEF Handler

\* The steps of ListenAndServe.
LEMMA MainPhase ==
    ASSUME TypeOK, PhaseInv, NEW p \in Proc, Main(p)
    PROVE  PhaseInv'
<1> SUFFICES ASSUME NEW q \in Proc PROVE PhaseOf(q)'
    BY DEF PhaseInv
<1>1. PhaseOf(p) /\ PhaseOf(q)
    BY DEF PhaseInv
<1>2. CASE q # p /\ ~TellParent(p) /\ ~Dies(p)
    <2>1. PhasesAlone(q)
        BY <1>2 DEF Main, GetListener, GetListenerFails, CheckParent, Serve, Accept, TrackConn,
                    StoreNew, ListenerClosed, AcceptFails, Terminate, Goto, TypeOK,
                    PhasesAlone, procs
    <2>2. QED
        BY <1>1, <2>1, AloneKeeps
<1>3. CASE Dies(p)
    <2>1. PhaseInv'
        BY <1>3, DiesPhase
    <2>2. QED
        BY <2>1 DEF PhaseInv
<1>4. CASE TellParent(p) /\ ~Dies(p)
    <2>1. /\ main[p] = "tell" /\ Alive(p - 1) /\ Raise(p - 1, "TERM") /\ Goto(p, "run")
          /\ UNCHANGED <<handler, state, ln>>
        BY <1>4 DEF TellParent
    <2>2. p - 1 \in Proc
        BY <1>1, <2>1, GraceAssumption DEF PhaseOf, Proc
    <2>3. main'[q] = (IF q = p THEN "run" ELSE main[q])
        BY <2>1 DEF Goto, TypeOK
    <2>4. q # p - 1 => pending'[q] = pending[q]
        BY <2>1, <2>2 DEF Raise, TypeOK
    <2>5. CASE q = p
        BY <1>1, <2>1, <2>2, <2>3, <2>4, <2>5 DEF PhaseOf, Closing, Proc
    <2>6. CASE q # p
        BY <1>1, <2>1, <2>2, <2>3, <2>4, <2>6 DEF PhaseOf, Alive
    <2>7. QED
        BY <2>5, <2>6
<1>5. CASE q = p /\ ~TellParent(p) /\ ~Dies(p)
    <2>1. CASE GetListener(p)
        BY <1>1, <1>5, <2>1 DEF GetListener, Goto, PhaseOf, TypeOK, Closing
    <2>2. CASE CheckParent(p)
        BY <1>1, <1>5, <2>2 DEF CheckParent, Goto, PhaseOf, TypeOK, Closing
    <2>3. CASE Serve(p)
        BY <1>1, <1>5, <2>3 DEF Serve, Goto, PhaseOf, TypeOK, Closing
    <2>4. CASE ListenerClosed(p)
        BY <1>1, <1>5, <2>4 DEF ListenerClosed, Goto, PhaseOf, TypeOK, Closing
    <2>5. ASSUME NEW c \in Conn, Accept(p, c) \/ TrackConn(p, c) \/ StoreNew(p, c)
          PROVE  PhaseOf(q)'
        BY <1>1, <1>5, <2>5 DEF Accept, TrackConn, StoreNew, Goto, PhaseOf, TypeOK, Closing, procs
    <2>6. QED
        BY <1>5, <2>1, <2>2, <2>3, <2>4, <2>5 DEF Main, GetListenerFails, AcceptFails, Terminate
<1>6. QED
    BY <1>2, <1>3, <1>4, <1>5

\* All steps.
LEMMA NextPhase ==
    ASSUME TypeOK, PhaseInv, ChildInv, [Next]_vars
    PROVE  PhaseInv'
<1>1. CASE Operator
    <2> SUFFICES ASSUME NEW q \in Proc PROVE PhaseOf(q)'
        BY DEF PhaseInv
    <2>1. PICK p \in Proc, s \in Signals : Alive(p) /\ Raise(p, s)
        BY <1>1 DEF Operator
    <2>2. pending'[q] # pending[q] => main[q] # "none"
        BY <2>1 DEF Raise, Alive, TypeOK
    <2>3. UNCHANGED <<main, handler, state, ln>>
        BY <1>1 DEF Operator
    <2>4. PhaseOf(q)
        BY DEF PhaseInv
    <2>5. QED
        BY <2>2, <2>3, <2>4 DEF PhaseOf
<1>2. ASSUME NEW p \in Proc, Handler(p) \/ Main(p) PROVE PhaseInv'
    BY <1>2, HandlerPhase, MainPhase
<1>3. ASSUME NEW p \in Proc, DefaultAction(p) PROVE PhaseInv'
    BY <1>3, DiesPhase DEF DefaultAction
<1>4. ASSUME NEW p \in Proc, Dropped(p) PROVE PhaseInv'
    BY <1>4 DEF Dropped, TypeOK, PhaseInv, PhaseOf
<1>5. ASSUME NEW c \in Conn, ClientConnect(c) \/ ConnActive(c) \/ ConnClosed(c) PROVE PhaseInv'
    BY <1>5 DEF ClientConnect, ConnActive, ConnClosed, procs, PhaseInv, PhaseOf
<1>6. CASE UNCHANGED vars
    BY <1>6 DEF vars, procs, PhaseInv, PhaseOf
<1>7. QED
    BY <1>1, <1>2, <1>3, <1>4, <1>5, <1>6 DEF Next

----------------------------------------------------------------------------
(* Parents and children.                                                   *)

\* A process at work goes on.
LEMMA GotoChild ==
    ASSUME TypeOK, ChildInv, NEW p \in Proc, NEW pc, Goto(p, pc),
           pc \notin {"none", "listen", "dead"}, main[p] \notin {"none", "dead"},
           main[p] = "listen" /\ p > 1 => inherited[p],
           UNCHANGED <<inherited, forked>>
    PROVE  ChildInv'
<1> SUFFICES ASSUME NEW r \in Proc, r + 1 \in Proc
             PROVE  /\ main'[r] # "dead" /\ ~forked'[r] => main'[r + 1] = "none"
                    /\ main'[r] \in {"none", "listen"} =>
                            \/ main'[r + 1] \in {"none", "dead"}
                            \/ main'[r + 1] = "listen" /\ ~inherited'[r + 1]
    BY DEF ChildInv
<1>1. \A q \in Proc : main'[q] = (IF q = p THEN pc ELSE main[q])
    BY DEF Goto, TypeOK
<1>2. p \in Nat /\ r \in Nat /\ r >= 1
    BY GraceAssumption DEF Proc
<1>3. /\ main[r] # "dead" /\ ~forked[r] => main[r + 1] = "none"
      /\ main[r] \in {"none", "listen"} =>
                \/ main[r + 1] \in {"none", "dead"}
                \/ main[r + 1] = "listen" /\ ~inherited[r + 1]
    BY DEF ChildInv
<1>4. r + 1 = p => p > 1
    BY <1>2
<1>5. QED
    BY <1>1, <1>2, <1>3, <1>4

\* The end of a process.
LEMMA DiesChild ==
    ASSUME TypeOK, ChildInv, NEW p \in Proc, Dies(p), main[p] # "none"
    PROVE  ChildInv'
<1>1. \A q \in Proc : /\ main'[q] = (IF q = p THEN "dead" ELSE main[q])
                      /\ q # p => forked'[q] = forked[q] /\ inherited'[q] = inherited[q]
    <2>1. \A q \in Proc : main'[q] = (IF q = p THEN "dead" ELSE main[q])
        BY DEF Dies, TypeOK
    <2>2. \A q \in Proc : q # p => forked'[q] = forked[q] /\ inherited'[q] = inherited[q]
        BY Zenon DEF Dies, TypeOK
    <2>3. QED
        BY <2>1, <2>2
<1>2. ASSUME NEW q \in Proc, q + 1 \in Proc
      PROVE  /\ main'[q] # "dead" /\ ~forked'[q] => main'[q + 1] = "none"
             /\ main'[q] \in {"none", "listen"} =>
                    \/ main'[q + 1] \in {"none", "dead"}
                    \/ main'[q + 1] = "listen" /\ ~inherited'[q + 1]
    <2>1. /\ main[q] # "dead" /\ ~forked[q] => main[q + 1] = "none"
          /\ main[q] \in {"none", "listen"} =>
                \/ main[q + 1] \in {"none", "dead"}
                \/ main[q + 1] = "listen" /\ ~inherited[q + 1]
        BY <1>2 DEF ChildInv
    <2>2. QED
        BY <1>1, <1>2, <2>1
<1>3. QED
    BY <1>2 DEF ChildInv

\* A process is forked.
LEMMA ForkChild ==
    ASSUME TypeOK, PhaseInv, ChildInv, NEW p \in Proc, Fork(p)
    PROVE  ChildInv'
<1> SUFFICES ASSUME NEW r \in Proc, r + 1 \in Proc
             PROVE  /\ main'[r] # "dead" /\ ~forked'[r] => main'[r + 1] = "none"
                    /\ main'[r] \in {"none", "listen"} =>
                            \/ main'[r + 1] \in {"none", "dead"}
                            \/ main'[r + 1] = "listen" /\ ~inherited'[r + 1]
    BY DEF ChildInv
<1>1. p \in Nat /\ r \in Nat
    BY GraceAssumption DEF Proc
<1>2. /\ main[r] # "dead" /\ ~forked[r] => main[r + 1] = "none"
      /\ main[r] \in {"none", "listen"} =>
                \/ main[r + 1] \in {"none", "dead"}
                \/ main[r + 1] = "listen" /\ ~inherited[r + 1]
    BY DEF ChildInv
<1>3. \A q \in Proc :
           /\ handler[p] = "fork"
           /\ main'[q] = (IF q = p + 1 /\ ~forked[p] THEN "listen" ELSE main[q])
           /\ q # p => forked'[q] = forked[q]
           /\ forked'[p]
           /\ q = p + 1 /\ ~forked[p] => inherited'[q] = (ln[p] = "open")
           /\ q # p + 1 \/ forked[p] => inherited'[q] = inherited[q]
    BY ForkEffect
<1>4. CASE forked[p]
    <2>1. \A q \in Proc : /\ main'[q] = main[q] /\ inherited'[q] = inherited[q]
                          /\ ~forked'[q] => ~forked[q]
        BY <1>3, <1>4
    <2>2. QED
        BY <1>2, <2>1
<1>5. CASE ~forked[p] /\ r = p
    <2>1. /\ main'[r + 1] = "listen" /\ inherited'[r + 1] = (ln[p] = "open")
          /\ main'[r] = main[r] /\ forked'[r]
        BY <1>1, <1>3, <1>5
    <2>2. main[p] \in {"none", "listen"} => ln[p] = "none"
        BY DEF PhaseInv, PhaseOf
    <2>3. QED
        BY <1>5, <2>1, <2>2
<1>6. CASE ~forked[p] /\ r = p + 1
    <2>1. main[r] = "none"
        <3>1. main[p] # "dead"
            BY <1>3 DEF PhaseInv, PhaseOf
        <3>2. QED
            BY <1>6, <3>1 DEF ChildInv
    <2>2. /\ main'[r] = "listen" /\ main'[r + 1] = main[r + 1]
          /\ inherited'[r + 1] = inherited[r + 1] /\ forked'[r] = forked[r]
        BY <1>1, <1>3, <1>6
    <2>3. QED
        BY <1>2, <2>1, <2>2
<1>7. CASE r # p /\ r # p + 1
    <2>1. /\ main'[r] = main[r] /\ main'[r + 1] = main[r + 1]
          /\ inherited'[r + 1] = inherited[r + 1] /\ forked'[r] = forked[r]
        BY <1>1, <1>3, <1>7
    <2>2. QED
        BY <1>2, <2>1
<1>8. QED
    BY <1>4, <1>5, <1>6, <1>7

\* All steps.
LEMMA NextChild ==
    ASSUME TypeOK, PhaseInv, ChildInv, [Next]_vars
    PROVE  ChildInv'
<1>1. CASE UNCHANGED <<main, inherited, forked>>
    BY <1>1 DEF ChildInv
<1>2. ASSUME NEW p \in Proc, Dies(p), handler[p] = "fork" \/ pending[p] # {} \/ main[p] # "none"
      PROVE  ChildInv'
    <2>1. main[p] # "none"
        BY <1>2 DEF PhaseInv, PhaseOf
    <2>2. QED
        BY <1>2, <2>1, DiesChild
<1>3. CASE Operator
    BY <1>1, <1>3 DEF Operator
<1>4. ASSUME NEW p \in Proc, Handler(p) PROVE ChildInv'
    <2>1. CASE Fork(p)
        BY <2>1, ForkChild
    <2>2. CASE ForkFails(p)
        BY <1>2, <2>2 DEF ForkFails
    <2>3. CASE Notify(p) \/ Receive(p) \/ CloseListener(p) \/ CloseIdleConns(p) \/ CheckConns(p)
               \/ Select(p)
        BY <1>1, <2>3 DEF Notify, Receive, CloseListener, CloseIdleConns, CheckConns, Select
    <2>4. QED
        BY <1>4, <2>1, <2>2, <2>3 DEF Handler
<1>5. ASSUME NEW p \in Proc, Main(p) PROVE ChildInv'
    <2>1. CASE GetListener(p)
        <3>1. main[p] = "listen" /\ (p > 1 => inherited[p]) /\ Goto(p, "child")
              /\ UNCHANGED <<inherited, forked>>
            BY <2>1 DEF GetListener
        <3>2. QED
            BY <3>1, GotoChild
    <2>2. CASE CheckParent(p)
        <3>1. PICK pc \in {"tell", "run"} : Goto(p, pc)
            BY <2>2 DEF CheckParent
        <3>2. main[p] = "child" /\ UNCHANGED <<inherited, forked>>
            BY <2>2 DEF CheckParent
        <3>3. QED
            BY <3>1, <3>2, GotoChild
    <2>3. CASE TellParent(p)
        <3>1. CASE Dies(p)
            BY <1>2, <2>3, <3>1 DEF TellParent
        <3>2. CASE ~Dies(p)
            <4>1. main[p] = "tell" /\ Goto(p, "run") /\ UNCHANGED <<inherited, forked>>
                BY <2>3, <3>2 DEF TellParent
            <4>2. QED
                BY <4>1, GotoChild
        <3>3. QED
            BY <3>1, <3>2
    <2>4. CASE Serve(p)
        <3>1. main[p] = "run" /\ Goto(p, "accept") /\ UNCHANGED <<inherited, forked>>
            BY <2>4 DEF Serve
        <3>2. QED
            BY <3>1, GotoChild
    <2>5. ASSUME NEW c \in Conn, Accept(p, c) \/ TrackConn(p, c) \/ StoreNew(p, c)
          PROVE  ChildInv'
        <3>1. CASE Accept(p, c)
            <4>1. main[p] = "accept" /\ Goto(p, "hand") /\ UNCHANGED <<inherited, forked>>
                BY <3>1 DEF Accept
            <4>2. QED
                BY <4>1, GotoChild
        <3>2. CASE StoreNew(p, c)
            <4>1. main[p] = "hand" /\ Goto(p, "accept") /\ UNCHANGED <<inherited, forked>>
                BY <3>2 DEF StoreNew
            <4>2. QED
                BY <4>1, GotoChild
        <3>3. CASE TrackConn(p, c)
            BY <1>1, <3>3 DEF TrackConn, procs
        <3>4. QED
            BY <2>5, <3>1, <3>2, <3>3
    <2>6. CASE ListenerClosed(p)
        <3>1. main[p] = "accept" /\ Goto(p, "term") /\ UNCHANGED <<inherited, forked>>
            BY <2>6 DEF ListenerClosed
        <3>2. QED
            BY <3>1, GotoChild
    <2>7. CASE GetListenerFails(p) \/ AcceptFails(p) \/ Terminate(p)
        <3>1. Dies(p) /\ main[p] # "none"
            BY <2>7 DEF GetListenerFails, AcceptFails, Terminate
        <3>2. QED
            BY <1>2, <3>1
    <2>8. QED
        BY <1>5, <2>1, <2>2, <2>3, <2>4, <2>5, <2>6, <2>7 DEF Main
<1>6. ASSUME NEW p \in Proc, DefaultAction(p) PROVE ChildInv'
    BY <1>2, <1>6 DEF DefaultAction
<1>7. ASSUME NEW p \in Proc, Dropped(p) PROVE ChildInv'
    BY <1>1, <1>7 DEF Dropped
<1>8. ASSUME NEW c \in Conn, ClientConnect(c) \/ ConnActive(c) \/ ConnClosed(c) PROVE ChildInv'
    BY <1>1, <1>8 DEF ClientConnect, ConnActive, ConnClosed, procs
<1>9. CASE UNCHANGED vars
    BY <1>1, <1>9 DEF vars, procs
<1>10. QED
    BY <1>3, <1>4, <1>5, <1>6, <1>7, <1>8, <1>9 DEF Next

----------------------------------------------------------------------------
(* The hand-over.                                                          *)

\* What most steps keep: nobody new is told, no child goes back, no listener closes.
Keeps ==
    \A q \in Proc :
        /\ "INT" \notin pending'[q]
        /\ main'[q] = "tell" => Alive(q - 1)'
        /\ Told(q)' => Told(q)
        /\ main[q] \in Past => main'[q] \in Past
        /\ ln[q] = "open" => ln'[q] = "open"

\* Such a step keeps the hand-over.
LEMMA KeepsHandOver ==
    ASSUME HandOverInv, ~excused, Keeps
    PROVE  HandOverInv'
BY DEF HandOverInv, Keeps

\* A process that ends with nobody to tell it and no listener of its own.
LEMMA DiesKeeps ==
    ASSUME TypeOK, PhaseInv, HandOverInv, ~excused, NEW p \in Proc, Dies(p),
           main[p] # "none", ln[p] # "open",
           p + 1 \in Proc => main[p + 1] # "tell"
    PROVE  Keeps
<1> SUFFICES ASSUME NEW q \in Proc
             PROVE  /\ "INT" \notin pending'[q]
                    /\ main'[q] = "tell" => Alive(q - 1)'
                    /\ Told(q)' => Told(q)
                    /\ main[q] \in Past => main'[q] \in Past
                    /\ ln[q] = "open" => ln'[q] = "open"
    BY DEF Keeps
<1>1. \A r \in Proc : /\ main'[r] = (IF r = p THEN "dead" ELSE main[r])
                      /\ pending'[r] = (IF r = p THEN {} ELSE pending[r])
                      /\ r # p => handler'[r] = handler[r] /\ ln'[r] = ln[r]
    BY DEF Dies, TypeOK
<1>2. /\ "INT" \notin pending[q]
      /\ main[q] = "tell" => Alive(q - 1)
    BY DEF HandOverInv
<1>3. main[q] = "tell" => q > 1
    BY DEF PhaseInv, PhaseOf
<1>4. main'[q] = "tell" => main[q] = "tell" /\ q - 1 # p /\ q - 1 \in Proc
    BY <1>1, <1>3, GraceAssumption DEF Proc
<1>5. main'[q] = "tell" => Alive(q - 1)'
    BY <1>1, <1>2, <1>4 DEF Alive
<1>6. Told(q)' => Told(q)
    BY <1>1 DEF Told, Alive
<1>7. QED
    BY <1>1, <1>2, <1>5, <1>6 DEF Past

\* A step that leaves the processes and their listeners in their places, and passes on no
\* signal but a HUP.
LEMMA QuietKeeps ==
    ASSUME HandOverInv, ~excused, UNCHANGED <<main, ln>>,
           \A q \in Proc : /\ pending'[q] \subseteq pending[q] \cup {"HUP"}
                           /\ handler'[q] \in Closing /\ Alive(q) => Told(q)
    PROVE  Keeps
BY DEF HandOverInv, Keeps, Told, Alive

\* The steps of handleSignals.
LEMMA HandlerHandOver ==
    ASSUME TypeOK, PhaseInv, ChildInv, HandOverInv, ~excused, NEW p \in Proc, Handler(p), ~excused'
    PROVE  HandOverInv'
<1>1. \A q \in Proc : handler[q] \in Closing /\ Alive(q) => Told(q)
    BY DEF Told
<1>2. CASE Notify(p)
    <2>1. \A q \in Proc : handler'[q] \in Closing => handler[q] \in Closing
        BY <1>2 DEF Notify, TypeOK, Closing
    <2>2. UNCHANGED <<main, ln, pending>>
        BY <1>2 DEF Notify
    <2>3. QED
        BY <1>1, <2>1, <2>2, QuietKeeps, KeepsHandOver
<1>3. CASE Receive(p)
    <2>1. PICK s \in pending[p] :
              /\ pending' = [pending EXCEPT ![p] = @ \ {s}]
              /\ \/ s = "HUP" /\ handler' = [handler EXCEPT ![p] = "fork"]
                 \/ s # "HUP" /\ handler' = [handler EXCEPT ![p] = "close"]
                 \/ s # "HUP" /\ UNCHANGED handler
        BY <1>3 DEF Receive
    <2>2. s \in Signals /\ s # "INT"
        BY <2>1 DEF TypeOK, HandOverInv
    <2>3. UNCHANGED <<main, ln>>
        BY <1>3 DEF Receive
    <2>4. \A q \in Proc : pending'[q] \subseteq pending[q] \cup {"HUP"}
        BY <2>1 DEF TypeOK
    <2>5. \A q \in Proc : handler'[q] \in Closing /\ Alive(q) => Told(q)
        BY <2>1, <2>2 DEF TypeOK, Told, Closing, Signals
    <2>6. QED
        BY <2>3, <2>4, <2>5, QuietKeeps, KeepsHandOver
<1>4. CASE Fork(p)
    <2>1. \A q \in Proc :
              /\ handler[p] = "fork"
              /\ handler'[q] = (IF q = p THEN "wait" ELSE handler[q])
              /\ main'[q] = (IF q = p + 1 /\ ~forked[p] THEN "listen" ELSE main[q])
              /\ UNCHANGED <<pending, ln>>
        BY <1>4, ForkEffect
    <2>2. \A q \in Proc : q = p + 1 /\ ~forked[p] =>
                main[q] = "none" /\ handler[q] = "off" /\ pending[q] = {}
        BY <2>1 DEF PhaseInv, PhaseOf, ChildInv
    <2> SUFFICES ASSUME NEW q \in Proc
                 PROVE  /\ "INT" \notin pending'[q]
                        /\ main'[q] = "tell" => Alive(q - 1)'
                        /\ Told(q)' => Told(q)
                        /\ main[q] \in Past => main'[q] \in Past
                        /\ ln[q] = "open" => ln'[q] = "open"
        BY KeepsHandOver DEF Keeps
    <2>3. main[q] = "tell" => q - 1 \in Proc /\ Alive(q - 1)
        BY GraceAssumption DEF PhaseInv, PhaseOf, HandOverInv, Proc
    <2>4. main'[q] = "tell" => Alive(q - 1)'
        BY <2>1, <2>3 DEF Alive
    <2>5. Told(q)' => Told(q)
        BY <2>1, <2>2 DEF Told, Alive, Closing
    <2>6. QED
        BY <2>1, <2>2, <2>4, <2>5 DEF HandOverInv, Past
<1>5. CASE CloseListener(p)
    <2>1. /\ handler[p] = "close" /\ UNCHANGED <<main, pending>>
          /\ \A q \in Proc : /\ ln'[q] = (IF q = p THEN "closed" ELSE ln[q])
                             /\ q # p => handler'[q] = handler[q]
        BY <1>5 DEF CloseListener, TypeOK
    <2>2. Told(p)
        BY <2>1 DEF Told, PhaseInv, PhaseOf, Alive, Closing
    <2>3. PICK r \in Proc : r > p /\ ln[r] = "open"
        BY <2>2 DEF HandOverInv
    <2>4. \A q \in Proc : Told(q)' => Told(q)
        BY <2>1, <2>2 DEF Told, Alive
    <2> SUFFICES ASSUME NEW q \in Proc
                 PROVE  /\ "INT" \notin pending'[q]
                        /\ main'[q] = "tell" => Alive(q - 1)'
                        /\ Told(q)' => /\ q + 1 \in Proc /\ main'[q + 1] \in Past
                                       /\ \E t \in Proc : t > q /\ ln'[t] = "open"
        BY DEF HandOverInv
    <2>5. /\ "INT" \notin pending[q]
          /\ main[q] = "tell" => Alive(q - 1)
          /\ Told(q) => /\ q + 1 \in Proc /\ main[q + 1] \in Past
                        /\ \E t \in Proc : t > q /\ ln[t] = "open"
        BY DEF HandOverInv
    <2>6. ASSUME Told(q) PROVE \E t \in Proc : t > q /\ ln'[t] = "open"
        <3>1. PICK t \in Proc : t > q /\ ln[t] = "open"
            BY <2>5, <2>6
        <3>2. CASE t # p
            BY <2>1, <3>1, <3>2
        <3>3. CASE t = p
            <4>1. r > q /\ r # p
                BY <2>3, <3>1, <3>3, GraceAssumption DEF Proc
            <4>2. QED
                BY <2>1, <2>3, <4>1
        <3>4. QED
            BY <3>2, <3>3
    <2>7. QED
        BY <2>1, <2>4, <2>5, <2>6 DEF Alive
<1>6. CASE CloseIdleConns(p) \/ CheckConns(p) \/ Select(p)
    <2>1. \A q \in Proc : handler'[q] \in Closing => handler[q] \in Closing
        BY <1>6 DEF CloseIdleConns, CheckConns, Select, TypeOK, Closing
    <2>2. UNCHANGED <<main, ln, pending>>
        BY <1>6 DEF CloseIdleConns, CheckConns, Select
    <2>3. QED
        BY <1>1, <2>1, <2>2, QuietKeeps, KeepsHandOver
<1>7. CASE ForkFails(p)
    BY <1>7 DEF ForkFails, Fails
<1>8. QED
    BY <1>2, <1>3, <1>4, <1>5, <1>6, <1>7 DEF Handler

\* A process at work goes on; when it tells its parent, it has told it before.
LEMMA GotoKeeps ==
    ASSUME TypeOK, PhaseInv, HandOverInv, ~excused, NEW p \in Proc, NEW pc, Goto(p, pc),
           pc \notin {"none", "dead"}, main[p] \notin {"none", "dead"},
           main[p] \in Past => pc \in Past,
           pc = "tell" => Alive(p - 1),
           UNCHANGED <<handler, pending>>,
           \A q \in Proc : ln[q] = "open" => ln'[q] = "open"
    PROVE  Keeps
<1> SUFFICES ASSUME NEW q \in Proc
             PROVE  /\ "INT" \notin pending'[q]
                    /\ main'[q] = "tell" => Alive(q - 1)'
                    /\ Told(q)' => Told(q)
                    /\ main[q] \in Past => main'[q] \in Past
                    /\ ln[q] = "open" => ln'[q] = "open"
    BY DEF Keeps
<1>1. \A r : Alive(r) => Alive(r)'
    <2> SUFFICES ASSUME NEW r, Alive(r) PROVE Alive(r)'
        OBVIOUS
    <2>1. main'[r] = main[r] \/ main'[r] = pc
        BY DEF Goto, TypeOK
    <2>2. QED
        BY <2>1 DEF Alive
<1>2. \A r \in Proc : main'[r] = (IF r = p THEN pc ELSE main[r])
    BY DEF Goto, TypeOK
<1>3. main'[q] = "tell" => Alive(q - 1)'
    BY <1>1, <1>2 DEF HandOverInv
<1>4. Told(q)' => Told(q)
    BY <1>2 DEF Told, Alive
<1>5. QED
    BY <1>2, <1>3, <1>4 DEF HandOverInv

\* The steps of ListenAndServe.
LEMMA MainHandOver ==
    ASSUME TypeOK, PhaseInv, ChildInv, HandOverInv, ~excused, NEW p \in Proc, Main(p), ~excused'
    PROVE  HandOverInv'
<1>1. CASE GetListener(p)
    <2>1. /\ main[p] = "listen" /\ Goto(p, "child") /\ UNCHANGED <<handler, pending>>
          /\ \A q \in Proc : ln[q] = "open" => ln'[q] = "open"
        BY <1>1 DEF GetListener, TypeOK
    <2>2. QED
        BY <2>1, GotoKeeps, KeepsHandOver DEF Past
<1>2. CASE CheckParent(p)
    <2>1. PICK pc \in {"tell", "run"} : Goto(p, pc) /\ (pc = "tell" => Alive(p - 1))
        BY <1>2 DEF CheckParent
    <2>2. main[p] = "child" /\ UNCHANGED <<handler, pending, ln>>
        BY <1>2 DEF CheckParent
    <2>3. QED
        BY <2>1, <2>2, GotoKeeps, KeepsHandOver DEF Past
<1>3. CASE TellParent(p)
    <2>1. main[p] = "tell" /\ Alive(p - 1) /\ p > 1 /\ ln[p] = "open"
        BY <1>3 DEF TellParent, HandOverInv, PhaseInv, PhaseOf
    <2>2. Raise(p - 1, "TERM") /\ Goto(p, "run") /\ UNCHANGED <<handler, ln>>
        BY <1>3, <2>1 DEF TellParent
    <2>3. p - 1 \in Proc /\ p - 1 + 1 = p /\ p > p - 1
        BY <2>1, GraceAssumption DEF Proc
    <2>4. \A q \in Proc :
              /\ main'[q] = (IF q = p THEN "run" ELSE main[q])
              /\ pending'[q] = (IF q = p - 1 THEN pending[q] \cup {"TERM"} ELSE pending[q])
        BY <2>1, <2>2, <2>3 DEF Raise, Goto, TypeOK
    <2> SUFFICES ASSUME NEW q \in Proc
                 PROVE  /\ "INT" \notin pending'[q]
                        /\ main'[q] = "tell" => Alive(q - 1)'
                        /\ Told(q)' => /\ q + 1 \in Proc /\ main'[q + 1] \in Past
                                       /\ \E t \in Proc : t > q /\ ln'[t] = "open"
        BY DEF HandOverInv
    <2>5. main[q] = "tell" => q - 1 \in Proc /\ Alive(q - 1)
        BY GraceAssumption DEF HandOverInv, PhaseInv, PhaseOf, Proc
    <2>6. main'[q] = "tell" => Alive(q - 1)'
        BY <2>4, <2>5 DEF Alive
    <2>7. "INT" \notin pending'[q]
        <3>1. "INT" \notin pending[q] \cup {"TERM"}
            BY DEF HandOverInv
        <3>2. pending'[q] = pending[q] \cup {"TERM"} \/ pending'[q] = pending[q]
            BY <2>4
        <3>3. QED
            BY <3>1, <3>2
    <2>8. ASSUME Told(q)' PROVE /\ q + 1 \in Proc /\ main'[q + 1] \in Past
                                /\ \E t \in Proc : t > q /\ ln'[t] = "open"
        <3>1. CASE q = p - 1
            BY <2>1, <2>2, <2>3, <2>4, <3>1 DEF Past
        <3>2. CASE q # p - 1
            <4>1. Told(q)
                BY <2>1, <2>2, <2>4, <2>8, <3>2 DEF Told, Alive
            <4>2. /\ q + 1 \in Proc /\ main[q + 1] \in Past
                  /\ \E t \in Proc : t > q /\ ln[t] = "open"
                BY <4>1 DEF HandOverInv
            <4>3. QED
                BY <2>2, <2>4, <4>2 DEF Past
        <3>3. QED
            BY <3>1, <3>2
    <2>9. QED
        BY <2>6, <2>7, <2>8
<1>4. CASE Serve(p)
    <2>1. main[p] = "run" /\ Goto(p, "accept") /\ UNCHANGED <<handler, pending, ln>>
        BY <1>4 DEF Serve
    <2>2. QED
        BY <2>1, GotoKeeps, KeepsHandOver DEF Past
<1>5. ASSUME NEW c \in Conn, Accept(p, c) \/ TrackConn(p, c) \/ StoreNew(p, c)
      PROVE  HandOverInv'
    <2>1. CASE Accept(p, c)
        <3>1. main[p] = "accept" /\ Goto(p, "hand") /\ UNCHANGED <<handler, pending, ln>>
            BY <2>1 DEF Accept
        <3>2. QED
            BY <3>1, GotoKeeps, KeepsHandOver DEF Past
    <2>2. CASE StoreNew(p, c)
        <3>1. main[p] = "hand" /\ Goto(p, "accept") /\ UNCHANGED <<handler, pending, ln>>
            BY <2>2 DEF StoreNew
        <3>2. QED
            BY <3>1, GotoKeeps, KeepsHandOver DEF Past
    <2>3. CASE TrackConn(p, c)
        BY <2>3 DEF TrackConn, procs, env, HandOverInv, Told, Alive
    <2>4. QED
        BY <1>5, <2>1, <2>2, <2>3
<1>6. CASE ListenerClosed(p)
    <2>1. main[p] = "accept" /\ Goto(p, "term") /\ UNCHANGED <<handler, pending, ln>>
        BY <1>6 DEF ListenerClosed
    <2>2. QED
        BY <2>1, GotoKeeps, KeepsHandOver DEF Past
<1>7. CASE GetListenerFails(p)
    <2>1. main[p] = "listen" /\ Dies(p) /\ ln[p] = "none"
        BY <1>7 DEF GetListenerFails, PhaseInv, PhaseOf
    <2>2. p + 1 \in Proc => main[p + 1] # "tell"
        BY <2>1 DEF ChildInv
    <2>3. QED
        BY <2>1, <2>2, DiesKeeps, KeepsHandOver
<1>8. CASE AcceptFails(p)
    BY <1>8 DEF AcceptFails, Fails
<1>9. CASE Terminate(p)
    <2>1. main[p] = "term" /\ handler[p] = "end" /\ Dies(p) /\ ln[p] = "closed"
        BY <1>9 DEF Terminate, PhaseInv, PhaseOf
    <2>2. p + 1 \in Proc => main[p + 1] # "tell"
        BY <2>1 DEF HandOverInv, Told, Alive, Closing, Past
    <2>3. QED
        BY <2>1, <2>2, DiesKeeps, KeepsHandOver
<1>10. QED
    BY <1>1, <1>2, <1>3, <1>4, <1>5, <1>6, <1>7, <1>8, <1>9 DEF Main

\* What has been excused stays so.
LEMMA ExcusedStays == ASSUME TypeOK, excused, [Next]_vars PROVE excused'
<1>1. CASE Operator
    BY <1>1 DEF Operator
<1>2. ASSUME NEW p \in Proc, Handler(p) PROVE excused'
    BY <1>2 DEF Handler, Notify, Receive, Fork, ForkFails, CloseListener, CloseIdleConns,
                CheckConns, Select, Fails, env
<1>3. ASSUME NEW p \in Proc, Main(p) PROVE excused'
    BY <1>3 DEF Main, GetListener, GetListenerFails, CheckParent, TellParent, Serve, Accept,
                TrackConn, StoreNew, ListenerClosed, AcceptFails, Terminate, Fails, env
<1>4. ASSUME NEW p \in Proc, DefaultAction(p) \/ Dropped(p) PROVE excused'
    BY <1>4 DEF DefaultAction, Dropped
<1>5. ASSUME NEW c \in Conn, ClientConnect(c) \/ ConnActive(c) \/ ConnClosed(c) PROVE excused'
    BY <1>5 DEF ClientConnect, ConnActive, ConnClosed, env
<1>6. CASE UNCHANGED vars
    BY <1>6 DEF vars, env
<1>7. QED
    BY <1>1, <1>2, <1>3, <1>4, <1>5, <1>6 DEF Next

\* All steps.
LEMMA NextHandOver ==
    ASSUME TypeOK, PhaseInv, ChildInv, HandOverInv, [Next]_vars
    PROVE  HandOverInv'
<1> SUFFICES ASSUME ~excused, ~excused' PROVE HandOverInv'
    BY ExcusedStays DEF HandOverInv
<1>1. CASE Operator
    <2>1. PICK p \in Proc, s \in Signals :
              Alive(p) /\ Raise(p, s) /\ excused' = (excused \/ s # "HUP")
        BY <1>1 DEF Operator
    <2>2. s = "HUP"
        BY <2>1
    <2>3. \A q \in Proc : pending'[q] \subseteq pending[q] \cup {"HUP"}
        BY <2>1, <2>2 DEF Raise, TypeOK
    <2>4. UNCHANGED <<main, ln, handler>>
        BY <1>1 DEF Operator
    <2>5. QED
        BY <2>3, <2>4, QuietKeeps, KeepsHandOver DEF Told
<1>2. ASSUME NEW p \in Proc, Handler(p) \/ Main(p) PROVE HandOverInv'
    BY <1>2, HandlerHandOver, MainHandOver
<1>3. ASSUME NEW p \in Proc, DefaultAction(p) PROVE HandOverInv'
    BY <1>3 DEF DefaultAction
<1>4. ASSUME NEW p \in Proc, Dropped(p) PROVE HandOverInv'
    <2>1. UNCHANGED <<main, ln, handler>> /\ \A q \in Proc : pending'[q] \subseteq pending[q]
        BY <1>4 DEF Dropped, TypeOK
    <2>2. QED
        BY <2>1, QuietKeeps, KeepsHandOver DEF Told
<1>5. ASSUME NEW c \in Conn, ClientConnect(c) \/ ConnActive(c) \/ ConnClosed(c) PROVE HandOverInv'
    BY <1>5 DEF ClientConnect, ConnActive, ConnClosed, procs, env, HandOverInv, Told, Alive
<1>6. CASE UNCHANGED vars
    BY <1>6 DEF vars, procs, env, HandOverInv, Told, Alive
<1>7. QED
    BY <1>1, <1>2, <1>3, <1>4, <1>5, <1>6 DEF Next

----------------------------------------------------------------------------
(* The connections.                                                        *)

\* c is accepted and not yet with a goroutine of its own.
InHands(c) == conn[c] \in {"hand", "added"}

\* What most steps keep: no connection comes into the hands of a process, or to it, and no
\* shutdown ends quietly or goes on after it did.
ConnKeeps ==
    /\ \A c \in Conn : InHands(c)' => InHands(c) /\ owner'[c] = owner[c] /\ main'[owner[c]] = "hand"
    /\ \A q \in Proc : Open(q)' \subseteq Open(q)
    /\ \A q \in Proc : end'[q] = "quiet" => end[q] = "quiet" /\ handler'[q] = "end"

\* Such a step keeps the invariant.
LEMMA KeepsConn == ASSUME ConnInv, ConnKeeps PROVE ConnInv'
<1>1. ASSUME NEW c \in Conn, InHands(c)'
      PROVE  owner'[c] \in Proc /\ main'[owner'[c]] = "hand"
    BY <1>1 DEF ConnInv, ConnKeeps, InHands
<1>2. ASSUME NEW c \in Conn, NEW d \in Conn, InHands(c)', InHands(d)', owner'[c] = owner'[d]
      PROVE  c = d
    <2>1. InHands(c) /\ InHands(d) /\ owner[c] = owner[d]
        BY <1>2 DEF ConnKeeps
    <2>2. QED
        BY <2>1 DEF ConnInv, InHands
<1>3. ASSUME NEW p \in Proc, end'[p] = "quiet"
      PROVE  handler'[p] = "end" /\ \A c, d \in Open(p)' : c = d
    <2>1. end[p] = "quiet" /\ handler'[p] = "end" /\ Open(p)' \subseteq Open(p)
        BY <1>3 DEF ConnKeeps
    <2>2. \A c, d \in Open(p) : c = d
        BY <2>1 DEF ConnInv
    <2>3. QED
        BY <2>1, <2>2
<1>4. QED
    BY <1>1, <1>2, <1>3 DEF ConnInv, InHands

\* The end of a process ends the connections that it has.
LEMMA DiesConn ==
    ASSUME TypeOK, ConnInv, NEW p \in Proc, Dies(p)
    PROVE  ConnInv'
<1>1. \A c \in Conn :
          /\ conn'[c] = (IF c \in Open(p) THEN "gone"
                         ELSE IF conn[c] = "queue" /\ ~Held' THEN "gone" ELSE conn[c])
          /\ owner'[c] = (IF c \in Open(p) THEN 0 ELSE owner[c])
    BY DEF Dies, Refuse
<1>2. \A q \in Proc : q # p => main'[q] = main[q] /\ end'[q] = end[q] /\ handler'[q] = handler[q]
    BY DEF Dies, TypeOK
<1>3. end'[p] = "no"
    BY DEF Dies, TypeOK
<1>4. ASSUME NEW c \in Conn, InHands(c)'
      PROVE  InHands(c) /\ owner'[c] = owner[c] /\ main'[owner[c]] = "hand"
    <2>1. InHands(c) /\ c \notin Open(p) /\ owner'[c] = owner[c]
        BY <1>1, <1>4 DEF InHands
    <2>2. owner[c] # p /\ owner[c] \in Proc /\ main[owner[c]] = "hand"
        BY <2>1 DEF InHands, Open, ConnInv
    <2>3. QED
        BY <1>2, <2>1, <2>2
<1>5. \A q \in Proc : Open(q)' \subseteq Open(q)
    <2> SUFFICES ASSUME NEW q \in Proc, NEW c \in Open(q)' PROVE c \in Open(q)
        OBVIOUS
    <2>1. c \in Conn /\ owner'[c] = q /\ conn'[c] \in {"hand", "added", "new", "active"}
        BY DEF Open
    <2>2. conn'[c] = conn[c] /\ owner'[c] = owner[c]
        BY <1>1, <2>1
    <2>3. QED
        BY <2>1, <2>2 DEF Open
<1>6. \A q \in Proc : end'[q] = "quiet" => end[q] = "quiet" /\ handler'[q] = "end"
    BY <1>2, <1>3 DEF ConnInv
<1>7. QED
    BY <1>4, <1>5, <1>6, KeepsConn DEF ConnKeeps

\* A step that touches no connection, and no process that has one in its hands.
LEMMA StillConn ==
    ASSUME ConnInv, UNCHANGED <<conn, owner>>,
           \A q \in Proc : main[q] = "hand" => main'[q] = "hand",
           \A q \in Proc : end'[q] = "quiet" => end[q] = "quiet" /\ handler'[q] = "end"
    PROVE  ConnInv'
<1>1. \A q \in Proc : Open(q)' = Open(q)
    BY DEF Open
<1>2. \A c \in Conn : InHands(c)' => InHands(c) /\ owner'[c] = owner[c] /\ main'[owner[c]] = "hand"
    BY DEF InHands, ConnInv
<1>3. QED
    BY <1>1, <1>2, KeepsConn DEF ConnKeeps

\* A step of a connection or of the goroutines that refuse or end it.
LEMMA EndsConn ==
    ASSUME ConnInv, UNCHANGED <<main>>,
           \A c \in Conn : \/ conn'[c] = conn[c] /\ owner'[c] = owner[c]
                           \/ conn'[c] \in {"queue", "gone"}
                           \/ conn[c] = "hand" /\ conn'[c] = "added" /\ owner'[c] = owner[c]
                           \/ conn[c] = "new" /\ conn'[c] = "active" /\ owner'[c] = owner[c],
           \A q \in Proc : end'[q] = "quiet" => end[q] = "quiet" /\ handler'[q] = "end"
    PROVE  ConnInv'
<1>1. \A q \in Proc : Open(q)' \subseteq Open(q)
    <2> SUFFICES ASSUME NEW q \in Proc, NEW c \in Open(q)' PROVE c \in Open(q)
        OBVIOUS
    <2>1. c \in Conn /\ owner'[c] = q /\ conn'[c] \in {"hand", "added", "new", "active"}
        BY DEF Open
    <2>2. owner'[c] = owner[c] /\ conn[c] \in {"hand", "added", "new", "active"}
        BY <2>1
    <2>3. QED
        BY <2>1, <2>2 DEF Open
<1>2. \A c \in Conn : InHands(c)' => InHands(c) /\ owner'[c] = owner[c] /\ main'[owner[c]] = "hand"
    BY DEF InHands, ConnInv
<1>3. QED
    BY <1>1, <1>2, KeepsConn DEF ConnKeeps

\* The steps of handleSignals.
LEMMA HandlerConn ==
    ASSUME TypeOK, PhaseInv, ChildInv, ConnInv, NEW p \in Proc, Handler(p)
    PROVE  ConnInv'
<1>1. \A q \in Proc : end[q] = "quiet" => handler[q] = "end"
    BY DEF ConnInv
<1>2. CASE Notify(p)
    <2>1. UNCHANGED <<main, end, conn, owner>>
        BY <1>2 DEF Notify, conns
    <2>2. \A q \in Proc : handler[q] = "end" => handler'[q] = "end"
        BY <1>2 DEF Notify, TypeOK
    <2>3. QED
        BY <1>1, <2>1, <2>2, StillConn
<1>3. CASE Receive(p)
    <2>1. UNCHANGED <<main, conn, owner>>
        BY <1>3 DEF Receive, conns
    <2>2. \A q \in Proc : end'[q] = "quiet" => end[q] = "quiet" /\ handler'[q] = "end"
        <3>1. \A q \in Proc : q # p => end'[q] = end[q] /\ handler'[q] = handler[q]
            BY <1>3 DEF Receive, TypeOK
        <3>2. handler[p] = "wait" /\ (end'[p] = end[p] \/ end'[p] \in {"forced", "no"})
            BY <1>3 DEF Receive, TypeOK
        <3>3. QED
            BY <1>1, <3>1, <3>2
    <2>3. QED
        BY <2>1, <2>2, StillConn
<1>4. CASE Fork(p)
    <2>1. \A q \in Proc :
              /\ handler[p] = "fork" /\ handler'[q] = (IF q = p THEN "wait" ELSE handler[q])
              /\ main'[q] = (IF q = p + 1 /\ ~forked[p] THEN "listen" ELSE main[q])
              /\ UNCHANGED <<end, conn, owner>>
        BY <1>4, ForkEffect
    <2>2. \A q \in Proc : q = p + 1 /\ ~forked[p] => main[q] = "none"
        BY <2>1 DEF PhaseInv, PhaseOf, ChildInv
    <2>3. \A q \in Proc : main[q] = "hand" => main'[q] = "hand"
        BY <2>1, <2>2
    <2>4. \A q \in Proc : end'[q] = "quiet" => end[q] = "quiet" /\ handler'[q] = "end"
        BY <1>1, <2>1
    <2>5. QED
        BY <2>1, <2>3, <2>4, StillConn
<1>5. CASE CloseListener(p)
    <2>1. UNCHANGED <<main, end, owner>>
        BY <1>5 DEF CloseListener
    <2>2. \A c \in Conn : conn'[c] \in {conn[c], "gone"}
        BY <1>5 DEF CloseListener, Refuse
    <2>3. \A q \in Proc : handler[q] = "end" => handler'[q] = "end"
        BY <1>5 DEF CloseListener, TypeOK
    <2>4. QED
        BY <1>1, <2>1, <2>2, <2>3, EndsConn
<1>6. CASE CloseIdleConns(p)
    <2>1. UNCHANGED <<main, end>>
        BY <1>6 DEF CloseIdleConns
    <2>2. \A c \in Conn : conn'[c] = "gone" \/ (conn'[c] = conn[c] /\ owner'[c] = owner[c])
        BY <1>6 DEF CloseIdleConns
    <2>3. \A q \in Proc : handler[q] = "end" => handler'[q] = "end"
        BY <1>6 DEF CloseIdleConns, TypeOK
    <2>4. QED
        BY <1>1, <2>1, <2>2, <2>3, EndsConn
<1>7. CASE CheckConns(p) /\ Tracked(p) = {}
    <2>1. /\ UNCHANGED <<main, conn, owner>> /\ handler[p] = "check"
          /\ \A q \in Proc : /\ handler'[q] = (IF q = p THEN "end" ELSE handler[q])
                             /\ q # p => end'[q] = end[q]
        BY <1>7 DEF CheckConns, conns, TypeOK
    <2>2. \A q \in Proc : Open(q)' = Open(q)
        BY <2>1 DEF Open
    <2>3. \A c \in Open(p) : conn[c] \in {"hand", "added"} /\ c \in Conn /\ owner[c] = p
        BY <1>7 DEF Open, Tracked
    <2>4. \A c, d \in Open(p) : c = d
        BY <2>3 DEF ConnInv
    <2>5. \A q \in Proc : end'[q] = "quiet" => handler'[q] = "end" /\ \A c, d \in Open(q)' : c = d
        BY <2>1, <2>2, <2>4 DEF ConnInv
    <2>6. QED
        BY <2>1, <2>5 DEF ConnInv
<1>8. CASE (CheckConns(p) /\ Tracked(p) # {}) \/ Select(p)
    <2>1. UNCHANGED <<main, conn, owner>>
        BY <1>8 DEF CheckConns, Select, conns
    <2>2. \A q \in Proc : end'[q] = "quiet" => end[q] = "quiet"
        BY <1>8 DEF CheckConns, Select, TypeOK
    <2>3. \A q \in Proc : handler[q] = "end" => handler'[q] = "end"
        BY <1>8 DEF CheckConns, Select, TypeOK
    <2>4. QED
        BY <1>1, <2>1, <2>2, <2>3, StillConn
<1>9. CASE ForkFails(p)
    BY <1>9, DiesConn DEF ForkFails
<1>10. QED
    BY <1>2, <1>3, <1>4, <1>5, <1>6, <1>7, <1>8, <1>9 DEF Handler

\* A process goes on with no connection in its hands.
LEMMA GotoConn ==
    ASSUME TypeOK, ConnInv, NEW p \in Proc, NEW pc, Goto(p, pc), main[p] # "hand",
           UNCHANGED <<handler, end, conn, owner>>
    PROVE  ConnInv'
<1>1. \A q \in Proc : main[q] = "hand" => main'[q] = "hand"
    BY DEF Goto, TypeOK
<1>2. \A q \in Proc : end'[q] = "quiet" => end[q] = "quiet" /\ handler'[q] = "end"
    BY DEF ConnInv
<1>3. QED
    BY <1>1, <1>2, StillConn

\* A connection is accepted: by a process that had none in its hands and whose listener is open.
LEMMA AcceptConn ==
    ASSUME TypeOK, PhaseInv, ConnInv, NEW p \in Proc, NEW c \in Conn, Accept(p, c)
    PROVE  ConnInv'
<1>1. main[p] = "accept" /\ ln[p] = "open" /\ conn[c] = "queue" /\ UNCHANGED <<handler, end>>
    BY DEF Accept
<1>2. \A d \in Conn : /\ conn'[d] = (IF d = c THEN "hand" ELSE conn[d])
                      /\ owner'[d] = (IF d = c THEN p ELSE owner[d])
    BY DEF Accept, TypeOK
<1>3. \A q \in Proc : main'[q] = (IF q = p THEN "hand" ELSE main[q])
    BY DEF Accept, Goto, TypeOK
<1>4. ASSUME NEW d \in Conn, InHands(d)'
      PROVE  IF d = c THEN owner'[d] = p
                      ELSE InHands(d) /\ owner'[d] = owner[d] /\ owner[d] # p /\ owner[d] \in Proc
                           /\ main[owner[d]] = "hand"
    <2>1. d # c => InHands(d) /\ owner'[d] = owner[d]
        BY <1>2, <1>4 DEF InHands
    <2>2. InHands(d) => owner[d] \in Proc /\ main[owner[d]] = "hand"
        BY DEF ConnInv, InHands
    <2>3. QED
        BY <1>1, <1>2, <2>1, <2>2
<1>5. ASSUME NEW d \in Conn, InHands(d)'
      PROVE  owner'[d] \in Proc /\ main'[owner'[d]] = "hand"
    BY <1>3, <1>4, <1>5
<1>6. ASSUME NEW d \in Conn, NEW f \in Conn, InHands(d)', InHands(f)', owner'[d] = owner'[f]
      PROVE  d = f
    <2>1. CASE d # c /\ f # c
        BY <1>4, <1>6, <2>1 DEF ConnInv, InHands
    <2>2. CASE d = c \/ f = c
        BY <1>4, <1>6, <2>2
    <2>3. QED
        BY <2>1, <2>2
<1>7. ASSUME NEW q \in Proc, end'[q] = "quiet"
      PROVE  handler'[q] = "end" /\ \A d, f \in Open(q)' : d = f
    <2>1. end[q] = "quiet" /\ handler[q] = "end" /\ \A d, f \in Open(q) : d = f
        BY <1>1, <1>7 DEF ConnInv
    <2>2. q # p
        BY <1>1, <2>1 DEF PhaseInv, PhaseOf, Closing
    <2>3. Open(q)' \subseteq Open(q)
        BY <1>2, <2>2 DEF Open
    <2>4. QED
        BY <1>1, <2>1, <2>3
<1>8. QED
    BY <1>5, <1>6, <1>7 DEF ConnInv, InHands

\* A connection is given its goroutine: it was the only one in the hands of the process.
LEMMA StoreNewConn ==
    ASSUME TypeOK, ConnInv, NEW p \in Proc, NEW c \in Conn, StoreNew(p, c)
    PROVE  ConnInv'
<1>1. /\ owner[c] = p /\ conn[c] = "added" /\ UNCHANGED <<handler, end, owner>>
      /\ \A d \in Conn : conn'[d] = (IF d = c THEN "new" ELSE conn[d])
      /\ \A q \in Proc : main'[q] = (IF q = p THEN "accept" ELSE main[q])
    BY DEF StoreNew, Goto, TypeOK
<1>2. ASSUME NEW d \in Conn, InHands(d)'
      PROVE  InHands(d) /\ owner'[d] = owner[d] /\ main'[owner[d]] = "hand"
    <2>1. InHands(d) /\ d # c
        BY <1>1, <1>2 DEF InHands
    <2>2. owner[d] # p
        BY <1>1, <2>1 DEF ConnInv, InHands
    <2>3. QED
        BY <1>1, <2>1, <2>2 DEF ConnInv, InHands
<1>3. \A q \in Proc : Open(q)' \subseteq Open(q)
    BY <1>1 DEF Open
<1>4. QED
    BY <1>1, <1>2, <1>3, KeepsConn DEF ConnKeeps, ConnInv

\* The steps of ListenAndServe.
LEMMA MainConn ==
    ASSUME TypeOK, PhaseInv, ConnInv, NEW p \in Proc, Main(p)
    PROVE  ConnInv'
<1>1. CASE GetListener(p)
    BY <1>1, GotoConn DEF GetListener, conns
<1>2. CASE CheckParent(p)
    BY <1>2, GotoConn DEF CheckParent, conns
<1>3. CASE TellParent(p) /\ ~Dies(p)
    BY <1>3, GotoConn DEF TellParent, conns
<1>4. CASE Serve(p)
    BY <1>4, GotoConn DEF Serve, conns
<1>5. CASE ListenerClosed(p)
    BY <1>5, GotoConn DEF ListenerClosed, conns
<1>6. ASSUME NEW c \in Conn, TrackConn(p, c) PROVE ConnInv'
    <2>1. UNCHANGED <<main, handler, end, owner>> /\ conn[c] = "hand"
        BY <1>6 DEF TrackConn, procs
    <2>2. \A d \in Conn : conn'[d] = (IF d = c THEN "added" ELSE conn[d])
        BY <1>6 DEF TrackConn, TypeOK
    <2>3. \A q \in Proc : end[q] = "quiet" => handler[q] = "end"
        BY DEF ConnInv
    <2>4. QED
        BY <2>1, <2>2, <2>3, EndsConn
<1>7. CASE GetListenerFails(p) \/ AcceptFails(p) \/ Terminate(p)
    BY <1>7, DiesConn DEF GetListenerFails, AcceptFails, Terminate
<1>8. QED
    BY <1>1, <1>2, <1>3, <1>4, <1>5, <1>6, <1>7, AcceptConn, StoreNewConn, DiesConn DEF Main

\* All steps.
LEMMA NextConn ==
    ASSUME TypeOK, PhaseInv, ChildInv, ConnInv, [Next]_vars
    PROVE  ConnInv'
<1>1. \A q \in Proc : end[q] = "quiet" => handler[q] = "end"
    BY DEF ConnInv
<1>2. CASE Operator \/ \E p \in Proc : Dropped(p)
    <2>1. UNCHANGED <<main, handler, end, conn, owner>>
        BY <1>2 DEF Operator, Dropped, conns
    <2>2. QED
        BY <1>1, <2>1, StillConn
<1>3. ASSUME NEW p \in Proc, Handler(p) \/ Main(p) PROVE ConnInv'
    BY <1>3, HandlerConn, MainConn
<1>4. ASSUME NEW p \in Proc, DefaultAction(p) PROVE ConnInv'
    BY <1>4, DiesConn DEF DefaultAction
<1>5. ASSUME NEW c \in Conn, ClientConnect(c) \/ ConnActive(c) \/ ConnClosed(c) PROVE ConnInv'
    <2>1. UNCHANGED <<main, handler, end>>
        BY <1>5 DEF ClientConnect, ConnActive, ConnClosed, procs
    <2>2. \A d \in Conn : \/ conn'[d] = conn[d] /\ owner'[d] = owner[d]
                          \/ conn'[d] \in {"queue", "gone"}
                          \/ conn[d] = "new" /\ conn'[d] = "active" /\ owner'[d] = owner[d]
        BY <1>5 DEF ClientConnect, ConnActive, ConnClosed, TypeOK
    <2>3. QED
        BY <1>1, <2>1, <2>2, EndsConn
<1>6. CASE UNCHANGED vars
    BY <1>1, <1>6, StillConn DEF vars, procs, conns
<1>7. QED
    BY <1>2, <1>3, <1>4, <1>5, <1>6 DEF Next

----------------------------------------------------------------------------
(* The theorems.                                                           *)

\* The phases go together at the start.
LEMMA InitGrace == Init => PhaseInv /\ ChildInv /\ HandOverInv /\ ConnInv
<1> SUFFICES ASSUME Init PROVE PhaseInv /\ ChildInv /\ HandOverInv /\ ConnInv
    OBVIOUS
<1>1. /\ main = [p \in Proc |-> IF p = 1 THEN "listen" ELSE "none"]
      /\ handler = [p \in Proc |-> "off"]
      /\ pending = [p \in Proc |-> {}]
      /\ state = [p \in Proc |-> "init"]
      /\ ln = [p \in Proc |-> "none"]
      /\ end = [p \in Proc |-> "no"]
      /\ conn = [c \in Conn |-> "off"]
    BY DEF Init
<1>2. PhaseInv
    BY <1>1 DEF PhaseInv, PhaseOf, Closing
<1>3. ChildInv
    BY <1>1, GraceAssumption DEF ChildInv, Proc
<1>4. HandOverInv
    BY <1>1 DEF HandOverInv, Told, Closing
<1>5. ConnInv
    BY <1>1 DEF ConnInv
<1>6. QED
    BY <1>2, <1>3, <1>4, <1>5

\* grace/server.go: phases, children, hand-over and connections go together as GraceInv says,
\* whatever the order of signals, steps and failures.
THEOREM GraceInvariant == Spec => []GraceInv
<1>1. Init => GraceInv
    BY InitGrace, InitType DEF GraceInv
<1>2. GraceInv /\ [Next]_vars => GraceInv'
    BY NextType, NextPhase, NextChild, NextHandOver, NextConn DEF GraceInv
<1>3. QED
    BY <1>1, <1>2, PTL DEF Spec

\* A step that no request of the operator and no failure excuses leaves a process that listens.
LEMMA UpKept ==
    ASSUME GraceInv, [Next]_vars, Up, ~excused'
    PROVE  Up'
<1>1. ~excused /\ TypeOK /\ PhaseInv /\ HandOverInv
    BY ExcusedStays DEF GraceInv
<1>2. PICK q \in Proc : ln[q] = "open"
    BY DEF Up
<1>3. CASE UNCHANGED ln
    BY <1>2, <1>3 DEF Up
<1>4. ASSUME NEW p \in Proc, Dies(p), ln[p] # "open" PROVE Up'
    <2>1. ln'[q] = ln[q]
        BY <1>1, <1>2, <1>4 DEF Dies, TypeOK
    <2>2. QED
        BY <1>2, <2>1 DEF Up
<1>5. CASE Operator
    BY <1>3, <1>5 DEF Operator
<1>6. ASSUME NEW p \in Proc, Handler(p) PROVE Up'
    <2>1. CASE CloseListener(p)
        <3>1. /\ handler[p] = "close"
              /\ \A r \in Proc : r # p => ln'[r] = ln[r]
            BY <1>1, <2>1 DEF CloseListener, TypeOK
        <3>2. Told(p)
            BY <1>1, <3>1 DEF Told, PhaseInv, PhaseOf, Alive, Closing
        <3>3. PICK r \in Proc : r > p /\ ln[r] = "open"
            BY <1>1, <3>2 DEF HandOverInv
        <3>4. r # p
            BY <3>3, GraceAssumption DEF Proc
        <3>5. QED
            BY <3>1, <3>3, <3>4 DEF Up
    <2>2. CASE ForkFails(p)
        BY <2>2 DEF ForkFails, Fails
    <2>3. QED
        BY <1>3, <1>6, <2>1, <2>2
        DEF Handler, Notify, Receive, Fork, CloseIdleConns, CheckConns, Select
<1>7. ASSUME NEW p \in Proc, Main(p) PROVE Up'
    <2>1. CASE GetListener(p)
        <3>1. \A r \in Proc : ln[r] = "open" => ln'[r] = "open"
            BY <1>1, <2>1 DEF GetListener, TypeOK
        <3>2. QED
            BY <1>2, <3>1 DEF Up
    <2>2. CASE GetListenerFails(p)
        BY <1>1, <1>4, <2>2 DEF GetListenerFails, PhaseInv, PhaseOf
    <2>3. CASE TellParent(p)
        BY <1>1, <1>3, <2>3 DEF TellParent, HandOverInv
    <2>4. CASE AcceptFails(p)
        BY <2>4 DEF AcceptFails, Fails
    <2>5. CASE Terminate(p)
        BY <1>1, <1>4, <2>5 DEF Terminate, PhaseInv, PhaseOf
    <2>6. QED
        BY <1>3, <1>7, <2>1, <2>2, <2>3, <2>4, <2>5
        DEF Main, CheckParent, Serve, Accept, TrackConn, StoreNew, ListenerClosed, procs
<1>8. ASSUME NEW p \in Proc, DefaultAction(p) \/ Dropped(p) PROVE Up'
    BY <1>3, <1>8 DEF DefaultAction, Dropped
<1>9. ASSUME NEW c \in Conn, ClientConnect(c) \/ ConnActive(c) \/ ConnClosed(c) PROVE Up'
    BY <1>3, <1>9 DEF ClientConnect, ConnActive, ConnClosed, procs
<1>10. CASE UNCHANGED vars
    BY <1>3, <1>10 DEF vars, procs
<1>11. QED
    BY <1>5, <1>6, <1>7, <1>8, <1>9, <1>10 DEF Next

\* grace/server.go:210: whatever the number of processes in the chain, the signals and the
\* order of the steps, somebody listens until the operator ends a process or something fails.
THEOREM GraceStaysUp == Spec => StaysUp
<1>1. GraceInv /\ [Next]_vars => [(Up /\ ~Up') => excused']_vars
    BY UpKept
<1>2. QED
    BY <1>1, GraceInvariant, PTL DEF Spec, StaysUp

\* A set whose members are all the same has one at most.
LEMMA AtMostOne ==
    ASSUME NEW S, \A c, d \in S : c = d
    PROVE  Cardinality(S) <= 1
<1>1. CASE S = {}
    BY <1>1, FS_EmptySet
<1>2. CASE S # {}
    <2>1. PICK c : c \in S
        BY <1>2
    <2>2. S = {c}
        BY <2>1
    <2>3. Cardinality({c}) = 1
        BY FS_Singleton
    <2>4. QED
        BY <2>2, <2>3
<1>3. QED
    BY <1>1, <1>2

\* grace/server.go:325: however many connections there are, an end of shutdown before its time
\* is over cuts one at most.
THEOREM GraceQuietEnd == Spec => QuietEnd
<1>1. GraceInv => \A p \in Proc : end[p] = "quiet" => Cardinality(Open(p)) <= 1
    BY AtMostOne DEF GraceInv, ConnInv
<1>2. GraceInv /\ [Next]_vars =>
          [\A p \in Proc : (main[p] = "term" /\ main'[p] = "dead" /\ end[p] = "quiet") =>
                Cardinality(Open(p)) <= 1]_vars
    BY <1>1
<1>3. QED
    BY <1>2, GraceInvariant, PTL DEF Spec, QuietEnd
=============================================================================
