------------------------------- MODULE Grace -------------------------------
(***************************************************************************)
(* The graceful restart of package grace: processes that hand one listening *)
(* socket down a chain, the signals that drive them, and the connections    *)
(* that are open meanwhile.                                                *)
(*                                                                         *)
(* Process 1 is started by the operator, process p + 1 is forked by process *)
(* p; each has one server (anyproxy.go makes one).  A process has two       *)
(* goroutines of interest.  main runs ListenAndServe: take or open the      *)
(* socket, tell the parent, accept, wait for the end.  handleSignals        *)
(* receives signals and runs fork and shutdown.                            *)
(*                                                                         *)
(* sigChan has no buffer: a signal that arrives while handleSignals is not  *)
(* waiting is dropped, and one that arrives before signal.Notify was called *)
(* ends the process, as it does by default.                                *)
(*                                                                         *)
(* The duplicate that ln.File() makes for a child is closed by a finalizer  *)
(* at some time; it accepts nothing and is left out.                       *)
(***************************************************************************)
EXTENDS Naturals, FiniteSets

CONSTANTS
    MaxConn,    \* bound: connections that clients make
    MaxProc,    \* bound: processes of the chain
    MaxTick,    \* TermTimeout in intervals of shutdown's ticker
    MaxSignal,  \* bound: signals the operator sends
    MaxFail     \* bound: system calls that fail

ASSUME GraceAssumption ==
    /\ MaxProc \in Nat \ {0} /\ MaxTick \in Nat /\ MaxSignal \in Nat /\ MaxFail \in Nat
    /\ MaxConn \in Nat

Proc == 1 .. MaxProc
Conn == 1 .. MaxConn     \* in the order in which clients connect
Signals == {"HUP", "INT", "TERM"}

VARIABLES
    main,       \* main[p]: where ListenAndServe is
    handler,    \* handler[p]: where handleSignals is
    pending,    \* pending[p]: signals the runtime has not passed on yet
    state,      \* state[p]: srv.state
    ln,         \* ln[p]: "none", "open" or "closed"
    inherited,  \* inherited[p]: the process was given an open socket
    forked,     \* forked[p]: runningServersForked
    ticks,      \* ticks[p]: intervals shutdown has waited
    end,        \* end[p]: how shutdown ended, "no", "quiet" or "forced"
    conn,       \* conn[c]: what became of a connection
    owner,      \* owner[c]: the process that accepted it, 0 if none
    signals,    \* signals the operator has sent
    fails,      \* system calls that failed
    excused,    \* the operator asked for an end, or something failed
    missed      \* missed[p]: a SIGTERM had no effect on process p

procs == <<main, handler, pending, state, ln, inherited, forked, ticks, end>>
conns == <<conn, owner>>
env   == <<signals, fails, excused, missed>>
vars  == <<procs, conns, env>>

Alive(p) == main[p] \notin {"none", "dead"}
Up == \E p \in Proc : ln[p] = "open"

\* The socket exists: a process listens on it, or was given it and is about to.
Held == Up \/ \E p \in Proc : main[p] = "listen" /\ inherited[p]

\* srv.activeConn
Tracked(p) == {c \in Conn : owner[c] = p /\ conn[c] \in {"added", "new", "active"}}

TypeOK ==
    /\ main \in [Proc -> {"none", "listen", "child", "tell", "run", "accept", "hand", "term",
                          "dead"}]
    /\ handler \in [Proc -> {"off", "wait", "fork", "close", "poll", "check", "select", "end",
                             "dead"}]
    /\ pending \in [Proc -> SUBSET Signals]
    /\ state \in [Proc -> {"init", "running", "shutting", "terminate"}]
    /\ ln \in [Proc -> {"none", "open", "closed"}]
    /\ inherited \in [Proc -> BOOLEAN] /\ forked \in [Proc -> BOOLEAN]
    /\ ticks \in [Proc -> 0 .. MaxTick]
    /\ end \in [Proc -> {"no", "quiet", "forced"}]
    /\ conn \in [Conn -> {"off", "queue", "hand", "added", "new", "active", "gone"}]
    /\ owner \in [Conn -> 0 .. MaxProc]
    /\ signals \in 0 .. MaxSignal /\ fails \in 0 .. MaxFail /\ excused \in BOOLEAN
    /\ missed \in [Proc -> BOOLEAN]

Init ==
    /\ main = [p \in Proc |-> IF p = 1 THEN "listen" ELSE "none"]
    /\ handler = [p \in Proc |-> "off"]
    /\ pending = [p \in Proc |-> {}]
    /\ state = [p \in Proc |-> "init"]
    /\ ln = [p \in Proc |-> "none"]
    /\ inherited = [p \in Proc |-> FALSE]
    /\ forked = [p \in Proc |-> FALSE]
    /\ ticks = [p \in Proc |-> 0]
    /\ end = [p \in Proc |-> "no"]
    /\ conn = [c \in Conn |-> "off"]
    /\ owner = [c \in Conn |-> 0]
    /\ signals = 0 /\ fails = 0 /\ excused = FALSE /\ missed = [p \in Proc |-> FALSE]

----------------------------------------------------------------------------
(* The operating system.                                                   *)

\* Clients in the socket's queue are refused when its last holder closes it.
Refuse(c) == IF conn[c] = "queue" /\ ~Held' THEN "gone" ELSE conn[c]

\* The connections that process p has accepted and that have not ended.
Open(p) == {c \in Conn : owner[c] = p /\ conn[c] \in {"hand", "added", "new", "active"}}

\* Process p ends, with all that it has.
Dies(p) ==
    /\ main' = [main EXCEPT ![p] = "dead"]
    /\ handler' = [handler EXCEPT ![p] = "dead"]
    /\ pending' = [pending EXCEPT ![p] = {}]
    /\ state' = [state EXCEPT ![p] = "terminate"]
    /\ ln' = [ln EXCEPT ![p] = "closed"]
    /\ inherited' = [inherited EXCEPT ![p] = FALSE]
    /\ forked' = [forked EXCEPT ![p] = FALSE]
    /\ ticks' = [ticks EXCEPT ![p] = 0]
    /\ end' = [end EXCEPT ![p] = "no"]
    /\ conn' = [c \in Conn |-> IF c \in Open(p) THEN "gone" ELSE Refuse(c)]
    /\ owner' = [c \in Conn |-> IF c \in Open(p) THEN 0 ELSE owner[c]]

\* A signal on its way to process p, which may have ended.
Raise(p, s) ==
    IF Alive(p) THEN pending' = [pending EXCEPT ![p] = @ \cup {s}] ELSE UNCHANGED pending

\* The operator sends HUP to restart, INT or TERM to stop.
Operator ==
    /\ signals < MaxSignal
    /\ signals' = signals + 1
    /\ \E p \in Proc, s \in Signals :
        /\ Alive(p) /\ (s = "HUP" => p < MaxProc)
        /\ Raise(p, s)
        /\ excused' = (excused \/ s # "HUP")
    /\ UNCHANGED <<main, handler, state, ln, inherited, forked, ticks, end, conns, fails,
                   missed>>

\* A signal that comes before signal.Notify: the default action.
DefaultAction(p) ==
    /\ handler[p] = "off" /\ pending[p] # {}
    /\ Dies(p)
    /\ excused' = TRUE
    /\ UNCHANGED <<signals, fails, missed>>

\* A signal that comes while handleSignals does not wait for one.
Dropped(p) ==
    /\ handler[p] \notin {"off", "wait", "dead"}
    /\ \E s \in pending[p] :
        /\ pending' = [pending EXCEPT ![p] = @ \ {s}]
        /\ missed' = [missed EXCEPT ![p] = @ \/ s = "TERM"]
    /\ UNCHANGED <<main, handler, state, ln, inherited, forked, ticks, end, conns, signals,
                   fails, excused>>

Fails == fails < MaxFail /\ fails' = fails + 1 /\ excused' = TRUE /\ UNCHANGED <<signals, missed>>

ClientConnect(c) ==
    /\ conn[c] = "off" /\ Held
    /\ \A b \in 1 .. c - 1 : conn[b] # "off"
    /\ conn' = [conn EXCEPT ![c] = "queue"]
    /\ UNCHANGED <<procs, owner, env>>

----------------------------------------------------------------------------
(* handleSignals.                                                          *)

Notify(p) ==
    /\ Alive(p) /\ handler[p] = "off" /\ pending[p] = {}
    /\ handler' = [handler EXCEPT ![p] = "wait"]
    /\ UNCHANGED <<main, pending, state, ln, inherited, forked, ticks, end, conns, env>>

\* Wrong variant: shutdown in whatever state the server is.
Receive_AnyState(p) ==
    /\ handler[p] = "wait"
    /\ \E s \in pending[p] :
        /\ pending' = [pending EXCEPT ![p] = @ \ {s}]
        /\ IF s = "HUP"
           THEN handler' = [handler EXCEPT ![p] = "fork"] /\ UNCHANGED <<state, end>>
           ELSE /\ state' = [state EXCEPT ![p] = "shutting"]
                /\ end' = [end EXCEPT ![p] = IF s = "INT" THEN "forced" ELSE "no"]
                /\ handler' = [handler EXCEPT ![p] = "close"]
    /\ UNCHANGED <<main, ln, inherited, forked, ticks, conns, env>>

\* A signal is received.  shutdown returns at once unless the server is running;
\* an interrupt's shutdown(0) does not wait for connections.
Receive(p) ==
    /\ handler[p] = "wait"
    /\ \E s \in pending[p] :
        /\ pending' = [pending EXCEPT ![p] = @ \ {s}]
        /\ \/ /\ s = "HUP"
              /\ handler' = [handler EXCEPT ![p] = "fork"]
              /\ UNCHANGED <<state, end, missed>>
           \/ /\ s # "HUP" /\ state[p] = "running"
              /\ state' = [state EXCEPT ![p] = "shutting"]
              /\ end' = [end EXCEPT ![p] = IF s = "INT" THEN "forced" ELSE "no"]
              /\ handler' = [handler EXCEPT ![p] = "close"]
              /\ UNCHANGED missed
           \/ /\ s # "HUP" /\ state[p] # "running"
              /\ missed' = [missed EXCEPT ![p] = @ \/ s = "TERM"]
              /\ UNCHANGED <<handler, state, end>>
    /\ UNCHANGED <<main, ln, inherited, forked, ticks, conns, signals, fails, excused>>

\* Wrong variant: the parent does not wait for the word of its child.
Fork_Leaves(p) ==
    /\ handler[p] = "fork"
    /\ state' = [state EXCEPT ![p] = "shutting"]
    /\ handler' = [handler EXCEPT ![p] = "close"]
    /\ forked' = [forked EXCEPT ![p] = TRUE]
    /\ main' = [main EXCEPT ![p + 1] = "listen"]
    /\ inherited' = [inherited EXCEPT ![p + 1] = (ln[p] = "open")]
    /\ UNCHANGED <<pending, ln, ticks, end, conns, env>>

\* fork: a child that is given the socket, unless there was one before.
Fork(p) ==
    /\ handler[p] = "fork"
    /\ handler' = [handler EXCEPT ![p] = "wait"]
    /\ \/ forked[p] /\ UNCHANGED <<main, inherited, forked>>
       \/ /\ ~forked[p]
          /\ forked' = [forked EXCEPT ![p] = TRUE]
          /\ main' = [main EXCEPT ![p + 1] = "listen"]
          /\ inherited' = [inherited EXCEPT ![p + 1] = (ln[p] = "open")]
    /\ UNCHANGED <<pending, state, ln, ticks, end, conns, env>>

\* cmd.Start fails: log.Fatalf ends the process.
ForkFails(p) ==
    /\ handler[p] = "fork" /\ ~forked[p]
    /\ Fails /\ Dies(p)

\* shutdown closes the listener.
CloseListener(p) ==
    /\ handler[p] = "close"
    /\ ln' = [ln EXCEPT ![p] = "closed"]
    /\ UNCHANGED <<main, pending, state, inherited, forked, ticks, end, owner, env>>
    /\ conn' = [c \in Conn |-> Refuse(c)]
    /\ handler' = [handler EXCEPT ![p] = IF end[p] = "forced" THEN "end" ELSE "poll"]

\* closeIdleConns: a connection that is still new after five seconds is idle.
CloseIdleConns(p) ==
    /\ handler[p] = "poll"
    /\ \E I \in SUBSET {c \in Tracked(p) : conn[c] = "new"} :
        /\ conn' = [c \in Conn |-> IF c \in I THEN "gone" ELSE conn[c]]
        /\ owner' = [c \in Conn |-> IF c \in I THEN 0 ELSE owner[c]]
    /\ handler' = [handler EXCEPT ![p] = "check"]
    /\ UNCHANGED <<main, pending, state, ln, inherited, forked, ticks, end, env>>

\* Wrong variant: no look at the connections.
CheckConns_Never(p) ==
    /\ handler[p] = "check"
    /\ handler' = [handler EXCEPT ![p] = "end"]
    /\ end' = [end EXCEPT ![p] = "quiet"]
    /\ UNCHANGED <<main, pending, state, ln, inherited, forked, ticks, conns, env>>

\* len(srv.activeConn) == 0, read without the lock.
CheckConns(p) ==
    /\ handler[p] = "check"
    /\ \/ /\ Tracked(p) = {}
          /\ handler' = [handler EXCEPT ![p] = "end"]
          /\ end' = [end EXCEPT ![p] = "quiet"]
       \/ /\ Tracked(p) # {}
          /\ handler' = [handler EXCEPT ![p] = "select"]
          /\ UNCHANGED end
    /\ UNCHANGED <<main, pending, state, ln, inherited, forked, ticks, conns, env>>

\* Wrong variant: shutdown waits as long as it takes.
Select_NoEnd(p) ==
    /\ handler[p] = "select"
    /\ ticks' = [ticks EXCEPT ![p] = @ + 1]
    /\ handler' = [handler EXCEPT ![p] = "poll"]
    /\ UNCHANGED <<main, pending, state, ln, inherited, forked, end, conns, env>>

\* The next tick, or the end of the time.
Select(p) ==
    /\ handler[p] = "select"
    /\ \/ /\ ticks[p] < MaxTick
          /\ ticks' = [ticks EXCEPT ![p] = @ + 1]
          /\ handler' = [handler EXCEPT ![p] = "poll"]
          /\ UNCHANGED end
       \/ /\ ticks[p] = MaxTick
          /\ handler' = [handler EXCEPT ![p] = "end"]
          /\ end' = [end EXCEPT ![p] = "forced"]
          /\ UNCHANGED ticks
    /\ UNCHANGED <<main, pending, state, ln, inherited, forked, conns, env>>

----------------------------------------------------------------------------
(* ListenAndServe.                                                         *)

Goto(p, pc) == main' = [main EXCEPT ![p] = pc]

\* getListener: a child takes the socket it was given.
GetListener(p) ==
    /\ main[p] = "listen"
    /\ p > 1 => inherited[p]
    /\ ln' = [ln EXCEPT ![p] = "open"]
    /\ Goto(p, "child")
    /\ UNCHANGED <<handler, pending, state, inherited, forked, ticks, end, conns, env>>

\* getListener fails and the process ends, at once if it was given no socket.
GetListenerFails(p) ==
    /\ main[p] = "listen"
    /\ IF p > 1 /\ ~inherited[p] THEN UNCHANGED env ELSE Fails
    /\ Dies(p)

\* A child whose parent is gone has the parent 1.
CheckParent(p) ==
    /\ main[p] = "child"
    /\ Goto(p, IF p > 1 /\ Alive(p - 1) THEN "tell" ELSE "run")
    /\ UNCHANGED <<handler, pending, state, ln, inherited, forked, ticks, end, conns, env>>

\* Wrong variant: the parent is not told.
TellParent_Silent(p) ==
    /\ main[p] = "tell"
    /\ Goto(p, "run")
    /\ UNCHANGED <<handler, pending, state, ln, inherited, forked, ticks, end, conns, env>>

\* SIGTERM to the parent.  If it has ended meanwhile, Signal fails and so does
\* ListenAndServe.
TellParent(p) ==
    /\ main[p] = "tell"
    /\ \/ /\ Alive(p - 1) /\ Raise(p - 1, "TERM")
          /\ Goto(p, "run")
          /\ UNCHANGED <<handler, state, ln, inherited, forked, ticks, end, conns, env>>
       \/ /\ ~Alive(p - 1) /\ Dies(p)
          /\ UNCHANGED env

\* Serve: the server is running.
Serve(p) ==
    /\ main[p] = "run"
    /\ state' = [state EXCEPT ![p] = "running"]
    /\ Goto(p, "accept")
    /\ UNCHANGED <<handler, pending, ln, inherited, forked, ticks, end, conns, env>>

Accept(p, c) ==
    /\ main[p] = "accept" /\ ln[p] = "open" /\ conn[c] = "queue"
    /\ conn' = [conn EXCEPT ![c] = "hand"]
    /\ owner' = [owner EXCEPT ![c] = p]
    /\ Goto(p, "hand")
    /\ UNCHANGED <<handler, pending, state, ln, inherited, forked, ticks, end, env>>

\* newConn and setState(StateNew): tracked first ...
TrackConn(p, c) ==
    /\ main[p] = "hand" /\ owner[c] = p /\ conn[c] = "hand"
    /\ conn' = [conn EXCEPT ![c] = "added"]
    /\ UNCHANGED <<procs, owner, env>>

\* Wrong variant: the connection is served in the goroutine that accepts.
StoreNew_NoGo(p, c) ==
    /\ main[p] = "hand" /\ owner[c] = p /\ conn[c] = "added"
    /\ conn' = [conn EXCEPT ![c] = "new"]
    /\ UNCHANGED <<procs, owner, env>>

\* ... then given its state, and its goroutine starts.
StoreNew(p, c) ==
    /\ main[p] = "hand" /\ owner[c] = p /\ conn[c] = "added"
    /\ conn' = [conn EXCEPT ![c] = "new"]
    /\ Goto(p, "accept")
    /\ UNCHANGED <<handler, pending, state, ln, inherited, forked, ticks, end, owner, env>>

\* AcceptTCP reports the closed listener.
ListenerClosed(p) ==
    /\ main[p] = "accept" /\ ln[p] = "closed"
    /\ Goto(p, "term")
    /\ UNCHANGED <<handler, pending, state, ln, inherited, forked, ticks, end, conns, env>>

\* Any other error, unless it is temporary, ends Serve and the process.
AcceptFails(p) ==
    /\ main[p] = "accept" /\ ln[p] = "open"
    /\ Fails /\ Dies(p)

\* terminalChan: shutdown meets Serve, main returns, the process ends.
Terminate(p) ==
    /\ main[p] = "term" /\ handler[p] = "end"
    /\ Dies(p) /\ UNCHANGED env

----------------------------------------------------------------------------
(* conn.serve.                                                             *)

ConnActive(c) ==
    /\ conn[c] = "new"
    /\ conn' = [conn EXCEPT ![c] = "active"]
    /\ UNCHANGED <<procs, owner, env>>

\* The handler has returned.
ConnClosed(c) ==
    /\ conn[c] = "active"
    /\ conn' = [conn EXCEPT ![c] = "gone"]
    /\ owner' = [owner EXCEPT ![c] = 0]
    /\ UNCHANGED <<procs, env>>

----------------------------------------------------------------------------
Handler(p) ==
    \/ Notify(p) \/ Receive(p) \/ Fork(p) \/ ForkFails(p) \/ CloseListener(p)
    \/ CloseIdleConns(p) \/ CheckConns(p) \/ Select(p)

Main(p) ==
    \/ GetListener(p) \/ GetListenerFails(p) \/ CheckParent(p) \/ TellParent(p) \/ Serve(p)
    \/ (\E c \in Conn : Accept(p, c) \/ TrackConn(p, c) \/ StoreNew(p, c))
    \/ ListenerClosed(p) \/ AcceptFails(p) \/ Terminate(p)

Next ==
    \/ Operator
    \/ \E p \in Proc : Handler(p) \/ Main(p) \/ DefaultAction(p) \/ Dropped(p)
    \/ \E c \in Conn : ClientConnect(c) \/ ConnActive(c) \/ ConnClosed(c)

Spec == Init /\ [][Next]_vars

\* The goroutines run.  Clients owe nothing: a handler may never return.
Fairness ==
    /\ \A p \in Proc : WF_vars(Handler(p)) /\ WF_vars(Main(p)) /\ WF_vars(DefaultAction(p))
    /\ \A c \in Conn : WF_vars(ConnActive(c))

FairSpec == Spec /\ Fairness
----------------------------------------------------------------------------
\* server.go:210: the parent is told to end when the child listens.  Whatever the
\* signals and the order of the steps, there is a process that listens, until the
\* operator ends one or something fails.
StaysUp == [][(Up /\ ~Up') => excused']_vars

\* server.go:325: shutdown waits for the connections it knows of.  When it ends
\* before its time is over, one connection at most is cut: the one that was
\* accepted before the listener was closed and tracked after the last look.
QuietEnd ==
    [][\A p \in Proc :
        (main[p] = "term" /\ main'[p] = "dead" /\ end[p] = "quiet") =>
            Cardinality(Open(p)) <= 1]_vars

\* server.go:306: a shutdown that has begun ends the process, also when a client
\* stays connected for ever.
ShutdownEnds == \A p \in Proc : state[p] = "shutting" ~> main[p] = "dead"

\* server.go:210: once the child is running its parent ends, so that two
\* generations do not serve side by side for ever; unless the child's only SIGTERM
\* came while handleSignals was busy or the parent was not running yet.
HandOverEnds ==
    \A p \in 1 .. MaxProc - 1 : state[p + 1] = "running" ~> (main[p] = "dead" \/ missed[p])

\* A client in the queue of the socket is accepted or refused, although the
\* process that listened when it came may have closed its listener.
QueueMoves == \A c \in Conn : conn[c] = "queue" ~> conn[c] # "queue"
=============================================================================
