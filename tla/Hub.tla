-------------------------------- MODULE Hub --------------------------------
(***************************************************************************)
(* nat/client_hub.go: the hub that owns the websocket clients of one end   *)
(* (ServerHub in the server process, ClientHub in the client process).     *)
(*                                                                         *)
(* One goroutine, run, serves three unbuffered channels: register,         *)
(* unregister and broadcast.  A caller that sends on one of them waits for *)
(* run to take the value, and run finishes the case before it takes the    *)
(* next one, so a call and the case that serves it are one step here.      *)
(* Every client has a buffered channel, send, drained by its writePump.    *)
(***************************************************************************)
EXTENDS Naturals, Sequences

CONSTANTS
    Client,     \* the *Client objects: one per websocket session
    Message,    \* what travels on a client's channel
    SendCap     \* SEND_CHAN_LEN, the capacity of a client's channel

VARIABLES
    clients,    \* h.clients, the registered clients
    send,       \* send[c]: what is buffered in c.send
    closed      \* the clients whose channel has been closed

hubVars == <<clients, send, closed>>

Fresh(c) == c \notin clients \cup closed

HubTypeOK ==
    /\ clients \subseteq Client
    /\ send \in [Client -> Seq(Message)]
    /\ closed \subseteq Client

HubInit ==
    /\ clients = {}
    /\ send = [c \in Client |-> << >>]
    /\ closed = {}

----------------------------------------------------------------------------
Full(c) == Len(send[c]) >= SendCap

\* `case client := <-h.register`: a client object is registered once, by the
\* goroutine that has just built it.
Register(c) ==
    /\ Fresh(c)
    /\ clients' = clients \cup {c}
    /\ UNCHANGED <<send, closed>>

\* Wrong variant, to see that MembersOpen notices it: the delete is forgotten.
Drop_KeepsMember(c) ==
    /\ closed' = closed \cup {c}
    /\ UNCHANGED <<clients, send>>

\* close(client.send) followed by delete(h.clients, client), the pair that
\* both ways of dropping a client perform.
Drop(c) ==
    /\ closed' = closed \cup {c}
    /\ clients' = clients \ {c}
    /\ UNCHANGED send

\* Wrong variant: the client is forgotten but its channel stays open.
Unregister_NoClose(c) ==
    /\ clients' = clients \ {c}
    /\ UNCHANGED <<send, closed>>

\* `case client := <-h.unregister`: a client the hub no longer knows is ignored.
Unregister(c) ==
    IF c \in clients THEN Drop(c) ELSE UNCHANGED hubVars

\* Wrong variants: the write goes to client.send without asking the hub; a full
\* channel costs the message, not the client.
Broadcast_Direct(c, m) ==
    /\ ~Full(c)
    /\ send' = [send EXCEPT ![c] = Append(@, m)]
    /\ UNCHANGED <<clients, closed>>

Broadcast_Sheds(c, m) ==
    IF c \in clients /\ ~Full(c)
    THEN send' = [send EXCEPT ![c] = Append(@, m)] /\ UNCHANGED <<clients, closed>>
    ELSE UNCHANGED hubVars

\* `case cmessage := <-h.broadcast`: the message is buffered for its client; a
\* client whose buffer is full is dropped, so that it cannot hold up the hub;
\* a message for an unknown client vanishes.
Broadcast(c, m) ==
    \/ /\ c \in clients /\ ~Full(c)
       /\ send' = [send EXCEPT ![c] = Append(@, m)]
       /\ UNCHANGED <<clients, closed>>
    \/ /\ c \in clients /\ Full(c)
       /\ Drop(c)
    \/ /\ c \notin clients
       /\ UNCHANGED hubVars

\* `message, ok := <-c.send` of writePump, ok: a closed channel still yields
\* what was buffered before it was closed.
Take(c) ==
    /\ send[c] # << >>
    /\ send' = [send EXCEPT ![c] = Tail(@)]
    /\ UNCHANGED <<clients, closed>>

\* The same receive, not ok.
Drained(c) == c \in closed /\ send[c] = << >>

----------------------------------------------------------------------------
HubNext ==
    \E c \in Client :
        \/ Register(c)
        \/ Unregister(c)
        \/ \E m \in Message : Broadcast(c, m)
        \/ Take(c)

HubSpec == HubInit /\ [][HubNext]_hubVars

----------------------------------------------------------------------------
\* The channel of a registered client is open.  run sends on and closes the
\* channels of registered clients only, so neither `close of closed channel`
\* nor `send on closed channel`, each a panic that ends the process, can occur:
\* this is what the comment at client_hub.go:55-56 wants of the hub.
MembersOpen == clients \cap closed = {}

\* A client that was dropped never comes back, and nothing more is buffered for
\* it: its writePump finishes what there is and stops.
ClosedIsFinal ==
    [][\A c \in closed :
          /\ c \in closed'
          /\ Len(send'[c]) <= Len(send[c])]_hubVars
=============================================================================
