------------------------------- MODULE Relay -------------------------------
(***************************************************************************)
(* What the NAT relay promises of one direction of one request, a stream:  *)
(* a pipe that may be cut, after which nothing more comes out.  Chunks come *)
(* out in the order they went in, without gap, repetition or stranger, and *)
(* the reader sees an orderly end only when the writer has closed and      *)
(* everything has come out.  The relay does not promise delivery.          *)
(***************************************************************************)
EXTENDS Naturals, Sequences

CONSTANTS
    Stream,         \* the streams
    Chunk(_, _)     \* Chunk(x, i): the i-th chunk of stream x

VARIABLES
    in,         \* in[x]: how many chunks have been written
    shut,       \* shut[x]: the writer has closed
    out,        \* out[x]: the chunks the reader has got
    end         \* end[x]: "open", or how the reader's end came: "eof", "cut"

relayVars == <<in, shut, out, end>>

RelayInit ==
    /\ in = [x \in Stream |-> 0]
    /\ shut = [x \in Stream |-> FALSE]
    /\ out = [x \in Stream |-> << >>]
    /\ end = [x \in Stream |-> "open"]

Write(x) ==
    /\ ~shut[x]
    /\ in' = [in EXCEPT ![x] = @ + 1]
    /\ UNCHANGED <<shut, out, end>>

Shut(x) ==
    /\ ~shut[x]
    /\ shut' = [shut EXCEPT ![x] = TRUE]
    /\ UNCHANGED <<in, out, end>>

Read(x) ==
    /\ end[x] = "open" /\ Len(out[x]) < in[x]
    /\ out' = [out EXCEPT ![x] = Append(@, Chunk(x, Len(@) + 1))]
    /\ UNCHANGED <<in, shut, end>>

Eof(x) ==
    /\ end[x] = "open" /\ shut[x] /\ Len(out[x]) = in[x]
    /\ end' = [end EXCEPT ![x] = "eof"]
    /\ UNCHANGED <<in, shut, out>>

\* A cut may come at any time; the loss of a process cuts many streams at once.
Cut(X) ==
    /\ \A x \in X : end[x] = "open"
    /\ end' = [x \in Stream |-> IF x \in X THEN "cut" ELSE end[x]]
    /\ UNCHANGED <<in, shut, out>>

RelayNext ==
    \/ \E x \in Stream : Write(x) \/ Shut(x) \/ Read(x) \/ Eof(x)
    \/ \E X \in SUBSET Stream : Cut(X)

RelaySpec == RelayInit /\ [][RelayNext]_relayVars
=============================================================================
