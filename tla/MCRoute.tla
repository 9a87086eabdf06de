------------------------------ MODULE MCRoute ------------------------------
(* A small instance of Route for TLC. *)
EXTENDS Route, TLC

CONSTANTS a, b, a1, b1, pin, part, home, user, broken, h1, h2

Rule(n) == [NoRule EXCEPT !.name = n]
Plain == [allow |-> {}, target |-> "", tcpTarget |-> "", dns |-> "", match |-> "", hosts |-> << >>]

MCBlank == Plain

\* As the file is delivered: auto, tcp goes to the proxy; a rule with its own
\* proxy that refuses if it fails, and one that replaces an address.
MCFirst == [Plain EXCEPT !.tcpTarget = "remote",
    !.hosts = << [Rule(b) EXCEPT !.proxy = <<home>>, !.op = "deny", !.target = "local",
                          !.port = <<[from |-> 80, to |-> 88]>>],
                 [Rule(a1) EXCEPT !.ip = pin],
                 [Rule(part) EXCEPT !.match = "contain", !.port = <<[from |-> 80, to |-> 88]>>] >>]

\* Edited: a name with an address of its own; everything else is resolved
\* remotely, one name by its own proxy or without any, and tcp is refused.
MCSecond == [Plain EXCEPT !.dns = "remote", !.match = "contain", !.target = "remote",
    !.tcpTarget = "deny",
    !.hosts = << [Rule(a) EXCEPT !.ip = pin, !.target = "auto", !.allow = {user}],
                 [Rule(b) EXCEPT !.proxy = <<home>>, !.op = "last"] >>]

MCConfig == {MCBlank, MCFirst, MCSecond}

MCRequest ==
    {[proto |-> "http", name |-> a, ip |-> NoAddr, port |-> 80, user |-> user],
     [proto |-> "http", name |-> b, ip |-> NoAddr, port |-> 80, user |-> user],
     [proto |-> "https", name |-> b, ip |-> NoAddr, port |-> 443, user |-> user],
     [proto |-> "tcp", name |-> NoName, ip |-> a1, port |-> 80, user |-> user]}

\* Handshakes are only compared.
Sym == Permutations(Shake)

MCContains == {<<a, a>>, <<b, b>>, <<a, part>>}
MCDNS == [n \in {a, b} |-> IF n = a THEN {a1} ELSE {b1}]
=============================================================================
