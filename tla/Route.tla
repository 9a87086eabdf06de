------------------------------- MODULE Route -------------------------------
(***************************************************************************)
(* How a tunnel finds its server: handshake of proto/tunnel.go, the cache    *)
(* that handshakes share (ResolveCache), and the configuration, which the    *)
(* watcher of utils/conf replaces while they run.                          *)
(*                                                                         *)
(* A handshake reads the pointer RouterConfig anew at each use; a step here  *)
(* is what happens between two reads of something shared, or between two     *)
(* answers of the network.  The configuration is data: rules in the order of *)
(* the file, each with its own values, "" where it leaves one to the default. *)
(*                                                                         *)
(* The reads come in two steps, findHost and then all the defaults, so that   *)
(* the two may be of different configurations; within a step the code reads  *)
(* the pointer several times too.                                          *)
(***************************************************************************)
EXTENDS ResolveCache, Sequences

CONSTANTS
    Shake,          \* tunnels that may be in their handshake at once
    Config,         \* configurations, the values a file may have
    Blank,          \* the one that an empty file has, one of Config
    Broken,         \* the content of a file that cannot be parsed
    First,          \* the configuration that the program starts with
    Request,        \* requests: proto, name, ip, port, user
    Contains,       \* pairs of a text and a part of it
    DNS,            \* DNS[n]: the addresses that may be answered
    GlobalProxy,    \* config.ProxyServer, or NoProxy
    NoProxy,
    HttpScheme,     \* proxies whose scheme is http
    BadScheme,      \* proxies whose scheme is none of socks5, tunnel and http
    NoAddr,         \* an empty address; NoName may be the same, as both are "" in the program
    MaxWork         \* bound: handshakes and edits of the file, each of which counts two

NoRule == [name |-> NoName, match |-> "", target |-> "", dns |-> "", ip |-> NoAddr,
           port |-> << >>, proxy |-> << >>, op |-> "", allow |-> {}]

Rules == {NoRule} \cup UNION {{c.hosts[i] : i \in DOMAIN c.hosts} : c \in Config}

\* getProxyServer: the proxies of a rule, each of which may be the one that answers.
Own(rule) == {rule.proxy[i] : i \in DOMAIN rule.proxy}

Proxy == {NoProxy, GlobalProxy} \cup UNION {Own(rule) : rule \in Rules}

\* What target and dns may say, in the files or by default.
Text ==
    {"", "auto", "local", "remote"} \cup (UNION {{rule.target, rule.dns} : rule \in Rules})
                                    \cup (UNION {{c.target, c.tcpTarget, c.dns} : c \in Config})

ASSUME RouteAssumption ==
    /\ {Blank, First} \subseteq Config /\ MaxWork \in Nat
    /\ NoAddr \notin Addr
    /\ DNS \in [Name -> SUBSET Addr]
    /\ \A r \in Request : /\ r.name \in Name \cup {NoName} /\ r.ip \in Addr \cup {NoAddr}
                          /\ r.port \in Nat
    /\ \A c \in Config : c.hosts \in Seq(Rules)
    /\ \A rule \in Rules : /\ rule.ip \in Addr \cup {NoAddr}
                           /\ rule.port \in Seq([from : Nat, to : Nat])
                           /\ rule.proxy \in Seq(Proxy) /\ NoProxy \notin Own(rule)

VARIABLES
    file,           \* the content of the configuration file
    event,          \* the watcher has a write event to read
    loaded,         \* what the watcher has read, <<>> if nothing
    router,         \* conf.RouterConfig
    edits,
    hs,             \* hs[h]: the local variables of a handshake
    begun,          \* handshakes so far
    dead,           \* dead[n]: until when n is known not to answer
    raced           \* raced[h]: h asked the DNS before that became known

config == <<file, event, loaded, router, edits>>
ghosts == <<dead, raced>>
routeVars == <<cacheVars, config, hs, begun, ghosts>>

Nothing == [how |-> "none", to |-> NoName, by |-> NoProxy, port |-> 0, looked |-> FALSE]

Idle == [pc |-> "idle", req |-> << >>, rule |-> NoRule, target |-> "", dns |-> "",
         ip |-> NoAddr, state |-> "new", port |-> 0, proxy |-> NoProxy, seen |-> {},
         looked |-> FALSE, out |-> Nothing]

At(h, pc) == hs[h].pc = pc

Phase == {"idle", "find", "defaults", "resolve", "ask", "store", "proxy", "auto",
       "fail", "remote", "direct", "done"}

\* A tunnel ends up with an error, a connection of its own, one that a proxy was asked
\* for, or (plain) a proxy that was asked for nothing: it gets the request as it came.
Outcome == [how : {"none", "error", "direct", "proxy", "plain"},
            to : Name \cup Addr \cup {NoName, NoAddr}, by : Proxy, port : Nat, looked : BOOLEAN]

Local == [pc : Phase, req : Request \cup {<< >>}, rule : Rules, target : Text, dns : Text,
          ip : Addr \cup {NoAddr}, state : {"new", "fail", "none"}, port : Nat, proxy : Proxy,
          seen : SUBSET Config, looked : BOOLEAN, out : Outcome]

RouteTypeOK ==
    /\ CacheTypeOK
    /\ file \in Config \cup {Broken} /\ event \in BOOLEAN
    /\ loaded \in {<< >>} \cup {<<c>> : c \in Config}
    /\ router \in Config /\ edits \in 0 .. MaxWork
    /\ hs \in [Shake -> Local] /\ \A h \in Shake : At(h, "idle") \/ hs[h].req \in Request
    /\ begun \in 0 .. MaxWork
    /\ dead \in [Name -> Nat]
    /\ raced \in [Shake -> BOOLEAN]

RouteInit ==
    /\ CacheInit
    /\ file = First /\ router = First /\ event = FALSE /\ loaded = << >> /\ edits = 0
    /\ hs = [h \in Shake |-> Idle]
    /\ begun = 0
    /\ dead = [n \in Name |-> 0] /\ raced = [h \in Shake |-> FALSE]

Time ==
    /\ Tick
    /\ UNCHANGED <<ips, keys, next, config, hs, begun, ghosts>>

----------------------------------------------------------------------------
(* conf.notify.                                                            *)

\* An editor empties the file and writes it, with an event each time.
Edit ==
    /\ 2 * begun + edits < MaxWork
    /\ edits' = edits + 1
    /\ file' \in IF edits % 2 = 0 THEN {Blank, Broken} ELSE Config \ {Blank}
    /\ event' = TRUE
    /\ UNCHANGED <<loaded, router, cacheVars, hs, begun, ghosts>>

\* LoadRouterConfig: the configuration, or nothing if it cannot be parsed.
LoadRouterConfig(content) == IF content \in Config THEN <<content>> ELSE << >>

\* A write event: load the file.
ReadFile ==
    /\ event /\ loaded = << >>
    /\ event' = FALSE
    /\ loaded' = LoadRouterConfig(file)
    /\ UNCHANGED <<file, router, edits, cacheVars, hs, begun, ghosts>>

\* Handshakes that run have seen configuration c from now on.
Seen(c) ==
    hs' = [h \in Shake |-> [hs[h] EXCEPT !.seen = IF hs[h].pc \in {"idle", "done"} THEN @
                                                  ELSE @ \cup {c}]]

\* Wrong variant: events that came while the file was read are dropped.
Replace_Drops ==
    /\ loaded # << >>
    /\ router' = loaded[1]
    /\ loaded' = << >>
    /\ event' = FALSE
    /\ Seen(loaded[1])
    /\ UNCHANGED <<file, edits, cacheVars, begun, ghosts>>

Replace ==
    /\ loaded # << >>
    /\ router' = loaded[1]
    /\ loaded' = << >>
    /\ Seen(loaded[1])
    /\ UNCHANGED <<file, event, edits, cacheVars, begun, ghosts>>

----------------------------------------------------------------------------
(* What the configuration says.                                            *)

Or(v, w, d) == IF v # "" THEN v ELSE IF w # "" THEN w ELSE d

Matches(rule, c, r) ==
    LET way == Or(rule.match, c.match, "equal")
    IN  \/ way = "equal" /\ (rule.name = r.name \/ rule.name = r.ip)
        \/ way = "contain" /\ (<<r.name, rule.name>> \in Contains \/ <<r.ip, rule.name>> \in Contains)

\* The first rule that matches.
FindHost(c, r) ==
    LET I == {i \in DOMAIN c.hosts : Matches(c.hosts[i], c, r)}
    IN  IF I = {} THEN NoRule ELSE c.hosts[CHOOSE i \in I : \A j \in I : i <= j]

\* isAllowed: no restriction, or the client is among those that are named.
IsAllowed(allows, user) == allows = {} \/ user \in allows

\* config.ProxyServer, which is set once when the program starts.
ProxyServer == GlobalProxy

Default(c, r) == IF r.proto = "tcp" THEN c.tcpTarget ELSE c.target

\* The first port that is mapped.
MapPort(ports, p) ==
    LET I == {i \in DOMAIN ports : ports[i].from = p}
    IN  IF I = {} THEN p ELSE ports[CHOOSE i \in I : \A j \in I : i <= j].to

----------------------------------------------------------------------------
(* handshake.                                                              *)

Elsewhere == UNCHANGED <<config, begun, now>>
CacheAlone == UNCHANGED <<ips, keys, next>>

\* The handshake ends; what it found stays for the properties.
Finish(l, how, to, by) ==
    [Idle EXCEPT !.pc = "done", !.req = l.req, !.seen = l.seen,
                 !.out = [how |-> how, to |-> to, by |-> by, port |-> l.port, looked |-> l.looked]]

Step(h, l) == hs' = [hs EXCEPT ![h] = l]

BeginShake(h) ==
    /\ hs[h].pc \in {"idle", "done"} /\ 2 * begun + edits + 1 < MaxWork
    /\ begun' = begun + 1
    /\ \E r \in Request :
        Step(h, [Idle EXCEPT !.pc = "find", !.req = r, !.ip = r.ip, !.port = r.port, !.seen = {router}])
    /\ raced' = [raced EXCEPT ![h] = FALSE]
    /\ UNCHANGED <<config, cacheVars, dead>>

Find(h) ==
    /\ At(h, "find")
    /\ Step(h, [hs[h] EXCEPT !.pc = "defaults", !.rule = FindHost(router, hs[h].req)])
    /\ Elsewhere /\ CacheAlone /\ UNCHANGED ghosts

\* isAllowed, confTarget, confDNS, and the address that the rule itself may give.
ReadDefaults(h) ==
    /\ At(h, "defaults")
    /\ LET l == hs[h]
           allows == l.rule.allow \cup router.allow
           dns == Or(l.rule.dns, router.dns, "local")
           local == l.rule.ip = NoAddr /\ l.req.name # NoName /\ dns # "remote"
       IN  Step(h, IF ~IsAllowed(allows, l.req.user)
                   THEN Finish(l, "error", NoName, NoProxy)
                   ELSE [l EXCEPT !.pc = IF local THEN "resolve" ELSE "proxy", !.dns = dns,
                                  !.target = Or(l.rule.target, Default(router, l.req), "auto"),
                                  !.ip = IF l.rule.ip # NoAddr THEN l.rule.ip ELSE @])
    /\ Elsewhere /\ CacheAlone /\ UNCHANGED ghosts

\* lookup: the cache first.
CacheLookup(h) ==
    /\ At(h, "resolve")
    /\ LET n == hs[h].req.name
       IN  /\ Lookup(n)
           /\ Step(h, IF Fresh(n)
                      THEN [hs[h] EXCEPT !.pc = "proxy", !.ip = ips[n].ip, !.state = ips[n].state]
                      ELSE [hs[h] EXCEPT !.pc = "ask", !.ip = NoAddr, !.state = "none"])
    /\ Elsewhere /\ UNCHANGED ghosts

\* net.LookupIP has an answer, or none.
AskDNS(h) ==
    /\ At(h, "ask")
    /\ \/ \E a \in DNS[hs[h].req.name] :
            Step(h, [hs[h] EXCEPT !.pc = "store", !.ip = a, !.looked = TRUE])
       \/ Step(h, [hs[h] EXCEPT !.pc = "proxy", !.looked = TRUE])
    /\ Elsewhere /\ CacheAlone /\ UNCHANGED ghosts

\* A name that loses its entry is not known to be dead any more.
Forgotten == {n \in Name : n \in DOMAIN ips /\ n \notin DOMAIN ips'}

\* An answer that was asked for before the name was known to be dead hides that.
StoreAnswer(h) ==
    /\ At(h, "store")
    /\ LET n == hs[h].req.name
       IN  /\ Store(n, hs[h].ip, "new")
           /\ dead' = [m \in Name |-> IF m \in Forgotten \/ (m = n /\ raced[h]) THEN 0 ELSE dead[m]]
    /\ Step(h, [hs[h] EXCEPT !.pc = "proxy", !.state = "new"])
    /\ Elsewhere /\ UNCHANGED raced

\* The port, the refusal, and the proxies of the rule: the first one that answers,
\* which is used as for remote, or none of them.
Proxies(h) ==
    /\ At(h, "proxy")
    /\ LET l == [hs[h] EXCEPT !.port = MapPort(hs[h].rule.port, @)]
           Go(t, p) == [l EXCEPT !.target = "", !.rule = NoRule, !.proxy = p,
                                 !.pc = IF p = NoProxy \/ t = "local" THEN "direct"
                                        ELSE IF t # "auto" THEN "remote"
                                        ELSE IF l.state = "fail" THEN "remote" ELSE "auto",
                                 !.dns = IF p # NoProxy /\ t = "auto" /\ l.state = "fail"
                                         THEN "remote" ELSE @]
       IN  \/ l.target = "deny" /\ Step(h, Finish(l, "error", NoName, NoProxy))
           \/ /\ l.target # "deny"
              /\ \E p \in Own(l.rule) : Step(h, Go("remote", p))
           \/ /\ l.target # "deny"
              /\ IF l.rule.proxy # << >> /\ l.rule.op = "deny"
                 THEN Step(h, Finish(l, "error", NoName, NoProxy))
                 ELSE Step(h, Go(l.target, IF l.rule.proxy # << >> /\ l.rule.op = "last" THEN NoProxy
                                           ELSE ProxyServer))
    /\ Elsewhere /\ CacheAlone /\ UNCHANGED ghosts

\* buildAddress: the address if there is one, else the name.
Address(l) == IF l.ip # NoAddr THEN l.ip ELSE l.req.name

\* auto: one second for a local connection.
LocalDial(h) ==
    /\ At(h, "auto")
    /\ LET l == hs[h]
       IN  \/ Address(l) # NoName /\ Step(h, Finish(l, "direct", Address(l), NoProxy))
           \/ IF l.req.name # NoName /\ l.ip # NoAddr
              THEN Step(h, [l EXCEPT !.pc = "fail"])
              ELSE Step(h, [l EXCEPT !.pc = "remote", !.dns = "remote"])
    /\ Elsewhere /\ CacheAlone /\ UNCHANGED ghosts

\* What could not be dialled is remembered for an hour.
StoreFail(h) ==
    /\ At(h, "fail")
    /\ LET n == hs[h].req.name
       IN  /\ Store(n, hs[h].ip, "fail")
           /\ dead' = [m \in Name |-> IF m = n THEN now + FailTTL
                                      ELSE IF m \in Forgotten THEN 0 ELSE dead[m]]
           /\ raced' = [g \in Shake |-> raced[g] \/ (hs[g].pc \in {"ask", "store"} /\ hs[g].req.name = n)]
    /\ Step(h, [hs[h] EXCEPT !.pc = "remote", !.dns = "remote"])
    /\ Elsewhere

\* socks5 and httpConnect: the proxy is asked for a connection to `to'.
Ask(l, to) == Finish(l, "proxy", to, l.proxy)

\* dail alone: the proxy is not told where to, and httpStream sends it the request with
\* the first line of the client, the name and the port that this asked for.
Forward(l) == Finish([l EXCEPT !.port = l.req.port], "plain", l.req.name, l.proxy)

\* By the scheme of the proxy, if it is known and all goes well.  There must be a
\* target even where it is not used.
Connect(h, to) ==
    \/ /\ to \notin {NoName, NoAddr} /\ hs[h].proxy \notin BadScheme
       /\ Step(h, IF hs[h].proxy \in HttpScheme /\ hs[h].req.proto = "http"
                  THEN Forward(hs[h]) ELSE Ask(hs[h], to))
    \/ Step(h, Finish(hs[h], "error", NoName, NoProxy))

\* Wrong variant: the address although the name should be resolved remotely.
Remote_Address(h) ==
    /\ At(h, "remote")
    /\ Connect(h, Address(hs[h]))
    /\ Elsewhere /\ CacheAlone /\ UNCHANGED ghosts

\* Through the proxy, to the name when it is to be resolved there, else to the
\* address.
Remote(h) ==
    /\ At(h, "remote")
    /\ LET l == hs[h]
       IN  Connect(h, IF l.dns = "remote" /\ l.req.name # NoName THEN l.req.name ELSE l.ip)
    /\ Elsewhere /\ CacheAlone /\ UNCHANGED ghosts

Direct(h) ==
    /\ At(h, "direct")
    /\ \/ Address(hs[h]) # NoName /\ Step(h, Finish(hs[h], "direct", Address(hs[h]), NoProxy))
       \/ Step(h, Finish(hs[h], "error", NoName, NoProxy))
    /\ Elsewhere /\ CacheAlone /\ UNCHANGED ghosts

----------------------------------------------------------------------------
Handshake(h) ==
    \/ BeginShake(h) \/ Find(h) \/ ReadDefaults(h) \/ CacheLookup(h) \/ AskDNS(h)
    \/ StoreAnswer(h) \/ Proxies(h) \/ LocalDial(h) \/ StoreFail(h) \/ Remote(h)
    \/ Direct(h)

RouteNext ==
    \/ Time \/ Edit \/ ReadFile \/ Replace
    \/ \E h \in Shake : Handshake(h)

RouteSpec == RouteInit /\ [][RouteNext]_routeVars
----------------------------------------------------------------------------
(* What router.yaml promises, for one configuration c and a request r.       *)

Refused(c, r) ==
    LET rule == FindHost(c, r)
        allows == rule.allow \cup c.allow
    IN  ~IsAllowed(allows, r.user) \/ Or(rule.target, Default(c, r), "auto") = "deny"

Conforms(c, r, o) ==
    LET rule == FindHost(c, r)
        target == Or(rule.target, Default(c, r), "auto")
        own == Own(rule)
        remote == Or(rule.dns, c.dns, "local") = "remote"
        named == r.name # NoName
    IN  \* A refused request goes nowhere.
        /\ o.how \in {"direct", "proxy", "plain"} => ~Refused(c, r)
        \* The port is mapped, but in a request that is only passed on (tunnel.go:471).
        /\ o.how \in {"direct", "proxy"} => o.port = MapPort(rule.port, r.port)
        /\ o.how = "plain" => r.proto = "http" /\ o.by \in HttpScheme
        \* The rule's own proxies force remote; the global one is for auto and remote,
        \* and not for a rule that goes its own way when its proxies fail.
        /\ o.how \in {"proxy", "plain"} =>
                \/ o.by \in own
                \/ o.by = GlobalProxy /\ target # "local" /\ (own = {} \/ rule.op \notin {"last", "deny"})
        \* Direct is for local and auto, or for want of a proxy.
        /\ o.how = "direct" => \/ target \in {"local", "auto"} /\ (own = {} \/ rule.op # "deny")
                               \/ GlobalProxy = NoProxy /\ (own = {} \/ rule.op # "deny")
                               \/ own # {} /\ rule.op = "last"
        \* What is resolved remotely is not looked up here, and the proxy gets the name.
        /\ (remote \/ rule.ip # NoAddr) => ~o.looked
        /\ (o.how = "proxy" /\ named /\ (remote \/ (o.by \notin own /\ target = "auto"))) => o.to = r.name
        \* A rule's address is the one that is dialled, or that the proxy is asked for
        \* where it does not get the name.
        /\ o.how = "direct" /\ rule.ip # NoAddr => o.to = rule.ip
        /\ o.how = "proxy" /\ rule.ip # NoAddr /\ (named => ~remote /\ target # "auto") => o.to = rule.ip

\* tunnel.go:346: however the steps of handshakes mix, over one cache and through
\* every branch, the connection is one that the configuration allows.  Nothing is
\* promised of where an http proxy takes an http request that it is passed, and
\* nothing of a handshake during which the configuration is replaced: the parts of
\* two of them are mixed then.
ObeysConfig ==
    \A h \in Shake, c \in Config :
        At(h, "done") /\ hs[h].seen = {c} => Conforms(c, hs[h].req, hs[h].out)

\* config.go:53: edits while the watcher reads the file do not get lost.  When the
\* file is at rest its content is in effect.
ConfigSettles == (~event /\ loaded = << >> /\ file \in Config) => router = file

\* tunnel.go:436: a name that could not be dialled is not dialled again for an hour:
\* the cache says so, unless its entry had to leave the ring, or an answer that was
\* asked for before came later.
KnownDead == \A n \in Name : dead[n] > now => Fresh(n) /\ ips[n].state = "fail"
=============================================================================
