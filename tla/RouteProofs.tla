---------------------------- MODULE RouteProofs ----------------------------
(***************************************************************************)
(* Proofs about the way to a server: for any number of handshakes, any        *)
(* configurations and requests, and any size of the cache.                  *)
(***************************************************************************)
EXTENDS Route, FiniteSets, Functions, FiniteSetTheorems, WellFoundedInduction, TLAPS

----------------------------------------------------------------------------
(* The cache: its types, and that the ring bounds the map, for any number of *)
(* names, addresses and slots.                                               *)

\* Store takes a slot that exists and leaves entries that are entries.
LEMMA StoreType ==
    ASSUME CacheTypeOK, NEW n \in Name, NEW a \in Addr, NEW s \in {"new", "fail"}, Store(n, a, s)
    PROVE  /\ DOMAIN ips' \subseteq Name /\ \A m \in DOMAIN ips' : ips'[m] \in Entry
           /\ keys' \in [Slot -> Name \cup {NoName}]
           /\ next' \in Slot
<1> USE CacheAssumption
<1>1. NewEntry(a, s) \in Entry
    BY DEF CacheTypeOK, NewEntry, Entry
<1>2. CASE /\ n \in DOMAIN ips
           /\ ips' = [ips EXCEPT ![n] = NewEntry(a, s)]
           /\ UNCHANGED <<keys, next>>
    BY <1>1, <1>2 DEF CacheTypeOK
<1>3. CASE /\ n \notin DOMAIN ips
           /\ ips' = [m \in (DOMAIN ips \ {keys[next]}) \cup {n} |->
                            IF m = n THEN NewEntry(a, s) ELSE ips[m]]
           /\ keys' = [keys EXCEPT ![next] = n]
           /\ next' = (next + 1) % Slots
    <2>1. next' \in Slot
        BY <1>3 DEF CacheTypeOK, Slot
    <2>2. QED
        BY <1>1, <1>3, <2>1 DEF CacheTypeOK
<1>4. QED
    BY <1>2, <1>3 DEF Store

\* A name that stays in the map keeps a slot: it is not the one that is taken.
LEMMA StoreInRing ==
    ASSUME CacheTypeOK, InRing, NEW n \in Name, NEW a, NEW s, Store(n, a, s)
    PROVE  InRing'
<1>1. CASE /\ n \in DOMAIN ips
           /\ ips' = [ips EXCEPT ![n] = NewEntry(a, s)]
           /\ UNCHANGED <<keys, next>>
    BY <1>1 DEF InRing
<1>2. CASE /\ n \notin DOMAIN ips
           /\ ips' = [m \in (DOMAIN ips \ {keys[next]}) \cup {n} |->
                            IF m = n THEN NewEntry(a, s) ELSE ips[m]]
           /\ keys' = [keys EXCEPT ![next] = n]
           /\ next' = (next + 1) % Slots
    <2> SUFFICES ASSUME NEW m \in DOMAIN ips' PROVE \E t \in Slot : keys'[t] = m
        BY DEF InRing
    <2>1. CASE m = n
        BY <1>2, <2>1 DEF CacheTypeOK
    <2>2. CASE m # n
        <3>1. m \in DOMAIN ips /\ m # keys[next]
            BY <1>2, <2>2
        <3>2. PICK t \in Slot : keys[t] = m
            BY <3>1 DEF InRing
        <3>3. t # next /\ keys'[t] = m
            BY <1>2, <3>1, <3>2 DEF CacheTypeOK
        <3>4. QED
            BY <3>3
    <2>3. QED
        BY <2>1, <2>2
<1>3. QED
    BY <1>1, <1>2 DEF Store

\* cache.go:76: what the operations make of the map and of the ring are entries,
\* names and a slot that exists.
THEOREM CacheTypeCorrect == CacheSpec => []CacheTypeOK
<1> USE CacheAssumption
<1>1. CacheInit => CacheTypeOK
    BY DEF CacheInit, CacheTypeOK, Slot
<1>2. CacheTypeOK /\ [CacheNext]_cacheVars => CacheTypeOK'
    <2> SUFFICES ASSUME CacheTypeOK, [CacheNext]_cacheVars PROVE CacheTypeOK'
        OBVIOUS
    <2>1. CASE Tick /\ UNCHANGED <<ips, keys, next>>
        BY <2>1 DEF Tick, CacheTypeOK
    <2>2. ASSUME NEW n \in Name, Lookup(n), UNCHANGED now PROVE CacheTypeOK'
        BY <2>2 DEF Lookup, Remove, CacheTypeOK
    <2>3. ASSUME NEW n \in Name, NEW a \in Addr, NEW s \in {"new", "fail"},
                 Store(n, a, s), UNCHANGED now
          PROVE  CacheTypeOK'
        BY <2>3, StoreType DEF CacheTypeOK
    <2>4. CASE UNCHANGED cacheVars
        BY <2>4 DEF cacheVars, CacheTypeOK
    <2>5. QED
        BY <2>1, <2>2, <2>3, <2>4 DEF CacheNext
<1>3. QED
    BY <1>1, <1>2, PTL DEF CacheSpec

\* cache.go:87: whatever the order of lookups, stores and expiries, each name in the
\* map holds a slot of the ring, so that the map never outgrows it.
THEOREM CacheInRing == CacheSpec => []InRing
<1>1. CacheInit => InRing
    BY DEF CacheInit, InRing
<1>2. CacheTypeOK /\ InRing /\ [CacheNext]_cacheVars => InRing'
    <2> SUFFICES ASSUME CacheTypeOK, InRing, [CacheNext]_cacheVars PROVE InRing'
        OBVIOUS
    <2>1. CASE Tick /\ UNCHANGED <<ips, keys, next>>
        BY <2>1 DEF InRing
    <2>2. ASSUME NEW n \in Name, Lookup(n) PROVE InRing'
        BY <2>2 DEF Lookup, Remove, InRing
    <2>3. ASSUME NEW n \in Name, NEW a \in Addr, NEW s \in {"new", "fail"}, Store(n, a, s)
          PROVE  InRing'
        BY <2>3, StoreInRing
    <2>4. CASE UNCHANGED cacheVars
        BY <2>4 DEF cacheVars, InRing
    <2>5. QED
        BY <2>1, <2>2, <2>3, <2>4 DEF CacheNext
<1>3. QED
    BY <1>1, <1>2, CacheTypeCorrect, PTL DEF CacheSpec

\* The names in the ring are no more than its slots.
LEMMA RingBounds ==
    ASSUME CacheTypeOK, InRing
    PROVE  IsFiniteSet(DOMAIN ips) /\ Cardinality(DOMAIN ips) <= Slots
<1> USE CacheAssumption
<1> DEFINE Held == {keys[s] : s \in Slot}
<1>1. IsFiniteSet(Slot) /\ Cardinality(Slot) = Slots
    BY FS_Interval DEF Slot
<1>2. keys \in Surjection(Slot, Held)
    BY DEF CacheTypeOK, Surjection
<1>3. IsFiniteSet(Held) /\ Cardinality(Held) <= Slots
    BY <1>1, <1>2, FS_Surjection
<1>4. DOMAIN ips \in SUBSET Held
    BY DEF InRing
<1>5. IsFiniteSet(DOMAIN ips) /\ Cardinality(DOMAIN ips) <= Cardinality(Held)
    BY <1>3, <1>4, FS_Subset
<1>6. Cardinality(DOMAIN ips) \in Nat /\ Cardinality(Held) \in Nat
    BY <1>3, <1>5, FS_CardinalityType
<1>7. QED
    BY <1>3, <1>5, <1>6

\* cache.go:75: never more names in the map than slots in the ring.
THEOREM CacheBounded ==
    CacheSpec => [](IsFiniteSet(DOMAIN ips) /\ Cardinality(DOMAIN ips) <= Slots)
<1>1. CacheTypeOK /\ InRing => IsFiniteSet(DOMAIN ips) /\ Cardinality(DOMAIN ips) <= Slots
    BY RingBounds
<1>2. QED
    BY <1>1, CacheTypeCorrect, CacheInRing, PTL

----------------------------------------------------------------------------
(* The first of a sequence.                                                *)

Less == {ss \in Nat \X Nat : ss[1] < ss[2]}

\* The order of the numbers has no endless descent.
LEMMA LessWellFounded == IsWellFoundedOn(Less, Nat)
<1>1. Less = OpToRel(<, Nat)
    BY Zenon DEF Less, OpToRel
<1>2. QED
    BY <1>1, NatLessThanWellFounded, Zenon

\* There is a first one among some indices: what the loops of findHost and of the
\* mapping of ports stop at.
LEMMA First_Exists ==
    ASSUME NEW I, I \subseteq Nat, I # {}
    PROVE  \E i \in I : \A j \in I : i <= j
<1>1. PICK i \in I : \A j \in I : ~(<<j, i>> \in Less)
    BY LessWellFounded, WFMin, Zenon
<1>2. ASSUME NEW j \in I PROVE i <= j
    <2>1. <<j, i>> \notin Less
        BY <1>1
    <2>2. i \in Nat /\ j \in Nat
        OBVIOUS
    <2>3. ~(j < i)
        BY <2>1, <2>2 DEF Less
    <2>4. QED
        BY <2>2, <2>3
<1>3. QED
    BY <1>2

\* The element at the first of some indices is one of the sequence.
LEMMA FirstElement ==
    ASSUME NEW S, NEW s \in Seq(S), NEW I \in SUBSET (DOMAIN s), I # {}
    PROVE  s[CHOOSE i \in I : \A j \in I : i <= j] \in S
<1> DEFINE first == CHOOSE i \in I : \A j \in I : i <= j
<1>1. I \subseteq Nat
    OBVIOUS
<1>2. \E i \in I : \A j \in I : i <= j
    BY <1>1, First_Exists
<1>3. first \in I
    BY <1>2
<1> HIDE DEF first
<1>4. s[first] \in S
    BY <1>3
<1>5. QED
    BY <1>4 DEF first

\* What findHost returns is one of the rules, or no rule.
LEMMA FindHostType ==
    ASSUME NEW c \in Config, NEW r
    PROVE  FindHost(c, r) \in Rules
<1> DEFINE I == {i \in DOMAIN c.hosts : Matches(c.hosts[i], c, r)}
<1>1. c.hosts \in Seq(Rules)
    BY RouteAssumption
<1>2. I \in SUBSET (DOMAIN c.hosts)
    OBVIOUS
<1>3. NoRule \in Rules
    BY DEF Rules
<1>4. FindHost(c, r) = IF I = {} THEN NoRule ELSE c.hosts[CHOOSE i \in I : \A j \in I : i <= j]
    BY DEF FindHost
<1> HIDE DEF I
<1>5. I # {} => c.hosts[CHOOSE i \in I : \A j \in I : i <= j] \in Rules
    BY <1>1, <1>2, FirstElement
<1>6. QED
    BY <1>3, <1>4, <1>5

\* A port is mapped to a port.
LEMMA MapPortType ==
    ASSUME NEW rule \in Rules, NEW p \in Nat
    PROVE  MapPort(rule.port, p) \in Nat
<1> DEFINE Port == [from : Nat, to : Nat]
           I == {i \in DOMAIN rule.port : rule.port[i].from = p}
<1>1. rule.port \in Seq(Port)
    BY RouteAssumption
<1>2. I \in SUBSET (DOMAIN rule.port)
    OBVIOUS
<1>3. MapPort(rule.port, p) =
          IF I = {} THEN p ELSE rule.port[CHOOSE i \in I : \A j \in I : i <= j].to
    BY DEF MapPort
<1>4. \A m \in Port : m.to \in Nat
    OBVIOUS
<1> HIDE DEF I, Port
<1>5. I # {} => rule.port[CHOOSE i \in I : \A j \in I : i <= j] \in Port
    BY <1>1, <1>2, FirstElement
<1>6. QED
    BY <1>3, <1>4, <1>5

\* getString: a text, whichever it is.
LEMMA OrType ==
    ASSUME NEW v \in Text, NEW w \in Text, NEW d \in Text
    PROVE  Or(v, w, d) \in Text
BY DEF Or

\* The rules and the defaults of a configuration are typed.
LEMMA ConfigTypes ==
    ASSUME NEW c \in Config, NEW rule \in Rules, NEW r
    PROVE  /\ {rule.target, rule.dns, c.dns, Default(c, r)} \subseteq Text
           /\ rule.ip \in Addr \cup {NoAddr}
           /\ rule.proxy \in Seq(Proxy) /\ NoProxy \notin Own(rule) /\ Own(rule) \subseteq Proxy
<1>1. rule.target \in Text /\ rule.dns \in Text
    <2> DEFINE P == {{q.target, q.dns} : q \in Rules}
    <2>1. {rule.target, rule.dns} \in P
        OBVIOUS
    <2>2. UNION P \subseteq Text
        BY DEF Text
    <2> HIDE DEF P
    <2>3. QED
        BY <2>1, <2>2
<1>2. c.dns \in Text /\ c.target \in Text /\ c.tcpTarget \in Text
    <2> DEFINE P == {{d.target, d.tcpTarget, d.dns} : d \in Config}
    <2>1. {c.target, c.tcpTarget, c.dns} \in P
        OBVIOUS
    <2>2. UNION P \subseteq Text
        BY DEF Text
    <2> HIDE DEF P
    <2>3. QED
        BY <2>1, <2>2
<1>3. Default(c, r) \in Text
    BY <1>2 DEF Default
<1>4. rule.ip \in Addr \cup {NoAddr} /\ rule.proxy \in Seq(Proxy) /\ NoProxy \notin Own(rule)
    BY RouteAssumption
<1>5. Own(rule) \subseteq Proxy
    BY DEF Proxy
<1>6. QED
    BY <1>1, <1>2, <1>3, <1>4, <1>5

----------------------------------------------------------------------------
(* What a handshake knows.  Each step of one is a function of its own locals   *)
(* and of what it reads; the invariant says, for a handshake that has read    *)
(* one configuration only, how far its locals agree with that one already.   *)

DnsOf(c, r) == Or(FindHost(c, r).dns, c.dns, "local")
TargetOf(c, r) == Or(FindHost(c, r).target, Default(c, r), "auto")
AllowedBy(c, r) == IsAllowed(FindHost(c, r).allow \cup c.allow, r.user)

\* The name is to be looked up here.
ResolvesHere(c, r) == DnsOf(c, r) # "remote" /\ FindHost(c, r).ip = NoAddr

\* The global proxy is for this request: the rule has no proxies of its own, or lets
\* the others be used when they fail.
LeftToGlobal(c, r) == Own(FindHost(c, r)) = {} \/ FindHost(c, r).op \notin {"last", "deny"}

MayUse(c, r, p) ==
    \/ p \in Own(FindHost(c, r))
    \/ p = GlobalProxy /\ TargetOf(c, r) # "local" /\ LeftToGlobal(c, r)

MayGoDirect(c, r) ==
    \/ TargetOf(c, r) \in {"local", "auto"} /\ (Own(FindHost(c, r)) = {} \/ FindHost(c, r).op # "deny")
    \/ GlobalProxy = NoProxy /\ (Own(FindHost(c, r)) = {} \/ FindHost(c, r).op # "deny")
    \/ Own(FindHost(c, r)) # {} /\ FindHost(c, r).op = "last"

\* The proxy that is used has to get the name.
NameFor(c, r, p) ==
    /\ r.name # NoName
    /\ DnsOf(c, r) = "remote" \/ (p \notin Own(FindHost(c, r)) /\ TargetOf(c, r) = "auto")

\* The proxy that is used has to get the address of the rule.
AddressFor(c, r) ==
    FindHost(c, r).ip # NoAddr /\ (r.name # NoName => DnsOf(c, r) # "remote" /\ TargetOf(c, r) # "auto")

Early == {"find", "defaults"}
Looking == {"resolve", "ask", "store"}
Leaving == {"auto", "fail", "remote", "direct"}
Running == Early \cup Looking \cup {"proxy"} \cup Leaving

Expect(l, c) ==
    /\ l.looked => ResolvesHere(c, l.req)
    /\ l.pc \in Early => ~l.looked
    /\ l.pc \in Early \cup Looking \cup {"proxy"} => l.port = l.req.port
    /\ l.pc \in {"defaults", "proxy"} \cup Looking => l.rule = FindHost(c, l.req)
    /\ l.pc \in {"proxy"} \cup Looking =>
            /\ l.dns = DnsOf(c, l.req) /\ l.target = TargetOf(c, l.req)
            /\ AllowedBy(c, l.req)
    /\ l.pc \in Looking => ResolvesHere(c, l.req)
    /\ l.pc \in {"proxy"} \cup Leaving /\ FindHost(c, l.req).ip # NoAddr =>
            l.ip = FindHost(c, l.req).ip
    /\ l.pc \in Leaving => ~Refused(c, l.req) /\ l.port = MapPort(FindHost(c, l.req).port, l.req.port)
    /\ l.pc \in {"auto", "fail"} =>
            TargetOf(c, l.req) = "auto" /\ LeftToGlobal(c, l.req) /\ l.proxy = GlobalProxy
    /\ l.pc = "remote" =>
            /\ MayUse(c, l.req, l.proxy)
            /\ NameFor(c, l.req, l.proxy) => l.dns = "remote"
            /\ AddressFor(c, l.req) => l.req.name = NoName \/ l.dns # "remote"
    /\ l.pc = "direct" => MayGoDirect(c, l.req)
    /\ l.pc = "done" => Conforms(c, l.req, l.out)

\* The values of the locals, and those that a phase needs.
Placed(l) ==
    /\ l \in Local
    /\ l.pc # "idle" => l.req \in Request
    /\ l.pc \in Looking \cup {"fail"} => l.req.name # NoName
    /\ l.pc \in {"store", "fail"} => l.ip # NoAddr

ShakesPlaced == hs \in [Shake -> Local] /\ \A h \in Shake : Placed(hs[h])

\* Who has started has seen the configuration that is in effect.
RouterSeen == \A h \in Shake : hs[h].pc \in Running => router \in hs[h].seen

ShakesExpect == \A h \in Shake, c \in Config : hs[h].seen = {c} => Expect(hs[h], c)

\* A name that is known to be dead has an entry that says so for as long.
DeadKept ==
    \A n \in Name : dead[n] > now =>
        n \in DOMAIN ips /\ ips[n].state = "fail" /\ ips[n].expires >= dead[n]

\* Who has asked the DNS did so of a name that was not known to be dead, unless it
\* became so after that.
RaceSeen ==
    \A h \in Shake : At(h, "ask") \/ At(h, "store") => raced[h] \/ dead[hs[h].req.name] <= now

\* What the watcher holds is what the file says, if there is no newer event.
WatcherHolds == (loaded # << >> /\ ~event) => loaded = <<file>>

\* A step of a handshake from locals k to locals l: the DNS is asked when the cache
\* did not know, and only its answer is stored.
Advance(k, l) ==
    /\ Placed(l) /\ l.seen = k.seen /\ l.req = k.req
    /\ k.pc \in Running
    /\ l.pc = "ask" => k.pc = "resolve"
    /\ l.pc = "store" => k.pc = "ask"
    /\ Expect(k, router) => Expect(l, router)

----------------------------------------------------------------------------
\* The parts of what the file promises, under the names of above.
LEMMA ConformsParts ==
    ASSUME NEW c \in Config, NEW r, NEW o
    PROVE  Conforms(c, r, o) =
             /\ o.how \in {"direct", "proxy", "plain"} => ~Refused(c, r)
             /\ o.how \in {"direct", "proxy"} => o.port = MapPort(FindHost(c, r).port, r.port)
             /\ o.how = "plain" => r.proto = "http" /\ o.by \in HttpScheme
             /\ o.how \in {"proxy", "plain"} => MayUse(c, r, o.by)
             /\ o.how = "direct" => MayGoDirect(c, r)
             /\ (DnsOf(c, r) = "remote" \/ FindHost(c, r).ip # NoAddr) => ~o.looked
             /\ (o.how = "proxy" /\ NameFor(c, r, o.by)) => o.to = r.name
             /\ (o.how = "direct" /\ FindHost(c, r).ip # NoAddr) => o.to = FindHost(c, r).ip
             /\ (o.how = "proxy" /\ AddressFor(c, r)) => o.to = FindHost(c, r).ip
BY Zenon DEF Conforms, MayUse, MayGoDirect, NameFor, AddressFor, DnsOf, TargetOf, LeftToGlobal

\* A request is refused when its user is not allowed or its target says so.
LEMMA RefusedParts ==
    ASSUME NEW c \in Config, NEW r
    PROVE  Refused(c, r) <=> ~AllowedBy(c, r) \/ TargetOf(c, r) = "deny"
BY Zenon DEF Refused, AllowedBy, TargetOf

\* The locals before a handshake.
LEMMA IdlePlaced == Idle \in Local /\ Placed(Idle) /\ Idle.looked = FALSE /\ Idle.pc = "idle"
<1>1. NoRule \in Rules /\ NoProxy \in Proxy
    BY DEF Rules, Proxy
<1>2. Nothing \in Outcome
    BY <1>1 DEF Nothing, Outcome
<1>3. Idle \in Local
    <2>1. {} \in SUBSET Config /\ 0 \in Nat
        OBVIOUS
    <2>2. "" \in Text
        BY DEF Text
    <2>3. FALSE \in BOOLEAN
        BY Zenon
    <2>4. QED
        BY <1>1, <1>2, <2>1, <2>2, <2>3, Zenon DEF Idle, Local, Phase
<1>4. Idle.pc = "idle"
    BY DEF Idle
<1>5. Idle.looked = FALSE
    BY Zenon DEF Idle
<1>6. QED
    BY <1>3, <1>4, <1>5 DEF Placed, Looking

\* f is what is left of the locals l when the handshake has ended.
Ended(f, l, how, to, by) ==
    /\ Placed(f) /\ f.pc = "done" /\ f.req = l.req /\ f.seen = l.seen /\ f.looked = FALSE
    /\ f.out = [how |-> how, to |-> to, by |-> by, port |-> l.port, looked |-> l.looked]

\* What Finish leaves.
LEMMA FinishFields ==
    ASSUME NEW l \in Local, l.req \in Request,
           NEW how \in {"error", "direct", "proxy", "plain"}, NEW to \in Name \cup Addr \cup {NoName, NoAddr},
           NEW by \in Proxy
    PROVE  Ended(Finish(l, how, to, by), l, how, to, by)
<1> DEFINE f == Finish(l, how, to, by)
           o == [how |-> how, to |-> to, by |-> by, port |-> l.port, looked |-> l.looked]
<1>1. o \in Outcome
    BY DEF Outcome, Local
<1>2. f = [Idle EXCEPT !.pc = "done", !.req = l.req, !.seen = l.seen, !.out = o]
    BY DEF Finish
<1> HIDE DEF o, f
<1>3. /\ f \in Local /\ f.pc = "done" /\ f.req = l.req /\ f.seen = l.seen /\ f.out = o
      /\ f.looked = Idle.looked
    BY <1>1, <1>2, IdlePlaced DEF Local, Phase
<1>4. Placed(f)
    BY <1>3 DEF Placed, Looking
<1>5. f.looked = FALSE
    BY <1>3, IdlePlaced
<1>6. QED
    BY <1>3, <1>4, <1>5 DEF o, f, Ended

----------------------------------------------------------------------------
(* The steps of a handshake, one by one.                                   *)

\* A handshake may fail in every phase: that promises nothing but that what should be
\* resolved elsewhere was not looked up here.
LEMMA ErrorAdvances ==
    ASSUME router \in Config, NEW k, Placed(k), k.pc \in Running,
           NEW l \in Local, l.req = k.req, l.seen = k.seen, l.looked = k.looked
    PROVE  Advance(k, Finish(l, "error", NoName, NoProxy))
<1> DEFINE f == Finish(l, "error", NoName, NoProxy)
           o == [how |-> "error", to |-> NoName, by |-> NoProxy, port |-> l.port,
                 looked |-> l.looked]
<1>1. k.req \in Request
    BY DEF Placed, Running, Early, Looking, Leaving
<1>2. /\ NoProxy \in Proxy /\ NoName \in Name \cup Addr \cup {NoName, NoAddr}
      /\ "error" \in {"error", "direct", "proxy", "plain"}
    BY DEF Proxy
<1>3. /\ Placed(f) /\ f.pc = "done" /\ f.req = l.req /\ f.seen = l.seen /\ f.looked = FALSE
      /\ f.out = o
    <2>1. Ended(f, l, "error", NoName, NoProxy)
        BY <1>1, <1>2, FinishFields
    <2>2. QED
        BY <2>1 DEF Ended
<1>4. o.how = "error" /\ o.looked = k.looked
    OBVIOUS
<1> HIDE DEF f, o
<1>5. ASSUME Expect(k, router) PROVE Expect(f, router)
    <2>1. k.looked => ResolvesHere(router, k.req)
        BY <1>5 DEF Expect
    <2>2. f.out.how = "error" /\ f.out.looked = k.looked
        BY <1>3, <1>4
    <2>3. (DnsOf(router, f.req) = "remote" \/ FindHost(router, f.req).ip # NoAddr) => ~f.out.looked
        BY <1>3, <2>1, <2>2 DEF ResolvesHere
    <2>4. Conforms(router, f.req, f.out)
        BY <2>2, <2>3, ConformsParts
    <2>5. QED
        BY <1>3, <2>4 DEF Expect, Early, Looking, Leaving
<1>6. QED
    BY <1>3, <1>5 DEF Advance, f

\* tunnel.go:349: the rule is the one that findHost returns.
LEMMA FindAdvances ==
    ASSUME ShakesPlaced, router \in Config, NEW h \in Shake, Find(h)
    PROVE  \E l : Step(h, l) /\ Advance(hs[h], l)
<1> DEFINE k == hs[h]
           l == [k EXCEPT !.pc = "defaults", !.rule = FindHost(router, k.req)]
<1>1. Placed(k) /\ k.pc = "find" /\ Step(h, l)
    BY DEF ShakesPlaced, Find, At
<1> HIDE DEF k, l
<1>2. k \in Local /\ k.req \in Request
    BY <1>1 DEF Placed
<1>3. FindHost(router, k.req) \in Rules
    BY FindHostType
<1>4. /\ l \in Local /\ l.pc = "defaults" /\ l.rule = FindHost(router, k.req)
      /\ l.req = k.req /\ l.port = k.port /\ l.seen = k.seen /\ l.looked = k.looked
    BY <1>2, <1>3 DEF l, Local, Phase
<1>5. Placed(l)
    BY <1>2, <1>4 DEF Placed, Looking
<1>6. Expect(k, router) => Expect(l, router)
    BY <1>1, <1>4 DEF Expect, Early, Looking, Leaving
<1>7. Advance(k, l)
    BY <1>1, <1>4, <1>5, <1>6 DEF Advance, Running, Early
<1>8. QED
    BY <1>1, <1>7 DEF k

\* tunnel.go:350: who is not allowed is refused; the others have their target, their
\* way of resolving, and the address of their rule.
LEMMA ReadDefaultsAdvances ==
    ASSUME ShakesPlaced, router \in Config, NEW h \in Shake, ReadDefaults(h)
    PROVE  \E l : Step(h, l) /\ Advance(hs[h], l)
<1> DEFINE k == hs[h]
           dns == Or(k.rule.dns, router.dns, "local")
           target == Or(k.rule.target, Default(router, k.req), "auto")
           local == k.rule.ip = NoAddr /\ k.req.name # NoName /\ dns # "remote"
           allowed == IsAllowed(k.rule.allow \cup router.allow, k.req.user)
           f == Finish(k, "error", NoName, NoProxy)
           l == [k EXCEPT !.pc = IF local THEN "resolve" ELSE "proxy", !.dns = dns,
                          !.target = target, !.ip = IF k.rule.ip # NoAddr THEN k.rule.ip ELSE @]
<1>1. Placed(k) /\ k.pc = "defaults"
    BY DEF ShakesPlaced, ReadDefaults, At
<1>2. k \in Local /\ k.req \in Request /\ k.rule \in Rules
    BY <1>1 DEF Placed, Local
<1>3. Step(h, IF ~allowed THEN f ELSE l)
    BY DEF ReadDefaults
<1>4. CASE ~allowed
    <2>1. Step(h, f)
        BY <1>3, <1>4
    <2>2. Advance(k, f)
        BY <1>1, <1>2, ErrorAdvances DEF Running, Early
    <2>3. QED
        BY <2>1, <2>2
<1>5. CASE allowed
    <2>1. Step(h, l)
        BY <1>3, <1>5
    <2>2. dns \in Text /\ target \in Text
        BY <1>2, ConfigTypes, OrType DEF Text
    <2>3. k.rule.ip \in Addr \cup {NoAddr}
        BY <1>2, ConfigTypes
    <2> HIDE DEF l, k, dns, target, local, allowed
    <2>4. /\ l \in Local /\ l.pc = (IF local THEN "resolve" ELSE "proxy")
          /\ l.dns = dns /\ l.target = target
          /\ l.ip = (IF k.rule.ip # NoAddr THEN k.rule.ip ELSE k.ip)
          /\ l.rule = k.rule /\ l.req = k.req /\ l.port = k.port /\ l.seen = k.seen
          /\ l.looked = k.looked
        BY <1>2, <2>2, <2>3 DEF l, Local, Phase
    <2>5. local => l.req.name # NoName
        BY <2>4 DEF local
    <2>6. Placed(l)
        BY <1>2, <2>4, <2>5 DEF Placed, Looking
    <2>7. ASSUME Expect(k, router) PROVE Expect(l, router)
        <3>1. k.rule = FindHost(router, k.req) /\ ~k.looked /\ k.port = k.req.port
            BY <1>1, <2>7 DEF Expect, Early
        <3>2. dns = DnsOf(router, k.req) /\ target = TargetOf(router, k.req)
            BY <3>1 DEF dns, target, DnsOf, TargetOf
        <3>3. AllowedBy(router, k.req)
            BY <1>5, <3>1 DEF allowed, AllowedBy
        <3>4. local => ResolvesHere(router, k.req)
            BY <3>1, <3>2 DEF local, ResolvesHere
        <3>5. QED
            BY <2>4, <3>1, <3>2, <3>3, <3>4 DEF Expect, Early, Looking, Leaving
    <2>8. Advance(k, l)
        BY <1>1, <2>4, <2>6, <2>7 DEF Advance, Running, Early
    <2>9. QED
        BY <2>1, <2>8 DEF k
<1>6. QED
    BY <1>4, <1>5

\* tunnel.go:293: the cache knows the name, or the DNS is to be asked.
LEMMA CacheLookupAdvances ==
    ASSUME ShakesPlaced, CacheTypeOK, router \in Config, NEW h \in Shake, CacheLookup(h)
    PROVE  \E l : Step(h, l) /\ Advance(hs[h], l)
<1> DEFINE k == hs[h]
           n == k.req.name
           hit == [k EXCEPT !.pc = "proxy", !.ip = ips[n].ip, !.state = ips[n].state]
           miss == [k EXCEPT !.pc = "ask", !.ip = NoAddr, !.state = "none"]
<1>1. Placed(k) /\ k.pc = "resolve"
    BY DEF ShakesPlaced, CacheLookup, At
<1>2. k \in Local /\ k.req \in Request /\ n # NoName
    BY <1>1 DEF Placed, Looking
<1>3. Step(h, IF Fresh(n) THEN hit ELSE miss)
    BY DEF CacheLookup
<1>4. Fresh(n) => ips[n].ip \in Addr /\ ips[n].state \in {"new", "fail"}
    BY DEF Fresh, CacheTypeOK, Entry
<1> HIDE DEF k, n
<1>5. ASSUME Fresh(n) PROVE Advance(k, hit)
    <2>1. /\ hit \in Local /\ hit.pc = "proxy" /\ hit.req = k.req /\ hit.rule = k.rule
          /\ hit.dns = k.dns /\ hit.target = k.target /\ hit.port = k.port /\ hit.seen = k.seen
          /\ hit.looked = k.looked
        BY <1>2, <1>4, <1>5 DEF Local, Phase
    <2> HIDE DEF hit
    <2>2. Placed(hit)
        BY <1>2, <2>1 DEF Placed, Looking
    <2>3. Expect(k, router) => Expect(hit, router)
        BY <1>1, <2>1 DEF Expect, Early, Looking, Leaving, ResolvesHere
    <2>4. QED
        BY <1>1, <2>1, <2>2, <2>3 DEF Advance, Running, Looking
<1>6. Advance(k, miss)
    <2>1. /\ miss \in Local /\ miss.pc = "ask" /\ miss.req = k.req /\ miss.rule = k.rule
          /\ miss.dns = k.dns /\ miss.target = k.target /\ miss.port = k.port /\ miss.seen = k.seen
          /\ miss.looked = k.looked
        BY <1>2 DEF Local, Phase
    <2> HIDE DEF miss
    <2>2. Placed(miss)
        BY <1>2, <2>1 DEF Placed, Looking, n
    <2>3. Expect(k, router) => Expect(miss, router)
        BY <1>1, <2>1 DEF Expect, Early, Looking, Leaving, ResolvesHere
    <2>4. QED
        BY <1>1, <2>1, <2>2, <2>3 DEF Advance, Running, Looking
<1> HIDE DEF hit, miss
<1>7. QED
    BY <1>3, <1>5, <1>6 DEF k

\* tunnel.go:299: the DNS answers or does not.
LEMMA AskDNSAdvances ==
    ASSUME ShakesPlaced, router \in Config, NEW h \in Shake, AskDNS(h)
    PROVE  \E l : Step(h, l) /\ Advance(hs[h], l)
<1> DEFINE k == hs[h]
           none == [k EXCEPT !.pc = "proxy", !.looked = TRUE]
<1>1. Placed(k) /\ k.pc = "ask"
    BY DEF ShakesPlaced, AskDNS, At
<1>2. k \in Local /\ k.req \in Request /\ k.req.name \in Name
    <2>1. k \in Local /\ k.req \in Request /\ k.req.name # NoName
        BY <1>1 DEF Placed, Looking
    <2>2. QED
        BY <2>1, RouteAssumption
<1>3. (\E a \in DNS[k.req.name] : Step(h, [k EXCEPT !.pc = "store", !.ip = a, !.looked = TRUE]))
          \/ Step(h, none)
    BY DEF AskDNS
<1>4. Expect(k, router) => ResolvesHere(router, k.req)
    BY <1>1 DEF Expect, Looking
<1>5. ASSUME NEW a \in DNS[k.req.name], Step(h, [k EXCEPT !.pc = "store", !.ip = a, !.looked = TRUE])
      PROVE  \E l : Step(h, l) /\ Advance(k, l)
    <2> DEFINE l == [k EXCEPT !.pc = "store", !.ip = a, !.looked = TRUE]
    <2>1. a \in Addr /\ a # NoAddr
        BY <1>2, RouteAssumption
    <2>2. Step(h, l)
        BY <1>5
    <2> HIDE DEF k
    <2>3. /\ l \in Local /\ l.pc = "store" /\ l.req = k.req /\ l.rule = k.rule /\ l.ip = a
          /\ l.dns = k.dns /\ l.target = k.target /\ l.port = k.port /\ l.seen = k.seen
        BY <1>2, <2>1 DEF Local, Phase
    <2> HIDE DEF l
    <2>4. Placed(l)
        BY <1>1, <1>2, <2>1, <2>3 DEF Placed, Looking
    <2>5. Expect(k, router) => Expect(l, router)
        BY <1>1, <1>4, <2>3 DEF Expect, Early, Looking, Leaving
    <2>6. Advance(k, l)
        BY <1>1, <2>3, <2>4, <2>5 DEF Advance, Running, Looking
    <2>7. QED
        BY <2>2, <2>6
<1>6. Advance(k, none)
    <2> HIDE DEF k
    <2>1. /\ none \in Local /\ none.pc = "proxy" /\ none.req = k.req /\ none.rule = k.rule
          /\ none.dns = k.dns /\ none.target = k.target /\ none.port = k.port /\ none.seen = k.seen
        BY <1>2 DEF Local, Phase
    <2> HIDE DEF none
    <2>2. Placed(none)
        BY <1>2, <2>1 DEF Placed, Looking
    <2>3. Expect(k, router) => Expect(none, router)
        BY <1>1, <1>4, <2>1 DEF Expect, Early, Looking, Leaving, ResolvesHere
    <2>4. QED
        BY <1>1, <2>1, <2>2, <2>3 DEF Advance, Running, Looking
<1>7. QED
    BY <1>3, <1>5, <1>6

\* tunnel.go:304: the answer was stored.
LEMMA StoreAnswerAdvances ==
    ASSUME ShakesPlaced, router \in Config, NEW h \in Shake, StoreAnswer(h)
    PROVE  \E l : Step(h, l) /\ Advance(hs[h], l)
<1> DEFINE k == hs[h]
           l == [k EXCEPT !.pc = "proxy", !.state = "new"]
<1>1. Placed(k) /\ k.pc = "store" /\ Step(h, l)
    BY DEF ShakesPlaced, StoreAnswer, At
<1>2. k \in Local /\ k.req \in Request
    BY <1>1 DEF Placed
<1> HIDE DEF k
<1>3. /\ l \in Local /\ l.pc = "proxy" /\ l.req = k.req /\ l.rule = k.rule
      /\ l.dns = k.dns /\ l.target = k.target /\ l.port = k.port /\ l.seen = k.seen
      /\ l.looked = k.looked
    BY <1>2 DEF Local, Phase
<1> HIDE DEF l
<1>4. Placed(l)
    BY <1>2, <1>3 DEF Placed, Looking
<1>5. Expect(k, router) => Expect(l, router)
    BY <1>1, <1>3 DEF Expect, Early, Looking, Leaving, ResolvesHere
<1>6. Advance(k, l)
    BY <1>1, <1>3, <1>4, <1>5 DEF Advance, Running, Looking
<1>7. QED
    BY <1>1, <1>6 DEF k

\* A direct connection, of who may make one and has an address.
LEMMA DirectAdvances ==
    ASSUME router \in Config, NEW k \in Local, Placed(k), k.pc \in {"auto", "direct"}, Address(k) # NoName
    PROVE  Advance(k, Finish(k, "direct", Address(k), NoProxy))
<1> DEFINE to == Address(k)
           f == Finish(k, "direct", to, NoProxy)
           o == [how |-> "direct", to |-> to, by |-> NoProxy, port |-> k.port,
                 looked |-> k.looked]
<1>1. k \in Local /\ k.req \in Request
    BY DEF Placed
<1>2. to \in Name \cup Addr \cup {NoName, NoAddr}
    <2>1. k.ip \in Addr \cup {NoAddr} /\ k.req.name \in Name \cup {NoName}
        BY <1>1, RouteAssumption DEF Local
    <2>2. QED
        BY <2>1 DEF Address
<1>3. NoProxy \in Proxy /\ "direct" \in {"error", "direct", "proxy", "plain"}
    BY DEF Proxy
<1> HIDE DEF to
<1>4. /\ Placed(f) /\ f.pc = "done" /\ f.req = k.req /\ f.seen = k.seen /\ f.looked = FALSE
      /\ f.out = o
    <2>1. Ended(f, k, "direct", to, NoProxy)
        BY <1>1, <1>2, <1>3, FinishFields
    <2>2. QED
        BY <2>1 DEF Ended
<1>5. o.how = "direct" /\ o.looked = k.looked /\ o.port = k.port /\ o.to = to
    OBVIOUS
<1> HIDE DEF f, o
<1>6. ASSUME Expect(k, router) PROVE Expect(f, router)
    <2>1. /\ f.out.how = "direct" /\ f.out.looked = k.looked /\ f.out.port = k.port
          /\ f.out.to = Address(k)
        BY <1>4, <1>5 DEF to
    <2>2. /\ ~Refused(router, k.req) /\ k.port = MapPort(FindHost(router, k.req).port, k.req.port)
          /\ k.looked => ResolvesHere(router, k.req)
        BY <1>6 DEF Expect, Leaving
    <2>3. MayGoDirect(router, k.req)
        BY <1>6 DEF Expect, MayGoDirect, LeftToGlobal
    <2>4. FindHost(router, k.req).ip # NoAddr => Address(k) = FindHost(router, k.req).ip
        BY <1>6 DEF Expect, Leaving, Address
    <2>5. (DnsOf(router, k.req) = "remote" \/ FindHost(router, k.req).ip # NoAddr) => ~f.out.looked
        BY <2>1, <2>2 DEF ResolvesHere
    <2>6. Conforms(router, f.req, f.out)
        <3>1. f.out.port = MapPort(FindHost(router, f.req).port, f.req.port)
            BY <1>4, <2>1, <2>2
        <3>2. /\ ~Refused(router, f.req)
              /\ (DnsOf(router, f.req) = "remote" \/ FindHost(router, f.req).ip # NoAddr) => ~f.out.looked
              /\ MayGoDirect(router, f.req)
              /\ FindHost(router, f.req).ip # NoAddr => f.out.to = FindHost(router, f.req).ip
            BY <1>4, <2>1, <2>2, <2>3, <2>4, <2>5
        <3>3. QED
            BY <2>1, <3>1, <3>2, ConformsParts
    <2>7. QED
        BY <1>4, <2>6 DEF Expect, Early, Looking, Leaving
<1>7. QED
    BY <1>4, <1>6 DEF Advance, Running, Leaving, f, to

\* Where Proxies leaves a handshake that goes on with target t and proxy p.
Went(l, t, p) ==
    [l EXCEPT !.target = "", !.rule = NoRule, !.proxy = p,
              !.pc = IF p = NoProxy \/ t = "local" THEN "direct"
                     ELSE IF t # "auto" THEN "remote"
                     ELSE IF l.state = "fail" THEN "remote" ELSE "auto",
              !.dns = IF p # NoProxy /\ t = "auto" /\ l.state = "fail" THEN "remote" ELSE @]

\* The same, field by field.
LEMMA WentFields ==
    ASSUME NEW l \in Local, l.req \in Request, NEW t, NEW p \in Proxy
    PROVE  /\ Placed(Went(l, t, p))
           /\ Went(l, t, p).pc \in {"direct", "remote", "auto"}
           /\ Went(l, t, p).pc = "direct" <=> p = NoProxy \/ t = "local"
           /\ Went(l, t, p).pc = "auto" => t = "auto"
           /\ Went(l, t, p).dns \in {l.dns, "remote"}
           /\ (Went(l, t, p).pc = "remote" /\ t = "auto") => Went(l, t, p).dns = "remote"
           /\ t # "auto" => Went(l, t, p).dns = l.dns
           /\ Went(l, t, p).proxy = p /\ Went(l, t, p).req = l.req /\ Went(l, t, p).seen = l.seen
           /\ Went(l, t, p).ip = l.ip /\ Went(l, t, p).port = l.port
           /\ Went(l, t, p).looked = l.looked
<1> DEFINE w == Went(l, t, p)
           pc == IF p = NoProxy \/ t = "local" THEN "direct"
                 ELSE IF t # "auto" THEN "remote"
                 ELSE IF l.state = "fail" THEN "remote" ELSE "auto"
           dns == IF p # NoProxy /\ t = "auto" /\ l.state = "fail" THEN "remote" ELSE l.dns
<1>1. w = [l EXCEPT !.target = "", !.rule = NoRule, !.proxy = p, !.pc = pc, !.dns = dns]
    BY DEF Went
<1>2. /\ pc \in {"direct", "remote", "auto"} /\ (pc = "direct" <=> p = NoProxy \/ t = "local")
      /\ pc = "auto" => t = "auto"
      /\ dns \in {l.dns, "remote"} /\ ((pc = "remote" /\ t = "auto") => dns = "remote")
      /\ t # "auto" => dns = l.dns
    OBVIOUS
<1>3. dns \in Text /\ "" \in Text
    BY DEF Text, Local
<1>4. NoRule \in Rules
    BY DEF Rules
<1> HIDE DEF w, pc, dns
<1>5. /\ w \in Local /\ w.pc = pc /\ w.dns = dns /\ w.proxy = p /\ w.req = l.req
      /\ w.seen = l.seen /\ w.ip = l.ip /\ w.port = l.port /\ w.looked = l.looked
    BY <1>1, <1>2, <1>3, <1>4 DEF Local, Phase
<1>6. Placed(w)
    BY <1>2, <1>5 DEF Placed, Looking
<1>7. QED
    BY <1>2, <1>5, <1>6 DEF w

\* tunnel.go:379: the port is mapped, the target may refuse, and then the proxies of
\* the rule are tried before the one of the program.
LEMMA ProxiesAdvances ==
    ASSUME ShakesPlaced, router \in Config, NEW h \in Shake, Proxies(h)
    PROVE  \E l : Step(h, l) /\ Advance(hs[h], l)
<1> DEFINE k == hs[h]
           m == [k EXCEPT !.port = MapPort(k.rule.port, @)]
           f == Finish(m, "error", NoName, NoProxy)
           q == IF m.rule.proxy # << >> /\ m.rule.op = "last" THEN NoProxy ELSE ProxyServer
<1>1. Placed(k) /\ k.pc = "proxy"
    BY DEF ShakesPlaced, Proxies, At
<1>2. \/ m.target = "deny" /\ Step(h, f)
      \/ m.target # "deny" /\ \E p \in Own(m.rule) : Step(h, Went(m, "remote", p))
      \/ /\ m.target # "deny"
         /\ IF m.rule.proxy # << >> /\ m.rule.op = "deny" THEN Step(h, f)
            ELSE Step(h, Went(m, m.target, q))
    BY Zenon DEF Proxies, Went
<1>3. k \in Local /\ k.req \in Request /\ k.rule \in Rules /\ k.port \in Nat
    BY <1>1 DEF Placed, Local
<1>4. MapPort(k.rule.port, k.port) \in Nat
    BY <1>3, MapPortType
<1> HIDE DEF k
<1>5. /\ m \in Local /\ m.port = MapPort(k.rule.port, k.port) /\ m.req = k.req
      /\ m.rule = k.rule /\ m.target = k.target /\ m.dns = k.dns /\ m.seen = k.seen
      /\ m.ip = k.ip /\ m.looked = k.looked
    BY <1>3, <1>4 DEF Local, Phase
<1>6. /\ k.rule.proxy \in Seq(Proxy) /\ NoProxy \notin Own(k.rule) /\ Own(k.rule) \subseteq Proxy
    BY <1>3, ConfigTypes
<1>7. k.rule.proxy # << >> <=> Own(k.rule) # {}
    <2> DEFINE s == k.rule.proxy
    <2>1. s \in Seq(Proxy) /\ Own(k.rule) = {s[i] : i \in DOMAIN s}
        BY <1>6 DEF Own
    <2> HIDE DEF s
    <2>2. s # << >> => 1 \in DOMAIN s
        BY <2>1
    <2>3. s = << >> => {s[i] : i \in DOMAIN s} = {}
        OBVIOUS
    <2>4. QED
        BY <2>1, <2>2, <2>3 DEF s
<1> HIDE DEF m, f, q
<1>8. Advance(k, f)
    BY <1>1, <1>3, <1>5, ErrorAdvances DEF f, Running
\* What it knows of the configuration when the target does not refuse.
<1>9. ASSUME Expect(k, router), m.target # "deny"
      PROVE  /\ k.rule = FindHost(router, k.req) /\ k.target = TargetOf(router, k.req)
             /\ k.dns = DnsOf(router, k.req) /\ ~Refused(router, k.req)
             /\ m.port = MapPort(FindHost(router, k.req).port, k.req.port)
             /\ k.looked => ResolvesHere(router, k.req)
             /\ FindHost(router, k.req).ip # NoAddr => k.ip = FindHost(router, k.req).ip
    BY <1>1, <1>5, <1>9, RefusedParts DEF Expect
<1>10. ASSUME NEW p \in Own(k.rule), m.target # "deny" PROVE Advance(k, Went(m, "remote", p))
    <2> DEFINE w == Went(m, "remote", p)
    <2>1. /\ Placed(w) /\ w.pc = "remote" /\ w.proxy = p /\ w.req = k.req /\ w.seen = k.seen
          /\ w.dns = k.dns /\ w.port = m.port /\ w.looked = k.looked /\ w.ip = k.ip
        <3>1. p \in Proxy /\ p # NoProxy /\ m.req \in Request
            BY <1>3, <1>5, <1>6, <1>10
        <3>2. QED
            BY <1>5, <3>1, WentFields
    <2> HIDE DEF w
    <2>2. ASSUME Expect(k, router) PROVE Expect(w, router)
        <3>1. MayUse(router, k.req, p)
            BY <1>9, <1>10, <2>2 DEF MayUse
        <3>2. NameFor(router, k.req, p) => w.dns = "remote"
            BY <1>9, <1>10, <2>1, <2>2 DEF NameFor
        <3>3. AddressFor(router, k.req) => k.req.name = NoName \/ w.dns # "remote"
            BY <1>9, <1>10, <2>1, <2>2 DEF AddressFor
        <3>4. QED
            BY <1>9, <1>10, <2>1, <2>2, <3>1, <3>2, <3>3 DEF Expect, Early, Looking, Leaving
    <2>3. QED
        BY <1>1, <2>1, <2>2 DEF Advance, Running, w
<1>11. ASSUME m.target # "deny", ~(m.rule.proxy # << >> /\ m.rule.op = "deny")
       PROVE  Advance(k, Went(m, m.target, q))
    <2> DEFINE w == Went(m, m.target, q)
    <2>1. q \in Proxy /\ m.req \in Request
        BY <1>3, <1>5 DEF q, Proxy, ProxyServer
    <2>2. /\ Placed(w) /\ w.pc \in {"direct", "remote", "auto"}
          /\ w.pc = "direct" <=> q = NoProxy \/ k.target = "local"
          /\ w.pc = "auto" => k.target = "auto"
          /\ w.dns \in {k.dns, "remote"}
          /\ (w.pc = "remote" /\ k.target = "auto") => w.dns = "remote"
          /\ k.target # "auto" => w.dns = k.dns
          /\ w.proxy = q /\ w.req = k.req /\ w.seen = k.seen
          /\ w.ip = k.ip /\ w.port = m.port /\ w.looked = k.looked
        BY <1>5, <2>1, WentFields
    <2> HIDE DEF w
    <2>3. ASSUME Expect(k, router) PROVE Expect(w, router)
        <3> DEFINE rule == FindHost(router, k.req)
        <3>1. /\ q = NoProxy => GlobalProxy = NoProxy \/ (Own(rule) # {} /\ rule.op = "last")
              /\ q # NoProxy => q = GlobalProxy /\ ~(Own(rule) # {} /\ rule.op = "last")
              /\ Own(rule) = {} \/ rule.op # "deny"
            BY <1>5, <1>7, <1>9, <1>11, <2>3 DEF q, ProxyServer
        <3>2. w.pc = "direct" => MayGoDirect(router, k.req)
            BY <1>9, <1>11, <2>2, <2>3, <3>1 DEF MayGoDirect
        <3>3. w.pc # "direct" => LeftToGlobal(router, k.req) /\ q = GlobalProxy
            BY <2>2, <3>1 DEF LeftToGlobal
        <3>4. w.pc = "remote" => MayUse(router, k.req, q)
            BY <1>9, <1>11, <2>2, <2>3, <3>3 DEF MayUse
        <3>5. (w.pc = "remote" /\ NameFor(router, k.req, q)) => w.dns = "remote"
            BY <1>9, <1>11, <2>2, <2>3 DEF NameFor
        <3>6. AddressFor(router, k.req) => k.req.name = NoName \/ w.dns # "remote"
            BY <1>9, <1>11, <2>2, <2>3 DEF AddressFor
        <3> HIDE DEF rule
        <3>7. QED
            BY <1>9, <1>11, <2>2, <2>3, <3>2, <3>3, <3>4, <3>5, <3>6 DEF Expect, Early, Looking, Leaving
    <2>4. QED
        BY <1>1, <2>2, <2>3 DEF Advance, Running, w
<1>12. QED
    BY <1>2, <1>5, <1>8, <1>10, <1>11 DEF k

\* A handshake whose local connection failed goes on to the proxy, which gets the name.
LEMMA ToRemoteAdvances ==
    ASSUME router \in Config, NEW k \in Local, Placed(k), k.pc \in {"auto", "fail"}
    PROVE  Advance(k, [k EXCEPT !.pc = "remote", !.dns = "remote"])
<1> DEFINE l == [k EXCEPT !.pc = "remote", !.dns = "remote"]
<1>1. k.req \in Request
    BY DEF Placed
<1>2. "remote" \in Text
    BY DEF Text
<1>3. /\ l \in Local /\ l.pc = "remote" /\ l.dns = "remote" /\ l.req = k.req /\ l.proxy = k.proxy
      /\ l.port = k.port /\ l.seen = k.seen /\ l.looked = k.looked /\ l.ip = k.ip
    BY <1>2 DEF Local, Phase
<1> HIDE DEF l
<1>4. Placed(l)
    BY <1>1, <1>3 DEF Placed, Looking
<1>5. ASSUME Expect(k, router) PROVE Expect(l, router)
    <2>1. MayUse(router, k.req, k.proxy)
        BY <1>5 DEF Expect, MayUse
    <2>2. /\ ~Refused(router, k.req) /\ k.port = MapPort(FindHost(router, k.req).port, k.req.port)
          /\ k.looked => ResolvesHere(router, k.req)
          /\ FindHost(router, k.req).ip # NoAddr => k.ip = FindHost(router, k.req).ip
        BY <1>5 DEF Expect, Leaving
    <2>3. AddressFor(router, k.req) => k.req.name = NoName
        BY <1>5 DEF Expect, AddressFor
    <2>4. QED
        BY <1>3, <2>1, <2>2, <2>3 DEF Expect, Early, Looking, Leaving
<1>6. QED
    BY <1>3, <1>4, <1>5 DEF Advance, Running, Leaving, l

\* tunnel.go:423: the local connection is made, or fails.
LEMMA LocalDialAdvances ==
    ASSUME ShakesPlaced, router \in Config, NEW h \in Shake, LocalDial(h)
    PROVE  \E l : Step(h, l) /\ Advance(hs[h], l)
<1> DEFINE k == hs[h]
           f == Finish(k, "direct", Address(k), NoProxy)
           l == [k EXCEPT !.pc = "fail"]
           m == [k EXCEPT !.pc = "remote", !.dns = "remote"]
<1>1. k \in Local /\ Placed(k) /\ k.pc = "auto"
    BY DEF ShakesPlaced, LocalDial, At
<1>2. \/ Address(k) # NoName /\ Step(h, f)
      \/ IF k.req.name # NoName /\ k.ip # NoAddr THEN Step(h, l) ELSE Step(h, m)
    BY Zenon DEF LocalDial
<1> HIDE DEF k
<1>3. Address(k) # NoName => Advance(k, f)
    BY <1>1, DirectAdvances
<1>4. Advance(k, m)
    BY <1>1, ToRemoteAdvances
<1>5. ASSUME k.req.name # NoName, k.ip # NoAddr PROVE Advance(k, l)
    <2>1. /\ l \in Local /\ l.pc = "fail" /\ l.req = k.req /\ l.proxy = k.proxy /\ l.ip = k.ip
          /\ l.port = k.port /\ l.seen = k.seen /\ l.looked = k.looked
        BY <1>1 DEF Local, Phase
    <2> HIDE DEF l
    <2>2. Placed(l)
        BY <1>1, <1>5, <2>1 DEF Placed, Looking
    <2>3. Expect(k, router) => Expect(l, router)
        BY <1>1, <2>1 DEF Expect, Early, Looking, Leaving
    <2>4. QED
        BY <1>1, <2>1, <2>2, <2>3 DEF Advance, Running, Leaving
<1> HIDE DEF f, l, m
<1>6. QED
    BY <1>2, <1>3, <1>4, <1>5 DEF k

\* tunnel.go:435: what failed has been remembered.
LEMMA StoreFailAdvances ==
    ASSUME ShakesPlaced, router \in Config, NEW h \in Shake, StoreFail(h)
    PROVE  \E l : Step(h, l) /\ Advance(hs[h], l)
<1> DEFINE k == hs[h]
           m == [k EXCEPT !.pc = "remote", !.dns = "remote"]
<1>1. k \in Local /\ Placed(k) /\ k.pc = "fail"
    BY DEF ShakesPlaced, StoreFail, At
<1>2. Step(h, m)
    BY DEF StoreFail
<1>3. Advance(k, m)
    BY <1>1, ToRemoteAdvances
<1>4. QED
    BY <1>2, <1>3

\* tunnel.go:462: a proxy that is asked for a connection gets the name when it is to
\* resolve it, else the address, and the mapped port.
LEMMA AskAdvances ==
    ASSUME router \in Config, NEW k \in Local, Placed(k), k.pc = "remote",
           NEW to \in Name \cup Addr \cup {NoName, NoAddr},
           to = IF k.dns = "remote" /\ k.req.name # NoName THEN k.req.name ELSE k.ip
    PROVE  Advance(k, Ask(k, to))
<1> DEFINE f == Ask(k, to)
           o == [how |-> "proxy", to |-> to, by |-> k.proxy, port |-> k.port, looked |-> k.looked]
<1>1. /\ k.req \in Request /\ k.proxy \in Proxy
      /\ "proxy" \in {"error", "direct", "proxy", "plain"}
    BY DEF Placed, Local
<1>2. /\ Placed(f) /\ f.pc = "done" /\ f.req = k.req /\ f.seen = k.seen /\ f.looked = FALSE
      /\ f.out = o
    <2>1. Ended(Finish(k, "proxy", to, k.proxy), k, "proxy", to, k.proxy)
        BY <1>1, FinishFields
    <2>2. QED
        BY <2>1 DEF Ended, Ask
<1>3. /\ o.how = "proxy" /\ o.looked = k.looked /\ o.port = k.port /\ o.to = to /\ o.by = k.proxy
    OBVIOUS
<1> HIDE DEF f, o
<1>4. ASSUME Expect(k, router) PROVE Expect(f, router)
    <2>1. /\ f.out.how = "proxy" /\ f.out.looked = k.looked /\ f.out.port = k.port
          /\ f.out.to = to /\ f.out.by = k.proxy
        BY <1>2, <1>3
    <2>2. /\ ~Refused(router, k.req) /\ k.port = MapPort(FindHost(router, k.req).port, k.req.port)
          /\ k.looked => ResolvesHere(router, k.req)
        BY <1>4 DEF Expect, Leaving
    <2>3. MayUse(router, k.req, k.proxy) /\ (NameFor(router, k.req, k.proxy) => to = k.req.name)
        BY <1>4 DEF Expect, NameFor
    <2>4. AddressFor(router, k.req) => to = FindHost(router, k.req).ip
        BY <1>4 DEF Expect, Leaving, AddressFor
    <2>5. (DnsOf(router, f.req) = "remote" \/ FindHost(router, f.req).ip # NoAddr) => ~f.out.looked
        BY <1>2, <2>1, <2>2 DEF ResolvesHere
    <2>6. Conforms(router, f.req, f.out)
        <3>1. f.out.port = MapPort(FindHost(router, f.req).port, f.req.port)
            BY <1>2, <2>1, <2>2
        <3>2. /\ ~Refused(router, f.req) /\ MayUse(router, f.req, f.out.by)
              /\ NameFor(router, f.req, f.out.by) => f.out.to = f.req.name
              /\ AddressFor(router, f.req) => f.out.to = FindHost(router, f.req).ip
            BY <1>2, <2>1, <2>2, <2>3, <2>4
        <3>3. QED
            BY <2>1, <2>5, <3>1, <3>2, ConformsParts
    <2>7. QED
        BY <1>2, <2>6 DEF Expect, Early, Looking, Leaving
<1>5. QED
    BY <1>2, <1>4 DEF Advance, Running, Leaving, f

\* tunnel.go:471: an http proxy that gets the request as it came is one that the
\* request may use.
LEMMA ForwardAdvances ==
    ASSUME router \in Config, NEW k \in Local, Placed(k), k.pc = "remote",
           k.proxy \in HttpScheme, k.req.proto = "http"
    PROVE  Advance(k, Forward(k))
<1> DEFINE m == [k EXCEPT !.port = k.req.port]
           f == Forward(k)
           o == [how |-> "plain", to |-> k.req.name, by |-> k.proxy, port |-> m.port,
                 looked |-> m.looked]
<1>1. /\ k.req \in Request /\ k.proxy \in Proxy
      /\ "plain" \in {"error", "direct", "proxy", "plain"}
    BY DEF Placed, Local
<1>2. k.req.port \in Nat /\ k.req.name \in Name \cup Addr \cup {NoName, NoAddr}
    BY <1>1, RouteAssumption
<1>3. m \in Local /\ m.req = k.req /\ m.seen = k.seen /\ m.looked = k.looked
    BY <1>2 DEF Local
<1> HIDE DEF m
<1>4. /\ Placed(f) /\ f.pc = "done" /\ f.req = k.req /\ f.seen = k.seen /\ f.looked = FALSE
      /\ f.out = o
    <2>1. Ended(Finish(m, "plain", k.req.name, k.proxy), m, "plain", k.req.name, k.proxy)
        BY <1>1, <1>2, <1>3, FinishFields
    <2>2. QED
        BY <1>3, <2>1 DEF Ended, Forward, m
<1>5. o.how = "plain" /\ o.looked = k.looked /\ o.by = k.proxy
    BY <1>3
<1> HIDE DEF f, o
<1>6. ASSUME Expect(k, router) PROVE Expect(f, router)
    <2>1. f.out.how = "plain" /\ f.out.looked = k.looked /\ f.out.by = k.proxy
        BY <1>4, <1>5
    <2>2. /\ ~Refused(router, k.req) /\ MayUse(router, k.req, k.proxy)
          /\ k.looked => ResolvesHere(router, k.req)
        BY <1>6 DEF Expect, Leaving
    <2>3. (DnsOf(router, f.req) = "remote" \/ FindHost(router, f.req).ip # NoAddr) => ~f.out.looked
        BY <1>4, <2>1, <2>2 DEF ResolvesHere
    <2>4. Conforms(router, f.req, f.out)
        BY <1>4, <2>1, <2>2, <2>3, ConformsParts
    <2>5. QED
        BY <1>4, <2>4 DEF Expect, Early, Looking, Leaving
<1>7. QED
    BY <1>4, <1>6 DEF Advance, Running, Leaving, f

\* tunnel.go:444: a proxy is asked for a connection, or dialled for the request.
LEMMA RemoteAdvances ==
    ASSUME ShakesPlaced, router \in Config, NEW h \in Shake, Remote(h)
    PROVE  \E l : Step(h, l) /\ Advance(hs[h], l)
<1> DEFINE k == hs[h]
           to == IF k.dns = "remote" /\ k.req.name # NoName THEN k.req.name ELSE k.ip
           e == Finish(k, "error", NoName, NoProxy)
<1>1. k \in Local /\ Placed(k) /\ k.pc = "remote"
    BY DEF ShakesPlaced, Remote, At
<1>2. \/ k.proxy \in HttpScheme /\ k.req.proto = "http" /\ Step(h, Forward(k))
      \/ Step(h, Ask(k, to))
      \/ Step(h, e)
    BY Zenon DEF Remote, Connect
<1> HIDE DEF k
<1>3. k.req \in Request
    BY <1>1 DEF Placed
<1>4. to \in Name \cup Addr \cup {NoName, NoAddr}
    <2>1. k.ip \in Addr \cup {NoAddr} /\ k.req.name \in Name \cup {NoName}
        BY <1>1, <1>3, RouteAssumption DEF Local
    <2>2. QED
        BY <2>1
<1>5. Advance(k, e)
    BY <1>1, ErrorAdvances DEF Running, Leaving
<1>6. Advance(k, Ask(k, to))
    BY <1>1, <1>4, AskAdvances
<1>7. k.proxy \in HttpScheme /\ k.req.proto = "http" => Advance(k, Forward(k))
    BY <1>1, ForwardAdvances
<1> HIDE DEF to, e
<1>8. QED
    BY <1>2, <1>5, <1>6, <1>7 DEF k

\* tunnel.go:480: a connection without a proxy.
LEMMA DirectStepAdvances ==
    ASSUME ShakesPlaced, router \in Config, NEW h \in Shake, Direct(h)
    PROVE  \E l : Step(h, l) /\ Advance(hs[h], l)
<1> DEFINE k == hs[h]
           f == Finish(k, "direct", Address(k), NoProxy)
           e == Finish(k, "error", NoName, NoProxy)
<1>1. k \in Local /\ Placed(k) /\ k.pc = "direct"
    BY DEF ShakesPlaced, Direct, At
<1>2. (Address(k) # NoName /\ Step(h, f)) \/ Step(h, e)
    BY Zenon DEF Direct
<1>3. Address(k) # NoName => Advance(k, f)
    BY <1>1, DirectAdvances
<1>4. Advance(k, e)
    BY <1>1, ErrorAdvances DEF Running, Leaving
<1>5. QED
    BY <1>2, <1>3, <1>4

----------------------------------------------------------------------------
(* What the steps of handshakes keep.                                      *)

\* The steps after the first one.
Proceed(h) ==
    \/ Find(h) \/ ReadDefaults(h) \/ CacheLookup(h) \/ AskDNS(h) \/ StoreAnswer(h)
    \/ Proxies(h) \/ LocalDial(h) \/ StoreFail(h) \/ Remote(h) \/ Direct(h)

\* Each of them takes the handshake from locals that agree with the configuration to
\* locals that do.
LEMMA ProceedAdvances ==
    ASSUME ShakesPlaced, CacheTypeOK, router \in Config, NEW h \in Shake, Proceed(h)
    PROVE  \E l : Step(h, l) /\ Advance(hs[h], l)
<1>1. CASE Find(h) \/ ReadDefaults(h) \/ CacheLookup(h)
    BY <1>1, FindAdvances, ReadDefaultsAdvances, CacheLookupAdvances
<1>2. CASE AskDNS(h) \/ StoreAnswer(h) \/ Proxies(h)
    BY <1>2, AskDNSAdvances, StoreAnswerAdvances, ProxiesAdvances
<1>3. CASE LocalDial(h) \/ StoreFail(h) \/ Remote(h) \/ Direct(h)
    BY <1>3, LocalDialAdvances, StoreFailAdvances, RemoteAdvances, DirectStepAdvances
<1>4. QED
    BY <1>1, <1>2, <1>3 DEF Proceed

\* The configuration and the time are not for a handshake to change.
LEMMA ProceedElsewhere ==
    ASSUME NEW h \in Shake, Proceed(h)
    PROVE  UNCHANGED <<file, event, loaded, router, edits, begun, now>>
BY DEF Proceed, Find, ReadDefaults, CacheLookup, AskDNS, StoreAnswer, Proxies, LocalDial, StoreFail,
       Remote, Direct, Elsewhere, config

ShakesKnow == ShakesPlaced /\ RouterSeen /\ ShakesExpect

\* When one handshake advances, the invariant about all of them is kept.
LEMMA AdvanceKeeps ==
    ASSUME ShakesKnow, router \in Config, UNCHANGED router,
           NEW h \in Shake, NEW l, Step(h, l), Advance(hs[h], l)
    PROVE  ShakesKnow'
<1>1. /\ hs \in [Shake -> Local] /\ hs' = [hs EXCEPT ![h] = l] /\ l \in Local
    BY DEF ShakesKnow, ShakesPlaced, Step, Advance, Placed
<1>2. hs' \in [Shake -> Local] /\ hs'[h] = l /\ \A g \in Shake : g # h => hs'[g] = hs[g]
    BY <1>1
<1>3. ShakesPlaced'
    BY <1>2 DEF ShakesKnow, ShakesPlaced, Advance
<1>4. RouterSeen'
    BY <1>2 DEF ShakesKnow, RouterSeen, Advance
<1>5. ASSUME NEW g \in Shake, NEW c \in Config, hs'[g].seen = {c} PROVE Expect(hs'[g], c)
    <2>1. CASE g # h
        BY <1>2, <1>5, <2>1 DEF ShakesKnow, ShakesExpect
    <2>2. CASE g = h
        <3>1. hs[h].seen = {c} /\ router \in hs[h].seen
            BY <1>2, <1>5, <2>2 DEF ShakesKnow, RouterSeen, Advance
        <3>2. router = c /\ Expect(hs[h], c)
            BY <3>1 DEF ShakesKnow, ShakesExpect
        <3>3. QED
            BY <1>2, <2>2, <3>2 DEF Advance
    <2>3. QED
        BY <2>1, <2>2
<1>6. QED
    BY <1>3, <1>4, <1>5 DEF ShakesKnow, ShakesExpect

\* A new handshake has seen the configuration of its moment, and nothing was looked
\* up for it.
LEMMA BeginKeeps ==
    ASSUME ShakesKnow, router \in Config, NEW h \in Shake, BeginShake(h)
    PROVE  ShakesKnow'
<1>1. PICK r \in Request :
        hs' = [hs EXCEPT ![h] = [Idle EXCEPT !.pc = "find", !.req = r, !.ip = r.ip, !.port = r.port,
                                             !.seen = {router}]]
    BY DEF BeginShake, Step
<1> DEFINE l == [Idle EXCEPT !.pc = "find", !.req = r, !.ip = r.ip, !.port = r.port, !.seen = {router}]
<1>2. r.ip \in Addr \cup {NoAddr} /\ r.port \in Nat
    BY RouteAssumption
<1>3. /\ l \in Local /\ l.pc = "find" /\ l.req = r /\ l.port = r.port /\ l.seen = {router}
      /\ l.looked = Idle.looked
    BY <1>2, IdlePlaced DEF Local, Phase
<1>4. hs' = [hs EXCEPT ![h] = l] /\ hs \in [Shake -> Local]
    BY <1>1 DEF ShakesKnow, ShakesPlaced
<1> HIDE DEF l
<1>5. hs' \in [Shake -> Local] /\ hs'[h] = l /\ \A g \in Shake : g # h => hs'[g] = hs[g]
    BY <1>3, <1>4
<1>6. Placed(l)
    BY <1>3 DEF Placed, Looking
<1>7. router' = router
    BY DEF BeginShake, config
<1>8. ~l.looked
    BY <1>3, IdlePlaced
<1>9. Expect(l, router)
    BY <1>3, <1>8 DEF Expect, Early, Looking, Leaving
<1>10. ShakesPlaced'
    BY <1>5, <1>6 DEF ShakesKnow, ShakesPlaced
<1>11. RouterSeen'
    BY <1>3, <1>5, <1>7 DEF ShakesKnow, RouterSeen
<1>12. ASSUME NEW g \in Shake, NEW c \in Config, hs'[g].seen = {c} PROVE Expect(hs'[g], c)
    <2>1. CASE g # h
        BY <1>5, <1>12, <2>1 DEF ShakesKnow, ShakesExpect
    <2>2. CASE g = h
        BY <1>3, <1>5, <1>9, <1>12, <2>2
    <2>3. QED
        BY <2>1, <2>2
<1>13. QED
    BY <1>10, <1>11, <1>12 DEF ShakesKnow, ShakesExpect

\* A handshake that runs has seen the configuration that is put in place, and
\* nothing else of it changes.
LEMMA ReplaceFields ==
    ASSUME ShakesPlaced, loaded[1] \in Config, Replace, NEW g \in Shake
    PROVE  /\ hs'[g] \in Local /\ hs'[g].pc = hs[g].pc /\ hs'[g].req = hs[g].req
           /\ hs'[g].rule = hs[g].rule /\ hs'[g].target = hs[g].target
           /\ hs'[g].dns = hs[g].dns /\ hs'[g].ip = hs[g].ip /\ hs'[g].port = hs[g].port
           /\ hs'[g].proxy = hs[g].proxy /\ hs'[g].looked = hs[g].looked /\ hs'[g].out = hs[g].out
           /\ hs[g].pc \in {"idle", "done"} => hs'[g].seen = hs[g].seen
           /\ hs[g].pc \notin {"idle", "done"} => hs'[g].seen = hs[g].seen \cup {loaded[1]}
<1> DEFINE k == hs[g]
           S == IF k.pc \in {"idle", "done"} THEN k.seen ELSE k.seen \cup {loaded[1]}
           m == [k EXCEPT !.seen = S]
<1>1. hs'[g] = m
    BY DEF Replace, Seen
<1>2. k \in Local
    BY DEF ShakesPlaced
<1>3. S \in SUBSET Config
    BY <1>2 DEF Local
<1>4. /\ k.pc \in {"idle", "done"} => S = k.seen
      /\ k.pc \notin {"idle", "done"} => S = k.seen \cup {loaded[1]}
    OBVIOUS
<1> HIDE DEF k, S
<1>5. /\ m \in Local /\ m.seen = S /\ m.pc = k.pc /\ m.req = k.req /\ m.rule = k.rule
      /\ m.target = k.target /\ m.dns = k.dns /\ m.ip = k.ip /\ m.port = k.port
      /\ m.proxy = k.proxy /\ m.looked = k.looked /\ m.out = k.out
    BY <1>2, <1>3 DEF Local
<1> HIDE DEF m
<1>6. QED
    BY <1>1, <1>4, <1>5 DEF k

\* config.go:57: when the configuration is replaced, every handshake that runs has
\* seen two of them from then on, unless they are the same.
LEMMA ReplaceKeeps ==
    ASSUME ShakesKnow, router \in Config, loaded[1] \in Config, Replace
    PROVE  ShakesKnow'
<1>1. router' = loaded[1]
    BY DEF Replace
<1>2. ShakesPlaced
    BY DEF ShakesKnow
<1>3. ShakesPlaced'
    <2>1. hs' \in [Shake -> Local]
        BY <1>2, ReplaceFields DEF Replace, Seen
    <2>2. ASSUME NEW g \in Shake PROVE Placed(hs'[g])
        BY <1>2, ReplaceFields DEF ShakesPlaced, Placed
    <2>3. QED
        BY <2>1, <2>2 DEF ShakesPlaced
<1>4. RouterSeen'
    <2> SUFFICES ASSUME NEW g \in Shake, hs'[g].pc \in Running PROVE router' \in hs'[g].seen
        BY DEF RouterSeen
    <2>1. hs'[g].pc \notin {"idle", "done"}
        BY DEF Running, Early, Looking, Leaving
    <2>2. QED
        BY <1>1, <1>2, <2>1, ReplaceFields
<1>5. ASSUME NEW g \in Shake, NEW c \in Config, hs'[g].seen = {c} PROVE Expect(hs'[g], c)
    <2>1. hs[g].seen = {c}
        <3>1. CASE hs[g].pc \in {"idle", "done"}
            BY <1>2, <1>5, <3>1, ReplaceFields
        <3>2. CASE hs[g].pc \notin {"idle", "done"}
            <4>1. hs[g] \in Local
                BY <1>2 DEF ShakesPlaced
            <4>2. hs[g].pc \in Running
                BY <3>2, <4>1 DEF Local, Phase, Running, Early, Looking, Leaving
            <4>3. router \in hs[g].seen
                BY <4>2 DEF ShakesKnow, RouterSeen
            <4>4. hs[g].seen \cup {loaded[1]} = {c}
                BY <1>2, <1>5, <3>2, ReplaceFields
            <4>5. QED
                BY <4>3, <4>4
        <3>3. QED
            BY <3>1, <3>2
    <2>2. Expect(hs[g], c)
        BY <2>1 DEF ShakesKnow, ShakesExpect
    <2>3. QED
        BY <1>2, <2>2, ReplaceFields DEF Expect
<1>6. QED
    BY <1>3, <1>4, <1>5 DEF ShakesKnow, ShakesExpect

----------------------------------------------------------------------------
(* The types, and what each handshake knows.                               *)

RouteInv == RouteTypeOK /\ InRing /\ ShakesKnow

\* What a step of a handshake does to the cache and to what is known of names: a
\* lookup, a store, or nothing.
LEMMA ProceedCases ==
    ASSUME NEW h \in Shake, Proceed(h)
    PROVE  \/ CacheLookup(h) \/ StoreAnswer(h) \/ StoreFail(h)
           \/ UNCHANGED <<ips, keys, next, dead, raced>>
BY DEF Proceed, Find, ReadDefaults, AskDNS, Proxies, LocalDial, Remote, Direct, CacheAlone, ghosts

\* Only names are looked up, and only addresses of names are stored.
LEMMA CacheArguments ==
    ASSUME ShakesPlaced, NEW h \in Shake, CacheLookup(h) \/ StoreAnswer(h) \/ StoreFail(h)
    PROVE  /\ hs[h].req.name \in Name
           /\ StoreAnswer(h) \/ StoreFail(h) => hs[h].ip \in Addr
<1> DEFINE k == hs[h]
<1>1. k.pc \in {"resolve", "store", "fail"} /\ (StoreAnswer(h) \/ StoreFail(h) => k.pc \in {"store", "fail"})
    BY DEF CacheLookup, StoreAnswer, StoreFail, At
<1>2. Placed(k)
    BY DEF ShakesPlaced
<1> HIDE DEF k
<1>3. k \in Local /\ k.req \in Request /\ k.req.name # NoName
    BY <1>1, <1>2 DEF Placed, Looking
<1>4. k.req.name \in Name
    BY <1>3, RouteAssumption
<1>5. k.pc \in {"store", "fail"} => k.ip \in Addr
    BY <1>2, <1>3 DEF Placed, Local
<1>6. QED
    BY <1>1, <1>4, <1>5 DEF k

\* A store by a handshake is one of the cache's.
LEMMA StoreKeeps ==
    ASSUME CacheTypeOK, InRing, NEW n \in Name, NEW a \in Addr, NEW s \in {"new", "fail"},
           Store(n, a, s), UNCHANGED now
    PROVE  CacheTypeOK' /\ InRing'
<1>1. CacheTypeOK'
    BY StoreType DEF CacheTypeOK
<1>2. InRing'
    BY StoreInRing
<1>3. QED
    BY <1>1, <1>2

\* The cache keeps its types and its ring under the steps of handshakes.
LEMMA ProceedKeepsCache ==
    ASSUME CacheTypeOK, InRing, ShakesPlaced, NEW h \in Shake, Proceed(h)
    PROVE  CacheTypeOK' /\ InRing'
<1>1. UNCHANGED now
    BY ProceedElsewhere
<1>2. CASE CacheLookup(h)
    <2>1. PICK n \in Name : Lookup(n)
        BY <1>2, CacheArguments DEF CacheLookup
    <2>2. CacheTypeOK'
        BY <1>1, <2>1 DEF Lookup, Remove, CacheTypeOK
    <2>3. InRing'
        BY <2>1 DEF Lookup, Remove, InRing
    <2>4. QED
        BY <2>2, <2>3
<1>3. CASE StoreAnswer(h)
    <2>1. PICK n \in Name, a \in Addr : Store(n, a, "new")
        BY <1>3, CacheArguments DEF StoreAnswer
    <2>2. QED
        BY <1>1, <2>1, StoreKeeps
<1>4. CASE StoreFail(h)
    <2>1. PICK n \in Name, a \in Addr : Store(n, a, "fail")
        BY <1>4, CacheArguments DEF StoreFail
    <2>2. QED
        BY <1>1, <2>1, StoreKeeps
<1>5. CASE UNCHANGED <<ips, keys, next, dead, raced>>
    BY <1>1, <1>5 DEF CacheTypeOK, InRing
<1>6. QED
    BY <1>2, <1>3, <1>4, <1>5, ProceedCases

\* What is known of names keeps its type.
LEMMA ProceedKeepsGhosts ==
    ASSUME RouteTypeOK, ShakesPlaced, NEW h \in Shake, Proceed(h)
    PROVE  dead' \in [Name -> Nat] /\ raced' \in [Shake -> BOOLEAN]
<1>1. dead \in [Name -> Nat] /\ raced \in [Shake -> BOOLEAN] /\ now \in Nat /\ FailTTL \in Nat
    BY CacheAssumption DEF RouteTypeOK, CacheTypeOK
<1>2. CASE CacheLookup(h)
    BY <1>1, <1>2 DEF CacheLookup, ghosts
<1>3. CASE StoreAnswer(h)
    BY <1>1, <1>3 DEF StoreAnswer
<1>4. CASE StoreFail(h)
    <2>1. dead' \in [Name -> Nat]
        BY <1>1, <1>4 DEF StoreFail
    <2>2. raced' \in [Shake -> BOOLEAN]
        BY <1>4 DEF StoreFail
    <2>3. QED
        BY <2>1, <2>2
<1>5. CASE UNCHANGED <<ips, keys, next, dead, raced>>
    BY <1>1, <1>5
<1>6. QED
    BY <1>2, <1>3, <1>4, <1>5, ProceedCases

\* The handshakes that are placed are typed.
LEMMA PlacedTyped ==
    ASSUME ShakesPlaced
    PROVE  hs \in [Shake -> Local] /\ \A h \in Shake : At(h, "idle") \/ hs[h].req \in Request
BY DEF ShakesPlaced, Placed, At

\* The first state.
LEMMA RouteInitInv == ASSUME RouteInit PROVE RouteInv
<1>1. CacheTypeOK /\ InRing
    BY CacheAssumption DEF RouteInit, CacheInit, CacheTypeOK, InRing, Slot
<1>2. hs \in [Shake -> Local] /\ \A h \in Shake : hs[h] = Idle
    BY IdlePlaced DEF RouteInit
<1>3. Idle.pc = "idle" /\ Idle.seen = {} /\ ~Idle.looked
    BY IdlePlaced DEF Idle
<1>4. ShakesKnow
    BY <1>2, <1>3, IdlePlaced
    DEF ShakesKnow, ShakesPlaced, RouterSeen, ShakesExpect, Running, Early, Looking, Leaving
<1>5. file \in Config /\ event \in BOOLEAN /\ loaded = << >> /\ router \in Config
    BY RouteAssumption DEF RouteInit
<1>6. edits \in 0 .. MaxWork /\ begun \in 0 .. MaxWork
    BY RouteAssumption DEF RouteInit
<1>7. dead \in [Name -> Nat] /\ raced \in [Shake -> BOOLEAN]
    BY DEF RouteInit
<1>8. hs \in [Shake -> Local] /\ \A h \in Shake : At(h, "idle") \/ hs[h].req \in Request
    BY <1>4, PlacedTyped DEF ShakesKnow
<1>9. QED
    BY <1>1, <1>4, <1>5, <1>6, <1>7, <1>8 DEF RouteInv, RouteTypeOK

\* An edit, which handshakes do not notice.
LEMMA EditKeeps == ASSUME RouteInv, Edit PROVE RouteInv'
<1>1. /\ file' \in Config \cup {Broken} /\ event' \in BOOLEAN /\ edits' \in 0 .. MaxWork
    <2>1. file' \in Config \cup {Broken} /\ event' \in BOOLEAN
        BY RouteAssumption DEF Edit
    <2>2. edits \in Nat /\ begun \in Nat
        BY DEF RouteInv, RouteTypeOK
    <2>3. edits' \in 0 .. MaxWork
        BY <2>2, RouteAssumption DEF Edit
    <2>4. QED
        BY <2>1, <2>3
<1>2. UNCHANGED <<loaded, router, ips, keys, next, now, hs, begun, dead, raced>>
    BY DEF Edit, cacheVars, ghosts
<1>3. CacheTypeOK' /\ InRing'
    BY <1>2 DEF RouteInv, RouteTypeOK, CacheTypeOK, InRing
<1>4. ShakesKnow'
    BY <1>2 DEF RouteInv, ShakesKnow, ShakesPlaced, RouterSeen, ShakesExpect
<1>5. QED
    BY <1>1, <1>2, <1>3, <1>4 DEF RouteInv, RouteTypeOK, At

\* The watcher reads the file: it holds what can be parsed.
LEMMA ReadFileKeeps == ASSUME RouteInv, ReadFile PROVE RouteInv'
<1>1. event' \in BOOLEAN /\ loaded' \in {<< >>} \cup {<<c>> : c \in Config}
    BY DEF ReadFile, LoadRouterConfig
<1>2. UNCHANGED <<file, router, edits, ips, keys, next, now, hs, begun, dead, raced>>
    BY DEF ReadFile, cacheVars, ghosts
<1>3. CacheTypeOK' /\ InRing'
    BY <1>2 DEF RouteInv, RouteTypeOK, CacheTypeOK, InRing
<1>4. ShakesKnow'
    BY <1>2 DEF RouteInv, ShakesKnow, ShakesPlaced, RouterSeen, ShakesExpect
<1>5. QED
    BY <1>1, <1>2, <1>3, <1>4 DEF RouteInv, RouteTypeOK, At

\* What the watcher holds is one configuration.
LEMMA LoadedOne ==
    ASSUME RouteTypeOK, loaded # << >>
    PROVE  loaded[1] \in Config /\ loaded = <<loaded[1]>>
<1>1. PICK c \in Config : loaded = <<c>>
    BY DEF RouteTypeOK
<1>2. QED
    BY <1>1

\* The watcher puts it in place.
LEMMA ReplaceStep == ASSUME RouteInv, Replace PROVE RouteInv'
<1>1. loaded[1] \in Config /\ router \in Config
    BY LoadedOne DEF RouteInv, RouteTypeOK, Replace
<1>2. ShakesKnow'
    BY <1>1, ReplaceKeeps DEF RouteInv
<1>3. router' \in Config /\ loaded' = << >>
    BY <1>1 DEF Replace
<1>4. UNCHANGED <<file, event, edits, ips, keys, next, now, begun, dead, raced>>
    BY DEF Replace, cacheVars, ghosts
<1>5. CacheTypeOK' /\ InRing'
    BY <1>4 DEF RouteInv, RouteTypeOK, CacheTypeOK, InRing
<1>6. (hs \in [Shake -> Local] /\ \A h \in Shake : At(h, "idle") \/ hs[h].req \in Request)'
    BY <1>2, PlacedTyped DEF ShakesKnow, ShakesPlaced, Placed, At
<1>7. QED
    BY <1>2, <1>3, <1>4, <1>5, <1>6 DEF RouteInv, RouteTypeOK

\* Time goes on.
LEMMA TimeKeeps == ASSUME RouteInv, Time PROVE RouteInv'
<1>1. now' \in Nat
    BY DEF RouteInv, RouteTypeOK, CacheTypeOK, Time, Tick
<1>2. UNCHANGED <<file, event, loaded, router, edits, ips, keys, next, hs, begun, dead, raced>>
    BY DEF Time, config, ghosts
<1>3. CacheTypeOK' /\ InRing'
    BY <1>1, <1>2 DEF RouteInv, RouteTypeOK, CacheTypeOK, InRing
<1>4. ShakesKnow'
    BY <1>2 DEF RouteInv, ShakesKnow, ShakesPlaced, RouterSeen, ShakesExpect
<1>5. QED
    BY <1>2, <1>3, <1>4 DEF RouteInv, RouteTypeOK, At

\* A handshake begins.
LEMMA BeginStep == ASSUME RouteInv, NEW h \in Shake, BeginShake(h) PROVE RouteInv'
<1>1. ShakesKnow'
    BY BeginKeeps DEF RouteInv, RouteTypeOK
<1>2. begun' \in 0 .. MaxWork /\ raced' \in [Shake -> BOOLEAN]
    <2>1. begun \in Nat /\ edits \in Nat /\ raced \in [Shake -> BOOLEAN]
        BY DEF RouteInv, RouteTypeOK
    <2>2. QED
        BY <2>1, RouteAssumption DEF BeginShake
<1>3. UNCHANGED <<file, event, loaded, router, edits, ips, keys, next, now, dead>>
    BY DEF BeginShake, config, cacheVars
<1>4. CacheTypeOK' /\ InRing'
    BY <1>3 DEF RouteInv, RouteTypeOK, CacheTypeOK, InRing
<1>5. (hs \in [Shake -> Local] /\ \A g \in Shake : At(g, "idle") \/ hs[g].req \in Request)'
    BY <1>1 DEF ShakesKnow, ShakesPlaced, Placed, At
<1>6. QED
    BY <1>1, <1>2, <1>3, <1>4, <1>5 DEF RouteInv, RouteTypeOK

\* A handshake goes on.
LEMMA ProceedStep == ASSUME RouteInv, NEW h \in Shake, Proceed(h) PROVE RouteInv'
<1>1. ShakesPlaced /\ CacheTypeOK /\ router \in Config /\ InRing
    BY DEF RouteInv, RouteTypeOK, ShakesKnow
<1>2. UNCHANGED <<file, event, loaded, router, edits, begun, now>>
    BY ProceedElsewhere
<1>3. PICK l : Step(h, l) /\ Advance(hs[h], l)
    BY <1>1, ProceedAdvances
<1>4. ShakesKnow'
    BY <1>1, <1>2, <1>3, AdvanceKeeps DEF RouteInv
<1>5. CacheTypeOK' /\ InRing'
    BY <1>1, ProceedKeepsCache
<1>6. dead' \in [Name -> Nat] /\ raced' \in [Shake -> BOOLEAN]
    BY <1>1, ProceedKeepsGhosts DEF RouteInv
<1>7. (hs \in [Shake -> Local] /\ \A g \in Shake : At(g, "idle") \/ hs[g].req \in Request)'
    BY <1>4 DEF ShakesKnow, ShakesPlaced, Placed, At
<1>8. QED
    BY <1>2, <1>4, <1>5, <1>6, <1>7 DEF RouteInv, RouteTypeOK

\* A step of a handshake is its first one or a later one.
LEMMA HandshakeCases ==
    ASSUME NEW h \in Shake, Handshake(h)
    PROVE  BeginShake(h) \/ Proceed(h)
BY DEF Handshake, Proceed

\* Nothing moves.
LEMMA StutterKeeps == ASSUME RouteInv, UNCHANGED routeVars PROVE RouteInv'
<1>1. UNCHANGED <<file, event, loaded, router, edits, ips, keys, next, now, hs, begun, dead, raced>>
    BY DEF routeVars, cacheVars, config, ghosts
<1>2. QED
    BY <1>1 DEF RouteInv, RouteTypeOK, CacheTypeOK, InRing, ShakesKnow, ShakesPlaced, RouterSeen,
                ShakesExpect, At

\* The inductive invariant holds in every state.
THEOREM RouteInvariant == RouteSpec => []RouteInv
<1>1. RouteInit => RouteInv
    BY RouteInitInv
<1>2. RouteInv /\ [RouteNext]_routeVars => RouteInv'
    <2> SUFFICES ASSUME RouteInv, [RouteNext]_routeVars PROVE RouteInv'
        OBVIOUS
    <2>1. CASE Time \/ Edit \/ ReadFile \/ Replace
        BY <2>1, TimeKeeps, EditKeeps, ReadFileKeeps, ReplaceStep
    <2>2. ASSUME NEW h \in Shake, Handshake(h) PROVE RouteInv'
        BY <2>2, HandshakeCases, BeginStep, ProceedStep
    <2>3. CASE UNCHANGED routeVars
        BY <2>3, StutterKeeps
    <2>4. QED
        BY <2>1, <2>2, <2>3 DEF RouteNext
<1>3. QED
    BY <1>1, <1>2, PTL DEF RouteSpec

\* tunnel.go:345, cache.go:76: the locals of every handshake, the cache and what the
\* watcher holds keep their types, and an index that a search returns is one.
THEOREM RouteTypeCorrect == RouteSpec => []RouteTypeOK
<1>1. RouteInv => RouteTypeOK
    BY DEF RouteInv
<1>2. QED
    BY <1>1, RouteInvariant, PTL

\* cache.go:87: as the handshakes use the cache, each name in it holds a slot.
THEOREM RingKept == RouteSpec => []InRing
<1>1. RouteInv => InRing
    BY DEF RouteInv
<1>2. QED
    BY <1>1, RouteInvariant, PTL

\* A handshake uses the cache as anyone may, with a name and an address, or not at all.
LEMMA ProceedUsesCache ==
    ASSUME ShakesPlaced, NEW h \in Shake, Proceed(h)
    PROVE  [CacheNext]_cacheVars
<1>1. UNCHANGED now
    BY ProceedElsewhere
<1>2. CASE CacheLookup(h)
    <2>1. PICK n \in Name : Lookup(n)
        BY <1>2, CacheArguments DEF CacheLookup
    <2>2. Lookup(n) /\ UNCHANGED now
        BY <1>1, <2>1
    <2>3. CacheNext
        BY <2>2, Zenon DEF CacheNext
    <2>4. QED
        BY <2>3
<1>3. CASE StoreAnswer(h)
    <2>1. hs[h].req.name \in Name /\ hs[h].ip \in Addr
        BY <1>3, CacheArguments
    <2>2. Store(hs[h].req.name, hs[h].ip, "new")
        BY <1>3 DEF StoreAnswer
    <2>3. \E n \in Name : \E a \in Addr : Store(n, a, "new")
        BY <2>1, <2>2, Zenon
    <2>4. QED
        BY <1>1, <2>3 DEF CacheNext
<1>4. CASE StoreFail(h)
    <2>1. hs[h].req.name \in Name /\ hs[h].ip \in Addr
        BY <1>4, CacheArguments
    <2>2. Store(hs[h].req.name, hs[h].ip, "fail")
        BY <1>4 DEF StoreFail
    <2>3. \E n \in Name : \E a \in Addr : Store(n, a, "fail")
        BY <2>1, <2>2, Zenon
    <2>4. QED
        BY <1>1, <2>3 DEF CacheNext
<1>5. CASE UNCHANGED <<ips, keys, next, dead, raced>>
    BY <1>1, <1>5 DEF cacheVars
<1>6. QED
    BY <1>2, <1>3, <1>4, <1>5, ProceedCases

\* tunnel.go:297, tunnel.go:306: the handshakes and the watcher together implement the
\* cache under any use: whatever they do to it between each other's steps is a Lookup
\* of a name or a Store of a name with an address.
THEOREM RouteUsesCache == RouteSpec => CacheSpec
<1>1. RouteInit => CacheInit
    BY DEF RouteInit
<1>2. RouteInv /\ [RouteNext]_routeVars => [CacheNext]_cacheVars
    <2> SUFFICES ASSUME RouteInv, [RouteNext]_routeVars PROVE [CacheNext]_cacheVars
        OBVIOUS
    <2>1. CASE Time
        BY <2>1 DEF Time, CacheNext
    <2>2. CASE Edit \/ ReadFile \/ Replace
        BY <2>2 DEF Edit, ReadFile, Replace
    <2>3. ASSUME NEW h \in Shake, Handshake(h) PROVE [CacheNext]_cacheVars
        <3>1. CASE BeginShake(h)
            BY <3>1 DEF BeginShake
        <3>2. CASE Proceed(h)
            BY <3>2, ProceedUsesCache DEF RouteInv, ShakesKnow
        <3>3. QED
            BY <2>3, <3>1, <3>2, HandshakeCases
    <2>4. CASE UNCHANGED routeVars
        BY <2>4 DEF routeVars
    <2>5. QED
        BY <2>1, <2>2, <2>3, <2>4 DEF RouteNext
<1>3. QED
    BY <1>1, <1>2, RouteInvariant, PTL DEF RouteSpec, CacheSpec

\* cache.go:75: so the map stays as small as its ring in the hands of any number of
\* concurrent handshakes.
THEOREM RouteCacheBounded ==
    RouteSpec => [](IsFiniteSet(DOMAIN ips) /\ Cardinality(DOMAIN ips) <= Slots)
BY RouteUsesCache, CacheBounded, PTL

\* tunnel.go:346: for any configurations, requests and number of handshakes, over one
\* cache and through every branch, a connection is one that the configuration allows,
\* if it was not replaced while the handshake ran.
THEOREM ConnectionsConform == RouteSpec => []ObeysConfig
<1>1. RouteInv => ObeysConfig
    BY DEF RouteInv, ShakesKnow, ShakesExpect, Expect, ObeysConfig, At
<1>2. QED
    BY <1>1, RouteInvariant, PTL

----------------------------------------------------------------------------
(* The watcher.                                                            *)

WatcherInv == WatcherHolds /\ ConfigSettles

\* config.go:53: a write between the event and the reading, or between the reading and
\* the replacement, is never lost: it leaves an event, and what the watcher holds
\* without a newer event is the content of the file.
THEOREM EditsTakeEffect == RouteSpec => []ConfigSettles
<1>1. RouteInit => WatcherInv
    BY DEF RouteInit, WatcherInv, WatcherHolds, ConfigSettles
<1>2. RouteInv /\ WatcherInv /\ [RouteNext]_routeVars => WatcherInv'
    <2> SUFFICES ASSUME RouteInv, WatcherInv, [RouteNext]_routeVars PROVE WatcherInv'
        OBVIOUS
    <2>1. CASE UNCHANGED <<file, event, loaded, router>>
        BY <2>1 DEF WatcherInv, WatcherHolds, ConfigSettles
    <2>2. CASE Edit
        BY <2>2 DEF Edit, WatcherInv, WatcherHolds, ConfigSettles
    <2>3. CASE ReadFile
        BY <2>3 DEF ReadFile, LoadRouterConfig, WatcherInv, WatcherHolds, ConfigSettles
    <2>4. CASE Replace
        <3>1. loaded = <<loaded[1]>> /\ router' = loaded[1] /\ loaded' = << >>
            BY <2>4, LoadedOne DEF Replace, RouteInv
        <3>2. ~event => loaded[1] = file
            <4>1. ~event => loaded = <<file>>
                BY <2>4 DEF Replace, WatcherInv, WatcherHolds
            <4>2. QED
                BY <4>1
        <3>3. UNCHANGED <<file, event>>
            BY <2>4 DEF Replace
        <3>4. QED
            BY <3>1, <3>2, <3>3 DEF WatcherInv, WatcherHolds, ConfigSettles
    <2>5. Time \/ UNCHANGED routeVars => UNCHANGED <<file, event, loaded, router>>
        BY DEF Time, routeVars, config
    <2>6. ASSUME NEW h \in Shake, Handshake(h) PROVE UNCHANGED <<file, event, loaded, router>>
        <3>1. CASE BeginShake(h)
            BY <3>1 DEF BeginShake, config
        <3>2. CASE Proceed(h)
            BY <3>2, ProceedElsewhere
        <3>3. QED
            BY <2>6, <3>1, <3>2, HandshakeCases
    <2>7. QED
        BY <2>1, <2>2, <2>3, <2>4, <2>5, <2>6 DEF RouteNext
<1>3. WatcherInv => ConfigSettles
    BY DEF WatcherInv
<1>4. QED
    BY <1>1, <1>2, <1>3, RouteInvariant, PTL DEF RouteSpec

----------------------------------------------------------------------------
(* What is known of names that do not answer.                              *)

DeadInv == DeadKept /\ RaceSeen

\* A store of another name, or of one that is not known to be dead, forgets what it
\* pushes out of the ring, and leaves the rest.
LEMMA StoreKeepsDead ==
    ASSUME RouteTypeOK, DeadKept, UNCHANGED now, NEW n \in Name, NEW a, NEW s, Store(n, a, s),
           NEW m \in Name, m # n, dead'[m] = IF m \in Forgotten THEN 0 ELSE dead[m], dead'[m] > now
    PROVE  m \in DOMAIN ips' /\ ips'[m].state = "fail" /\ ips'[m].expires >= dead'[m]
<1>1. now \in Nat /\ dead'[m] = dead[m] /\ m \notin Forgotten
    BY DEF RouteTypeOK, CacheTypeOK
<1>2. m \in DOMAIN ips /\ ips[m].state = "fail" /\ ips[m].expires >= dead[m]
    BY <1>1 DEF DeadKept
<1>3. m \in DOMAIN ips'
    BY <1>1, <1>2 DEF Forgotten
<1>4. ips'[m] = ips[m]
    <2>1. CASE n \in DOMAIN ips
        BY <1>2, <2>1 DEF Store
    <2>2. CASE n \notin DOMAIN ips
        BY <1>3, <2>2 DEF Store
    <2>3. QED
        BY <2>1, <2>2
<1>5. QED
    BY <1>1, <1>2, <1>3, <1>4

\* What is stored of a name stands in its entry.
LEMMA StoreEntry ==
    ASSUME NEW n, NEW a, NEW s, Store(n, a, s)
    PROVE  n \in DOMAIN ips' /\ ips'[n] = NewEntry(a, s)
<1>1. CASE n \in DOMAIN ips
    BY <1>1 DEF Store
<1>2. CASE n \notin DOMAIN ips
    BY <1>2 DEF Store
<1>3. QED
    BY <1>1, <1>2

\* What a handshake that advances makes of those that ask, when no name is known to be
\* dead for longer than before.
LEMMA AskersKeep ==
    ASSUME RouteTypeOK, ShakesPlaced, RaceSeen, UNCHANGED now,
           NEW h \in Shake, NEW l, Step(h, l), Advance(hs[h], l),
           l.pc = "ask" => dead'[l.req.name] <= now,
           \A g \in Shake : raced[g] => raced'[g],
           \A g \in Shake : At(g, "ask") \/ At(g, "store") =>
                raced'[g] \/ dead'[hs[g].req.name] = dead[hs[g].req.name]
                          \/ dead'[hs[g].req.name] = 0
    PROVE  RaceSeen'
<1> SUFFICES ASSUME NEW g \in Shake, (At(g, "ask") \/ At(g, "store"))'
             PROVE  raced'[g] \/ dead'[hs'[g].req.name] <= now
    BY DEF RaceSeen
<1>1. hs'[h] = l /\ (g # h => hs'[g] = hs[g]) /\ now \in Nat
    BY DEF ShakesPlaced, Step, RouteTypeOK, CacheTypeOK
<1>2. CASE g = h /\ l.pc = "ask"
    BY <1>1, <1>2
<1>3. CASE (g = h /\ l.pc # "ask") \/ g # h
    <2>1. (At(g, "ask") \/ At(g, "store")) /\ hs'[g].req = hs[g].req
        BY <1>1, <1>3 DEF Advance, At
    <2>2. raced[g] \/ dead[hs[g].req.name] <= now
        BY <2>1 DEF RaceSeen
    <2>3. QED
        BY <1>1, <2>1, <2>2
<1>4. QED
    BY <1>2, <1>3

\* Only the lookup is done where a name is to be resolved.
LEMMA OnlyLookup ==
    ASSUME NEW h \in Shake, Proceed(h), At(h, "resolve")
    PROVE  CacheLookup(h)
BY DEF Proceed, Find, ReadDefaults, AskDNS, StoreAnswer, Proxies, LocalDial, StoreFail, Remote,
       Direct, At

\* tunnel.go:293: a lookup leaves the entries of names that are known to be dead, and
\* the DNS is not asked of one of them.
LEMMA LookupKeepsDead ==
    ASSUME RouteInv, DeadInv, NEW h \in Shake, CacheLookup(h)
    PROVE  DeadInv'
<1>1. RouteTypeOK /\ ShakesPlaced /\ CacheTypeOK /\ router \in Config
    BY DEF RouteInv, ShakesKnow, RouteTypeOK
<1>2. UNCHANGED <<now, dead, raced>> /\ At(h, "resolve")
    BY DEF CacheLookup, Elsewhere, ghosts
<1> DEFINE n == hs[h].req.name
<1>3. Lookup(n) /\ n \in Name
    BY <1>1, CacheArguments DEF CacheLookup
<1>4. \A m \in Name : dead[m] > now => Fresh(m)
    <2> SUFFICES ASSUME NEW m \in Name, dead[m] > now PROVE Fresh(m)
        OBVIOUS
    <2>1. m \in DOMAIN ips /\ ips[m].expires >= dead[m]
        BY DEF DeadInv, DeadKept
    <2>2. dead[m] \in Nat /\ now \in Nat /\ ips[m].expires \in Nat
        BY <1>1, <2>1 DEF RouteTypeOK, CacheTypeOK, Entry
    <2>3. QED
        BY <2>1, <2>2 DEF Fresh
<1>5. DeadKept'
    <2> SUFFICES ASSUME NEW m \in Name, dead[m] > now
                 PROVE  m \in DOMAIN ips' /\ ips'[m] = ips[m]
        BY <1>2 DEF DeadInv, DeadKept
    <2>1. m \in DOMAIN ips
        BY DEF DeadInv, DeadKept
    <2>2. QED
        BY <1>3, <1>4, <2>1 DEF Lookup, Remove
<1>6. PICK l : Step(h, l) /\ Advance(hs[h], l)
    BY <1>1, CacheLookupAdvances
<1>7. l.pc = "ask" => dead'[l.req.name] <= now
    <2>1. hs'[h] = l /\ l.req.name = n
        BY <1>1, <1>6 DEF ShakesPlaced, Step, Advance
    <2>2. Fresh(n) => hs'[h].pc = "proxy"
        BY <1>1 DEF CacheLookup, Step, ShakesPlaced, Local
    <2>3. ~Fresh(n) => dead[n] <= now
        BY <1>1, <1>3, <1>4 DEF RouteTypeOK, CacheTypeOK
    <2>4. QED
        BY <1>2, <2>1, <2>2, <2>3
<1>8. RaceSeen'
    BY <1>1, <1>2, <1>6, <1>7, AskersKeep DEF DeadInv
<1>9. QED
    BY <1>5, <1>8 DEF DeadInv

\* tunnel.go:304: an answer is stored over the entry of a dead name only when it was
\* asked for before.
LEMMA AnswerKeepsDead ==
    ASSUME RouteInv, DeadInv, NEW h \in Shake, StoreAnswer(h)
    PROVE  DeadInv'
<1>1. RouteTypeOK /\ ShakesPlaced /\ CacheTypeOK /\ router \in Config
    BY DEF RouteInv, ShakesKnow, RouteTypeOK
<1>2. UNCHANGED <<now, raced>> /\ At(h, "store")
    BY DEF StoreAnswer, Elsewhere
<1> DEFINE n == hs[h].req.name
           a == hs[h].ip
<1>3. Store(n, a, "new") /\ n \in Name
    BY <1>1, CacheArguments DEF StoreAnswer
<1>4. dead' = [m \in Name |-> IF m \in Forgotten \/ (m = n /\ raced[h]) THEN 0 ELSE dead[m]]
    BY DEF StoreAnswer
<1>5. now \in Nat /\ dead \in [Name -> Nat]
    BY <1>1 DEF RouteTypeOK, CacheTypeOK
<1> HIDE DEF n, a
<1>6. ASSUME NEW m \in Name, dead'[m] > now
      PROVE  m \in DOMAIN ips' /\ ips'[m].state = "fail" /\ ips'[m].expires >= dead'[m]
    <2>1. dead'[m] = dead[m] /\ m \notin Forgotten /\ ~(m = n /\ raced[h])
        BY <1>4, <1>5, <1>6
    <2>2. m # n
        <3>1. raced[h] \/ dead[n] <= now
            BY <1>2 DEF DeadInv, RaceSeen, n
        <3>2. QED
            BY <1>3, <1>5, <1>6, <2>1, <3>1
    <2>3. dead'[m] = IF m \in Forgotten THEN 0 ELSE dead[m]
        BY <2>1
    <2>4. QED
        BY <1>1, <1>2, <1>3, <1>6, <2>2, <2>3, StoreKeepsDead DEF DeadInv
<1>7. DeadKept'
    BY <1>2, <1>6 DEF DeadKept
<1>8. PICK l : Step(h, l) /\ Advance(hs[h], l)
    BY <1>1, StoreAnswerAdvances
<1>9. l.pc # "ask"
    BY <1>2, <1>8 DEF Advance, At
<1>10. ASSUME NEW g \in Shake, At(g, "ask") \/ At(g, "store")
       PROVE  dead'[hs[g].req.name] = dead[hs[g].req.name] \/ dead'[hs[g].req.name] = 0
    <2>1. Placed(hs[g])
        BY <1>1 DEF ShakesPlaced
    <2>2. hs[g].req \in Request /\ hs[g].req.name # NoName
        BY <1>10, <2>1 DEF Placed, At, Looking
    <2>3. hs[g].req.name \in Name
        BY <2>2, RouteAssumption
    <2>4. QED
        BY <1>4, <2>3
<1>11. RaceSeen'
    BY <1>1, <1>2, <1>8, <1>9, <1>10, AskersKeep DEF DeadInv
<1>12. QED
    BY <1>7, <1>11 DEF DeadInv

\* tunnel.go:436: a failure is remembered, and seen by everyone who has asked the DNS
\* of that name by then.
LEMMA FailKeepsDead ==
    ASSUME RouteInv, DeadInv, NEW h \in Shake, StoreFail(h)
    PROVE  DeadInv'
<1>1. RouteTypeOK /\ ShakesPlaced /\ CacheTypeOK /\ router \in Config
    BY DEF RouteInv, ShakesKnow, RouteTypeOK
<1>2. UNCHANGED now /\ At(h, "fail")
    BY DEF StoreFail, Elsewhere
<1> DEFINE n == hs[h].req.name
           a == hs[h].ip
<1>3. Store(n, a, "fail") /\ n \in Name
    BY <1>1, CacheArguments DEF StoreFail
<1>4. /\ dead' = [m \in Name |-> IF m = n THEN now + FailTTL
                                 ELSE IF m \in Forgotten THEN 0 ELSE dead[m]]
      /\ raced' = [g \in Shake |-> raced[g] \/ (hs[g].pc \in {"ask", "store"} /\ hs[g].req.name = n)]
    BY DEF StoreFail
<1>5. now \in Nat /\ dead \in [Name -> Nat] /\ FailTTL \in Nat
    BY <1>1, CacheAssumption DEF RouteTypeOK, CacheTypeOK
<1> HIDE DEF n, a
<1>6. ASSUME NEW m \in Name, dead'[m] > now
      PROVE  m \in DOMAIN ips' /\ ips'[m].state = "fail" /\ ips'[m].expires >= dead'[m]
    <2>1. CASE m = n
        <3>1. n \in DOMAIN ips' /\ ips'[n] = NewEntry(a, "fail")
            BY <1>3, StoreEntry
        <3>2. NewEntry(a, "fail").state = "fail" /\ NewEntry(a, "fail").expires = now + FailTTL
            BY DEF NewEntry
        <3>3. dead'[n] = now + FailTTL
            BY <1>3, <1>4
        <3>4. QED
            BY <1>5, <2>1, <3>1, <3>2, <3>3
    <2>2. CASE m # n
        <3>1. dead'[m] = IF m \in Forgotten THEN 0 ELSE dead[m]
            BY <1>4, <2>2
        <3>2. QED
            BY <1>1, <1>2, <1>3, <1>6, <2>2, <3>1, StoreKeepsDead DEF DeadInv
    <2>3. QED
        BY <2>1, <2>2
<1>7. DeadKept'
    BY <1>2, <1>6 DEF DeadKept
<1>8. PICK l : Step(h, l) /\ Advance(hs[h], l)
    BY <1>1, StoreFailAdvances
<1>9. l.pc # "ask"
    BY <1>2, <1>8 DEF Advance, At
<1>10. ASSUME NEW g \in Shake, At(g, "ask") \/ At(g, "store")
       PROVE  \/ raced'[g] \/ dead'[hs[g].req.name] = dead[hs[g].req.name]
              \/ dead'[hs[g].req.name] = 0
    <2>1. Placed(hs[g])
        BY <1>1 DEF ShakesPlaced
    <2>2. hs[g].req \in Request /\ hs[g].req.name # NoName
        BY <1>10, <2>1 DEF Placed, At, Looking
    <2>3. hs[g].req.name \in Name
        BY <2>2, RouteAssumption
    <2>4. CASE hs[g].req.name = n
        BY <1>4, <1>10, <2>4 DEF At
    <2>5. CASE hs[g].req.name # n
        BY <1>4, <2>3, <2>5
    <2>6. QED
        BY <2>4, <2>5
<1>11. \A g \in Shake : raced[g] => raced'[g]
    BY <1>4
<1>12. RaceSeen'
    BY <1>1, <1>2, <1>8, <1>9, <1>10, <1>11, AskersKeep DEF DeadInv
<1>13. QED
    BY <1>7, <1>12 DEF DeadInv

\* The steps that are not about names.
LEMMA RestKeepsDead ==
    ASSUME RouteInv, DeadInv, NEW h \in Shake, Proceed(h), UNCHANGED <<ips, keys, next, dead, raced>>,
           ~CacheLookup(h)
    PROVE  DeadInv'
<1>1. RouteTypeOK /\ ShakesPlaced /\ CacheTypeOK /\ router \in Config
    BY DEF RouteInv, ShakesKnow, RouteTypeOK
<1>2. UNCHANGED now
    BY ProceedElsewhere
<1>3. PICK l : Step(h, l) /\ Advance(hs[h], l)
    BY <1>1, ProceedAdvances
<1>4. l.pc # "ask"
    BY <1>3, OnlyLookup DEF Advance, At
<1>5. RaceSeen'
    BY <1>1, <1>2, <1>3, <1>4, AskersKeep DEF DeadInv
<1>6. DeadKept'
    BY <1>2 DEF DeadInv, DeadKept
<1>7. QED
    BY <1>5, <1>6 DEF DeadInv

\* A handshake that begins has not asked yet.
LEMMA BeginKeepsDead ==
    ASSUME RouteInv, DeadInv, NEW h \in Shake, BeginShake(h)
    PROVE  DeadInv'
<1>1. hs \in [Shake -> Local] /\ raced \in [Shake -> BOOLEAN]
    BY DEF RouteInv, RouteTypeOK
<1>2. UNCHANGED <<ips, now, dead>> /\ raced' = [raced EXCEPT ![h] = FALSE]
    BY DEF BeginShake, cacheVars
<1>3. hs'[h].pc = "find" /\ \A g \in Shake : g # h => hs'[g] = hs[g]
    BY <1>1, IdlePlaced DEF BeginShake, Step, Local
<1>4. DeadKept'
    BY <1>2 DEF DeadInv, DeadKept
<1>5. RaceSeen'
    BY <1>1, <1>2, <1>3 DEF DeadInv, RaceSeen, At
<1>6. QED
    BY <1>4, <1>5 DEF DeadInv

\* A name is dead for as long as was said, and not longer.
LEMMA TimeKeepsDead == ASSUME RouteInv, DeadInv, Time PROVE DeadInv'
<1>1. UNCHANGED <<ips, hs, dead, raced>> /\ now' = now + 1 /\ now \in Nat /\ dead \in [Name -> Nat]
    BY DEF Time, Tick, ghosts, RouteInv, RouteTypeOK, CacheTypeOK
<1>2. \A n \in Name : dead'[n] > now' => dead[n] > now
    BY <1>1
<1>3. DeadKept'
    BY <1>1, <1>2 DEF DeadInv, DeadKept
<1>4. RaceSeen'
    <2> SUFFICES ASSUME NEW g \in Shake, At(g, "ask") \/ At(g, "store")
                 PROVE  raced[g] \/ dead[hs[g].req.name] <= now + 1
        BY <1>1 DEF RaceSeen, At
    <2>1. raced[g] \/ dead[hs[g].req.name] <= now
        BY DEF DeadInv, RaceSeen
    <2>2. Placed(hs[g]) /\ hs[g].pc \in Looking
        BY DEF RouteInv, ShakesKnow, ShakesPlaced, At, Looking
    <2>3. hs[g].req.name \in Name
        BY <2>2, RouteAssumption DEF Placed, Looking
    <2>4. dead[hs[g].req.name] \in Nat
        BY <1>1, <2>3
    <2>5. QED
        BY <1>1, <2>1, <2>4
<1>5. QED
    BY <1>3, <1>4 DEF DeadInv

\* A configuration that is put in place says nothing of dead names.
LEMMA ReplaceKeepsDead == ASSUME RouteInv, DeadInv, Replace PROVE DeadInv'
<1>1. ShakesPlaced /\ loaded[1] \in Config
    BY LoadedOne DEF RouteInv, ShakesKnow, Replace
<1>2. UNCHANGED <<ips, now, dead, raced>>
    BY DEF Replace, cacheVars, ghosts
<1>3. \A g \in Shake : hs'[g].pc = hs[g].pc /\ hs'[g].req = hs[g].req
    BY <1>1, ReplaceFields
<1>4. QED
    BY <1>2, <1>3 DEF DeadInv, DeadKept, RaceSeen, At

\* tunnel.go:436: for any number of handshakes and names and any size of the cache, a
\* name that could not be dialled is in the cache as such for an hour, unless its entry
\* had to leave the ring or an answer that was asked for before came later.
THEOREM DeadNamesKnown == RouteSpec => []KnownDead
<1>1. RouteInit => DeadInv
    <2> SUFFICES ASSUME RouteInit PROVE DeadInv
        OBVIOUS
    <2>1. now = 0 /\ dead = [n \in Name |-> 0] /\ \A g \in Shake : hs[g].pc = "idle"
        BY IdlePlaced DEF RouteInit, CacheInit
    <2>2. DeadKept
        BY <2>1 DEF DeadKept
    <2>3. RaceSeen
        BY <2>1 DEF RaceSeen, At
    <2>4. QED
        BY <2>2, <2>3 DEF DeadInv
<1>2. RouteInv /\ DeadInv /\ [RouteNext]_routeVars => DeadInv'
    <2> SUFFICES ASSUME RouteInv, DeadInv, [RouteNext]_routeVars PROVE DeadInv'
        OBVIOUS
    <2>1. CASE Time \/ Replace
        BY <2>1, TimeKeepsDead, ReplaceKeepsDead
    <2>2. CASE Edit \/ ReadFile \/ UNCHANGED routeVars
        <3>1. UNCHANGED <<ips, now, hs, dead, raced>>
            BY <2>2 DEF Edit, ReadFile, routeVars, cacheVars, ghosts
        <3>2. QED
            BY <3>1 DEF DeadInv, DeadKept, RaceSeen, At
    <2>3. ASSUME NEW h \in Shake, Handshake(h) PROVE DeadInv'
        <3>1. CASE BeginShake(h)
            BY <3>1, BeginKeepsDead
        <3>2. CASE Proceed(h)
            BY <3>2, ProceedCases, LookupKeepsDead, AnswerKeepsDead, FailKeepsDead, RestKeepsDead
        <3>3. QED
            BY <2>3, <3>1, <3>2, HandshakeCases
    <2>4. QED
        BY <2>1, <2>2, <2>3 DEF RouteNext
<1>3. RouteInv /\ DeadInv => KnownDead
    <2> SUFFICES ASSUME RouteInv, DeadInv, NEW n \in Name, dead[n] > now
                 PROVE  Fresh(n) /\ ips[n].state = "fail"
        BY DEF KnownDead
    <2>1. n \in DOMAIN ips /\ ips[n].state = "fail" /\ ips[n].expires >= dead[n]
        BY DEF DeadInv, DeadKept
    <2>2. dead[n] \in Nat /\ now \in Nat /\ ips[n].expires \in Nat
        BY <2>1 DEF RouteInv, RouteTypeOK, CacheTypeOK, Entry
    <2>3. QED
        BY <2>1, <2>2 DEF Fresh
<1>4. QED
    BY <1>1, <1>2, <1>3, RouteInvariant, PTL DEF RouteSpec
=============================================================================
