--------------------------- MODULE ResolveCache ---------------------------
(***************************************************************************)
(* The cache of resolved names: a map, and a ring of the names that were    *)
(* put into it, which decides who has to leave.  A name that expired and    *)
(* is stored again takes a second slot of the ring; when the hand comes to   *)
(* the first one, the entry leaves although the ring is not full of others. *)
(*                                                                         *)
(* Every operation holds the mutex, so it is one step.  Lookup and Store     *)
(* are the operations that a user of the cache makes part of its actions;   *)
(* CacheNext is the cache alone, under any use.                            *)
(***************************************************************************)
EXTENDS Integers

CONSTANTS
    Name,       \* host names
    Addr,       \* addresses
    Slots,      \* the size of the ring, 65536
    NewTTL,     \* how long an address is kept, ten minutes
    FailTTL,    \* how long one that could not be dialled is, an hour
    MaxNow      \* bound: the time

CONSTANT NoName     \* an empty slot

ASSUME CacheAssumption ==
    /\ Slots \in Nat \ {0} /\ NewTTL \in Nat /\ FailTTL \in Nat /\ MaxNow \in Nat
    /\ NoName \notin Name

VARIABLES
    ips,    \* the map
    keys,   \* the ring
    next,   \* the slot that is used next
    now

cacheVars == <<ips, keys, next, now>>

Slot == 0 .. Slots - 1
Entry == [ip : Addr, state : {"new", "fail"}, expires : Nat]

CacheTypeOK ==
    /\ DOMAIN ips \subseteq Name /\ \A n \in DOMAIN ips : ips[n] \in Entry
    /\ keys \in [Slot -> Name \cup {NoName}]
    /\ next \in Slot
    /\ now \in Nat

CacheInit ==
    /\ ips = [n \in {} |-> 0]
    /\ keys = [s \in Slot |-> NoName]
    /\ next = 0
    /\ now = 0

Tick == now < MaxNow /\ now' = now + 1

Fresh(n) == n \in DOMAIN ips /\ ips[n].expires > now

Remove(f, S) == [x \in DOMAIN f \ S |-> f[x]]

\* What Lookup leaves in the map: an expired entry goes.
Lookup(n) ==
    /\ ips' = IF Fresh(n) THEN ips ELSE Remove(ips, {n})
    /\ UNCHANGED <<keys, next>>

NewEntry(a, s) == [ip |-> a, state |-> s, expires |-> now + IF s = "new" THEN NewTTL ELSE FailTTL]

\* Wrong variant: a hit keeps its time.
Store_KeepsTime(n, a, s) ==
    \/ /\ n \in DOMAIN ips
       /\ ips' = [ips EXCEPT ![n].ip = a, ![n].state = s]
       /\ UNCHANGED <<keys, next>>
    \/ /\ n \notin DOMAIN ips
       /\ ips' = [m \in (DOMAIN ips \ {keys[next]}) \cup {n} |->
                        IF m = n THEN NewEntry(a, s) ELSE ips[m]]
       /\ keys' = [keys EXCEPT ![next] = n]
       /\ next' = (next + 1) % Slots

\* Wrong variant: the hand of the ring does not go round.
Store_NoWrap(n, a, s) ==
    \/ /\ n \in DOMAIN ips
       /\ ips' = [ips EXCEPT ![n] = NewEntry(a, s)]
       /\ UNCHANGED <<keys, next>>
    \/ /\ n \notin DOMAIN ips
       /\ ips' = [m \in DOMAIN ips \cup {n} |-> IF m = n THEN NewEntry(a, s) ELSE ips[m]]
       /\ keys' = [keys EXCEPT ![next] = n]
       /\ next' = next + 1

\* Wrong variant: the slot is given away, and the name that was in it stays.
Store_KeepsOld(n, a, s) ==
    \/ /\ n \in DOMAIN ips
       /\ ips' = [ips EXCEPT ![n] = NewEntry(a, s)]
       /\ UNCHANGED <<keys, next>>
    \/ /\ n \notin DOMAIN ips
       /\ ips' = [m \in DOMAIN ips \cup {n} |-> IF m = n THEN NewEntry(a, s) ELSE ips[m]]
       /\ keys' = [keys EXCEPT ![next] = n]
       /\ next' = (next + 1) % Slots

\* A name that is in the map is stored in place; another one takes the next slot,
\* and the name that held it leaves the map.
Store(n, a, s) ==
    \/ /\ n \in DOMAIN ips
       /\ ips' = [ips EXCEPT ![n] = NewEntry(a, s)]
       /\ UNCHANGED <<keys, next>>
    \/ /\ n \notin DOMAIN ips
       /\ ips' = [m \in (DOMAIN ips \ {keys[next]}) \cup {n} |->
                        IF m = n THEN NewEntry(a, s) ELSE ips[m]]
       /\ keys' = [keys EXCEPT ![next] = n]
       /\ next' = (next + 1) % Slots

CacheNext ==
    \/ Tick /\ UNCHANGED <<ips, keys, next>>
    \/ /\ \E n \in Name : Lookup(n) \/ \E a \in Addr, s \in {"new", "fail"} : Store(n, a, s)
       /\ UNCHANGED now

CacheSpec == CacheInit /\ [][CacheNext]_cacheVars
----------------------------------------------------------------------------
\* cache.go:87: the map never outgrows the ring.  Each name in it holds a slot, also
\* after names expired and came back, which leaves one name in two slots.
InRing == \A n \in DOMAIN ips : \E s \in Slot : keys[s] = n
=============================================================================
