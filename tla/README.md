# A TLA+ development for anyproxy

anyproxy is a TCP/HTTP proxy. A connection is accepted, its first bytes are
parsed, a target is chosen from the router configuration, and bytes are copied in
both directions. Beside that it can relay HTTP requests over a websocket to a
client behind a firewall (NAT traversal), and it restarts without closing its
listening sockets.

This directory holds models of the parts where goroutines, processes and
connections interact, checked with TLC on small instances, and theorems about them
proved with TLAPS for every value of the constants. Line numbers refer to `src/`.

## 1. The system

| Component | State it keeps | Operations | Talks to |
|---|---|---|---|
| **NAT hubs** `nat/client_hub.go`, `nat/bridge_hub.go` | a map of clients (sessions), a map of bridges (requests), one buffered channel each | register, unregister, broadcast, all served by one goroutine | pumps, transfers |
| **NAT relay** `nat/client.go`, `bridge.go`, `handler.go`, `conn.go`, `proto/websocket.go` | sockets, four goroutines per session, four per request | CREATE / data / CLOSE messages, connect loop, read and write pumps, `transfer` | hubs, request ids |
| **Plain forwarding** `proto/tunnel.go`, `keep.go`, `http.go`, `client.go` | `curState`, `clientUnRead`, `buf`, two connections, two goroutines | `copyBuffer` in both directions, `transfer`, `KeepHandler` | handshake, reader, statistics |
| **Routing and handshake** `proto/tunnel.go:293-615` | none of its own | `findHost`, `lookup`, `handshake`, `socks5`, `httpConnect` | resolve cache, configuration |
| **Resolve cache** `utils/cache/cache.go` | map of entries with expiry, ring of 65536 keys | `Lookup`, `Store` | `lookup`, `handshake` |
| **Statistics** `proto/stats` | a map of counters, activity times | register, add, periodic removal | tunnels |
| **Buffered reader** `proto/tcp/reader.go`, `proto/text` | buffer, read and write offsets | `Peek`, `fill`, `UnreadBuf`, `Read` | every handler |
| **Protocol detection** `proto/request.go`, `stream.go`, `socks5.go`, `tcpcopy.go`, `proto/http` | the parsed request | the detectors, in order | reader |
| **Graceful restart** `grace` | server state, tracked connections, `runningServersForked`, inherited sockets | `fork`, `shutdown`, `handleSignals`, `serve` | parent and child process |
| **Request ids** `grace/autoinc` | a counter | `ID` | `grace/conn.go:48`, the relay |
| **Log rotation** `logging/timewriter.go` | the open file, its period, a mill goroutine | write, rotate, compress, remove | a second process during a restart |
| **Configuration** `utils/conf` | a pointer to the router configuration | load, replace on a file event | handshake, authentication |
| Daemon, helpers, cipher, examples | - | - | - |

### What makes each part correct, and what makes it hard

* **Hubs.** A channel is never closed twice nor written after it was closed: each
  would be a panic that ends the process. Several causes race for the close
  (overflow, CLOSE, unregister), and senders hold pointers to objects that the hub
  has long forgotten.
* **Relay.** Each side of a request receives a prefix of what the other sent, in
  order, nothing of another request, and an orderly end only when everything came
  through. Chunks pass three bounded channels, each of which may overflow; sessions
  are lost, processes restart, and ids are reused. Transfers and their goroutines
  must come to an end.
* **Forwarding.** The two copiers share fields without synchronisation. When the
  client sends a further request, one of them hands the connection to the other in
  the middle of its work. Only one goroutine may read the client at a time, a
  response must not overtake the previous one, and no part of the client's stream
  may be lost, repeated or sent to the wrong server. A goroutine blocked in a
  `Read` ends only if somebody closes something.
* **Cache.** Its size is bounded, and an entry lives as long as it was promised,
  although the ring may hold a host in two slots.
* **Statistics.** A counter in use is not removed.
* **Graceful restart.** At every moment some process accepts connections; the
  parent ends; a failed child does not make later restarts impossible.
* **Log rotation.** No line is lost when two processes rotate one file.
* **Configuration.** A handshake uses one configuration.

The hazards these properties are for are listed one by one, with their lines, in
`PROJECT.json`.

## 2. The modules

### Hub and BridgeHub: the two kinds of hub

`Hub` translates `Hub.run`: `clients` is the map, `send[c]` what the buffered
channel of `c` holds, `closed` the clients whose channel was closed. One action per
case of the `select`: `Register`, `Unregister`, `Broadcast`; `Take` and `Drained`
are the two outcomes of the receive in `writePump`. `BridgeHub` does the same for
bridges; there `cause[b]` says what closed a channel ("close" for a CLOSE message,
"full", "unregister"), which the code does not store but the properties tell apart.
`range` over a Go map has no order, so `BroadcastBody` chooses which bridges of an id
are met first.

*A call and the case that serves it are one step.* The hubs' own channels are
unbuffered: the sender waits until `run` has taken the value, and `run` finishes a
case before it takes the next value. Between the rendezvous and the end of the case
the caller may go on, but whatever it does next to the hub is served after it, and
what it does elsewhere touches none of the hub's variables. The only reads of a
hub's map from outside are `Eable` and `GetClient` (a data race in the code, see the
hazards): at most they see a session just before or after the case that drops it, and
both orders are behaviours of the model.

### Nat: the relay

`Nat` composes four hubs (`SH`, `CH` at the two ends for sessions, `SB`, `LB` for
bridges) with the goroutines that use them.

| Code | Model |
|---|---|
| `ConnectServer`, `connect` | `Connect`, `ClientRegister`, `ClientReadEnd` |
| `serveWs` after its checks | `ServerRegister` |
| `writePump` | `ServerWrite`, `ClientWrite`; its end `WritePumpEnds` |
| `serverReadPump` | `ServerRead`, `ServerReadEnd` |
| `localReadPump` | `ClientCreate` (CREATE), `ClientRead` (the rest) |
| `wsTunnel.transfer` | `Begin`, `NotFound`, `Open`, then `Pump`, `PumpEnd`, `Return` |
| the goroutine it starts | `Send`, `SendClose` |
| `Bridge.WritePump` in the client | `LocalPump`, `LocalPumpEnd` |
| the client's copier | `LocalCopy`, `LocalClose`, `LocalUnregister` |
| a lost connection | `Cut` |
| the end of a process | `ClientCrash` (also the failed dial of `client.go:126`), `ServerRestart` |

A chunk is what one `Read` returned. It is named by its request and its place in that
request's stream, so that a chunk on the wrong connection is visible. CREATE has place 0
and CLOSE the place after the last chunk: the numbers are for the properties, the code
does not look at them. The websocket is
a bounded FIFO per direction (`wire`) between two sockets (`conn`). A write towards a
peer that closed succeeds and is lost; closing discards what was not read; what had
been sent may or may not still arrive. The end of the requester's connection and
`SendClose` are one step. `WritePump` writes only when it has a message, so it learns
of a closed connection only then.

A request is an object: a process that died leaves its requests as they were, and a
new process uses other ones. Ids are numbers that start at 1 in each server process,
as `autoinc` produces them.

### Relay: what the relay promises

`Relay` is the abstract specification of one direction of one request: a pipe with
`Write`, `Shut`, `Read`, `Eof` and `Cut`. Chunks come out in order; the reader sees
"eof" only when the writer has shut the stream and everything came out; a cut may come
at any time and is final. `Nat!ImplementsRelay` maps both directions of every request
to such pipes. The `end` of a reader is "eof" when its goroutine ended on a channel
that a CLOSE message had closed and that was empty, and "cut" for every other cause, the
end of its process among them.
(An overflow is a cut here. The code passes it on to the TCP connection as a plain FIN,
like an orderly end; the connection itself does not show the difference.)

### Tunnel: forwarding and keep-alive

`Tunnel` models one client connection. A transfer at level k > 0 has the k-th server;
`KeepHandler`, called from inside `copyBuffer`, serves the next request by a transfer
at level k + 1, so that the levels are the Go call stack. Level 0 is `ClientHandler`.
`rpc[k]` is the request copier, `spc[k]` the goroutine of `transfer`, which is the
server copier too. The shared fields are written one at a time: `CloseWrite`
(`ReadNext`), `curState` (`SetIdle`), `buf` made (`MakeBuf`), `buf` filled
(`CopyBuf`). The client's stream is cut into parts (part 0 of a request is its
header), and a `Read` returns any number of parts that have arrived. `clientUnRead` counts
parts where the code counts bytes. Requests are of three kinds, as `readBody` tells
them apart: with a length, taken as a long connection, or without a body but followed
by raw data once answered.

A `KeepHandler` that is given `buf` before it was made has a reader of size 0, whose
`Peek` fails: it gives up without reading (`HandleBlank`). So only the first handler
ever reads the client itself.

Left out, and the subject of other modules: the handshake, which here succeeds or fails
(`Route`); a header that arrives in two `Read`s, CONNECT, SOCKS5 and raw TCP, whose
`transfer(-1)` goes on like a "long" request but whose beginning differs (`Detect`).

### TcpReader and Detect: what a connection is taken for

`TcpReader` is the buffered reader as operators on one record: its memory, the read and
the write position, and whether `Read` has returned EOF. A cell of the memory holds the
position of a unit in the client's stream, so sliding and filling can lose, repeat or
overwrite units as they can in Go. A reader over a given slice (`NewReaderWithBuf`) works
in that memory and takes it for full.

`Detect` follows one client connection from its first byte: `ReadRequest` with its
detectors in order, the request of the stream that claims the connection, its response,
and the request copier, which guesses after each body whether a further request follows.

| Code | Model |
|---|---|
| `ReadRequest`, `httpStream.validHead` | `PeekHead`, `FirstLine` |
| `textproto` header reading | `Headers` |
| `socks5Stream.validHead`, `ParseHeader` | `SocksHead`, `SocksRequest` |
| `response` of each stream | `Respond_Http`, `Respond_Connect`, `Respond_Socks5`, `Respond_Tcp`, `Respond_TcpCopy`; a refusal is `Respond_Refuse` |
| the request copier | `CopyRead`, `CopyEnds` |
| `isKeepAliveHttp` | `CopyRead` (its first half, `Guess`), the parsing actions with `who = "guess"`, `GuessNo`, `GuessYes` |

A unit stands for four bytes of a head, or for a line's end with its class: a
method, a version, a header that matters, the empty line, data. Two Requests can be alive,
the connection's own ("req") and that of a guess, each with its reader; both read the one
connection. That is why `clean` exists: when a guess meets a head that is not complete, its
reader slides and reads over the copier's buffer, and the order of what is forwarded
afterwards is lost. `clean[x]` says of each Request that no guess has read over the units
its reader was made with; a guess begins as clean as the request whose data it looks at,
and hands what it has become on to the request or the copier that goes on. The properties
about order and loss hold up to that point and say so.
`start`, `seen`, `port` and `clean` are for the properties only.

The properties also say what the code loses by design of its detectors: a TCP stream that
begins with what looks like an HTTP method loses the line that was read to find out
(`http.go:84`); what arrives with the header of a CONNECT is dropped (`http.go:212`); the
port of a SOCKS5 request is taken from the end of whatever one `Read` returned.

### ResolveCache and Route: where a request goes

`ResolveCache` is `cache.go`: the map `ips`, the ring `keys` and its hand `next`. Each
operation holds the mutex and is one step. An expired name that is stored again takes a
second slot, as in the code. `CacheSpec` is the cache under any use; `Route` uses
`Lookup` and `Store` inside its own actions.

`Route` has several handshakes over one cache, and the watcher of the configuration.

| Code | Model |
|---|---|
| `findHost`, `isAllowed`, `confTarget`, `confDNS` | `Find`, `ReadDefaults` |
| `lookup`, `net.LookupIP` | `CacheLookup`, `AskDNS`, `StoreAnswer` |
| the port map, `deny`, `getProxyServer`, the choice of the way | `Proxies` |
| the local dial of `auto`, and what it leaves in the cache | `LocalDial`, `StoreFail` |
| the target that a proxy is to be asked for | `Remote` |
| the `switch` over the proxy's scheme | `Connect`: `Ask` (`socks5`, `httpConnect`), `Forward` (`dail` alone) |
| the connection without a proxy | `Direct` |
| `conf.notify` | `ReadFile`, `Replace`; an editor is `Edit` |

A handshake reads `RouterConfig` anew at each use, so two configurations can be mixed in
one. The model reads it twice, in `Find` and in `ReadDefaults`; `seen` holds every
configuration that was in effect while the handshake ran, and `ObeysConfig` is about those
that have seen one only: then the way, the target and the proxy are ones that this
configuration allows. A proxy is reached in one of two ways (`how` of the outcome). With
"proxy" it is asked for a connection to `to`, at the mapped port. With "plain"
(`tunnel.go:468-471`) an `http` proxy that serves an HTTP request is dialled and told
nothing: the request leaves with its own first line (`http.go:338`), so that the mapped
port, the rule's address and the resolved name have no effect on where it goes. Of such a
connection `ObeysConfig` says that the request was not refused, that this proxy was the one
to use, and that nothing was looked up which should not be; of its port it says nothing.
The repository's `README.md:180` lists the conversion of ports with a proxy as done: on this
way the code does not do it (see the end of section 3). `NoName` and `NoAddr` are both the empty string in the program,
and one value in the runs; the proofs do not care. `RouteAssumption` says what the program's own start and the parsing of
YAML give: the first configuration and that of an empty file are configurations, and the
fields of requests and rules have their types. A rule's proxy that is an empty string never
answers (`getProxyServer`) and is left out. `dead` remembers until when a name is known not to answer, by
what handshakes found out and not by what the cache says; `raced` marks a handshake that
asked the DNS before another found the name dead, whose answer then hides that.

### Grace, TimeWriter and Restart: restarting without a gap

`Grace` is a chain of processes that hand one socket down. `main[p]` is where
`ListenAndServe` of process p is, `handler[p]` where `handleSignals` is. `sigChan` has no
buffer, hence `Dropped`: a signal that arrives while `handleSignals` forks or polls is
lost; one that arrives before `signal.Notify` kills the process (`DefaultAction`). A
client waits in the socket's queue (`conn[c] = "queue"`) as long as some process holds the
socket (`Held`), also one that was given it and has not got to `listen` yet. `Up` says
that a process listens. A connection is accepted, tracked and given its state in three
steps, as in the code, while `shutdown` looks at the tracked ones between its ticks.

`TimeWriter` is the log: one file a day, which each process opens on its own. `openNew`
truncates and writes at its own position, `openExistingOrNew` appends; the first line of a
day rotates and wakes the goroutine that compresses and removes, from the newest file to
the oldest (`byFormatTime`). A file is the sequence of its lines; `clash[d]` marks a step
after which lines of that day may be lost: two processes have its file in hand, or the file
is made anew although a process that ended has left it, or its compressed copy, behind.
(The copy: a process that still has an older day's file open compresses the file of today,
another then starts today's anew, and the next compression replaces the first copy.)
`Expired(d)` is the code's cutoff for a file that bears the date d.

`Restart` composes the two: processes come and go, and each logs. A behaviour is about the
connections or about the lines (`load`): the two share nothing but the life of the
processes, so the second kind keeps only that, with the end of a process at any step.

### MC modules and proofs

`MCNat`, `MCRoute` and `MCDetect` instantiate their modules with model values, data (router
configurations, client streams) and symmetry sets; `Tunnel` and `Restart` need none.
The theorems stand in modules of their own, each of which extends the module that it is about
and the proofs that it uses: `NatProofs`, `NatOrderProofs` (order and ownership) and
`NatRelayProofs` (the refinement of `Relay`); `TunnelProofs`; `DetectProofs` (with the
reader's operations); `RouteProofs` (with the cache); `GraceProofs` and `RestartProofs`.

## 3. The runs

| Run | Checks | Result |
|---|---|---|
| `nat_relay` | `TypeOK`, `NoPanic`, `OwnChunksInOrder`, `CloseAfterData`, `DeadSessionClosed`, `NoBridgeLeak`, `ClosedIsFinal`, `ImplementsRelay` | hold |
| `nat_shared` | `OwnChunksInOrder`, `CloseAfterData`, two requests on one session | hold |
| `nat_live` | `SessionFalls`, `TransferReturns`, `LocalEnds` | hold |
| `nat_hang` | `ReturnsOnceServerEnded` (comment of `websocket.go:89`) | violated |
| `nat_crosstalk` | `OwnChunksInOrder` across a server restart | violated |
| `tunnel` | `TypeOK`, `SingleReader`, `WholeRequests`, `HandoverAfterResponse`, `BodyCounted`, `ClientGoneReturns`, `ServerClosedReturns` | hold |
| `tunnel_hang` | `ReturnsOnceServerEnded` (comment of `tunnel.go:210`) | violated |
| `tunnel_reuse` | `ReuseServed` (comments of `tunnel.go:108`, `:156`) | violated |
| `tunnel_pipelined` | `OwnServer` (`README.md:172`) | violated |
| `detect` | `DetectTypeOK`, `WindowIsStream`, `HttpRecognised`, `InOrder`, `NothingLost`, `GuessAgrees`, `ClientGoneEnds` | hold |
| `route` | `RouteTypeOK`, `InRing`, `ObeysConfig`, `ConfigSettles`, `KnownDead` | hold |
| `restart` | `RestartTypeOK`, `LinesKept`, `AloneIsSafe`, `StaysUp`, `QuietEnd`, `ShutdownEnds`, `HandOverEnds`, `QueueMoves` | hold |

### What the newer passing runs show

* `detect`. However a stream is cut into portions, a first `Read` of eight bytes settles
  whether it is HTTP, a reader holds exactly the piece that was read last, and the server
  gets the stream whole and in order, up to the losses named in section 2. A guess
  and the handler that acts on it come to the same answer. A client that leaves ends the
  handler in the middle of any parse.
* `route`. A connection is one that the configuration allows, through every branch and
  over a cache that other handshakes change; a proxy that is asked for a connection is
  asked for the name or the address, and the port, that the rule says. An edit made while the watcher reads the file
  is not lost. A name that could not be dialled stays known as such for its hour, unless its
  entry had to leave the ring or an older DNS answer came later (`tunnel.go:304`).
* `restart`. Somebody listens until the operator ends a process or something fails. A
  shutdown that ends before its time cuts one connection at most, the one that was accepted
  but not tracked yet at the last look. A shutdown always ends; the parent ends once its
  child runs, unless the child's only SIGTERM was dropped. Log lines are kept as long as no
  two processes have the same file in hand; a chain of processes that never overlap is
  always safe.

### What the violated runs show

* `nat_hang`. A session ends while a transfer waits in `WritePump`. Nothing closes
  the bridges of a session, so the transfer waits for ever, even after the requester
  has closed. `TransferReturns` says what does hold: a transfer returns as long as its
  session stays registered.
* `nat_crosstalk`. The server restarts and its ids start at 1 again. The client still
  has the bridge of the old request 1, whose application has not closed yet; a chunk of
  the new request 1 is written to it. Without restarts (`nat_relay`, `nat_shared`) no
  chunk ever meets another request's connection.
* `tunnel_hang`. The server's connection breaks with an error that is not EOF.
  `copyBuffer` returns without closing the client, and `<-done` waits for a client
  that may stay silent.
* `tunnel_reuse`. `CloseWrite` is called first, and a fast server's EOF is handled
  before `curState` is idle: the client's connection is closed although its request
  was just recognised. With other timings the reuse starts with a buffer that is nil,
  and gives up without reading, or that is still zeroed.
* `tunnel_pipelined`. One `Read` returns the rest of a body and the next header,
  `clientUnRead` becomes negative, and from there on everything goes to the old server.

### Bounds

* The capacities (`SendCap`, `BridgeCap`, `WireCap`) are 1 instead of 200, 100 and the
  kernel's buffers. The code only asks whether a channel is full, so 1 makes every
  overflow reachable in few steps. `nat_hang` uses 2, to show the hang without an
  overflow.
* `nat_relay` has one request with two chunks up and one down, two sessions and one
  failure: a chunk can be lost between others, and a session replaced by the next.
  `nat_shared` has two requests on one session. Larger products of requests, sessions
  and failures are beyond a few minutes; the theorems cover them, for all safety
  properties and for the refinement.
* `nat_live` (with `LocalEnds`: both goroutines of a bridge in the client end and the bridge
  leaves `LocalBridge`, as long as the session stays registered, and in any case once one of
  the three is gone) adds a restart of the server. Messages of different requests do not
  interact in it, so one request is enough.
* `Tunnel` has two requests, hence three levels: client handler, a transfer that is
  reused, the transfer that reuses it. Bodies of up to two parts let a `Read` end
  before, at and after the end of a body. One server connection may break. The inductive
  invariant of `TunnelProofs` was also checked with three requests.
* `Detect` has 14 streams, one for each way through `ReadRequest` and through the
  copier, and one of three requests whose second header a guess completes. A buffer holds four units (4096 bytes and more in the code) and eight bytes are two
  units: lines and heads longer than a buffer occur, and so do portions that end anywhere.
  The buffer for a SOCKS5 request (three units) is smaller than the reader's, a body has
  two units. The inductive invariant of `DetectProofs` was also checked over all streams
  of a few units of chosen classes, alone and after a request.
* `Route` has two handshakes at once and six units of work, of which a handshake takes
  two and an edit one: three handshakes, or one handshake and four edits (two complete
  ones). Two slots, two names and times of 1 and 2 make names expire, return into a
  second slot and lose their entry. The three configurations take every branch of
  `target`, `dns`, `match`, the ports, a rule's proxies and its address; one proxy of two
  has the scheme `http`, and gets HTTP and HTTPS requests. Handshakes are
  symmetric.
* `Restart` has two processes, two clients, two signals, one failure and a `TermTimeout`
  of one tick: a restart, a second signal at any step of it, and a client on either side.
  Three days, two lines and a reserve of two days make a file rotate, be compressed,
  and expire. Longer histories are left to the theorems; the inductive invariants of
  `RestartProofs` were also checked with four days and four lines.
* Deadlock is not checked: a connection that has ended, or a client that stays silent,
  is a legitimate end of these systems. What must still happen is stated as liveness.

### Fairness

* Each goroutine is weakly fair: the Go scheduler runs a goroutine that can proceed.
  A goroutine is one fairness condition, not one per action, so that choices within it
  stay free.
* `Nat`: `Sender` is fair, which says that a requester closes its connection at
  some time; `LocalClose` is fair once the local writer has ended, which says that an
  application closes when its input has ended. Nobody is assumed to connect, send
  or fail.
* `Tunnel`: a server answers complete requests and closes when the proxy has closed its
  side and everything is answered (that is what `tunnel.go:154` relies on). Clients owe
  nothing.
* `Detect`: the handler's goroutine. The client may stop at any place.
* `Grace`: per process the two goroutines and the default action of a signal, and a
  connection's goroutine up to its handler. A handler may never return; `shutdown` has a
  time limit for that reason. The operator and the clients owe nothing. In `Restart` these
  conditions are those of the behaviours that are about connections; `RestartSteps`, the
  specification without them, is what the theorems are about.

### What the code does not promise

Two sentences of the repository go further than the code. No run claims them; the model does
what the code does.

* `README.md:180` has the conversion of ports with a proxy among what is done. An HTTP
  request is handed to a proxy of scheme `http` as it came (`tunnel.go:471`, `http.go:338`):
  a rule that maps port 80 to 88 has no effect. `ObeysConfig` states the mapped port for the
  other schemes and protocols.
* The comment at `stream.go:57` says that a connection served as TCP gets what was read of
  it before. That is what the reader still holds: if the stream begins with an HTTP method,
  its first line was taken before (`http.go:84`), and the server never gets it.
  `NothingLost` says that nothing else is missing.

## 4. What is proved

Everything below holds for every value of the constants: any sets of requests, sessions,
names, any number of processes, days, failures, any capacities. The assumptions are those of
the modules and no others: `NatAssumption` (the capacities are positive, the bounds natural
numbers, `NoSession` is not a session), `TunnelAssumption` (bounds; the client may send at
least one request), `DetectAssumption` (streams are not empty and made of the classes; a
buffer has room for the eight bytes, and for more than a SOCKS5 request), `CacheAssumption`, `RouteAssumption` (section 2),
`GraceAssumption`, `TimeWriterAssumption` (bounds again; there is a process, a day and a
reserve of one day) and `RestartAssumption` (it is the processes that write the log).

### The relay: `NatProofs`, `NatOrderProofs`, `NatRelayProofs`

| Theorem | Statement |
|---|---|
| `ChannelSafety` | `Spec => []NoPanic` |
| `TypeCorrect` | `Spec => []TypeOK` |
| `DeadSessions` | `Spec => []DeadSessionClosed` |
| `BridgesHaveOwners` | `Spec => []NoBridgeLeak` |
| `ChannelsOnlyDrain` | `Spec => ClosedIsFinal` |
| `SessionsAreFresh`, `IdsAreUnique` | nothing of an unused session exists; ids are unique until a restart |
| `UpInOrder`, `DownInOrder` | `Spec => []UpInv`, `Spec => []DownInv` |
| `ChunksInOrder` | `Spec => [](restarts = 0 => OwnChunksInOrder)` |
| `CloseComesLast` | `Spec => [](restarts = 0 => CloseAfterData)` |
| `EndsLast` | `Spec => []EndedInv` |
| `RelayRefined` | `Spec /\ [](restarts = 0) => ImplementsRelay` |

* `ChannelSafety`: `NoPanic` is inductive. A lemma per hub (`ServerHubKeepsOpen` and
  so on) says that no operation makes a member's channel closed; the theorem then sorts
  the actions by the hub they touch.
* `TypeCorrect`: a lemma per hub, one for the socket operations (`SockTyped`), and one
  case per action. The type of the messages on the way matters: an id or a body that a
  read pump hands to a hub was put there by a well-typed send.
* `DeadSessions`: `DeadSessionClosed` is not inductive, because `Unregister` of an
  unknown client does nothing. `SessionInv` adds that a session whose read pump runs is
  registered or has a closed channel, which the lemmas `ServerHubMonotone` and
  `ClientHubMonotone` preserve.
* `BridgesHaveOwners`: inductive under `TypeOK`, from what each operation does to the
  set of members. `ChannelsOnlyDrain`: a step property, from `TypeOK` and `NoPanic`. That
  members are open is what keeps a broadcast away from a closed channel.
* *Order.* `OwnChunksInOrder` and `CloseAfterData` look at the two ends only, so they say
  nothing about the messages in between and are not inductive. `UpInv` and `DownInv` say what
  is in between. The channel of a session at one end and the wire to the other are one
  sequence, its `Road`. `RoadOK` says that the messages of a request appear on the road with
  rising numbers, each after its predecessor or, if it is the first, with the number that the
  reader's bridge expects (as long as there is one), and that the next message to be sent
  would fit, too, as long as the session is registered. What can happen to a road is then
  little: a message is put at its end (`RoadAppend`), taken from its front, or the road loses
  its rear or all of it (`Cuts`), because a socket closed or a channel overflowed. An overflow
  must close the session before anything is put behind the gap; this is where the hub's
  `delete` before `close` counts.
* *Whose messages.* That a message reaches the bridge of its own request rests on
  `IdsAreUnique`, hence the hypothesis `restarts = 0`: after a restart of the server ids
  begin again at 1, and `nat_crosstalk` shows a chunk on a foreign connection. A crash of
  the client needs no such hypothesis.
* *Refinement.* `RelayRefined` sorts the steps of `Nat` by what they are for the pipes:
  `Send` and `LocalCopy` are `Write`, `SendClose` and `LocalClose` are `Shut`, `Pump` and
  `LocalPump` are `Read`, `PumpEnd` and `LocalPumpEnd` are `Eof` or `Cut`, a crash of the
  client cuts any number of pipes at once, and all other steps leave all pipes alone. The
  conditions of `Read` and `Eof` (what comes out is next; nothing is left) are `UpInv` and
  `DownInv`. That a stream's end does not change afterwards needs `EndedInv`: the goroutine
  that feeds the reader has returned because its channel is closed or because it left
  something in it, and either lasts.

### Forwarding and keep-alive: `TunnelProofs`

| Theorem | Statement |
|---|---|
| `TunnelInvariant` | `Spec => []IInv` |
| `TunnelTypeCorrect` | `Spec => []TypeOK` |
| `OneReader` | `Spec => []SingleReader` |
| `PiecesForwarded` | `Spec => []WholeRequests` |
| `ReuseAfterResponse` | `Spec => []HandoverAfterResponse` |
| `UnreadCounts` | `Spec => []BodyCounted` |

None of the four properties is inductive: each speaks of one place only, and the next step
brings something there from a place of which it says nothing. `IInv` says what is
everywhere.

* *`Stack`.* The levels are the Go call stack: every level above the deepest is inside a
  handler or has come out of it, and `LevelOK` says which states of the two goroutines of a
  level and its buffer go together. It follows that at most one level holds the client's
  stream (`OneHolds`), because it reads it, has read a further request from it, or is the
  first handler. This is what `OneReader` says, and every other part needs it: what one level
  does to the client's data disturbs no other.
* *`Flow`, `Past`.* What a server has got and what the client's connection holds are adjacent
  pieces of the client's stream while the copier between them reads, and so are a buffer
  with a further request and the connection. `Stream` says of each two of its parts, not only
  of neighbours, how they lie (`Apart`: n places on, a part of the same request has the
  number n higher, unless the request has ended before). So the place of any part in a
  portion that was read is known without an induction on its length. `Past` says that what
  any server has got was sent before everything that is still on its way, hence that no part
  goes to two servers.
* *`Counted`* extends `BodyCounted` by the case that nothing waits: then the part sent last is
  the one before the counter's. Only a request with a length, whose parts all belong to it,
  has a counter above 0.
* *`Handed`.* Until its connection breaks, a server's answers have been written to the client
  or are on their way; a copier that sees the EOF has seen all of them.
* *`Once`.* A request is answered by the one server that has its header (`OneServer`, from
  `Past`), and once by that. So the answers that the client has got are different
  requests, and there are at most `MaxReq` of them (`Pigeons`). `TypeOK` bounds `got`,
  and is inductive only together with `Once`.
* Which server a request goes to is not claimed: with pipelining a further request may follow
  the first to its server, and run `tunnel_pipelined` shows it.

### The reader and detection: `DetectProofs`

| Theorem | Statement |
|---|---|
| `DetectInvariant` | `Spec => []IInv` |
| `DetectTypeCorrect` | `Spec => []DetectTypeOK` |
| `WindowFaithful` | `Spec => []WindowIsStream` |
| `HttpFound` | `Spec => []HttpRecognised` |
| `OrderKept` | `Spec => []InOrder` |
| `BytesMadeUp` | `Spec => []NothingLost` |
| `GuessConfirmed` | `Spec => []GuessAgrees` |

They hold for any set of streams, any sizes of the buffers, any portions. (`Spec` is
`FairSpec` without its fairness, which safety does not need.)

* *Cells instead of sequences.* The properties compare sequences: a window with a span of the
  stream, what was sent followed by a window with a span. `IInv` says the same of single
  cells and their distances: `Holds(b, a)`, each cell of a reader that is not handed out yet
  holds the unit at its distance from the one read last, and `Runs(s, a)`, the i-th element
  of s is the unit a + i - 1. Sliding, filling, taking a line and reading past the buffer
  then become arithmetic, and no step needs an induction on a length.
* *One lemma per operation of the reader* says what it does to any reader of any stream:
  `SlideIs`, `FillIs`, `FillEofIs`, `SkipIs`, `TakeIs`, `LoadIs`, `WithBufIs`, `NewIs`, and
  for a line's end `LineIs`, which takes the first one from well-foundedness (`LeastIs`). One
  lemma per action then carries `IInv` over the step.
* *Why the parts are needed.* `WindowIsStream` (`Stored`) is not inductive, because a guess
  hands its buffer on: `Untouched` says that a clean guess still has it as it was. `Parsed`
  places the head that was taken and `Forwarded` what the server got, each before what comes
  next and at the right beginning; `InOrder` and `NothingLost` are these two and `Stored`
  put together. `HttpRecognised` needs the way there: `Decided` says at each detector what
  is known of the stream by now, in particular (`NoHttp`) that a stream which no further
  detector may take for HTTP will never turn out to have been one. `Agreed` ties a guess to
  the handler that parses the same buffer again.
* *What the proof corrected.* `clean` was one flag, and `WindowIsStream` also claimed the
  window of a guess while it was not set. That is false: a guess may read over its buffer
  and still find a request; the request is then served from what the buffer has become,
  and the next guess works in a piece that is not of the stream. The obligation for
  `GuessYes` could not be proved, TLC found the behaviour (three requests, the header of the
  second cut in two), and the stream is now among those of run `detect`. `clean` is kept for
  each reader, and what is claimed of a guess depends on the data that it was given.
  (The code is as it was: only a property said too much.)

### The cache and the routing: `RouteProofs`

| Theorem | Statement |
|---|---|
| `CacheTypeCorrect` | `CacheSpec => []CacheTypeOK` |
| `CacheInRing` | `CacheSpec => []InRing` |
| `CacheBounded` | `CacheSpec => []` the map is finite and has at most `Slots` names |
| `RouteTypeCorrect` | `RouteSpec => []RouteTypeOK` |
| `RingKept` | `RouteSpec => []InRing` |
| `RouteUsesCache` | `RouteSpec => CacheSpec` |
| `RouteCacheBounded` | `RouteSpec => []` the same of the map as `CacheBounded` |
| `ConnectionsConform` | `RouteSpec => []ObeysConfig` |
| `EditsTakeEffect` | `RouteSpec => []ConfigSettles` |
| `DeadNamesKnown` | `RouteSpec => []KnownDead` |

* `CacheInRing`: `InRing` is inductive under `CacheTypeOK`. `Store` of a new name
  takes the slot of the hand and removes the name that was in it, so a name that stays is
  not that name and its own slot, whichever of its two, is untouched. `Lookup` only
  removes. (`StoreType` and `StoreInRing` are the two lemmas about `Store`, used again for
  the handshakes' steps.)
* `CacheBounded`: the slots map onto the names in the ring, which contain the names in the
  map (`RingBounds`).
* `RouteUsesCache`: every step of the routing is a step of the cache or leaves it alone.
  It needs of the invariant that a handshake which looks up has a name and one that stores has
  an address too (`Placed`). What is proved of `CacheSpec` then holds of the routing;
  `RouteCacheBounded` is got in this way.
* `ConnectionsConform`: `ObeysConfig` is about the end of a handshake. `Expect(l, c)` says for
  every phase what the local variables must be if c was the only configuration seen: the
  rule, the defaults, the target, the proxies still to be tried, the address that was
  looked up here or is still open, and, once the way is a proxy, whether that is to get the
  name (`NameFor`) or the rule's address (`AddressFor`). A proxy that is asked and one that
  is passed the request have a lemma each (`AskAdvances`, `ForwardAdvances`). The theorem
  promises no port and no address of a request that is only passed on. `RouterSeen` is the other half: a handshake that runs has
  the current configuration among those it has seen, so what it reads next is from c. The
  cache appears in it only as "some address of the name".
* The loops over the rules and over the ports stop at the first that fits. That there is
  a first one is a fact about the order of the numbers (`First_Exists`, by
  well-foundedness).
* `EditsTakeEffect` adds `WatcherHolds`: what the watcher has read and not yet stored is what
  the file says, unless a newer event waits.
* `DeadNamesKnown` adds `DeadKept`, the cache's entry for a dead name lasts at least as long
  as its hour, and `RaceSeen`: a handshake that is about to store an answer asked while the
  name was not known to be dead, or is marked as having been overtaken.

### The restart and the log: `GraceProofs`, `RestartProofs`

| Theorem | Statement |
|---|---|
| `GraceTypeCorrect`, `GraceInvariant` | `Spec => []TypeOK`, `Spec => []GraceInv` |
| `GraceStaysUp` | `Spec => StaysUp` |
| `GraceQuietEnd` | `Spec => QuietEnd` |
| `RestartIsGrace` | `RestartSteps => Spec` |
| `RestartTypeCorrect`, `RestartInvariant` | `RestartSteps => []RestartTypeOK`, `RestartSteps => []RestartInv` |
| `LinesStay` | `RestartSteps => []LinesKept` |
| `AloneSafe` | `RestartSteps => []AloneIsSafe` |
| `RestartKeepsUp` | `RestartSteps => StaysUp /\ QuietEnd` |

* `GraceStaysUp` needs `HandOverInv`, and that the phases of a process, its socket and its
  child fit (`PhaseInv`, `ChildInv`). While nothing is excused, a process closes its socket
  only when told, and only its child tells it, after that has the socket. `HandOverInv`
  says more: whoever is told has some later process that listens. That is what makes it
  inductive over a chain of any length without an induction on the chain: when the listener
  itself closes, it was told, so there is a later one.
* `GraceQuietEnd` needs `ConnInv`: the accepting goroutine has one connection in its hands.
  After the last look at the tracked ones (`end` is "quiet") those that are open are at
  most the one that was in its hands then.
* `LinesStay` says for a day that is not at risk and not expired (`Safe`) three things,
  `DayOK`: a file that is open is in the directory, is not on its own process's list to
  compress, and a process that writes at its own position is alone with it and at its end
  (`OpenInv`); a file that is being compressed is open nowhere, and the copy is made of all
  of it (`MillInv`); the lines are in the file, or in the whole copy once the file is gone
  (`LineInv`). `WriterInv` and `DayInv` bound the days that a process or a file can have.
* `AloneSafe` adds `AloneInv`: if no two processes have been alive at once, whoever has a
  file open has seen the newest day that has a file, and compresses earlier days only.
* The proof of `LinesStay` corrected the model twice: the order in which the files are
  compressed, and the steps that count as a risk (section 2, `clash`).

### What is only model-checked

The liveness properties, all of them (the prover has no rule for fairness and ENABLED):
`SessionFalls`, `TransferReturns`, `LocalEnds`,
`ClientGoneReturns`, `ServerClosedReturns`, `ClientGoneEnds`, `ShutdownEnds`, `HandOverEnds`,
`QueueMoves`. Every safety invariant and every action property that a passing run checks is
a theorem. Of the prover's other limits, induction over data and RECURSIVE operators, none
is met: no module declares a RECURSIVE operator, and where a proof needs a least element it
takes it from well-foundedness.

## 5. Plan

1. *Done:* `Hub`, `BridgeHub`, `Nat`, `Relay`, `Tunnel`; `ResolveCache`, `Route`;
   `TcpReader`, `Detect`; `Grace`, `TimeWriter`, `Restart`. All their safety and action
   properties, and the refinement of `Relay`, are proved.
2. *Next:* `Stats`: counters that tunnels register and the ticker removes.
3. `NatAuth`: `serveWs`, `auth`, `subscribe` and `ask`, whose refusals leave the
   connection open and whose time limit leaves a goroutine behind.

## 6. Not modelled

* The statistics: they reach the log only. Planned above.
* The authentication dialogue of the websocket: a session of `Nat` starts when it has
  succeeded. Planned above.
* The dialogue with an upstream proxy: `socks5` and `httpConnect` are one step of `Route`
  that succeeds or fails. So is the rewriting of the first line of a request for such a
  proxy.
* Texts: a header's value, a URL or a name is a class or a model value. The canonical
  form of header keys, their order in the output and the cipher are left out.
* In `Grace`: several servers in one process (`socketorder`; `anyproxy.go` makes one),
  the signal hooks, which nobody registers, and the duplicate of the socket that
  `ln.File` makes.
* In `TimeWriter`: failures of the file system, among them a rotation that fails after
  the old file was closed.
* In the configuration: an editor that replaces the file by renaming it, after which the
  watcher sees no further event.
* The interrupt signal of the NAT client (`handler.go:131-147`) has no action of its own.
  `ConnectServer` is a goroutine (`anyproxy.go:126`): on the signal `connect` sends a
  CloseMessage, waits a second at most and returns, with its two defers, and no further
  `Connect` follows. For the relay it is a session that ends at the client's side, as
  `ClientWriteEnd` and `ClientReadEnd` end one, after which no client connects. That the
  process ends, too, is the work of `grace` (`server.go:278`).
* A request line that ends with the connection and not with a newline: `ReadSlice` returns
  it (`tcp/reader.go:139`), and the code takes it for HTTP and fails in the header. The model
  takes it for TCP; the client has gone in both.
* Data races on Go maps (`GetClient`, `Eable`) have no outcome to model but the end of
  the process.
* The daemon and start-up code, path and string helpers, the Windows variants, the
  example programs and scripts: they keep no state of their own, or stand beside the
  proxy.
