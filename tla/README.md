# Rabbit Digger: a TLA+ verification project

Rabbit Digger is a rule-based proxy. A daemon reads a configuration, builds
*nets* (ways to open TCP and UDP connections) and *servers* (inbound listeners
that use a net), runs the servers, and is controlled through an API. This
directory models the parts of it that keep state across concurrent tasks, crashes
or network failures, checks them with TLC, and proves theorems with TLAPS.

## 1. Inventory

| Part | State | Operations | Hard behaviours |
|---|---|---|---|
| Engine (`rabbit-digger/src/rabbit_digger.rs`, `running.rs`) | `Inner.state` behind a fair `RwLock`, `current_status`, one task, semaphore and join handle per server | `start`, `stop`, `drain`, `wait_any_exit`, `collect_finished_servers`, `start_stream` | API handlers and the configuration loop interleave; tasks end by themselves; lock given up between phases |
| Connection table (`connection_manager.rs`, the wrappers in `running.rs`) | `DashMap` of entries, counters, an unbounded channel, one oneshot per connection | new, poll, read, write, drop, input_event, stop one, stop all | events in flight, stop racing close, heartbeats, backpressure |
| Side effects (`rd-interface/src/side_effect.rs`) | routes and DNS settings of the machine, entries, one file | apply, persist, rollback on drop, recover | crash between any two steps, failing commands, a file shared by all servers |
| File storage (`src/storage/file.rs`) | `index.json`, content files, `index.lock` | new, get, set, remove, clear | overlapping read-modify-write, truncating writes, crashes |
| RPC (`protocol/rpc`) | waiters, reader tasks, the server's object table and request tasks | handshake, send, read a response, handle a request, close | responses taken by other calls' readers, breaks, callers that give up |
| UDP forwarding (`rd-std/src/util/forward_udp*`, `udp_connector.rs`, `lru_cache.rs`, `context/connect_udp.rs`) | an LRU table of sessions, bounded channels and queues, sockets bound on first use | receive, deliver, send back, copy, expire | full queues, wakers, eviction, failed binds |
| TCP relay (`context/connect_tcp.rs`) | one buffer per direction | read, write, flush, shut down | an end that waits for what is still buffered |
| Rules and sniffers (`rd-std/src/rule`, `rd-std/src/sniffer`) | rule cache, reverse lookup tables, a sniffed prefix | route, record, look up, decide | stale verdicts, CNAME chains, a timer |
| Raw network (`protocol/raw`) | fake address pool, the gateway's map | allocate, rewrite, accept | pools that wrap, caches that evict |
| Hysteria (`protocol/hysteria`) | one QUIC connection, sessions, reassembly tables | connect, authenticate, fragment, reassemble, bind | lost and reordered fragments, ids that wrap, two tasks that bind |
| VLESS and Trojan (`protocol/vless`, `protocol/trojan`) | what is framed, buffered and switched per stream | headers, Vision frames, REALITY, XUDP | reads and writes of any size, a switch from TLS to raw bytes |
| AnyTLS (`protocol/anytls`) | two tasks and their channels | frames, padding | records of any size, closing from either end |
| Net build (`BuildContext`, `registry.rs`) | a cache of built nets, placeholders | recursive build, update_net | cycles, nested nets, missing names |
| Configuration (`src/config*`) | the current source, caches, watches | stream of configurations, imports, Clash documents | a change racing a load, expired caches, failing sources |
| Control API and web client (`src/api_server`, `webui/src/api.ts`) | requests, subscriptions, stored selections | subscribe, call, notify, select_net, engine_stop, apply_config | a websocket that breaks, check-then-act |
| SOCKS5, HTTP, Shadowsocks, obfs, local nets, services, FFI | none shared | byte formats and I/O | outside the scope of a model checker |

Who calls whom. The daemon recovers side effects, opens a file storage, starts
the API server and runs `start_stream`. `start_stream` starts and stops servers;
each server gets a side-effect manager of its own and nets that register every
connection in the connection table; when the stream ends, `start_stream` empties
that table. API handlers call `stop`, `apply_config`, `stop_connection` and the
storage from other tasks. An RPC net is one of the nets a server may use, as are those of VLESS, Trojan,
AnyTLS and Hysteria; a rule net chooses among others. A connection a server
accepts goes through `connect_tcp` or a UDP session, possibly with a sniffer in
front. The configuration stream feeds `start_stream` through the importers and
the stored selections; the web client subscribes to what the engine announces.

## 2. Modules and how they correspond to the code

| Module | Models | Grain |
|---|---|---|
| `Engine` | the engine and its lock | one action per lock request, lock phase or status change |
| `ConnectionManager` | handles, channel, table, closing loop | one action per poll, event or stop |
| `SideEffects` | managers, machine, file, crash, recovery | one action per file or system change |
| `FileStorage` | clients, index, content files, crash, reopening | one action per file operation |
| `RpcSession` | one session, both ends | one action per message, task step or failure |
| `UdpForward` | forwarder, sources, session table, sessions | one action per loop iteration of a poll |
| `TcpRelay` | `connect_tcp` between two ends | one action per read, write, flush or shutdown |
| `SniSniffer` | the sniffed stream, its timer and its connecting task | one action per poll |
| `RuleMatch` | matchers and first-match search, as operators | |
| `RuleSpec` | the abstract specification of routing | |
| `RuleNet` | the rule net with its cache and the DNS sniffer | one action per lock phase |
| `TunGateway` | fake addresses, the gateway's map, TCP flows | one action per packet, query or accept |
| `Hysteria` | connection, streams, fragments, reassembly, server tasks | one action per datagram or task step |
| `ProxyStream` | a VLESS or Trojan stream, both ends | one action per write, flush, read or decode |
| `AnyTls` | a stream, its writer and its reader task | one action per task step |
| `Xudp` | the codec for UDP over VLESS | one action per encode, read or decode |
| `ClashImport` | `Clash::process` and `Merge`, as operators | |
| `NetBuild` | the build with its stack of calls; `update_net`, `select_net` | one action per call, return or await |
| `ConfigStream` | sources, cache, both config streams | one action per load, wait or change |
| `ApiSession` | websocket, server's session, browser's `RpcClient` | one action per message or timer |
| `MCEngine`, `MCConnectionManager`, `MCFileStorage`, `MCRpcSession` | instances for TLC | |
| `MCRelay` | `UdpForward`, `TcpRelay`, `SniSniffer` | |
| `MCDataPath` | `RuleNet`, `TunGateway`, `Hysteria`, `ProxyStream`, `AnyTls` | |
| `MCControl` | `NetBuild` over `ClashImport`, `ConfigStream`, `ApiSession` | |
| `EngineProofs`, `FileStorageProofs`, `ConnectionManagerProofs`, `SideEffectsProofs`, `RpcSessionProofs`, `NetBuildProofs` | theorems about the module they are named after | |
| `RelayProofs` | theorems about `UdpForward`, `TcpRelay` and `SniSniffer` | |
| `DataPathProofs` | theorems about `RuleNet`, `TunGateway`, `Hysteria` and `AnyTls` | |

`MCRelay`, `MCDataPath` and `MCControl` hold parts that share no state in the
program either; a behaviour of one chooses a part and a scenario of it at the
start and leaves the others alone. `MCControl` composes the importer with the
build: what `ClashProcess` returns is what `NetBuild` starts from.

Definitions whose comment says *Defect* or *Mutant* are mutated forms of the one that
follows. They are part of no specification; replacing the real definition by one
of them must violate the property it is listed with in `PROJECT.json`.

**Engine.** The loops (`Loops`) run `start_stream`, the stoppers (`Stoppers`)
are API requests that call `stop()`. `state` is `Inner.state`: `WaitConfig` (0) or
the number of the *generation* of servers that is published; `task` is the server
task of each generation. The `RwLock` is explicit (`readers`, `writer`, `waitq`),
because its phases are what can go wrong: `Lock` joins the queue, `Grant` serves
it in order, and a future that is dropped (`Withdraw`) leaves it. A task is
"closing" when its semaphore is closed and its future is not dropped yet, which
is also when its side effects are rolled back. `ByApi` says who runs the loop:
`run_daemon` (FALSE) or `apply_config`, which calls `stop()` before it spawns one
(TRUE). The environment delivers configurations (that build or not), ends the
stream, makes servers return and calls `stop()`.

Left out: `get_net` and other readers of the state, error texts,
the events that `set_status` broadcasts. That a `Running` state is published after
a failed `serde_json::to_string` cannot happen is assumed.

**ConnectionManager.** `owner` is the `Connection` handle in a wrapped stream or
socket; `pend` its unsent counters; `queue` the channel to `recv_event`; `entry`
the table; `signal` the oneshot between `ConnectionInfo.stop_sender` and the
handle. `blocked` says that the copy loop which owns the stream waits for its other
side and does not poll this one. The closing loop of `start_stream` is here
(`BeginClosing`, `StopConnections`, `EndClosing`), where it meets the connections.

**SideEffects.** An effect is a pair of a manager and a step of its set-up.
`system` is what is in force, `file` the file at `persist_path`, which all managers
share as in `RabbitDigger::start`. `fs::write` is two steps, truncate and write, so
that a crash can come between them. `stuck` holds effects whose undo ran and
failed; `unsaved` records that a crash, or a failed write, kept the file from
naming an effect, which is the exception every property makes. `recovering` says that
`recover()` is under way: each undo and the removal of the file are steps of their own,
so a crash can come between the last undo and the removal.

**FileStorage.** A client's operation is `get_index`, then its content file steps,
then `set_index`; `index.lock` makes one reading or writing of the index atomic and
nothing more. A value carries the key it was set for. `ideal`, `harmed` and
`overlapped` are history variables.

**RpcSession.** A request is named by its sequence number; `st` is where its
call is, `waiters` the wait map, `readers` the tasks that each read one response.
On the server, `task` is the task of a request; `objects` and `nextObj` the object
table. `Break` may lose any suffix of what is under way in either direction.

**UdpForward.** `fwd` is the `ForwardUdp` future with one of four sources (forward,
tproxy, raw, Shadowsocks), `table` the LRU cache, `sess` every session task. One
poll of `CopyBidirectional` is taken apart into the iterations of its two loops;
`pc` and `reg` say where the poll is and which wakers it has registered, so a waker
that was not registered shows as a task that sleeps although it could go on. A
`UdpConnector` binds in a step of its own, which may fail or never come: until then its
direction is pending. The source's receive may fail, and so may a send. The
code sends the first packet of a `UdpConnector` twice, and a session whose task has
ended stays in the table and swallows packets until it expires; both are in the
model.

**TcpRelay.** Ends write into buffers that only a flush empties; the end "b" answers
when it has the whole request. **SniSniffer.** Bytes are counted, not named; `copy`
is the relay that polls the sniffer, `lost` what is dropped with it: bytes are lost when
the connection fails, when the buffer overflows and when the client ends before the
stream is connected, because `poll_flush` and `poll_shutdown` are ready before there is
anything to flush. A timer that fires between `is_elapsed` and
the poll of the timer is recorded in `missed`: there the code does sleep for ever.

**RuleNet.** A name is a sequence of labels and dots, a country a function of the
address. Two tasks route at once; the cache holds fewer entries than there are
requests. `RuleSpec` says what is promised: the first rule that matches, whatever
was asked before. `Uncached` instantiates it with `asked` and `routed` read off
the tasks, and `CacheTransparent` is the refinement.

**TunGateway.** A source port stands for a client's address. Two exceptions are
recorded where they arise: `stale`, the pool gave a client's fake address to
another name, or the address is one of an earlier run, has no name and is dialled as it
is; and `evicted`, the map dropped a port that is still in use (its
replies then keep the gateway's address). UDP to fake addresses is not translated
back by the code and not modelled.

**Hysteria.** A fragment carries the packet it was cut from instead of bytes.
Datagrams are lost and reordered, never duplicated (QUIC). `SlowEnough` is an
assumption about the environment: a packet id is used again only after
`REASSEMBLY_TTL`; a link that carries 2^16 packets of a session in that time can mix
fragments. A tick of the clock is longer than a datagram is under way. A lost
connection is never replaced (`OnceCell`). Clients of this program use one address per
session; a client of another make may change it, the server then binds anew, and
one scenario has such a client. It gets no replies there: two loops of one session would
number them independently, which is beyond `SlowEnough`.

**ProxyStream.** A direction is a pipeline: `head` (header not sent), `out` (what
the transport took), `wire`, `plain` (decrypted, not read), `buf` (Vision's), `got`.
`Room` is what rustls buffers for a `RealityServerStream`, which takes a part of a write
that does not fit and hands on the `Ok(0)` of rustls when nothing fits: a bare write then
ends the relay with an error (`write_zero`), a Vision frame stays `pending` and goes on when
there is room. The other transports take a write whole or not yet. The partial writes of `PrefixWriteStream` are left out: the
handshake is flushed, and the header and the first write fit the 64 KiB of rustls.
A peer is this program or Xray; only Xray ends the frames. An Xray *server* ends
them with command 1 only in the model: the net's `RealityStream` reads chunks of 4096
bytes, so raw bytes that share a read with the record of command 2 are fed to TLS
and the stream breaks; the server side reads byte by byte for this reason. The
TLS acceptor passes no flag for raw reading either, so command 2 is modelled with
REALITY only. **AnyTls.** `upstream` are the tokens the writer task took, padding
included: `sent` is on the socket, `tls` in the buffer of rustls, `rest` still to be
written. `WriterTakes` pads one payload, `WriterWrites` writes any part of it, and
a break (`WriterFails`) can come between any two tokens and leave a frame cut. Nothing
flushes: once `rest` is empty, what is in `tls` stays there until the next write. A
padding that does not fit the length of a frame panics, as the assertion in
`encode_frame` does, and ends the writer. A PSH without data is read as the end of the
stream (`hollow`). The property parses what is on the socket.

**Xudp.** Both codecs of one direction and Framed's buffer in between.

**NetBuild.** `stack` is the recursion of `get_net`; `conf.nets` holds a placeholder
for a net that is being built, `conf.read` the configuration as it was read. A nested
net gets a name of the parts "net" (or "server"), the name of what holds it and the
path to it, which the code joins with slashes. A user who gives a net such a name would
see it replaced; `Configured` says that nobody does. `Refs` are the references a
configuration is written with, however deep they nest, and `Sound` the least set of them
that is closed under "can be built", so that a cycle is not in it. The options of a net or
server are "valid", "malformed" (they do not deserialise: `build_dyn` fails before a
reference is built) or "refused" (the builder returns an error after its references
are built, as VLESS does for a bad id); what each builder accepts is not modelled.
`select` has the calls of `select_net` in flight and the stored map. **ClashImport** is a function from a parsed
document to nets; it copies a proxy's parameters unseen, so their kind is the document's,
and writes the obfs net of a plugin with a field the net does not know ("malformed").

**ConfigStream.** Contents are version numbers; `held` is the cache with its age. A
file that changes between the load and the set-up of its watch goes unnoticed, as in
the code. **ApiSession.** `engine` is the version of what the UI shows and the events
emitted; `set_status` writes (`Change`) and emits (`Emit`) in two steps, and two of them may
cross. The session handles one request after the other, and a call may never return
(`stop()` may hang, see `engine_stop`): then later requests of that session wait
(`Blocked`). A subscription's first message may overtake the response, a status may be
written and emitted between `rd.status()` and `subscribe_events()`, and crossed events
leave the older status behind: the code loses these three, and `Excused` names them.
The socket's CLOSING state is left out: a browser is in it after its own `close()`, which
`api.ts` never calls, or a Close frame, which no code of the server sends; when the
connection is cut, the state is CLOSED by the time `onclose` runs.

## 3. Runs

| Run | Bounds | Checks |
|---|---|---|
| `engine` | 1 loop, 1 stopper with 2 stops, 2 servers, 2 generations, 2 configurations | `OneGeneration`, `StatusTruthful`, `DrainBeforeReplace`, `ConfigTakesEffect`, `StreamEndReturns` |
| `engine_stop` | 1 daemon loop, 1 server, 1 stop | `StopReturns`: violated |
| `connections` | 2 connections, one of which moves up to 2 bytes | `TableMatchesHandles`, `AbortedOnRequest`, `NothingLost`, `ClosingEnds` |
| `side_effects` | 1 manager, 3 effects, 3 crashes | `NothingLeftOver`, `Recoverable`, `ReverseOrder` |
| `side_effects_shared` | 2 managers, 1 effect each, 1 crash | `NothingLeftOver`: violated |
| `storage` | 2 clients, 2 keys, 2 values, 2 content files, 2 crashes | `IndexReadable`, `SequentialMapKept`, `AnswersOwnKey` |
| `rpc` | handshake and 3 calls: two opens and one accept, use or close | `AnswerIsOwn`, `HeldExists`, `ResponseReachesWaiter`, `BreakNoticed` |
| `rpc_broken` | handshake and 2 lookups | `CallsReturn`: violated |
| `relay` | UDP: up to 3 packets of one or two clients, a table of 1, channels of 1, queues of 2; TCP: request of 3, answer of 2, buffer of 2; SNI: hellos of 0, 2 and 4 bytes, buffer of 3 | `SessionsOwned`, `SentInOrder`, `NoWakerLost`, `SessionsEnd`, `EofAfterAll`, `AnswerArrives`, `SniffKeepsBytes`, `SniffDecides` |
| `datapath` | 2 tasks, 4 rules, 3 requests, cache of 1; Hysteria: 3 packets of up to 2 fragments, 2 packet ids, tables of 2; five kinds of VLESS and Trojan stream with up to 2 tokens each way and 3 together, room for 2 in a `RealityServerStream`; AnyTLS: 3 padding schemes, up to 2 tokens written, 2 frames pushed and 1 other, frames of up to 4; pool of 2 for 3 names, map of 1 for 2 ports | `CacheTransparent`, `RecoveredAnswered`, `HandedWhole`, `ProxyIntact`, `AnyIntact`, `TunReaches` |
| `control` | all graphs of 3 nets with 11 choices each, 4608 Clash documents, 2 callers of `select_net`, 4 pairs of sources with 2 versions, 1 break of the websocket and 3 versions | `BuildsIffSound`, `SelectionSurvives`, `ImportBuilds`, `MergeKeepsRouting`, `NoticedIsShown`, `PollFollowed`, `UiFollows` |
| `xudp` | 2 packets, 2 addresses, 2 sizes | `PacketsDecoded`: violated |

Why the bounds are enough. *Engine*: a replaced configuration needs two
generations, a report about one server while another runs needs two servers, and
a stop that falls between two others needs two stops. *Connections*: two
connections show that events of one do not disturb the other; two bytes allow one
to be flushed and one to be pending or in flight. *Side effects*: three effects
distinguish the first, the last and one in between; three crashes allow one during
recovery and one after it. *Storage*: two keys and two clients are the smallest
overlap, two crashes allow one while the store is reopened. *RPC*: three calls let
the reader of each take the response of another. *Relay*: a table, a channel and a
queue that fill up, an eviction, a request longer than a buffer, a hello that comes
in pieces, one longer than the buffer and none. *Data path*: caches smaller than
what asks for them, ids and addresses that wrap, a write that is cut in two, a
buffer too small for a frame, a padding that splits, one that pads and one
that panics, a CNAME loop. *Control*: chains, cycles, nested, dangling and unknown nets,
options of all three kinds; a version that changes before, during and after a wait; a
subscription before, during and after a break. All runs disable deadlock
checking, because all counters are bounded and every system may end: streams end,
connections close, sessions break.

What the passing runs show:

* generations of servers never overlap, whatever stops interleave, and a
  generation is never given up while a task of it lives;
* the status is right whenever the loop rests, until an API stop intervenes;
* the connection counters lose no byte and count none twice; a connection is
  aborted only by a stop;
* after a crash, also one during recovery, the next daemon leaves no effect in
  force except those whose write was cut, and undoing is last-in first-out;
* the storage always reopens, and without overlap behaves like a map across
  crashes; with overlap it may lose updates but never mixes keys;
* RPC readers that take each other's responses never starve a registered call while
  the stream is up, and an object lives as long as its wrapper;
* a UDP session is owned by its table entry, sends in order, never sleeps on work
  and ends once its client is silent, whether or not its bind ever returned; the relay
  loses no byte, the sniffer none of a stream that got connected; an end sees its EOF
  after everything else, and neither waits for what it holds back;
* routing is first-match in spite of the cache; a recovered name is one whose
  answers lead to the address; what Hysteria's reassembly hands on is one packet;
  VLESS and Trojan streams deliver what was written, however it is cut; what an AnyTLS
  stream puts on the socket is a prefix of it, cut anywhere; a
  flow through the gateway reaches what its client dialled;
* exactly the sound graphs of nets build, and what runs refers to what runs, also after
  an update that cannot be applied; an imported document builds exactly if its rules
  lead to no proxy with bad parameters or the obfs plugin and to no group that cannot be
  translated, is empty or lies on a cycle;
  merging rules of one method keeps the routing; selections survive a restart when
  calls do not overlap; changes of sources are shown; the UI catches up after a break,
  but for the windows and the hanging call that section 2 names.

What the violated ones show (each is a finding in `PROJECT.json`):

* `engine_stop`: `stop()` looks at the state twice. If `start()` publishes in
  between, `drain()` waits for servers nobody aborted, holding the write lock.
* `side_effects_shared`: servers overwrite and delete each other's persisted entries.
* `rpc_broken`: a failing reader reports to the request that spawned it, which may
  be answered already, while the call whose response it should have read waits
  for ever.
* `xudp`: the decoder consumes a packet's metadata before its payload is there; a
  packet that spans two reads is lost and the rest misread.

More defects are in the models and have no run of their own:

* Two `apply_config` requests at once give two loops, and the second `start()` overwrites a
  `Running` state whose tasks run on unreachable (`Engine` with two loops).
* `let _ = lock.write().await` in the storage holds no lock, so an overlapping `set` is lost:
  `SequentialMapKept` speaks of operations that do not overlap.
* A client that ends before the SNI sniffer is connected has its relay finished without an
  error, and what it sent is dropped (`lost`, which `SniffKeepsBytes` accounts for).
* The end of an AnyTLS payload can stay in the buffer of rustls until the next write, because
  neither the stream's `poll_flush` nor the writer task flushes it (`upstream.tls`).
* A full buffer of rustls is answered with `Ok(0)` instead of "pending" by the REALITY
  server, and the relay ends the connection of a client that only reads slowly
  (`write_zero`).
* The importer writes an obfs net with the field `obfs_mode`, which `ObfsNetConfig` does not
  know, so a Clash document whose rules lead to a proxy with the obfs plugin does not build
  (`Plugged`, an exception of `ImportBuilds`).

## 4. Fairness

* `Engine`: the Tokio runtime polls every task that can go on, its `RwLock` serves a
  queue in order, and an aborted or returned task is dropped: weak fairness of lock
  requests, grants, the steps of `stop()` and of the loop, and of `TaskEnds`. There
  is none for servers returning, configurations arriving or streams ending.
* `ConnectionManager`: `recv_event` and the closing loop are always runnable;
  sending on the oneshot wakes the owner, so a poll that finds the signal is fair;
  an aborted stream is dropped. Backpressure may last for ever, so `ClosingEnds`
  assumes that it does not.
* `RpcSession`: the client's tasks are polled. There is no fairness for callers, the
  stream or the server, because `Read` and `Accept` wait for a peer.
* `UdpForward`: time passes, the forwarder is polled when its timer fires, what ended is
  dropped and an aborted task is scheduled once more. There is no fairness for binds,
  sockets, polls of a session or replies: a session ends although its bind never does.
* `TcpRelay`: both directions of the relay are polled; the ends send what they have
  and close in the end, the patient one only when it has its answer.
* `SniSniffer`: the task is polled when woken and the timer fires. The client promises
  nothing, and the connection it asks for may hang for ever.
* `ConfigStream`: the stream is polled and time passes; sources promise nothing.
* `ApiSession`: an attempt to connect opens or breaks, and breaks are bounded; timers
  fire; both ends handle what arrives, and an event that is due is emitted. A call need
  not return. The UI's own steps are not fair.
* `SideEffects`, `FileStorage`, `NetBuild` and the parts of `MCDataPath` state safety
  only.

## 5. Proofs

Every theorem holds for all values of the constants: any sets of actors, keys and
packets, any sizes and any bounds. Where a model's start depends on a scenario, the
proof module states the specification it is about (`UdpSpec`, `TcpSpec`, `SniSpec`,
`RoutingSpec`, `TunSpec`, `HySpec`, `AnySpec`, `BuildSpec`), which starts in
any of them. All of them have the same shape: an inductive invariant, one lemma or step
per action, and the property from the invariant.

| Module | Theorem | Property |
|---|---|---|
| `EngineProofs` | `TypeCorrect` | `TypeOK` |
| | `GenerationsDoNotOverlap` (one loop) | `OneGeneration` |
| | `DrainedBeforeReplaced` (one loop) | `DrainBeforeReplace` |
| | `StatusIsTruthful` (one loop) | `StatusTruthful` |
| `FileStorageProofs` | `TypeCorrect` | `TypeOK` |
| | `KeysDoNotMix` | `AnswersOwnKey` |
| | `IndexParses` | `IndexReadable` |
| | `SequentialKeepsMap` | `SequentialMapKept` |
| `ConnectionManagerProofs` | `TypeCorrect` | `TypeOK` |
| | `TableFollowsHandles` | `TableMatchesHandles` |
| | `OnlyRequestsAbort` | `AbortedOnRequest` |
| | `EveryByteCounted` | `NothingLost` |
| `SideEffectsProofs` | `TypeCorrect` | `TypeOK` |
| | `CrashLeavesNothing` (one manager) | `NothingLeftOver` |
| | `FileNamesEffects` (one manager) | `Recoverable` |
| | `UndoneInReverse` (one manager) | `ReverseOrder` |
| `RpcSessionProofs` | `TypeCorrect` | `TypeOK` |
| | `OwnAnswer` | `AnswerIsOwn` |
| | `HeldInTable` | `HeldExists` |
| `RelayProofs` | `EofBehindData` | `EofAfterAll` |
| | `SnifferKeepsBytes` | `SniffKeepsBytes` |
| | `SessionsStayOwned` | `SessionsOwned` |
| | `PacketsSentInOrder` | `SentInOrder` |
| | `WakersKept` | `NoWakerLost` |
| `DataPathProofs` | `CacheDoesNotShow` | `CacheTransparent` (a refinement) |
| | `RecoveredNamesAnswered` | `RecoveredAnswered` |
| | `ReachesDialled` | `TunReaches` |
| | `PacketsHandedWhole` | `HandedWhole` |
| | `AnyTlsIntact` | `AnyIntact` |
| `NetBuildProofs` | `BuiltIffSound` | `BuildsIffSound` |
| | `SelectionsSurvive` | `SelectionSurvives` |

**Engine.** `OneGeneration` is not inductive: a `Publish` that replaces a live
generation would break it, and nothing in `OneGeneration` says that there is none.
`Inv` adds `StartClean`: while the loop is between the `stop()` of a `start()` and its
publication, no generation is published. It holds because the loop's own `Drain`
establishes `WaitConfig`, and only the loop publishes; a stopper can only move the
state back. With two loops the second half fails, as section 3 says; hence the
hypothesis `SingleLoop`. `DrainBeforeReplace` follows from `Inv`: only `Drain` changes
a published state, and it waits for all tasks. `StatusTruthful` speaks of the points
where the loop rests; `LoopTruth` says what state, status and the snapshot of the
report are at every other control point, as long as no stopper has acted.

**FileStorage.** `TypeInv` adds to `TypeOK` what an operation is at each control point
(`OpOK`). `AnswersOwnKey` speaks only of answers already given; its strengthening
speaks of names. `FilesOwned`: a name that the index, a client's copy or an operation
under way uses for a key is used for no other key, was made up before, and its file,
if it has content, has that key's. Every action but the naming of a new file only
drops uses or repeats old ones (lemma `SameUses`); that is why writing back an index
that is out of date, which loses updates, cannot mix keys. `IndexReadable` needs
`ClosedIdle`: no operation is under way before `new()` has returned.
`SequentialMapKept` needs, while operations do not overlap, that one client at most is
at work (`Alone`), that its copy is the index but for its own key, and that the
content files are done before the index is written (`Worked`).

**ConnectionManager.** The invariant is about one connection and the events it has in
the channel: New is the first of them and Close the last, one that lives is listed or
has its New under way and no Close, one that was dropped has its Close under way
behind whatever could list it again. A step of one connection, or a heartbeat, adds
events to the end or takes the first one away, and leaves the others' projections as
they are (`Untouched`). `NothingLost` is a statement about sums over all connections and
over the channel. The proof first shows what `SumFunction` does when one value of a
function changes, when an element is put behind a sequence and when the first one is
taken off; then every action moves an amount from one summand to another.

**SideEffects.** `Kept` says where the effects in force are known in each phase: by
the managers and, outside of `apply()`, the file; after a crash by the file; during
recovery by what is left to undo and still by the file, which goes in a step after the
last undo. `Ordered` says that every list
has the steps of the set-up in their order. With two managers both fail, which is the
finding `side_effects_shared`; hence the hypothesis `SingleManager`.

**RpcSession.** Objects are numbered by their creation: `nextObj` is the number of
requests that made one (a cardinality, which is what makes `TypeOK` inductive). An
answer names nothing but what its request made, whoever read it; and an object is in
the table unless a Close for it was sent, after which the client has no wrapper.

**TcpRelay, SniSniffer.** Bytes are conserved: what an end sent is on its way, in the
buffer, with the writer, or has arrived. An end of stream is seen behind the last byte,
and a writer is shut down when nothing is left to write or to flush. For the sniffer,
`Placed` says where the client's bytes can be in each of its states, those that were
dropped among them: none in a connected stream.

**UdpForward.** The argument is about one session: where its packets stand and in
which order (`Ordered`), and which wakers a direction has when it sleeps (`Waits`).
`Coming` relates it to the forwarder: what is still to come is newer than all a session
has seen. Packets are numbered in the order they come. The proof corrected
`NoWakerLost`: an earlier form held on the small instance because two packets
never filled the queue again; it now also allows a direction that cannot read because
its queue is full and that waits for its writer. The run has a scenario of three
packets of one client for this.

**RuleNet.** Every entry of the cache holds the first match of its key (`CacheSound`),
so a step that ends a lookup, from the cache or from the rules, is the step of
`RuleSpec`, and every other step begins a request or stutters. For the recovered names,
every record and every alias is one of an answer that passed (`Answered`), and a set
of names closed under aliases is never left by climbing (`ClimbStays`). `Climb` is a
recursive function; that it is defined and stays in the set is proved without an
induction rule, from the fact that a non-empty set of numbers has a least one
(`LeastUpTo`, from the well-foundedness of inclusion on finite sets).

**TunGateway.** The two maps of the pool are inverse to each other (`Inverses`) and the
gateway's map has one place for a key. Along a connection: the address a client dials
is that of its name until the pool gives it away, the map has the destination of an
open connection or dropped it, and an accepted socket of the present connection has its
destination; sockets of earlier connections of the port carry larger numbers
(`SocketOK`), which is why a late one cannot be taken for the present.

**Hysteria.** Fragments of a key that are on their way are of one packet, and an entry
of the table is of that packet or stale. It is kept by `Held`: each sender knows when it
used an id last, and neither a fragment nor a young entry is newer than that; so an id
used again (`SlowEnough`) meets neither. A server's loop that leaves forgets its ids;
this is sound because it was idle for longer than an entry lives, which is where
`Idle > ReassemblyTtl` (60 and 10 seconds in the code) is needed, together with one
address per session (`HySpec` is about this program's clients), and because the
session of a loop that is not gone is that loop's, however many tasks bind at once.

**AnyTls.** `AnyIntact` parses the tokens the server got with a fold. `Whole` is that fold
as a function of the prefix (it exists and is unique, which is shown by taking the
smallest set of places where it is not), and folding a concatenation is folding the
parts. A sequence of tokens *carries* the stream from one position to another if the
parser, at a frame boundary and there, ends at a boundary and there; a frame carries
its data, padding carries nothing, and `apply_padding` sends its payload whole with
padding behind it, for every list of sizes. The invariant then says that the tokens on
the socket, in rustls and yet to be written, one behind the other, carry the stream from
its start to a position, and the payloads in the writer's channel lie on a chain of
positions from there to the last write. What is on the socket is a prefix of those
tokens, so the parser reads from it a prefix of the stream, with a frame cut at the end
at most; steps of the writer only move the borders between the three. A panic or a break
drops the chain's rest. The other direction is a chain of chunks and frames in the
same way.

**NetBuild.** `BuildState` describes the build between two steps for some meaning `org` of
the generated names. It says what every name stands for and that a generated one tells a
place the build has passed (`Fresh`, so a new one is not taken); that a net on the stack
is a placeholder and any other that does not run lies as it was written (`Lying`); that
the references a frame has passed run and are sound (`Framed`), and that each frame is
there because of the reference the one below it stands at (`Linked`). A net that
returns has only sound references, so it is sound (`SoundIsClosed`). A step that fails
meets an unsound reference, an unknown type or options that are not taken
(`ErrorUnknown`, `ErrorMalformed`), and by `Linked` every frame down to the server's
is unsound with it (`Served`);
for a placeholder this needs that no sound reference is on a cycle (`NoSoundCycle`: else
the sound ones without those that lead into the cycle would be a smaller closed set).
Nothing of this bounds the graph, the depth of nesting or the number of servers.
Its second half, `ReferencesRun`, is kept by `update_net` because it looks every reference up before it
changes the net. For `SelectionSurvives`, while no call has overlapped another at most one
is under way, and for every select net that runs the selection is what that call is about
to store, what is stored or, if nothing is, what was read (`InTurn`).

Assumptions. The proofs use the ASSUMEs of the modules, which TLC evaluates in every
run: that sizes and bounds are natural numbers, `NothingAssumption` and
`FilesAssumption` of the storage, `RequestAssumption` (a request is for a domain or an
IP address), `NamesAssumption` (the value for no name is not a name),
`HysteriaAssumption`, `ConnsAssumption` (finitely many connections),
`TypesAssumption` (the registry knows no net of the placeholder's type) and
`RefsAssumption` (a reference names a net or holds one that was written). `BuildSpec`
starts from any `WrittenConfig`: no name is of the generated form and no two servers
have the same name, which the code's map of servers ensures. `SingleLoop` and `SingleManager` are hypotheses of their theorems.

The prover's SMT translation takes a sequence's length and its domain for equivalent
(`DOMAIN s = 1..n` if and only if `Len(s) = n`) also for values that are no sequences. All
proofs were also checked with that rule restricted to the sound direction; none depends
on it.

Only model-checked, and why:

* all liveness properties: fairness and ENABLED are out of the prover's reach;
* `ProxyIntact`: the bytes of a stream go through a pipeline of seven stages in which
  headers, Vision's frames, a change of reader and a cut can fall anywhere; its inductive
  invariant has a case for each combination of peers and states. The lemmas about folds
  and chains that `AnyTls` needed are where its proof would start;
* `ImportBuilds` and `MergeKeepsRouting`: what pure functions return on documents. The
  first compares the build with holes read off the document (`MCControl`), the second is about a
  fold over pairs of rules whose merged form is compared with the rules by matching.

## 6. Not modelled, and the plan

Not modelled, and why:

* SOCKS5, HTTP CONNECT, obfs and the Shadowsocks streams: one exchange over a stream
  that nothing else touches, or a cipher; a model would restate the format.
* Cryptography, certificates, QUIC, TLS, the user-space network stack, DNS and TLS
  parsing: external, modelled by their outcome where a part depends on it.
* `local.rs` and other nets that hand calls to the operating system or to another net.
* The "direct copy" command of an Xray server (VLESS), the replies to a foreign Hysteria
  client that changes the address within a session, and the CLOSING state of the UI's
  websocket (section 2 says why).
* The Linux splice variant of the relay, Rhai scripts, Trojan's UDP codec.
* The RPC net's reconnection (`get_sess`) and the per-object lock of its server.
* The updater, delay tests, log tailing and HTTP routes of the API; service
  installation, command lines, FFI glue, packaging, and the rest of the web UI.

Theorems planned next, in this order:

1. `ProxyIntact` for a stream without Vision (the header, then the bytes), then with it.
2. `MergeKeepsRouting` for two rules that are next to each other, then for a list.
