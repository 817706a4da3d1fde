# Somewhere-Android in TLA+

Somewhere is an Android client for Nowhere Portals. A `VpnService` hands every packet of the device to a
user-space TCP/IP stack (lwIP); each TCP connection and UDP exchange that comes out of it becomes a *flow*, carried
over one TLS connection per flow or as a stream or datagram of one QUIC connection. These modules model the parts of
the program whose correctness depends on the order in which several threads act, check them with TLC and prove what
holds for every instance with TLAPS.

Paths below are relative to `src/app/src/main/kotlin/eu/nodepass/somewhere/` and, for C, `src/app/src/main/jni/`.

## Inventory

| part | state it keeps | operations | talks to | what is hard | what makes it correct |
|---|---|---|---|---|---|
| fake-IP pool, `dns/FakeIpPool.kt`, `FakeIpResolver.kt` | name and address maps, holders, use order | allocate, nameFor, retain, release, clear | DNS interceptor allocates; TCP handler and UDP relay hold | eviction against live flows; release owed by whoever failed | a held address keeps its name; counts are exact; the maps agree |
| TCP flow handler, `vpn/NowhereFlowHandler.kt` | connections, each with its flow, pcb, hold, live-list entry | onTcpOpen/Payload/Acknowledged/Closed, serve, the pumps, close, end, shutdown | lwIP thread, coroutines, user, teardown | four threads end one connection | each thing a connection owns is given back, once |
| tunnel pump and bridge, `vpn/TunPump.kt`, `NativeBridge.kt`, `lwip_jni_bridge.c`, `lwip/lwip_bridge.c` | the lwIP executor, running, the callback | start, stop, writeToDevice, onStackThread, readLoop | everything that touches a pcb | work queued while stopping; a stack without locks | no task touches a dead pcb; no pcb outlives its connection |
| QUIC bridge, `quic/quic_conn_jni.c` | streams with their buffers, write rotation, datagram queues | open stream, send, write, read, receive, datagrams | ngtcp2 (callbacks), QuicConnection | partial writes, acknowledgements, credit, streams ended by the peer | nothing unacknowledged is dropped; FIN is last; no stream starves |
| QUIC connection, `quic/QuicConnection.kt` | the owner's loop, task queue, per-stream queues, fatal, running | openStream, send, receive, datagrams, close | callers on any thread | values read by one thread while the owner changes them | bytes arrive once and in full; nobody waits on a stopped loop |
| reconnecting owner, `vpn/SomewhereVpnService.kt` `ReconnectingQuic` | the current connection, its generation, a monitor | current, close | dials, pumps, teardown; opens and closes QUIC connections | long waits inside a monitor; failing while being replaced or refused | one connection at work; nobody is given one that was not checked; the monitor is given back |
| session and carriers, `protocol/session/` | lanes, live flows, closed; authentication on Stream 0 | openFlow, close | TLS or QUIC transports | close racing an open; a rebuilt connection | no flow outlives its session; each connection authenticates once |
| datagram lane, `protocol/session/DatagramLane.kt`, `protocol/quic/` | per-flow queues, reassembly slots and budgets | send, poll, close | QUIC datagrams, several readers | loss, reordering, ids used again after a rebuild | only whole packets of one flow are delivered; budgets hold |
| UDP relay, `vpn/UdpRelay.kt` | table of relays, holds | offer, serve, reap, close | pool, session, pump | table at its limit; idle relays | no zombie relay; holds released |
| tunnel service, `vpn/SomewhereVpnService.kt`, `TunnelController.kt`, `MainActivity.kt`, `vpn/TunnelTileService.kt`, `QuickActionActivity.kt` | the running tunnel, nodes tried, reported state | start, stop, fail over, teardown | everything above | a service that stops itself with a start queued; failing over from a failure | nothing outlives the service; the walk over nodes ends; a picked node is kept |
| node health, `nodes/` | outcomes per node | record, health, ranked, next | the service records, the repository asks | outcomes that arrive while another node is dialled | no node is dialled twice for one start |
| node lists, `data/NodeRepository.kt`, `NodeStore.kt`, `SubscriptionStore.kt` | two files, the choice, what an undo holds | add, remove, restore, replace, subscribe, refresh, forget | fetcher, UI | feeds that arrive late; writes that fail | feeds delete nothing; removed stays removed; no node twice |
| the rest | DNS messages, routing rules, codecs, URLs, dialling, UI, update check | | | data, not control | covered by the repository's tests and conformance vectors |

`PROJECT.json` lists the components with their state of modelling and, under "hazards", every place met so far where
this code can go wrong in a way a unit test would hardly reach.

## Modules

| module | what it is |
|---|---|
| `FakeIpPromise` | what the pool promises: an address in use never changes its name |
| `FakeIpPool` | the pool and the flows that hold its addresses |
| `FakeIpPool_proofs` | its theorems |
| `TcpFlows` | one connection's life: handler, pump, lwIP's pcb, live list, teardown |
| `TcpFlows_proofs` | its theorems |
| `SendPromise` | what the bridge promises whoever writes to a stream |
| `QuicSend` | sending half of the QUIC bridge |
| `QuicSend_proofs` | its theorems |
| `StreamPromise` | what a connection promises whoever opens and reads a stream |
| `ConnectionLife` | the life of a connection, from being opened to its thread's end, as whoever opens and closes it sees it |
| `QuicConnection` | owner loop, callers, readers and closing, over the receiving half of the bridge |
| `QuicConnection_proofs` | its theorems |
| `QuicPromise` | what whoever asks for the current QUIC connection may count on |
| `ReconnectingQuic` | opening, checking, replacing and closing QUIC connections, by several threads |
| `ReconnectingQuic_proofs` | its theorems |
| `UdpPromise` | what a UDP relay promises the device: whole packets of its own far end |
| `DatagramLane` | the datagrams of one QUIC carrier: reassembly and the queues of the flows |
| `UdpRelays` | relays, session, carriers, the connection that is rebuilt and the teardown, over the lane |
| `UdpRelays_proofs` | their theorems |
| `NodeLists` | nodes, subscriptions, choice and undo, and what is done to them |
| `TunnelService` | the control thread, failing over, health and the report, over the lists |
| `TunnelService_proofs` | the theorems of both |
| `UdpRelaysMC`, `TunnelServiceMC` | the instances for TLC and where their search stops |

### FakeIpPool

The lock of `FakeIpPool` makes each operation one action; `allocate` is three actions, one per way it ends
(`AllocateKnown`, `AllocateFresh`, `AllocateEvicting`), and the fourth way, null with every entry held, changes
nothing. `Entry` objects are spread over `nameAt`, `holders`, `usedAt`. A flow's `retain` and the resolver's verdict are
two steps: `Retain`, then `Encodes` (the flow owes a release) or `Refused` (the resolver gives the hold back).
`offsetOf` is abstracted to the offset itself; addresses out of range hold nothing and are left out. `Clear` is guarded
by "no flow holds", the order in which `teardown` calls it; a release that comes later still, and lands on the pool of
the next tunnel, is not modelled.

### TcpFlows

One record per `Connection` also carries what others hold for it: lwIP's pcb, the tracker's entry, the flow its dial
returned. Threads are what may be enabled at once: `RunTask`, `ShutdownAborts`, `ShutdownRuns`, `Device*` and the
`CallEnds(c, "lwip")` that follows a device reset exclude each other through `LwipFree`; `serve` is `ServeAt` and its
steps; the user is `UserCloses` and `CallEnds(c, "user")`; teardown is `phase`. `end()` is seven steps, one per
statement, taken by the one caller that won `ended`. `writeToDevice` and `onStackThread` are two: they read `running`
(`EndChecks`, `UseChecks`), then submit (`EndPosts`, `UsePosts`) to an executor that may have been shut down since.
It does not discard what it refuses, as the comment over it has it: `newSingleThreadScheduledExecutor` returns a wrapper,
the cast at `vpn/TunPump.kt:128` yields null, the default policy stays and `execute` throws. So `Accepting` is what the
executor takes, and outside it each caller has its own way out: the exception leaves `end()`, or `serve` at its first
credit, or the reader (`ReaderRefused`), and ends the process (`alive`), while a pump and the DNS loop catch it and end.
On the lwIP thread it stays pending in native code or ends the task: either. `posting` is who stands between the two steps.
A dial may succeed or
fail at any time. `misused` records that a task used a pcb that was not live, and which side had given it up.
Not modelled: how many bytes go each way; the two-second limit of `awaitTermination`; the UDP side.

Connections share the lwIP thread, the task queue, the tracker and the pool. The run has one connection: two exceed
10^8 states. What the second would add is the count of holds, for which `OtherHolds` stands, and longer queues; tasks
only touch their own connection's state.

### QuicSend

All calls and callbacks run on one thread, so each is an action. A buffer is its three indices (`sendLen`, `sent`,
`acked`); `credit`, `inFlight` and `shut` are what ngtcp2 holds and are changed only as the bridge's use of it
says: it takes from 1 byte to all of what credit allows, it refuses a stream without credit or with its write half
shut, it reports acknowledgements and closes in any order. `owed` is a history variable. `WriteFin` shows that a FIN
without bytes moves neither `fin_written` nor `next_write`: the stream goes on being offered, and refused, until it
is closed.

`SendPromise` knows, per stream, how many bytes are unsent and unacknowledged, and whether an end was asked for, the
half is shut, the stream is over. `QuicSend` implements it: `sendLen - sent` is what is unsent, `sent - acked` what is
unacknowledged; that the buffer starts over, whose turn it is and how much of it fits are not seen.

### QuicConnection

The owner's loop is `owner`; each thing it does that another thread can observe is one action. `openStream` stands for
everything that goes through `onOwner`: check, put, then an answer or a timeout that leaves the task behind. A
reader's `receive` is one action per variable it reads (`arrived`, `fatal`, `finished`, `running`), because the owner
moves in between. A byte is its place in the stream, and a chunk goes from one place to another. Receiving half of the
bridge: `Receive`, `StreamCloses`, `HarvestChunk` (with the credit it returns), `HarvestStops`. `CloseJoins` takes the two seconds `close` waits to be enough. The handshake wait and a
start-up that fails are in `ReconnectingQuic`. Not modelled: the datagram queues and `send`.

`QuicConnection` implements two specifications. `StreamPromise` is the view of those who open and read streams: bytes
are given once and before anything else is said, and a reader is told "end" or "error" only when there is one.
`ConnectionLife` is the view of those who open and close connections: a connection fails or is told to stop, comes to
the end of its loop, and loses its socket only then. `ReconnectingQuic` implements `ConnectionLife` too, for every
connection it numbers, so that what each of the two leaves out of the other's part is left out consistently.

### QuicPromise and ReconnectingQuic

The connections opened are numbered by `generation`; each has its own thread, `owner`: `starting` is `start()` up to
the native handle, `looping` the loop, `failing` and `stopping` the two ways out of it, `waking` the `finally` up to
`nativeClose`, `done` what comes after. `fatal`, `running`, `handshakeDone` and the socket are the fields of
`QuicConnection` that others read or close. A caller's `at` is where it stands in `current` or `close`, all of it inside
`lock`: closing and joining the old connection, opening one (`mine`), awaiting its start-up, waiting for the handshake,
checking the peer, and storing it (`Hands`) or throwing. `stage` is the control thread's: it asks first, as `startTunnel`
does, falls back to TLS when that fails, stops when the certificate is refused, and closes in teardown.

A timeout is `GivesUp`, at any time; it reads the native message in a second step (`Reports`), because the owner may
free the handle in between. `Checks` is `verifyPeer`, answered by the loop or by the tasks that are run last; `CheckFails`
when neither answers. The two seconds of a join are taken to be enough. Which peer a connection reaches (`genuine`) and
whether the node has a pin (`pinned`) are chosen at the start and fixed.

`QuicPromise` has `given` and `alive`: one connection at most carries anything, and it is replaced only when dead.
`UdpRelays` relies on this where its connection dies and is rebuilt; there a rebuild always succeeds.

### UdpPromise, DatagramLane and UdpRelays

`DatagramLane` is the state one carrier's flows share and the operations on it; `UdpRelays` has the threads. A relay
is a record: where its coroutine stands (`at`, the steps of `UdpRelay.serve`), its stream, whether `Relay.flow` is set,
whether it is in the table, whether its channel is open, its pumps, and the calls that have begun to close it and have
not closed its flow yet (`closers`). Four callers may be between those two halves of `close` at once; `Begun` is the
first half, `ClosesFlow` the second. A closer given to the connection tracker is `asked` until the coroutine it launches
runs. The reaper is a coroutine of its own (`reaper`), which `serve` stops once both pumps have been joined; a `serve`
cancelled in the join does not, and the reaper closes the flow once more later. `serve` dials (`CheckOpen`, then
`TakesStream` or `Connects`, then `Answered`, `FirstSendFails`, `OpeningThrows` or `DialFails`). A dial that is refused
takes its lane and socket with it; one that ends in an exception, from the opening write over TLS or from the first
packet, leaves them, and the relay is `lost`. One that succeeds assigns the flow, and then checks its channel: three
steps between which anything may close the relay. The teardown is `stage`, in the order of
`SomewhereVpnService.teardown`.

The QUIC connection is its generation, its next stream and whether it has been authenticated. It dies at any time;
`Rebuild` is `ReconnectingQuic.current`, called by whoever finds it dead, also after the tunnel has stopped. What dies
with it is the far end's knowledge of its flows (`route`) and what was under way (`wire`); the lane stays, as in the
code. The far end answers, sends each of its packets once, whole or in fragments, and closes. `wire` hands datagrams
out in any order and need not hand out any, which is loss and reordering; a fragment that comes twice changes
nothing in the code and is left out.

A payload is the packet it is a part of, so an assembled packet is the set of packets its fragments come from: a set
of one is a packet somebody sent. Queues are sets, because no property tells their order, and `DatagramLane.CLOSED` is
the empty set. Packet ids are a constant function (`IdOf`) under the assumption `PacketIds.kt` makes true: ids of one
sender differ. Expiry takes any slots at any time. Sending changes nothing but the next id: `UplinkIsOwn` says where a
packet goes that is sent now. Left out: the live count, direct relays, bytes.

`UdpPromise` has `sent`, `got` and whether the first connection still stands. `UdpRelays` implements it: what a relay
hands over is one packet whole, and was sent to it. That the promise ends with the first connection is finding 6.

### NodeLists and TunnelService

A node is its rendered URL, the identity `NodeStore` uses. `NodeLists` has one action per operation of
`NodeRepository` that changes a list; a fetch is two, `StartFetch` and `Arrives` or `FetchFails`, since it holds no
lock. A write that fails leaves the file, and so the list, as it was (`Saves`); removing a subscription writes two
files, and either can fail. `undo` is the one `Removed` a screen holds. `Reload` is the load at start-up. The order of
the list is left out; importing several nodes is several `AddNode`s; probes and the displays of refreshes in flight are left
out.

`TunnelService` is the control thread over those lists. `queue` is the executor's; `HandleStart` is `handle` up to
the dial and `attempt` the node being dialled; `NotEstablished`, `IsRefused`, `IsUnreachable`, `ComesUp` are the ways
`startTunnel` ends, and failing over is the recursion, so `IsUnreachable` either moves on or gives up. Nodes and health
are read when an attempt has failed, not when it began. `Connect`, `PickNode` are `MainActivity`'s, `ConnectElsewhere`
the tile's and the shortcuts'; `running` is what `MainActivity` believes. `stopSelf` without a start id stops the
service whatever has been sent to it, so a start can be queued behind the stop; `Destroyed` appends the teardown and
`Over` ends the instance. `Dies` is the process. `dialled` is a history variable.

Not modelled: a service instance that begins while the last one's thread is still at work (`Posts` waits for it), a
sticky restart's empty intent, which does nothing, and the sampler.

## Runs

| run | question | bounds |
|---|---|---|
| `pool` | can a held address change its name, a count drift, the maps part? Does the pool implement its promise? | 3 names on 2 addresses, so eviction happens with none, one or both held; 2 flows, so an entry can have two holders; counter to 8, enough to fill, evict, and evict again before a clear |
| `tcp` | is everything a connection owns given back, once, whoever ends it, and does it fall quiet? | 1 connection, 1 other hold, 1 queued use at a time |
| `quic_send` | do partial writes, acknowledgements, FINs and ends keep the buffer right; does a busy stream starve another, or set it back? Is it `SendPromise`? | 2 streams, buffers of 2, credit of 1 (always partial writes), 1 datagram |
| `quic_connection` | is a transfer read to its end, whatever stops; is any byte lost, any task abandoned? Does it implement `StreamPromise` and `ConnectionLife`? | 1 stream of up to 4 bytes over a window of 3, so credit must be returned; harvest of 2, so one read is not enough |
| `udp` | are addresses, flows and sockets of a relay given back, is every connection authenticated, are the tables bounded, and does a relay deliver only whole packets of its own? | 2 relays, each with a packet that can be split in 2, under one packet id; a table of 1 slot, so that it is full with one; 2 connections, so one rebuild; `Bound`, see below |
| `service` | is no node dialled twice for a start, a picked node kept, the report honest, nothing left over; do feeds take nothing away; does every attempt end? | 2 nodes, 2 subscriptions, 1 fetch, 1 command waiting, failures counted to 1 (ranks only compare); `Bound`, see below |
| `reconnect` | is nobody given an unchecked connection, is one at most at work, is a refused peer left at once, does nobody wait for what cannot come, and is the monitor given back? Does it implement `QuicPromise` and `ConnectionLife`? | 2 threads and the control thread; 3 connections, so that one fails or is refused, one is handed out and one replaces it |
| `tcp_freed`, `tcp_leak`, `quic_eof`, `udp_collide`, `quic_left` | what a comment or a test says and the code does not do | those of the module's run above; 1 thread and 2 connections in `quic_left` |

`Bound` in `UdpRelaysMC` and `TunnelServiceMC` is a CONSTRAINT: states outside it are checked and not searched
further. In `udp` packets are followed through the whole life of two open relays and a rebuilt connection, and through
the end of one relay beside an open one; the orders of closers and teardown are searched without packets; only one
of the two relays, which are alike, is closed by the user. In `service` the whole of `NodeLists` is searched while no
service runs, and beside a service the lists hold a node of the user's and a feed's node that come, go and are
withdrawn, with a feed under way during an attempt. Everything either run checks as a safety property, and the
refinement, is also a theorem, where no bound holds.

Deadlock is off in `tcp`, `quic_connection`, `reconnect`, `udp` and `service` because all really stop: a tunnel torn
down, a connection closed with its readers answered, relays that are over, a service with nothing to do. (`reconnect`
also stops when its connections are used up.) It is on in `pool` and `quic_send`. Every safety property of `tcp`,
`quic_send`, `quic_connection` and `reconnect` is also a theorem, so that their instances bound nothing but the liveness
properties.

The type invariants say no more than types and are theorems; the runs leave them out, as they leave out `FinIsLast`,
which `SendPromise` says as well. Each property is falsified by a mutant of one mapped definition ("mutants" in `PROJECT.json`):
evicting a held entry, setting `gone` late, dropping the last drain, starting the rotation at the head, and so on.

### Fairness

- `TcpFlows`: threads that are runnable run (the lwIP executor, `end`, coroutines, the teardown once begun). A pump
  need only end when what it waits on is closed: strong fairness, because it may post tasks before it comes to its next
  read or write, which fails, or to the end of the channel. Device, user, far end and the decision to stop owe nothing.
- `QuicSend`: the owner keeps calling `nativeWrite`, as `flush` does on every pass. The peer owes nothing: neither
  credit nor acknowledgements.
- `QuicConnection`: weak fairness for owner and reader, each a thread that blocks only on timed waits. Strong fairness
  for the peer's bytes, which can only be taken while the owner is in its burst: QUIC retransmits until they get
  through. Failing, timing out and closing are never required.
- `ReconnectingQuic`: each owner's thread and whoever is in the monitor go on (`Runs`, `Inside`). No handshake
  completes, no connection fails and nobody asks unless it happens to; a wait ends because the code gives it a deadline,
  which is a step the waiting thread can always take.
- `TunnelService`: the control thread runs what is queued and every dial ends, by an answer or by its deadline
  (`WF_vars(Control)`); the system destroys a service that stopped itself, and its thread ends. `AttemptsEnd` needs no more:
  failing over goes on only to nodes not tried, however the feeds change the list.
- `UdpRelays` states no fairness and no liveness: its datagrams may all be lost.

## Findings

Five runs end in a counterexample to something a comment or a test says.

1. `tcp_freed`: `end()` takes the connection out of the map (`vpn/NowhereFlowHandler.kt:794`) before its stack task
   sets `gone` (`:800`). If the device resets the connection between the two, `onTcpClosed` does not find it (`:319`),
   `gone` stays false, and the queued task closes a pcb lwIP has freed; `:782` says that does not happen.
2. `tcp_leak`: `ended` is checked at `:543` and `flow` assigned at `:572`. An `end()` in between closes no flow, and
   the cancelled `serve` does not either; `:519` says it does.
3. `quic_eof`: `receive` finds its queue empty, the owner puts the last bytes and marks the end, `receive` reads
   `finished` (`quic/QuicConnection.kt:571`) and answers -1 with bytes queued; `:541` says -1 is a clean end.
4. `udp_collide`: flow ids come from stream numbers (`protocol/quic/QuicFlowId.kt:60`), which start again at 0 on a rebuilt
   connection, while the lane with its queues stays (`protocol/session/DatagramLane.kt:37` keeps a queue that is
   there) and so do the relays of the old connection. A new flow shares the id and the queue of an old relay, and either
   takes the other's packets; `QuicFlowId.kt:42` says there is nothing to collide, and `SomewhereVpnService.kt:720`
   that a rebuild is invisible to the lane.
5. `quic_left`: `current` stores the connection only once the handshake has been completed
   (`vpn/SomewhereVpnService.kt:703-706`). When it times out at start-up, `quicConnection?.close()` (`:438`) finds none,
   and the connection that was opened keeps its thread, socket and handle beside the TLS session.
   `src/app/src/androidTest/.../QuicHandshakeTest.kt:138` says that opening and closing leaves none behind.

The passing properties are stated so that these are outside them, each by a clause that names the case
(`NoUseAfterHandBack` is about pcbs this side gave up, `EndedIsQuiet` is about `serve`, the list and the map rather than
the dialled flow; `UdpPromise` and `UplinkIsOwn` are about the first connection; `OneAlive` is about connections that
were handed out, `RefusedIsDown` about the loop and not the socket).

Seen while modelling, and in the models, without a run of its own:

- A loop that failed sets `running` false by itself and closes the native handle, not the socket
  (`quic/QuicConnection.kt:276-283`); the `close` that `current` calls before replacing it returns at once (`:685`), so
  each connection that failed and was replaced leaves its socket. `NoneLeftBehind` is violated by this too.
- `completeHandshake` hands the handle to `nativeLastMessage` on the caller's thread (`:427`) while the owner may be
  freeing it (`:281`); `:107` says that callers never touch the native side. It is the step `Reports`.
- A refused stream makes `nativeWrite` return 0 with `next_write` unmoved (`quic_conn_jni.c:956`), so it is chosen again
  and streams after it wait. `NoBusyStreamStarves` excepts it by name.
- The stack's executor is meant to discard what comes after its shutdown; `vpn/TunPump.kt:118-121` says why throwing
  "would turn an ordinary shutdown into a crash". The cast at `:128` yields null, so it throws. Whoever read `running`
  before the shutdown and submits after it gets the exception: `end()` called by the user's close or by `serve`, `serve` at
  its first credit (`NowhereFlowHandler.kt:585`), the reader (`TunPump.kt:255`), with nobody to catch it; the pumps, TCP
  and UDP, and the DNS loop catch it. `EndPosts`, `UsePosts` and `ReaderRefused` do this, and `EndedIsQuiet` and
  `EndedGivesPcbBack` except it by `alive`; while the executor takes tasks nothing is refused, which is what
  `HandedBackOnce` and its theorem rest on.
- An opening write over TLS that throws (`protocol/session/DedicatedTlsLane.kt:123`) passes by the close of the lane
  (`NowhereSession.kt:128`): lane and connection stay until the session closes. It is the step `OpeningThrows`.
- A relay whose `serve` is cancelled in its join keeps its reaper (`vpn/UdpRelay.kt:310-312`), which closes a closed flow
  once more: over QUIC a second CLOSE for an id that may be another flow's after a rebuild, which is finding 4 again.
- A direct flow's first write (`NowhereFlowHandler.kt:577`) that fails leaves `serve` through an exception nobody
  handles, and ends the process; `EndedIsQuiet` excepts it by `alive`.
- An edit can make a node identical to another (`ui/screens/NodeEditorScreen.kt:88`; `NoTwins` excludes it).
- A dial refused at setup, or whose first packet cannot be sent, leaves its stream open
  (`protocol/session/QuicCarrier.kt:182`, `:203`; the clause `relay[r].flow` of `NoFlowOutlives`, and `lost`, exclude it).
- A pump still in the lane when the tunnel stops opens a QUIC connection again (`SomewhereVpnService.kt:733`).
- The marker that ends a flow reads like a timeout (`protocol/session/DatagramLane.kt:101`): the relay waits for the reaper.
- A start from the tile is not known to `MainActivity.running`.

## Theorems

### FakeIpPool_proofs

For any sets of names and flows (finite), any capacity and any bound of the counter. The inductive invariant `IInv`
is the type invariant, `HeldNameStands`, `HoldersCounted`, `MapsAgree`, and that a flow between `retain` and the
verdict holds an address. The conjuncts need each other: a held name stands through an eviction because the victim
has no holders, which means no flow holds it only as long as the count is exact; the renaming of `byName` is right
only because the maps agreed before. Counting rests on two facts about cardinality: adding or removing one flow
changes the set of holders of one address by one. From `IInv`: `AlwaysTyped`, `HeldNameAlwaysStands`,
`HoldersAlwaysCounted`, `MapsAlwaysAgree`, and `PoolImplementsPromise`, the refinement: allocating and evicting map to
giving an unused address a name, everything the promise cannot see to a stutter.

Assumptions: capacity positive, flows finite, "no name" not a name. All are `ASSUME`s of `FakeIpPool`, which TLC
evaluates.

### TcpFlows_proofs

For any finite set of connections, any number of other holds and any length of the queue, where the run has one
connection. `IInv` has six parts: the type invariant; `Counted`, that the count of holds is right while the pool
stands; `AllSound`, a statement about one connection's
record alone; `TasksFit` and `GivenOnce`, about the tasks queued for it; `HandedOver`, that the handler's shutdown
leaves no hold with a connection it has been over and, when it is through, nothing registered and no task. `Sound` says, among other things, that a pcb
handed back has `gone` set and an `end()` that is over, that an entry of the live list is either known through
`tracked` or about to be, and that nothing runs for a connection the device has not opened. `TasksFit` and `GivenOnce` are
what `HandedBackOnce` and `NoUseAfterHandBack` need: a task that hands a pcb back is queued only by an `end()` that is
over, is alone in the queue, and finds the pcb not handed back yet. A task sees `gone`, or a pcb that is not ours to
have given up.

The proof has one lemma per action. Most of them show what becomes of one record and cite `OneMoves` (or `Served`, for
the steps that leave `end()` alone; `GoesOn`, for the steps of the winning call; `Wins`, for the call that wins);
`TaskQueued` and `TaskTaken` are the two ways the queue changes, `HoldTaken` and `HoldReleased` the two ways the count
does, by cardinality. From `IInv`: `AlwaysTyped`, `HoldsAlwaysCounted`, `NeverGhostEntry`, `AlwaysHandedBackOnce`,
`NeverUsedAfterHandBack`. They cover every safety property of the run `tcp`.

`HoldsCounted` has two halves: the count, from `Counted`, and that after the shutdown only an `end()` already at its
release still holds an address, from `HandedOver`. The second is what the guard of `FakeIpPool`'s `Clear` relies on,
up to that one call; `ReleasedOnce` of `UdpRelays` says it of relays.

`HandedBackOnce` has two halves as well: a pcb is not handed back twice, and it is not left to nobody. The second needs
a further invariant, `Promised`, proved over `IInv`: a live pcb whose `end()` is over has its task in the queue while the
executor takes tasks, `gone` is not set before the pcb is given up, and from the moment the pump has stopped the
shutdown that aborts what is left is queued or has run. `Remembers` is the lemma for steps that take no task away.
A task the executor refuses ends the process, except on the lwIP thread, and that one comes after the shutdown task
is queued.
With fairness for the lwIP thread this is `EndedGivesPcbBack`; only that last inference is left to TLC. Assumptions: connections finite, the two
bounds natural numbers.

### QuicSend_proofs

For any set of streams, even infinite, any size of the buffers and of the credit. `IInv` is the type invariant,
`NothingDropped`, `FinIsLast`, and three facts of its own: `next_write` points into the list, a FIN is written only when
asked for, and ngtcp2 is never offered a stream it has forgotten (`NoneForgotten`: the test of `gone` at
`quic_conn_jni.c:897`, which as a property of the run would only repeat itself). `NothingDropped` is what keeps the indices in range: an acknowledgement never exceeds
what is in flight, and the reset of the buffer at `send_acked >= send_len` drops nothing because `acked + n` can only
reach `sendLen` when `sent` has. `NoneForgotten` rests on `ChosenOffers`: the walk from `next_write` comes first to a
stream that offers something, which one that is gone never does; that the walk has a first such stream is
`LeastNatural`, from the well-foundedness of `<` on the naturals. From `IInv`: `AlwaysTyped`, `NothingEverDropped`,
`FinAlwaysLast`.

`AlwaysNearerEachTurn` is the argument behind `NoBusyStreamStarves`, an action property with the turn of a stream as its
ranking. `WriteStreamTurns`: the stream served had the least turn and `next_write` goes one past it, so any other's
turn falls by the served one's and one more, around the end of the list too; `OpenTurns`: a stream put at
the head moves everyone's place by one, and the walk's start with them. Nothing else moves a turn. How often a stream
is served still depends on fairness, which stays with TLC.

`SendKeepsPromise` is the refinement. The mapping needs `BufferHolds`: what is unsent and what is unacknowledged are
naturals and fit the buffer together. Each action has a lemma: a send maps to `Accept`, a write to `Send`, an
acknowledgement to `Acknowledge` whether or not the buffer starts over, a FIN alone and a peer that stops reading to
`Shut`, all else to a stutter. With these, every safety property of the run `quic_send` is a theorem. Assumptions: sizes are natural
numbers, a null pointer is no stream.

### QuicConnection_proofs

For any finite set of streams, any window, any amount of data and any size of one read. `IInv` is `TypeOK`,
`NothingLost` and two facts of its own. `WindowKept`: what the peer may send and what is unread make up the window, which
is why neither can leave its bounds. `NothingLeft`: a reader that has begun to look into its queue has nothing left
over, so the chunk it takes overwrites nothing. `NothingLost` says where each chunk begins: behind the one before it,
the first behind the leftover, the leftover where the reader stands, and the last ends where the native buffer begins;
so bytes come in order as well as once. `Harvested` is the lemma for the chunk that goes behind the last, `TakesFirst`
for the one that becomes the leftover, with every other moving up. From `IInv`: `AlwaysTyped`, `NothingEverLost`.

The refinement of `StreamPromise`, `ReadersKeepPromise`, needs `Told`, an invariant proved over `IInv`
(`ToldInvariance`): `running` is false past the loop, a stream is marked finished only if the peer ended it or the
connection is over, and no chunk reaches beyond what was received. So whatever a reader is told is true when it is
told, although it read `fatal`, `finished` and `running` one after the other; and what it copies was received and not
given before. `ConnectionLives` is the refinement of `ConnectionLife`. Together they are every
safety property of the run `quic_connection`. Assumptions: sizes are natural numbers, window and read positive.

### ReconnectingQuic_proofs

For any threads, even infinitely many, and any number of connections. `IInv` is `TypeOK` and five parts. `Monitor`:
who stands inside has the lock. `Own`: what a thread has opened has been given to nobody. `Dead`: every connection handed
out but the current one is dead, and so is the current one while somebody replaces it; with `Monitor` that is
`OneAlive`, because a second thread cannot hand out its connection beside the first's. `Vetted`: what is known of the
peer at each step of the check; a completed handshake under a pin, or a chain fetched and accepted. `Stopped`: a loop that
is over has `running` false, and a connection nobody was given has `running` false only if its loop is over or the
thread that opened it is refusing it, which is why a caller told "untrusted" finds the loop over even when it
stopped for another reason.

`OwnerMoves` reduces every step of an owner to what it can do to a connection (`Later`), `GoesOn` and `StopsHanded` the
steps of callers that change only where they stand, or stop what was handed out. From `IInv`: `AlwaysTyped`,
`HandedAlwaysGenuine`, `NeverTwoAlive`, `RefusedAlwaysDown`, and `QuicKeepsPromise`, the refinement: `Hands` maps to a
replacement, the steps that stop or fail the current connection to its death, all else to a stutter.

`WaitsAlwaysAnswered` is the safety half of `LockIsGivenBack`: whoever joins a connection's thread, inside the monitor,
joins one that has a loop and has been told to leave it, and whoever waits for a handshake or a chain waits for a
connection that has started. It rests on `Answered`, proved over `IInv` (`AnsweredInvariance`): what has been handed out
has come to its loop, and who joins has told. `ConnectionsLive` is the refinement of `ConnectionLife`: no connection is
told to stop twice or before it loops, and none loses its socket while its thread is at work. Assumptions: the
control thread is none of the others, the bound is a natural number.

### UdpRelays_proofs

For any relays (finite), packets, packet ids, numbers of fragments, slots, flows in the table and connections. `Inv` has
three parts. `AllSound` is the type invariant and, per relay, what its record alone says: the address is given back exactly
when a closer has begun, what is in the table has not ended unless a closer is on its way, the flow is set only
after an answer. `Linked` ties the relays to the connection: on the connection that is up a stream number belongs
to one relay, the ids handed out are those below the next, what is routed is routed to the relay that opened it,
and authentication came with the first. `Owned` ties the lane to the relays while the first connection stands: what is on the wire, held or
queued under a flow id was sent by the relay that has it, and a fragment carries the id of its packet. That
is why an assembled packet is one: `IdOfAssumption` makes a key tell its packet once the flow is one relay's.

`ReleasedOnce` says in its last clause that no relay is owed a release once the handlers are shut. That needs
`Emptied`: the table is empty then, because the shutdown closes every relay in it and a relay is offered only before; a
relay out of the table has been closed, and a closed one has released (`StaysOut`, `EmptiedStep`).

`RelayOutcome` says what a step does to the record of the relay that takes it, `OthersLeaveRelays` that nothing else
does anything to it; the actions of the lane each have a lemma for each part of `Owned` they touch. From
`Inv`: `TypeCorrect`, `ReleasedExactlyOnce`, `NoZombieInTable`, `TableBounded`, `AlwaysAuthenticated`,
`UplinkAlwaysOwn`, and `RelaysKeepPromise`, the refinement: sending maps to sending, a pump that takes a payload to a
delivery, a rebuild to the promise's end, all else to a stutter.

`NothingOutlivesRelay` needs more, because the path of a relay may still be open when its coroutine is already over. `Closes`
says that whoever ends a relay that has a flow (its channel closed while it is open, or ended and out of the table) has
either left a closer behind or finds the path closed, and that a relay with a socket is not still, or again, before
its connection. Every step of the relay's own leaves its record with a closer or as it was (`Ends`), the step that closes
the flow closes the path, and `Steady` with `ClosedStays` says that no step of anybody else opens it again: flow ids
come back with a rebuilt connection, but not to a relay that is over.

### TunnelService_proofs

For any nodes, subscriptions and fetches, any queue and any number of failures. What the lists promise are action
properties, each proved from the step alone: `FeedsDeleteNothing`, `GoneStaysGone`, `OneOfEach`. The service's
invariant adds to the type and the stated properties three of its own: the nodes `dialled` for this start are
those `tried` and the one being dialled (so that "not tried" means "not dialled"); a service that was never created has
nothing queued; and the teardown, once queued, is last, so that when the queue of a destroyed service is empty
its tunnel is down. From it: `NoNodeTwice`, `PickedIsKept`, `ReportsWhatIs`, `NothingOutlives`.

### Model-checked only

Every liveness property (`EndedIsQuiet`, `EndedGivesPcbBack`, `NoBusyStreamStarves`, `TransferEnds`, `QueuedIsRun`,
`LockIsGivenBack`, `AttemptsEnd`): TLAPS has no rule for fairness and ENABLED that its backends here can use. For three of
them the safety half is proved: `HandedBackOnce` for `EndedGivesPcbBack`, `NearerEachTurn` for `NoBusyStreamStarves`,
`WaitsAreAnswered` for `LockIsGivenBack`. Every
safety property of every passing run, and every refinement, is a theorem.

## Plan

What would add most next, in this order.

1. The rest of `QuicConnection`: `send` and the datagram queues; `ReconnectingQuic` composed with `UdpRelays`, so that a
   rebuild can fail or take long while relays wait in it.
2. Two service instances whose threads overlap, with the release that comes after the pool's clear: one pool, two pumps.
3. The DNS interceptor over `FakeIpPool`, TCP flows beside UDP relays on one session.

## Not modelled, and why

Codecs, cryptography, URL and rule parsing, DNS messages: functions of their input, tested by the repository against
conformance vectors. lwIP, ngtcp2 and AWS-LC: not this project's code; modelled only through what the code relies on.
UI, update check, QR, app list: presentation and platform calls; so is the user refusing the VPN dialog, which reports
a failure from the main thread (`MainActivity.kt:109-122`) before any service starts. By lines, most of the C in the repository is the
vendored stack; of the project's own C, `quic_conn_jni.c` and `lwip_bridge.c` are modelled where they keep state.
