# consul-api-sidecar: a verification project in TLA+

`consul-api-sidecar` is a pair of Rust programs. An *agent* runs where a Consul server (or its
DNS) can be reached; a *sidecar* runs where it cannot, and the two share a directory. The agent
listens on unix sockets in it, the sidecar listens on local TCP and UDP addresses and carries what
arrives there over the unix sockets. A TCP service tunnels a byte stream. A DNS service multiplexes
the datagrams of many applications onto one stream and finds its way back from the 16-bit ids of
the replies. Both programs bring their services in line with a configuration file, at start and on
every SIGHUP, and end on Ctrl-C. Both run on a tokio runtime with one thread.

Paths below are relative to the crate's `src/` directory (`src/src/` in `PROJECT.json`).

## 1. Inventory

    applications ~UDP~ ingress bridge - channel client ==unix socket== session - egress bridge - forwarder ~ upstream DNS
                       \__________ sidecar: dns service __________/    \____________ agent: dns service ____________/

    applications =TCP= tunnel client =================unix socket================= tunnel server =TCP= Consul

    file, SIGHUP, Ctrl-C -> config loader -> service runner -> one task per service      (in each program)

| component | code | state | operations | what makes it correct |
|---|---|---|---|---|
| egress bridge | `dns/egress_bridge.rs` | table id -> (client, age), responders by client, unbounded channels | Registration, DNSFromBridge, DNSFromNet, the three-second sleep, Shutdown; two cleanups per iteration | a reply goes to the client that asked, once; ids are freed; responders are found |
| ingress bridge | `dns/ingress_bridge.rs` | table id -> (address, age), UDP socket, channels | DNSFromNet, DNSFromBridge, sleep, SocketError, Shutdown; a cleanup per iteration | the same, and it ends with its channel client |
| frame codec | `dns/mod.rs` | the reader's `current_msg_len`; locals of the read future | `send_dns_message`, `DNSMessageReader::read`, `id` | cancelling a read loses nothing |
| channel client, session | `dns/client.rs`, `dns/server.rs` | reader, write in progress, queue from the bridge | message of the bridge, frame of the socket, Shutdown | messages pass in order and whole; both ends stop |
| DNS server | `dns/server.rs` Server, `dns/service.rs` run_server | map of sessions | accept, cleanup, shutdown (sessions, bridge, forwarder) | no session leaks; the server is useless without its bridge |
| DNS client service | `dns/service.rs` run_client | Starting / Running(bridge, client) | start, retry after 5 s, poll `is_done` every 5 s, stop | a broken channel is replaced; the old bridge is gone before the new one binds |
| TCP forwarder | `dns/forwarder/tcp.rs` | Waiting / Connecting / Connected(stream) | peek, try_connect, read, write, Shutdown | requests in order, none twice; replies intact; none of an old connection |
| UDP forwarder | `dns/forwarder/udp.rs` | socket | resolve, send to every address, receive | replies reach the bridge |
| forwarder plumbing | `dns/forwarder/mod.rs` | two channels | Stream and Sink of the bridge, `Address` | - |
| service runner | `service.rs` | name -> (configuration, task) | Reload: launch, stop and relaunch, remove; Shutdown: drain | running services are those of the file; none is left behind |
| config loader | `config/loader.rs` | signal stream, channel to the runner | reload at start and on SIGHUP, shutdown | every SIGHUP leads to the file that is there |
| main | `sidecar.rs`, `agent.rs` | the two tasks | start, initial load, Ctrl-C, order of shutdowns | Ctrl-C ends everything |
| task wrapper | `task.rs` | oneshot, JoinHandle, done flag | shutdown, wait, is_done, Drop | a task is told once and awaited |
| TCP tunnels | `tcp/service.rs`, `tcp/fwd.rs` | accept loop, sessions of two pumps | accept, reap, pump, shutdown | bytes in order; both directions end |
| configuration files | `config/mod.rs`, `config/agent.rs`, `config/sidecar.rs`, `tcp/mod.rs` | none | serde, URLs | - |
| test helpers, examples, deployment | `testing/`, `examples/`, `nomad/` | none | - | - |

### How they interact, and what is hard

* Tasks talk through unbounded channels, so a send never waits; it fails when the receiver is
  dropped. Each task's end is visible to its neighbours only as the end of a channel or a socket.
* `tokio::select!` polls its branches in random order and *drops* the futures that lose. What a
  dropped read had taken off the socket is gone unless a field outlives it. The client and the
  session keep their reader across iterations; the TCP forwarder does not.
* DNS ids are chosen by applications that know nothing of each other: they collide, are reused
  after a timeout, and meet late and repeated replies (the UDP forwarder asks every address of the
  upstream host).
* Timeouts are swept, not scheduled: a table is cleaned at the end of an iteration, and an
  iteration comes every three seconds at the latest.
* A handler that writes to a socket waits inside the iteration. Meanwhile its task neither reads
  nor sees its shutdown, and whoever shuts it down waits for it.
* The runner launches tasks without waiting for them to bind and stops them one after the other,
  awaiting each: signals, file edits, Ctrl-C and the tasks themselves interleave with that.
* Servers of the agent remove a socket file that is in the way before they bind, in two steps.

`PROJECT.json` lists the hazards at their lines, each with the properties that cover it.

## 2. Plan

The order follows what the programs are for: first that DNS answers reach who asked, then the path
they take, then the supervision.

1. *(done)* `RequestTable`, `EgressBridge`, `IngressBridge`, the abstract `QueryRelay` both
   implement, and their proofs.
2. *(done)* `FrameReader`, `DnsChannel`, `TcpForwarder`: streams, cancelled reads, full sockets,
   reconnects.
3. *(done)* `ServiceRunner`: loader, runner, main, and how tasks take and leave addresses.
4. *(done)* `DnsService`: the life of a DNS service on both sides, its tasks, sessions and
   connections, with crashes, errors and restarts.
5. *(done)* `TaskWrapper`: how tasks own, tell and await each other, under everything else.
   `TcpTunnel`: a TCP connection through both programs. `UdpForwarder`: the forwarder's
   own loop behind the egress bridge, and the proof that it is a forwarder as `EgressBridge`
   assumes it.
6. *(then)* The DNS path end to end, as one `QueryRelay`. Its parts are in place:
   `UdpForwarder` implements `EgressBridge`, and both bridges implement `QueryRelay`, each for any
   environment. What the composition would add, replies to the questions of another sidecar under a
   shared id, is already something the environment of `IngressBridge` does: a reply under an id
   comes for any request that was ever sent under it.
7. *(done)* The proofs of `DnsService`, `ServiceRunner`, `TcpForwarder` and `DnsChannel`.
8. *(done)* The type invariant and `BytesIntact` of `TcpTunnel`, the safety of `TaskWrapper` for any
   tree of tasks, `RepliesIntact` of `TcpForwarder` for any cut of the stream, and, for `TaskWrapper`
   and `DnsService`, that no task awaits one it has not told.
9. *(then)* More of what liveness rests on, as safety that can be proved: which ends of a channel, and
   which pumps of a tunnel, can be waiting for room at the same time.

Runs are kept to one per question.

## 3. Modules

| module | models | notes |
|---|---|---|
| `RequestTable` | the `HashMap<u16, ..>` of both bridges | `Register`, `Remove`, `Expire`, ages in place of instants |
| `QueryRelay` | what a DNS bridge promises | abstract: at most one answer per request, to the client that asked, under its id |
| `EgressBridge` | `Bridge::run` of the agent | `MCEgressBridge` for TLC, `EgressBridgeProofs` |
| `IngressBridge` | `Bridge::run` of the sidecar | checked as it is, `IngressBridgeProofs` |
| `FrameReader` | framing and the cancellable reader | one poll of a read is the operator `Poll` |
| `DnsChannel` | `Client::run` and `Session::run` on one socket | `MCDnsChannel`, `DnsChannelProofs` |
| `TcpForwarder` | `Forwarder::run` of the TCP forwarder | `MCTcpForwarder`, `TcpForwarderProofs` |
| `UdpForwarder` | `EgressBridge` with `Forwarder::run` of the UDP forwarder behind it | `MCUdpForwarder`, proofs in `EgressBridgeProofs` |
| `DnsService` | `run_server`, `Server`, `run_client`, and the tasks they own | checked as it is, `DnsServiceProofs` |
| `TaskWrapper` | `task.rs`: tasks, their wrappers, the calls of their owners | `MCTaskWrapper`, `TaskWrapperProofs` |
| `TcpTunnel` | sessions and pumps of one TCP connection, on both sides | `MCTcpTunnel`, `TcpTunnelProofs` |
| `ServiceRunner` | loader, runner, main, service tasks | `MCServiceRunner`, `ServiceRunnerProofs` |

**Bridges.** One iteration of the loop is one action: the event `select!` took, its handler, and
the cleanups at its end. That is exact, because no handler waits (sends to unbounded channels are
ready at once; the `send_to` of the ingress bridge hands a datagram to the kernel and is taken as
one step that may fail). `rx`, `fwdRx`, `dnsRx` are the channels. `creation_time` became the age of
the entry, which `Tick` advances; `idle` is the `sleep(3s)` of the current iteration, and `Tick` is
possible only until that sleep is over: timers are assumed to fire on time. A message is named by
the request it belongs to; a retransmitted or duplicated datagram is another request from the same
address under the same id. The fields `forwarded`, `got` and the `q` of an entry are history:
no guard reads them but `Reply`'s (an upstream answers what it was sent). One way out of the egress
loop is left out: `rx.next() = None` needs every sender gone, and `run_server` drops its `Server`,
which holds one, only after `bridge.shutdown()` (`dns/service.rs:116-118`). `latest` is the session
launched last under a client id, for `RoutedWhileOpen`: a client that comes back under its id takes
the replies to what its old session asked along. A timeout of zero is
allowed: entries then go in the cleanup of the iteration that made them, and no reply is ever
delivered.

**Streams.** `FrameReader` keeps of a read exactly what the code keeps: the length in a field
(`DropRead` spares it), the bytes of the `read_exact` in progress in locals (`DropRead` loses
them). `DnsChannel` splits an iteration into its polls and the pieces of its two `write_all`.
`Capacity` bounds the bytes in a direction of the socket. The kernel takes a write of up to `Whole`
bytes in one piece, and a longer one in as many as it likes: so the two bytes of a length are there
together, and so are the 1524 bytes of the ingress bridge's buffer and the 2048 of the UDP
forwarder's, but not the up to 65535 bytes of a reply that came over TCP. `lost` records that a read
was dropped that had taken bytes, which only a message longer than `Whole` makes possible.
`TcpForwarder` has the three states of the code and a fourth, `Sending`, for the handler
that writes. A write is one step that succeeds or fails: how far a failed one got makes no
difference to what follows, since its connection is dropped. `WholeFrames` says whether frames
arrive in one piece; TCP does not promise it, and the proofs do not assume it. `cut` records that a
request took the reader away in the middle of a frame (section 4, `tcp_forwarder_cut`).

**UDP forwarder.** `UdpForwarder` extends `EgressBridge` with the state of the real forwarder:
`fwd` (resolving, serving, ended), `fwdTx`, the channel from the bridge, and `unanswered`, the
datagrams under way for each request, at most one for each of the `Hosts` the name resolved to. Its
actions take the place of `Reply` and `ForwarderEnds`, by which `EgressBridge` stands for any
forwarder; `ImplementsEgress` is `EgressBridge`'s `Spec` itself, whose variables are a part of this
module's. `recv_from` takes datagrams from anybody; senders other than the hosts are left out, as
are answers longer than the 2048 bytes of the buffer, which the code cuts and passes on.

**DNS services.** `DnsService` has a task per line of its `VARIABLES`: `client`, `ingress` and
`chan` of each sidecar, and `server`, `bridge`, `fwd` and the sessions (`far`) of the agent. A
connection has two ends; one that is closed at both is used again for the next. `server` is split
where run_server awaits: the end of a session it replaces (`replacing`), of each session at the end
(`draining`), of the bridge and the forwarder (`ending`). A task that is told ends in its own time;
that it is not blocked in a write to a peer that never reads is assumed in this module, and is the
subject of `DnsChannel` (`Jammed`) and `ServiceRunner` (`Stick`). A frame that is none and a write
that fails end a session or a channel client as a fault (`SessionFails`, `ChannelFails`).
Ids of sessions are drawn from a set of two, so that they collide, which for seven random characters
is rare and not impossible. After its server ended, the agent launches one anew: a supervisor or a
reload, as `ServiceRunner` has it.

**Tasks.** `TaskWrapper` is `task.rs` under owners who call what they like, in the two manners of the
callers: `wait()` as a branch of a `select!`, which may drop it, and `shutdown()` outside of one.
`shutdown()` and `wait()` are split at their `await`. Owners are tasks too, so the tasks are a tree; the
future of a task that is over takes its wrappers with it, which tells the tasks below. The other
modules take from here what a shutdown promises: `StoppedIsOver` is why a socket is free once the
call has returned, whose result nobody looks at. Tasks may panic: the code has no panic that it can
reach (`DnsService`), the calls provide for one.

**TCP tunnels.** `TcpTunnel` follows one connection. Each node (sidecar, agent) has an accept loop,
a session and two pumps; each direction has three hops: application to sidecar, the unix socket, agent
to service. A pump owns one half of two sockets and drops both when it ends; a socket is closed when
both halves are gone. Closing a TCP socket with unread bytes resets the connection, and the reset
may overtake bytes written before (`ClosedSocket`). Bytes are numbered, so that order and loss show.

**Supervision.** `ServiceRunner` has an action for each pass of the runner's loops, and a step
boundary wherever the runner awaits (`launcher.stop`). `stopping` is the task it awaits. A task is
`launched` when spawned, and binds when first polled; the runtime's queue is FIFO, so first polls
come in the order of launches. What a task does after binding is not the runner's concern, but for
this: it listens, may lose its socket or its connection to the agent (`SocketError`), and ends when
told, unless it is `stuck`. A DNS service (`Dns`) gets stuck when its channel client, a session or its
TCP forwarder is inside `send_dns_message` with a peer that neither reads nor closes
(`dns/client.rs:77`, `dns/server.rs:62`, `dns/forwarder/tcp.rs:149`): none sees a shutdown there, and
the service awaits it. A TCP tunnel drops its sessions without awaiting them and cannot get stuck.
How a service binds is a constant, one of three ways the code has:

* `once`, TCP services of the sidecar: one attempt, and the task ends if it fails;
* `retry`, DNS services of the sidecar: first a connection to the agent, then the bind, and both again
  five seconds after either failed (`dns/service.rs:134-147`). The agent may be away at any time, so
  an attempt may fail although the address is free;
* `replace`, servers of the agent: `remove_file` if something is there, then `bind`. The two steps
  run on other threads' time, so two tasks on one path may interleave.

`holder` is what is found at an address: a task's socket, a socket file that its server left
behind, or nothing. A configuration never gives two services one address; the file may do so in
reality, and then one of the two cannot serve whatever the runner does.

## 4. Runs

Every property has a mutant in `PROJECT.json`: a plausible slip in one mapped operator under which
the same run finds the property violated.

| run | asks | bounds |
|---|---|---|
| `egress_bridge` | are answers routed right, once, and ids freed, with collisions, reuse, late and repeated replies, and sessions that replace each other under one client id? | 2 requests, 2 ids, 3 sessions of which two share a client id, 2 replies, timeout 2 ticks, sweep 1 |
| `udp_forwarder` | is the UDP forwarder what `EgressBridge` assumes? Is every request settled, with nothing to wake the bridge but its sleep? | 2 sessions, 2 requests, 2 ids, 2 hosts, 2 replies, sweep 2 ticks > timeout 1 |
| `ingress_bridge` | is the ingress bridge a relay too; is an id free again in time, also that of a request it could not pass on; does it end with its channel client? | 2 addresses, 2 datagrams, 2 ids, 2 replies, timeout 2, sweep 2 |
| `ingress_late_reply` | is it true that no reply is delivered after the timeout? **No** | timeout 1, sweep 2 |
| `dns_channel` | do messages cross the channel whole, in order and at last; do both ends stop? | 2 messages one way, 1 the other; messages whose bytes read as lengths, one taken in one piece and one in parts; room for one frame one way, for less the other |
| `tcp_forwarder` | requests in order, none twice, none forgotten over reconnects; replies intact | 3 requests, 2 broken connections, frames arrive whole |
| `tcp_forwarder_cut` | are replies intact when frames arrive in pieces? **No** | the same code, 2 requests |
| `service_runner` | are the services those of the file; is no task left behind; is the end clean? Does a signal take effect, does Ctrl-C end everything, do services come to listen? | 2 names, 2 addresses (`retry`, `replace`), both services of DNS and able to get stuck, 1 edit, 1 signal, 1 socket error; an agent that is away at will |
| `service_rename` | does each service the runner started come to listen? **No** | two `once` services, 1 edit, 1 signal, no errors |
| `task_wrapper` | is a task over when its shutdown returned? Is a handle polled after its end? Does the end of an owner reach all below? | an accept loop, a session, two pumps; any calls, ends and panics |
| `tcp_tunnel` | do bytes arrive in order, and all of them when the sender closes? Does the end of either end take the whole tunnel down? | 2 bytes up, 1 down, hops of 2, 1 and 1 bytes |
| `dns_service` | is every session accounted for? Does a sidecar always come back to a session that works? | 2 sidecars, 3 connections, 2 ids, 1 crash, end, socket error or broken channel, and any failure of the forwarder |

**Why the bounds are enough.** Each hazard needs few actors. A collision needs two requests and one
id; a reuse, two requests and a timeout between them; a mixed-up answer, a reply to the first while
the second holds the id; a double answer, two replies. A second id tells a routed answer from a
lucky one, a second client a right receiver from the only one. Sessions of one client id in sequence
are two: one that asked, and its successor. Names swap with two names and two addresses; the initial load and one signal make two
configurations, the second of which may wait while the first is carried out (any number of them, and
services that bind once, are left to the theorems of section 6). The reader's three situations (no
length, part of a length, length known) occur with the shortest messages; `<<0, 2>>` and `<<0, 0,
1>>` are chosen so that a reader that is out of step takes them for lengths; with `Whole` 2 the first
is never cut and the second may be. Three requests and two
breaks give the forwarder a reconnect with a queue behind it, twice. Of tasks a chain of three has
an owner that is owned, and two pumps are what a `select!` over two waits needs. A tunnel needs a
hop that is full while a pump holds a byte for it (capacity 1, two bytes), and a read of two bytes
that is written in two steps. In `dns_service` three connections let two sidecars reconnect while an
old session still closes, and two ids collide; one fault (a crash, an end of the server, or an error
of a sidecar's socket) meets any state of the restarts that the forwarder's failures cause, which
are not bounded. The theorems of section 6 remove the bounds altogether for the safety of every
module.

`CHECK_DEADLOCK FALSE` is set everywhere: bridges, channels, forwarders and runners end, and bounded
environments run out.

### What the runs found

* `ingress_late_reply`. The test `timeout` of the ingress bridge says "check that no message will be
  delivered after timeout". The age of a request is looked at in the cleanup that *ends* an
  iteration; the handler of a reply comes first, and on a quiet bridge the last cleanup was up to
  three seconds ago. `ExpiryBound` is what does hold: an entry is never as old as timeout plus
  sleep. (The test waits long enough for a sweep.)
* `tcp_forwarder_cut`. The forwarder makes a `DNSMessageReader` in every iteration
  (`tcp.rs:120`); when a request of the bridge wins the `select!` after the two bytes of length
  have arrived and the message has not, they are lost with the reader, and the message is
  taken for the next length. The client and the session keep their reader and
  are safe: `dns_channel` shows it, and its mutant `DropReadFreshMutant` is the forwarder's slip.
* `service_rename`. The runner starts new and changed services *before* it stops removed ones, and
  a later service of the update may hold the address an earlier one needs. A TCP service of the
  sidecar binds once: renamed, it fails on the socket of its old self and ends, and its table
  entry, which holds the new configuration, keeps later reloads of that file from starting it.
  `ServicesListenUnlessRaced` is what holds of the services that retry or replace.

Further observations have no run of their own, since no line of the repository says otherwise:

* With both directions of a channel full, both ends wait in `send_dns_message` for the other to
  read, neither reads, and neither sees its shutdown (hazard at `dns/server.rs:62`). It takes as
  many unread DNS messages as two socket buffers hold. `dns_channel` gets there (`Jammed`), and
  `EventuallyDelivered` and `StopsWhenTold` hold but for it: a socket that is full one way only blocks
  nobody for good. `launcher.stop` has no timeout, so a service in this state keeps the runner from
  any later reload and the program from its end (`Stuck` in `SighupApplies` and `InterruptEnds`).
* `DNSMessageReader` keeps the length over a dropped read, and not what it has of the message
  (`dns/mod.rs:36-37`). When a message is so long that the socket takes it in parts, and a message of
  the bridge wins the `select!` in between, the part is lost and the stream is read out of step.
  `DeliveredInOrder` says that nothing else can go wrong: it holds for an end until `lost`, and
  `lost` takes a message longer than `Whole`.
* When the UDP forwarder ends with an error of its socket, the bridge ends with it, and the sessions
  with the bridge; `run_server` goes on accepting connections and drops each, for as long as it
  runs (`ForwarderFailed` in `Reconnects`). The sidecars retry every five seconds, in vain.
* A tunnel does not survive a half-close: the pump that reads the end of the stream ends, and its
  session takes the other direction down, with whatever was still to come. An application that shuts
  its sending side and waits for the answer may not get it. `BytesIntact` is what holds: an end that
  neither sends nor closes receives all, in order.
* A pump inside `write_all` does not see its shutdown. With a peer that neither reads nor closes, a
  session that was told stays; the accept loops do not wait for their sessions, so nothing else does.
* Two servers of the agent that start on one path at once may remove each other's file
  (`raced` in `ServiceRunner`): one then listens where nobody can connect, or ends.

## 5. Fairness

* *Bridges*: weak fairness of each event that stays ready: `select!` polls in random order, so no
  ready branch is passed over for ever; and of `Tick`, since time passes. Nothing is assumed of
  shutdowns, clients, replies.
* *Channel*: weak fairness of each end's loop as a whole: an end that can do something does, and a
  write that has room goes through. Which branch it takes is open, and so is how much of a long write
  a socket takes.
* *TCP forwarder*: weak fairness of the loop. `Connect` is part of it: `EventuallyWritten` assumes
  that the upstream accepts a connection in the end (`try_connect` tries for ever) and takes what is
  written to it.
* *UDP forwarder*: that of the bridge alone. The name need not resolve, hosts need not answer, and
  `EventuallySettled` holds all the same.
* *DNS services*: weak fairness of every task that can run, of the launch of an agent that is down,
  and of `Resolve`. Faults need not happen. `Accept` takes any of the ids: `Reconnects` needs no luck
  with them. Weak fairness of `SessionEnds` and `ChannelEnds` assumes that a told task is not blocked
  in a write for good.
* *Tasks*: weak fairness of the end of a task that is told and is not itself awaiting a shutdown, and of
  the return of a shutdown. That a task ends when told is an assumption about its body here, and not
  true of every body: `StopsWhenTold` shows it of the ends of a channel unless they are `Jammed`, and
  `TearsDown` of the sessions and pumps of a tunnel whose ends read on or close.
* *TCP tunnel*: weak fairness of sessions and pumps, of accepting this connection, of `connect`
  returning, and of both ends reading what they can. Nobody needs to send, close or shut down.
* *Service runner*: weak fairness of the runner, the loader's receipts, main's second shutdown and
  every task that can run, all on one cooperative runtime. A told task ends unless it is `stuck`, and
  any DNS service may get stuck at any time, for good: what `StopsWhenTold` leaves open is left
  open here. Edits, signals, Ctrl-C, socket errors and stuck writes need not happen. `Retry` is not
  fair: the agent may stay away. Only `ServicesListenUnlessRaced` assumes, as its premise
  `AgentAccepts`, that an attempt succeeds in the end.

## 6. Proofs

`EgressBridgeProofs` and `IngressBridgeProofs` prove, with TLAPS, for any sets of sessions, clients,
requests and ids, any timeout, any sweep and any bound on replies:

* `TypeCorrect`, `AnsweredOnceHolds`, `MixUpHolds`, `ExpiryBoundHolds`, `RoutedWhileOpenHolds`
  (egress only): the invariants. Of those the two bridges share, the run of the egress bridge checks
  all, that of the ingress bridge `TypeOK`, `ExpiryBound` and the refinement, which implies `AnsweredOnce`;
* `OwnerKeepsIdHolds`: the action property;
* `RefinementHolds`: `Spec => ImplementsRelay`, that each bridge implements `QueryRelay`.

The assumptions are those on the constants in `RequestTable`, `EgressBridge` and `IngressBridge`
(the timeout and the reply bound are naturals, the sweep a positive one, `clientOf` maps sessions to clients, markers are
not the values they mark). TLC evaluates them on every run.

The argument. None of the invariants is inductive alone. `AnsweredOnce` needs that an entry of the
table belongs to a request that was not answered (`TableInv`), which needs that a request is queued
once and not yet forwarded when it is (`QueueInv`), or, on the ingress side, that a datagram in
flight was not answered (`NetInv`). `MixUpNeedsSharedId` needs that an entry stands under the id of
its own request with the client of its own session (`TableInv`) and that what the forwarder returns
was forwarded (`NetInv`). `ExpiryBound` follows from the sharper `AgeInv`: an entry is younger than
the timeout plus the part of the sleep that is over; an iteration leaves entries younger than the
timeout with `idle` 0, and a tick adds one to both. `RoutedWhileOpen` needs `RouteInv`, about
the session launched last under a client id, as long as it is open: either its responder is registered
and no `Register` of that id is queued any more, or its `Register` is queued behind those of its
predecessors and ahead of all its own requests, none of which is in the table yet. `LaunchInv` says that
nothing is known of a session before its launch, `LatestInv` that `latest` goes by client ids. `IInv`
is the conjunction; `Invariance` is `Spec => []IInv`, with one lemma per conjunct (`TableStep`,
`RouteStep`, ...), each by cases on the actions. The refinement maps `pending` to the requests that are queued or hold an
id: `RelayStep` shows that each action is `Ask`, `Deliver`, `GiveUp` or a stutter.

The lemmas on tables and queues, which both need, stand at the head of each.

`EgressBridgeProofs` also proves `UdpForwarderRefines`, `UdpSpec => ImplementsEgress`, for any number of
hosts. The difficult step is `Answer`, which must be a `Reply` of `EgressBridge`: a reply only ever
comes to a request that was forwarded. `AskedInv` is what carries it: whatever is queued for the
forwarder or has a datagram under way was forwarded by the bridge, and once the forwarder has ended
there is neither. `UdpAnsweredOnce` and `UdpImplementsRelay` are then those of the bridge, through the
refinement: an agent with this forwarder is a `QueryRelay`.

`DnsServiceProofs` proves `TypeOK` and `NothingStray`, for any sidecars, connections and ids. That an
accept loop which replaces a session under the same id loses neither needs two facts at once:
`Accounted`, that each session which is open is in the map or is the one the server awaits, and
`PhaseInv`, what the map and the three places where `run_server` awaits may hold in each
phase of the server. `AwaitsOnlyToldHolds` adds that whatever the server awaits, in any of the three,
was told to end or is over.

`ServiceRunnerProofs` proves `TypeOK`, `FaithfulWhenIdle`, `NoStrayTask` and `CleanEnd`, for any names,
addresses, values, ways to bind and bounds. `StoppingInv` says that the service which is being
replaced is in the table no more and is not looked at again;
`LoopInv` has a part for each place the runner can be in (idle, in the middle of an update, removing,
draining, ended) and says how far the table agrees with the configuration there; `StartInv` covers
what main does before the runner's first message, and `EntryInv` ties a table entry to its task.

`TcpForwarderProofs` proves `TypeOK`, `RequestsInOrder` and `NoneForgotten`, for any replies, any cut of
the stream and any number of broken connections. `QueueInv`: the queue holds the youngest requests in
order. `OrderInv`: the request in hand is the one taken last, and what was asked on each connection is
older than it. `LinkInv`: what the reader holds is always short of what it still reads, so that a poll
never takes more than the stream has. `RepliesIntactHolds` is
`Spec => [](RepliesIntact \/ (cut /\ ~WholeFrames))`: wherever the stream is cut, replies are intact
until a request takes the reader away in the middle of a frame, which never happens if frames arrive
whole; the run `tcp_forwarder_cut` shows that it does happen if they do not. `FramesInv` lines the
replies of a connection up: those delivered, what the reader has taken, the bytes of the stream and the
frames on their way are, end to end, the frames of all that upstream wrote. `InStep` is that line seen
from the reader, `Travels` from the network. `Holds` says that a string of bytes is a sequence of whole
frames, with what is left after each frame as the witness, so that reading one and adding one are both
a step along it. `PollFrame` is the lemma about the code: a poll of a reader that is in the middle of a
frame, on the rest of which the stream may hold any part, yields its message, whatever its bytes read
like, and leaves exactly what follows; or it takes what there is and stays in step.

`DnsChannelProofs` proves `TypeOK` and `DeliveredInOrder`, for any messages of at least two bytes, any
`Capacity` and any `Whole` from two up. `InStep`, `Holds` and `PollFrame` are as for the forwarder, and
`Consumed` turns the length that a reader remembers back into the bytes it was made of. `ReadInv` is
the invariant proper: an end that has lost nothing has, in its reader, its socket and what its peer's
handler is still to write, the frames of the messages from `n + 1` on, and `n` messages were delivered.
That a dropped read had taken nothing, if all messages are at most `Whole` long, is the last part of
`InStep`: then what is still to be written begins where a write begins (`Clean`), and a reader that
waits has nothing but a length (`NoPart`). `QueueInv` and `Pending` tie what an end is still
to write to what its bridge has queued; `PrefixInv` is what the theorem says.

`TaskWrapperProofs` proves `TypeOK`, `StoppedIsOver` and `PolledAgainOnlyAfterPanic`, for any tree of
tasks. `shutdown()` on a wrapper whose sender or handle is gone returns at once with an error, and
`StoppedIsOver` says that even then the task is over. `Wrapped` is why: a spent sender means a
`shutdown()` that is under way or has returned, a handle that was taken is being awaited or has shown the
end, and a result that was kept is that of a panic. `NoneLeftBehindHolds` is about owners: a task that
runs was told to end, or is held by an owner that runs; and no owner awaits a task that it has not
told. Its invariant is `OwnersRun`: the wrappers of an owner go when it does, by whatever way it went.

`TcpTunnelProofs` proves `TypeOK` and `BytesIntact`, for any number of bytes and any capacities.
`BytesIntact` has two halves: what an end received is always a beginning of what the other sent; and
an end that sends nothing, does not close and reads to the end of the stream got all of it, as long as
no session was told to end. For the first, `OrderInv` gives each byte its place in line (received,
third hop, second pump, second hop, first pump, first hop), as far as there is still a way for it
through the hops. For the second, `LossInv`: as long as nothing but the sender can have ended the
tunnel (`Calm`), a pump ends only when the hop it reads from has ended and is empty, so the pumps of
a direction end in the order of the stream, each with nothing in hand (`Drained`). Where it is
delicate is closing: a pump that ends drops its half of two sockets, and the second half to go closes
them; a TCP socket that is closed with unread bytes cuts its connection, both ways. The lemma
`ShutsKeepLine` says that this takes no byte while `Calm` holds, since the other direction, whose
bytes they would be, is silent. `SocketInv` and `SessionInv` keep who closed what and why, `IdleInv`
that a pump which writes has something in hand and that one not yet started has written nothing,
`SentInv` that bytes are numbered as they are sent.

The assumptions are again those on constants: `NoServiceAssumption` (the marker of an empty
entry is no name, value or entry) and `BoundsAssumption` (bounds are naturals) in `ServiceRunner`,
with `AddressAssumption`, `BindAssumption` and `DnsAssumption` for what TLC runs on,
`BoundsAssumption` and `MessageAssumption` (frames have two bytes or more, and a length that fits sixteen bits) in `TcpForwarder`,
`MessageAssumption`, `WholeAssumption` (a length is taken in one piece) and `CapacityAssumption` in `DnsChannel`, `OwnerAssumption` (an owner is a task
or main) in `TaskWrapper`, `CapacityAssumption` (a socket holds at least a byte) and
`MaxBytesAssumption` in `TcpTunnel`, `HostsAssumption` (a name resolves to an address or more) in
`UdpForwarder`. A message without two bytes has no id;
`try_new` refuses it before it gets to a bridge (`dns/mod.rs`).

*Only model-checked*: everything under fairness (`EventuallySettled`, `DiesWithClient`,
`EventuallyDelivered`, `StopsWhenTold`, `EventuallyWritten`, `SighupApplies`, `InterruptEnds`,
`ServicesListenUnlessRaced`, `Reconnects`, `TearsDown`, `ToldIsOver`), which is out of the prover's
reach. Every invariant, action property and refinement of the passing runs is a theorem,
`RepliesIntact` in the form given above, with the cut stream as its exception.

## 7. Not modelled

* The `Result` of a shutdown: every caller logs or discards it. `is_done` by itself: the flag is set
  when the task's future is dropped, which is when the task is over.
* `dns/forwarder/mod.rs` beyond its two channels: delegation and URL parsing. Its `poll_close` calls
  itself without end (`mod.rs:147`); no caller closes a forwarder's sink.
* Many tunnels at once: sessions of an accept loop share nothing but the list that is cleaned up.
* Datagrams to the UDP forwarder from strangers, and answers longer than its buffer.
* Configuration parsing, command line, logging, tests and helpers, examples, job files: no state
  the programs' behaviour depends on.
* Panics, memory exhaustion by unbounded channels, and clocks that go backwards.
