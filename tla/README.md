# ntwire: TLA+ models, model checking and proofs

ntwire connects clients to tunnels of a server over WireGuard in user space.
Three programs keep state that has to agree while everything moves: the client
(`cmd/ntwire`, `cmd/ntwire-gui`), the server (`cmd/ntwire-server`) and the relay
that makes a server behind NAT reachable (`cmd/ntwire-relay`). This directory
models the parts of them that concurrency, failure and ordering make hard, one
module per component, checks them with TLC on small instances and proves the
most important invariants with TLAPS for every instance.

Run `tlc -config X.cfg M` for a run of `PROJECT.json`, `tlapm M_proofs.tla` for
the proofs. `PROJECT.json` maps every definition to the lines it models, lists
the hazards of the code, and has for every property at least one mutation of the
model that makes TLC find that property violated.

## 1. Inventory

| component | state | operations | what is hard | correct when | module |
|---|---|---|---|---|---|
| relay dial-back: `pkg/relay` registry, public, agent | `pending` conn_ids, per-tenant counters, one-slot hand-off channel and `done` of every conn_id | `OpenSNI`, `Open`, `Redeem`, `Release`, `handleData`, timeouts | two goroutines share a conn_id; timeouts race deliveries | counters exact, limits held, nothing leaks, everybody returns | `RelayDialBack` |
| relay UDP tier: udpsession, udpforward | session table, three indices, port allocator, locked legs | allocate, bind, forward, rebind, release, sweep, port failure | a session is used after the table lock is gone | ports partitioned, counts exact, datagrams only between the two legs of one session | `UDPRelaySessions` |
| relay agents: agent, registry | agent of a tenant, PAC owner, native token, pending registrations | register, replace, deferred clean-ups, reload | the clean-up of an old connection runs after its replacement came | no clean-up takes what a newer connection owns | `RelayAgents` |
| native WireGuard forwarder: nativewg | token, association, two rings of indices | issue, associate, handshake, transport, expire | eviction while an answer is on its way; roaming | an answer reaches an address its own client used | `NativeWireGuard` |
| Kubernetes discovery: kubernetes, registry | services, namespaces, routes, conflicts | informer events, reconcile | hostnames claimed twice, in any order | a contested hostname routes to nobody | `KubernetesDiscovery` |
| relay process: relay | sockets, who owns them, watchers | start, serve, close | a socket that fails half way | no socket is left | `RelayProcess` |
| authentication limits: `pkg/authlimit` | nonces, per-source windows | `Use`, `Allow`, sweep | eviction at the limit | no replay inside the window, bounded tables | `AuthLimits` |
| server sessions: `pkg/server` server, session, dataplane, reload | tokens, addresses, WireGuard peers, native peers, carriers, paths | authenticate, renew, disconnect, reap, reload, upgrade, punch | one mutex that some handlers do not take; partial failure; reload against live sessions | sessions, addresses, peers and grants agree | `ServerSessions` |
| server behind relays: relay, relaypool, udprelay | control connections, preferred relay, published set, tier, allocations, keepalives | register, update, publish, allocate, answer, release, report, close | two critical sections per update; answers after deadlines; a tier replaced while a request waits | what is published is current; every allocation has exactly one keepalive | `ServerRelay` |
| tunnel listeners: dataplane, portal | listeners of tunnels, DNS and portal, native refresher | start, reload, close | ports that change hands | a tunnel whose port is its own listens | `TunnelListeners` |
| UDP flows: dataplane, `pkg/client` forwardUDP | flow of a source, its socket and goroutine | datagram, answer, idle, close, reconnect | a source that comes back while its flow ends | entry, socket and goroutine go together | `UdpFlows` |
| streams: forward, proxy, `pkg/socks` relay | six connection ends, two copies per hop | copy, half-close, failure, end of tunnel | one direction ends while the other goes on | an answer is not cut off; everything is given back | `StreamRelay` |
| SOCKS: `pkg/socks`, socks runtime, client forwarder | request, sockets, filter, policy | connect, bind, associate, datagram | the order of the checks; a policy that changes | only permitted destinations; nothing kept | `SocksSession` |
| DNS in the tunnel: dns | queries, forwarding slots | identify, resolve, forward | grants that change under a query; all slots taken | local names stay inside; only granted tunnels are told | `TunnelDNS` |
| configuration and MASQUE: config, server, masque_gateway | configuration in force, gateway table, certificate, connection, streams | load, reload, log in, renew, CONNECT | session and tunnel looked up one after the other, dialled later | a CONNECT reaches what its session and the configuration have | `ServerConfig` |
| watched files, certificates: reload, tls, both mains | version read, in force, on disk; certificate and key files | edit, event, SIGHUP, reload, restart | half-written files; a crash between two files | the files are followed; a pin survives a restart | `ConfigReload` |
| WebSocket transport: `pkg/wstransport` bind | peers, write queues, redial loop | serve, read, ping, redial, send, close | redial against close; silent failure; late readers | one carrier, known to the layer above, none after close, and one again after failures | `WebSocketBind` |
| multipath: multipath, server_multipath | paths, health, outstanding probes, primary | probe, answer, select, fail over | stale answers, flapping | traffic on a healthy path when there is one | `Multipath` |
| client connection: `pkg/client` client, reconnect | session, network generation, listeners | renew, reconnect, replace a listener, close | old workers against a new generation | no listener or worker of an old generation survives, and the session comes back | `ClientConnection` |
| transport upgrade: directupgrade, transportstate | transport state, candidate | upgrade, verify, fall back | timeouts against late answers | a path that fails is left | `TransportUpgrade` |
| client start: `cmd/ntwire`, `pkg/client`, `pkg/oidcclient` | known_servers, tokens, status; dials, transport, listeners | connect, trust, log in, refresh, log out; race, choose, listen | processes that share files; a race of dials | only agreed certificates; tokens to their issuer; listeners where the user wants them | `ClientHome`, `ClientSetup` |
| GUI manager: `internal/gui/manager` | session of a profile, attempts, prompts, address claims | add, connect, answer, disconnect, remove | attempts and calls for one profile at once | the life cycle the user is shown; no claim and no connection without an owner | `ProfileManager`, `ProfileLifecycle` |
| GUI settings and tray: config, tray | profiles in memory, gui.yaml, feed | change, save, restart, publish | saves and updates that overtake each other | the file and the tray follow | `ProfileStore` |
| GUI process: main, singleinstance, window | lock file, window process | launch, hand over, quit, crash | launches at the same time | no window after the exit | `GuiProcess` |
| updates: `internal/gui/updates`, `pkg/updater` | release, archives, installed, previous and staged files, lock | check, download, install, replace | a crash after every rename; two installers | an installation is always there and never goes back | `Updates` |
| rendering, wire types, terminal UI, iOS, WireGuard stack | none that interleavings can spoil | parse, render | text | tests | not modelled |

The relay is between the other two. A server's `RelayAgent` keeps a WebSocket
to the relay's `handleControl`; a public TLS connection makes the relay send an
open request on it, and the server dials back a data connection that the relay
splices (`RelayDialBack`). The same control connection carries allocations of
UDP sessions (`ServerRelay` asks, `UDPRelaySessions` has the table). The
server's callbacks of the pool switch its UDP tier and its native associations.
Clients talk to the server's HTTP handlers (`ServerSessions`), whichever way
the bytes take: over the `WebSocketBind` or a datagram path, which `Multipath`
and `TransportUpgrade` choose, and from there through the tunnel's listeners
(`TunnelListeners`) as streams and flows.

## 2. Modules and the code

**`RelayDialBack`.** A slot of `Conns` is a public connection and its conn_id.
`pc` is the goroutine of `public.go` in `dispatch`, `OpenSNI` and `Open`; `dpc` is
the HTTP handler `handleData`. Every critical section of the registry's mutex
is one action: `OpenMint` checks the capacity and takes the pending slot,
`Redeem` gives it back and finds the conn_id, `OpenAccount` takes the live slot
when `Open` runs again. The channel operations, the check of `Done` and the
drain are actions of their own because that is where the races are. A route
is a tenant or a host that Kubernetes discovery published, which is dialled.

**`UDPRelaySessions`.** A session object and its token are one model value. The
goroutine of the shared client socket (`cl`) and one per pooled port (`sl`) look
a session up, let the table lock go, and use it later. A port that fails is
retired; a released one is handed to the next session. The free list is a
multiset, so that a double release is seen.

**`RelayAgents`.** A handler slot is a control connection and its `*Agent`. The
deferred functions of `handleControl` are separate actions in their order, so
that everything of a reconnecting server can happen between them. `Reload` is
`ReplaceRegistrations`: it unlinks under the mutex and closes afterwards.

**`ServerSessions`.** `op` is the operation that holds `operationMu`;
authentication and renewal are split where the clock may pass between two of
their reads, the rest are single actions. `disk` is what the operator wrote,
`loaded` what the watcher read before it had the mutex, `cfg` what is in force.
WebSocket upgrades and punches (`req`) look their session up and act later
without the mutex. `peers` is the WireGuard device: an allowed address moves
from whoever had it, as the device does it.

**`ServerRelay`.** `ctl` is the `Run` goroutine of a member. `Update` is the first
critical section of `RelayPool.update`, `Acquire` and `Deliver` are the second one
and the callbacks. The revision counter is represented by what it decides:
whether a snapshot is the latest. `call` is the one request `operationMu` allows
inside `sessionFor`; the control reader, the keepalive loops and the relay run
beside it. The score of a member is a ratio of lifetime counters, so any
registered member may be chosen when none is preferred.

**`Multipath`.** One session, seen from both ends: what `MultipathBind` and the
peer of `ServerMultipathBind` hold are functions of the side, and their
schedulers are the same operators. A probe is under way, lost, or absent; a lost
one becomes a miss at the tick that finds it overdue. `Send` and the recording of
its error are two actions, because nothing is locked between them. `ws` is each
side's end of the WebSocket and whether its callback has run; a connection that
was replaced reports nothing, as `read` and `reportWriteFailure` check. `up` says
which datagrams arrive at a side, so that a path can fail in one direction. RTT
and loss only rank replacements: any healthy path may be the best. The path MTU
search, the duplicate cache and the byte budget do not influence the choice.

**`ClientConnection`.** One `Connection` after `ConnectWithOptions`. A network is a
generation of stack, stop channel, carrier and targets, named by its role ("now",
"next" while a reconnect prepares it, "old" after), so that generations need no
counter; listeners likewise. `c.mu` is held within a step. `networkMu` and
`transportMu` are held across steps: whether they are follows from where
`renew` and `replace` stand. `holders` says who has the token of the live session:
a renewal or an authentication at the server voids every other one, and its
answer may be lost. `Close` takes neither of the long locks and comes anywhere.
A reconnect builds its network, with multipath or without, opens the listeners one
by one and commits under `c.mu`, or closes what it opened. A local connection takes
its stack and its target under one hold of `c.mu` and uses them later.

**`TransportUpgrade`.** `directUpgradeLoopFor` of one network; every request, probe
and wait of an attempt is a step, so that paths die, packets roam the peer and
`Close` comes in the middle. `multipath` is fixed at the start: without it the
loop moves the endpoint of the WireGuard peer, with it it registers paths and
reads their health. `stray` records a keepalive whose stop channel was
overwritten. `ClientConnection` has this loop as a worker of a network, which
holds `transportMu` during a tick.

**`WebSocketBind`.** Both ends of one session. A connection has two ends and a
link that can die without either noticing; the number of a connection is used
again when both ends are done with it. A step is one critical section of
`Bind.mu`; a change of the table and its callback are one step, because
`callbacksMu` keeps them together. `view` is what the layer above was last told.

**`NativeWireGuard`, `KubernetesDiscovery`, `RelayProcess`, `AuthLimits`.** One call
of `handle`, of an informer's handler, of `Start` per socket, of `Use` or `Allow` is
one action. Rings are sequences with their position. A namespace event
reconciles all Services in any order, as the iteration over a Go map does.

**`TunnelListeners`, `TunnelDNS`, `UdpFlows`, `SocksSession`, `StreamRelay`.** The data
path. Listeners are closed and opened one by one in a reload, while
`operationMu` keeps two reloads apart. A DNS query, a flow and a SOCKS session
are goroutines with their program points. A stream is three connections in a
row with a hop at each end of the tunnel; what differs between the hops (the
client's forwarder, a fixed tunnel, the SOCKS proxy) is which end of which
connection they close when a copy returns.

**`ServerConfig`, `ConfigReload`.** `ParseConfig` as the conjunction of the rules
that relate two settings; `Kept` is what `Reload` takes from the running
configuration. A certificate of the MASQUE gateway is of one session ID, a connection
of the certificate it was made with, and a CONNECT is three steps (session, tunnel,
dial) that anything may come between; `undisturbed` is a history of that. In
`ConfigReload` files have versions and may be read half
written, and are read some time before the watch of them begins; the watcher and SIGHUP are two goroutines that read first and apply
later; a self-signed certificate is two files and the process can die between
them.

**`ClientHome`, `ClientSetup`.** Processes of one user that read a file whole,
change their copy and write it whole. A token is in the credential store or in the
file, and each write of either can fail alone. `agreed`, `released`, `silent` and
`astray` are histories: what the user agreed to, which token went to which issuer,
who was logged in without being asked after a logout, and where the store has a
token the file has no entry for. `ClientSetup` is one `ConnectWithOptions`: the
look-up, which may fail, the race of the addresses, the transport, and the
listeners, TCP and UDP, at addresses or host names.

**`ProfileManager`, `ProfileLifecycle`.** Every critical section of `Manager.mu` is a
step; dialling, prompting, closing and publishing are between them. The
manager is shown to implement `ProfileLifecycle`, the automaton drawn above
`State` in `session.go`: prompts are part of connecting, and a connection is live
from its opening to its closing (`ImplementsLifecycle`). Any number of calls
overlap. `overtaken` is a history: the profiles whose session a `Disconnect` reset
although its connection was not the one that call closed (`Overtakes`); that step is
`Overtake` of the life cycle, which promises nothing of such a profile.

**`ProfileStore`, `GuiProcess`, `Updates`.** gui.yaml and the tray's feed; launches,
lock file and window process; the update controller, its helper and the command
line update, with a crash possible after every step. `cleared` and `missed` are
histories: `SetSettings` was given settings without the import mark; a profile was
published after the tray's first drawing and before its subscription. A settings
window can be asked for until the process is gone: deferred calls do not wait for
handlers and callbacks, so that the `closed` flag of the `Spawner` is all that stops a
late one.

Five modules put the components of one program side by side: **`Relay`** (dial-back,
discovery, sockets, native forwarder, limits), **`Server`** (sessions, relays),
**`Transport`** (multipath, bind, upgrade, streams), **`DataPath`** (listeners, DNS,
flows, configuration, SOCKS, the client's files and first steps) and **`Gui`**
(manager, store, updates, launches). Each declares the variables and constants of
all, states the assumptions on them, and has the properties under the names that
the runs and the theorems share.

**`*_proofs`** are the proofs; **`MC*`** the values and symmetries of the instances.

`MCRelay`, `MCServer`, `MCServerRecovery`, `MCData`, `MCGui` and `LinksSpec` of
`Transport` put several components into one run. The components of
such a module meet in the code only where each has the other as something that
may happen at any time (a hostname appears, a token is issued, a session ends),
so interleaving them would only multiply their state spaces: `part` chooses one
at the start, the others stay in their initial state, and a property of the run
is the conjunction of theirs. The theorems are about the components' own
specifications, `Kube!Spec`, `Dns!Spec` and so on, and so about any interleaving.

## 3. Runs

| run | shows | states |
|---|---|---|
| `relay` | two dial-backs at limits of one: no slot lost or returned twice, limits held on the routes where the code does hold them, what is spliced is open and its handler parked, every `Open` ends and every handler that was told to stop returns. Beside it (`RelaySound`): contested hostnames, the native forwarder's rings and routes, sockets of a start that fails, nonces and sources at the bounds of their tables | 183 k |
| `dialback_leak` (violation) | a delivery between the look at `Done` and the drain leaves a connection nobody closes | |
| `udp_sessions` | ports, tenant counts and the client index are exact; datagrams cross only between the bound legs of one live session; idle sessions are reclaimed | 328 k |
| `agents` | pending slots come back, nothing outlives its handler, a serving agent stays reachable, PAC targets are the current agent's, and a replaced or evicted agent leaves | 377 k |
| `agents_revoked` (violation) | a reload between `Register` and `RegisterAgent` leaves an agent under a revoked key | |
| `server` | through authentication, reconnect, renewal, expiry, reaping and reload: distinct addresses, every session with its peer, native peers installed, no stray peer (`SessionsSound`), traffic attributed to the right principal, no grant beyond the configuration; carriers and paths follow the sessions with requests in flight; every UDP-relay allocation has exactly its keepalive in the tier in use and ends only for a reason | 1.18 M |
| `server_recovery` | what is published is current however updates of relays overtake each other, and a lost relay's tier is given up; expired sessions are reaped; the files are followed and a pinned certificate survives crashes | 124 k |
| `multipath` | the two ends of a session choose alone and still agree on what works: nothing unproven carries, a healthy flow is not moved, a path broken in one direction is given up by both ends, one that works again is trusted again | 409 k |
| `client` | renewals, reconnects, replaced listeners and networks, expiry, lost answers and `Close` interleave: every listener and stack has an owner and nobody closes what is in use; targets, networks, redial header and chosen transport are of one session; after `Close` nothing is left; the session is recovered | 201 k |
| `links` | both binds over failing connections: the layer above knows the carrier there is, none is left behind, one comes back; with and without multipath a rung of the upgrade has its candidate and its keepalive, a dead one is left, the direct one is reached; a stream's answer is whole and its hops are given back | 178 k |
| `data` | listeners that exchange ports, DNS at its limit, UDP flows, SOCKS sessions against every kind of filter; MASQUE requests under reload, renewal and logout; pins, tokens, logout, the race of the addresses, the choice of transport and listeners | 1.1 M |
| `gui` | profiles whose attempts, prompts, disconnects and removals interleave implement the life cycle, leak no claim and always settle; gui.yaml, tray, updates and window (`GuiSound`) | 393 k |

**Bounds.** Slots (connections, handlers, sessions, tokens, tiers) are recycled,
so most runs are unbounded in time and bounded only in what exists at once. Two
slots are what a race between an old and a new object of a kind needs; agents
have three, because the clean-up of one connection meets the second while a
third registers. Limits are one or two, so that they are reached. Two ports,
addresses and tenants are enough to mix any two up. `PoolSize` 4 leaves two
addresses beside the network's and the server's own, so that the scan wraps and
fails. `server` has as many tokens as keys: a key has at most one session, so a
third token could only wait. Its configurations remove a principal, reduce a
grant, and make a native peer claim an address that a session has; the requests
without the mutex are checked under a configuration without tunnels, because they
do not look at grants. UDP-relay allocations have one member, so that reconnects
and allocations meet; the pool of `server_recovery` has two and no clients,
because publication does not depend on allocations. `multipath` has the
WebSocket and one datagram path: one to break and one to trust; two misses are
the fewest with a suspicion before the failure. Its datagrams may stop reaching
the client; the other direction was checked the same way. `agents` has one key,
so a rebinding is a removal and an addition; two keys were checked for the safety
properties. `client` has one tunnel, whose grant, protocol and network may each
change at a reconnect, and one local connection; two transports can be forced and
one of them is the configured one. In `links` three connections let an old, a
current and a newly dialled one exist together, `Threshold` 1 stands for the 64
consecutive full queues after which a carrier is given up, and two faults allow
one during the recovery from another. Changes of a cluster, edits, runs of a
command, releases and launches are counted (`MaxChanges`, `MaxEdits`, `MaxRuns`,
`MaxVersion`): each bound allows a change, its opposite and one more while the
first is being followed. The two edits of `server_recovery` are of the configuration
and of the keys together, and a key may change while the file is half written.
`gui` has two profiles and one caller in one part
(`manager`), one profile and two callers in another (`calls`): the calls for one
profile that overlap, a `Connect` between two calls of `Disconnect` included, and the
profiles that want each other's address. In `data` nothing tells the two servers or the two processes
of a user apart, and only invariants are checked, so that its symmetry is sound.

**Deadlock** is checked in `agents` and `multipath`. The other systems may really
stop: all ports failed, a closed connection, a quit program, a bound reached.

**Fairness.** Goroutines that can run do run (weak fairness of the steps of one
goroutine). Two exceptions have strong fairness: the reaper's and a pool
member's wait for a mutex that others keep taking, because a Go mutex hands
itself to a waiter that has starved for a millisecond. Nobody is assumed to
connect, register, dial back, hang up, answer or send anything. In `multipath`
the probe loops tick, answers arrive, carriers report and packets are sent; a
link, a redial and a registration owe nothing. A missed probe is strongly fair
because a path is registered again at most every 20 seconds
(`directupgrade.go:57`), in which probes time out several times over; registering
more often than `probeTimeout` would hide a dead path for ever. A path works if
it answers within `probeTimeout`. `OpenTerminates`
(a part of `EverybodyReturns`) needs no fairness of the agent: the dial-back timeout is a step of `Open`.
In `client` every request is bounded by the HTTP client's timeout
(`client.go:539`) or by `closeDisconnectTimeout`, and waiting for `networkMu` is
strongly fair for the same reason as above; the user and the server owe nothing,
and `SessionRecovers` assumes that troubles end. In the upgrade loop the direct
path is tried again and again because `nextDirectAttempt` is a time;
`DirectReached` assumes that requests succeed and that packets stop roaming the
peer. A bind's heartbeat and redial loop run, and `CarrierRecovers` assumes both
ends stay open and faults end. `ReloadConverges` asks nothing of the operator: it
is about a program that stays up and a file that is valid at last. A prompt
that nobody answers times out by itself, so `ConnectSettles` needs no user.
`DeadRelayAbandoned` assumes that members do not register for ever at just the
wrong moment: members that flap in turn could supersede each other's snapshots
without end, and only the backoff of `Run` makes that implausible.

## 4. Proofs

What follows holds for every number of connections, tenants, hosts, sessions,
ports, addresses, keys, tunnels, profiles and every limit. The assumptions are the
named ones of the modules: finite sets of slots and positive limits where
something is counted, well-formed configurations (`SessionConstants`), the
configured transport among the possible ones, and `None` distinct from real
values where the code tells nil from a value (`ClientConnection` needs no such
assumption). TLC evaluates them in every run. Each proof is one
inductive invariant, one lemma per action or group of actions, and corollaries.

* `Relay_proofs`: `TypeCorrect`, `SlotsAreAccounted` (from
  `CountersAreExact` and `LimitsAreHeld`), `SplicedIsHeld`. The counters are not inductive alone: that a decrement never
  finds zero rests on which control points may hold a slot. `Shape` says that of
  the two goroutines of a conn_id (a pending conn_id belongs to an `Open` that is
  pushing or waiting; a handler exists only for a conn_id that was sent and
  redeemed; a connection in the channel is open and its handler parked). The
  step lemma is one case per action; each shows that the action is `Accounted`:
  it touches one connection and moves each counter by what it does to it, and
  `CardinalityOffOne` turns that into cardinalities.
  `RelayIsSound` joins four more, each with its own invariant. `DiscoveryIsFair`
  (`KubeInv`): the table of routes is settled, every hostname has one Service and no
  conflict, or none; `Settled` is a fact about the table alone, which every single
  insertion and removal keeps, so that the reconciliation of a namespace, a walk in any
  order, needs no induction. `SocketsAreAccounted` (`ProcInv`): every socket of a
  failed start is closed and none twice. `NativeIsSound` (`NativeInv`): the rings and
  the tables agree (`RingOK`: an entry is in its ring exactly once), so an evicted
  index is forgotten on both sides. `LimitsAreKept` (`AuthInv`): a nonce that is still
  valid is cached or enough younger ones are (`Survivors`), and any window of a source
  has at most twice its limit (`Paced` relates the counter to the history of what was
  allowed; `Spread` is the claim).
* `UDPRelaySessions_proofs`: `TypeCorrect`, `TablesDoAgree` (from
  `PortsArePartitioned`, `TenantCountsAreExact` and `ClientIndexIsSound`),
  `ForwardsOnlyBetweenBound`.
  `Sessioned` says that a released session has lost its legs and `ReaderSound`
  that a reader between its lookup and its write still holds a session of its own
  port, or a client address that is the session's or a session that is gone. The
  action property about forwarding follows from the two.
* `Transport_proofs`: `TypeCorrect`, `ProvenCarries`, `Sticky`. That a selected
  path has worked is not inductive alone, because with no healthy path the last
  incumbent is used: `HealthIsEvidence` says that a healthy path has worked,
  `IncumbentProven` that an incumbent is registered and has. `Kept` says what the
  recording of a result preserves, so that each action is one application of it.
  The module also proves `BindIsSound` of `WebSocketBind`, the bind under the
  WebSocket path. That the callbacks agree with the table needs the program points
  of a connection's goroutines: `CarrierRead` (the carrier in the table of an open
  bind is being read, so whoever ends reading it reports it), `Paired` (a connection
  is free at both ends or at none, so nothing old returns under a new number),
  `Replaces` (the handler that displaces a carrier has yet to register its own) and
  `RedialsAlone` (one redial, and only without a carrier). From `BindConstants` it
  uses that 0, which stands for no carrier, is no connection.
  `RungsAreBacked` is about the upgrade loop. `RungBacked` speaks of the loop between
  two ticks; `LegKept` carries the candidate and its keepalive through an attempt,
  `AttemptFrom` says which rung each attempt starts from, and `LegAlone` that without
  multipath a keepalive never outlives its candidate, so that the next one replaces
  nothing.
  `StreamsAreSound` is about a stream through the two hops. `Conserved` counts the
  chunks: what was sent has arrived or is in one of the three connections.
  `CopyExplained` says what a copy that returned tells of the connection it read
  (without an error it is at its end), `CloseExplained` why a hop is closed, and
  `AnswerRead` that a hop that ended the answer had read all of it, unless the
  question was cut off (`QuestionCut`) or a party or the tunnel left. `QuestionCut` is the
  point: a forwarder whose copy up fails closes both directions, but then a chunk of
  the question stays unread for good, so the target never had the whole of it.
* `RelayAgents_proofs`: `AgentsAreSound`, `ServingAgentIsReachable`. That a
  serving agent is the one its hostname leads to must be said from `Register` on
  (`Superseded`: an agent that is not its tenant's any more is closed, or whoever
  replaced or evicted it has yet to close it), and `Replacing` says that the
  replaced agent is remembered only until then. For the pending slots,
  a handler owes the counter exactly at the points in `Owing`.
* `Server_proofs`: `SessionsAreSound`, `TrafficIsItsPrincipals`,
  `SessionsStayWithinGrants`, and the action property `PathsGoWithSessions`. An
  authentication is several critical sections of the mutex. `AuthReserved` says
  what it may rely on in between: its tunnels are granted by the configuration in
  force, the address it found is still nobody's, the peer it installed has it.
  `PeersInjective` is the device's rule that an address has one peer;
  `PeersInstalled` and `PeersExplained` tie the peers to sessions, native peers and
  the authentication under way. That traffic is its principal's follows from
  `PeersInstalled` and the distinct addresses; the search of a free address needs a
  least number of a set (`LeastExists`, from the well-foundedness of the numbers).
  The module also proves `PublishesTheLatest`, `KeepalivesAreOwned` and the action
  property `AllocationsEndForAReason` of the relays (`ServerRelay`), from
  `RelayConstants`.
  `PublicationCurrent` speaks of moments at which nobody publishes; in between,
  `LatestIsTrue` says that the newest snapshot is the state of the pool,
  `PendingHasSnapshot` that a change nobody has published has such a snapshot on its
  way, and `ToldOrPending` that what the callbacks were told, counting the delivery
  under way, is the truth except where a change is pending. That every other update
  is left out is sound because of `OnePublisher` and `RunsOne`. For the keepalives,
  `OpenIsCurrent` (only the tier in use is open), `CallFresh` (the token an allocation
  request has on its way is in no tier) and `CallAlone` (the client that asks has
  nothing yet: `operationMu`) make a late answer harmless; `ReportCovers` (an
  allocation that a report on its way does not name is young, or is in no tier, or
  is not the relay's any more) is why `recordStats` forgets nothing the relay holds.
* `ClientConnection_proofs`: `EverythingIsOwned`, `OneSessionThroughout`.
  `Close` takes none of the long locks, so what a reconnect looked at must be shown
  to hold still at its next hold of `c.mu` unless closed: `Prepared` (a granted
  tunnel has its listener or a prepared one), `TargetsCurrent` (a tunnel's target is
  of the network in use), `WorkersOut` (`transportMu` keeps the workers out from the
  preparation to the clean-up), `TokenAtHand` (the token the carrier lacks is still
  in the answer). `CloseTakesOver` says whose the tunnels are once closed, and
  `Forwarded` that a connection whose goroutine has not looked yet will find its
  tunnel's target.
* `Gui_proofs`: `ClaimsNeverLeak`, `ConnectionsAreOwned` (a part of
  `GuiSound`), and `ManagerImplementsLifecycle`, the refinement of
  `ProfileLifecycle`. `TryingAlone` says that a profile has one attempt at a time,
  `HandleStored` and `ConnectionOwned` whose a connection is, `CallCurrent` that the
  connection a `Disconnect` closes is still its profile's, `ClaimHeld` who holds a
  claim. With them each critical section is a step of the life cycle or does not
  show in it (`LifecycleStep`). No number of callers is assumed: calls of `Connect`,
  `Disconnect`, `ReplaceListener` and `RemoveProfile` overlap as they like. What is
  excepted is a profile that was `overtaken`, and that happens in one step only: a
  `Disconnect` that resets a session while its connection is not the one the call
  closed (section 5). Two calls of `Disconnect` with nothing between them are covered.
  `GuiIsSound` adds the store, the updates and the launches. `SettingsAreKept`: the
  saves are serialised but not in the order of the changes, and `LastSaveReads` says
  that the last one has read the manager's latest state; `Dropped` that a removed
  profile is in neither, unless the import mark was taken away; `FeedInv` that a tray
  that shows an old state of a session has an update in its channel or a publisher on
  its way, or missed it before it subscribed. `UpdatesAreSafe` (`UpdInv`): `LockHeld` (one
  installer between its first and last rename), `Overtaken` and `CacheCurrent` (which
  archive a job that waited may still install), and `Recoverable`, which is what makes
  a crash between the renames harmless. `NoWindowOutlivesItsInstance` (`WindowInv`)
  needs that the `Spawner` is sealed before the window is looked for and killed.
* `DataPath_proofs`: `DataPlaneIsSound` (from `ListenersAreSound`, `DnsIsSound`,
  `FlowsAreSound`, `SocksIsSound`, `MasqueIsSound`) and
  `ClientStartIsSound` (from `HomeIsSound`, `SetupIsSound`). From `DataPath` they use
  `ListenersAssumption` (a tunnel is no service), `DnsAssumption`, `FlowsAssumption`
  (finitely many queries, numbers), `FiltersAssumption` (a filter has the fields of its
  type), `HomeAssumption` (a server has a certificate, and
  no value is the absence of one) and `SetupAssumption` (a resolver's answer is a list).
  The listeners: in the middle of a reload every socket is a listening tunnel's or about
  to be closed (`ListenSockets`), and an undisputed tunnel listens or is about to be
  opened (`ListenUndisputed`). The flows: the server never replaces a flow that is
  served (`FlowTables`), the client removes the old one first.
  The race: a report comes from each address once (`RaceReports`), so as many reports
  as addresses are reports from all of them (`EverybodyHeard`, from the theorem about
  injections between finite sets), and a race that failed had only errors.
  `AttemptsObey` is why no fallback of a listener leaves what the user allowed.
  The files: `Trusting` says that every pin in a copy of known_servers, and the
  certificate a command goes on with, is one the user agreed to, so that it does not
  matter which process overwrites which; `IssuedFor` that a token at hand is of the
  issuer it is for. For one command at a time `AloneInv` adds that its copy is the file but for
  its own entry (`Copied`) and that what the file has no entry for is not in the store
  either, unless `astray` (`StoreInv`).

Only model-checked are the liveness properties (`EverybodyReturns`,
`IdleSessionsReclaimed`, `EvictedAgentLeaves`, `DeadRelayAbandoned`, `ExpiredIsReaped`,
`FilesFollowed`, `BrokenPathAbandoned`, `WorkingPathRecovers`, `CloseReleasesAll`,
`SessionRecovers`, `LadderClimbed`, `LinksRecover`, `ConnectSettles`): fairness and
`ENABLED` are outside what the installed provers do. `FilesFollowed` also says that the
certificate that is pinned never changes (`PinKept`), which goes with it. Every other
invariant and action property that a run checks is a theorem.

## 5. Findings and remarks

Two disagreements between the code and what a comment says are runs with a
counterexample (section 3) and entries of `findings`: the leaked dial-back and the
agent under a revoked key. Others met while modelling, not kept as runs:

* GUI, `manager.go:387`: `Disconnect` reads the handle under the lock and resets the
  session after closing it, whatever it holds by then (393-398). Two of them with a
  `Connect` in between reset the newer session: its connection runs and no session
  refers to it, its attempt goes on behind an idle profile, and its claims are given
  back or kept for nobody. `manager.go:73` says "All exported methods are safe for
  concurrent use", 795 that "nothing else transitions a session out of
  StateConnecting", and 271 that "a removal can never orphan a running
  \*client.Connection". TLC reaches it with two callers and two attempts; the
  properties of the `gui` run except exactly the profiles it happened to
  (`overtaken`). A `Connect` right after a `Disconnect` may lose its reservation to
  `releasePorts` in the same way. Two launches at the same moment may both start, and
  the first to quit removes the other's lock file.
* GUI, `manager.go:214-218`: `SetSettings` replaces all settings, and `PUT /api/settings`
  passes the body on (`api/server.go:440-446`), so a client that leaves
  `imported_cli_config` out (as `server_test.go:593` does) clears the mark, and a
  deleted only profile is imported again at the next start; `import.go:15-16` says that
  the deletion "is never silently undone". `RemovalIsFinal` excepts this (`cleared`).
* GUI, tray: `AddProfile`, `UpdateProfile` and `RemoveProfile` (`manager.go:237-293`) do not
  publish, and `publish` says nothing of a profile that is gone (658-661), so the tray
  keeps a removed profile, and lacks a new one, until another session's state changes.
  What is published between the first drawing and `Subscribe` (`tray.go:64-66`) is
  missed. `TrayCatchesUp` is about the sessions of profiles that exist and were not
  missed so.
* Kubernetes, `kubernetes.go:144`: the loser of a conflict has no entry in `byID`. A
  hostname may stay unavailable after the conflict is over, and a loser whose
  namespace no longer matches may inherit the route when the winner leaves.
* Bind, `bind.go:418`: `ServeHTTP` closes the replaced carrier, which waits for the close
  handshake of a connection that may be dead, with `b.mu` held, while `Send` needs
  it; the comment at `bind.go:60` says that Send never blocks on the carrier. A
  request of an older connection that is late replaces a newer carrier; the
  next failure heals it.
* Configuration, `server.go:1216`: a reload mixes the kept network and relay settings
  with the new endpoint, native peers and DNS upstreams, and what is in force may
  break rules that `ParseConfig` enforces of a file (`config.go:939`, `979`, `1167`).
  No property covers this: what a rule says of one file alone holds because
  `ParseConfig` checks it. A reload can enable MASQUE although no gateway runs.
* `masque_gateway.go:69`: a reload or the end of the session between the lookups and the
  end of the dial (`:76`, a name to resolve and up to ten seconds) still opens the
  stream, to a tunnel that is gone or has another target, and streams outlive a
  revoked session. `MasqueSound` says what `docs/IOS.md:181` ("re-checks the
  session/grant binding before accepting `CONNECT`") comes to: it holds of every
  request that nothing disturbed. The domain leads where the gateway's table of the
  start says, whatever the configuration in force says (`masque_gateway.go:36`), and a
  renewal gives the session a new ID (`server.go:1003`), so that the certificates it
  had are refused from then on.
* Files of a user: `cache.go:169` deletes from the credential store only what
  `tokens.json` has an entry for, and the two come apart (`astray`) when a save
  fails after the store has the token (`cache.go:155`), or when a logout's deletion
  in the store fails. The user is told (of the save only at a login), but a logout
  after that reports success and deletes nothing, and the next command is logged in
  silently; `client.go:869` says that the next authentication "reopens the browser".
  `HomeSound` says that it happens in no other way to a user of one command at a
  time. Each process works on its own copy of `tokens.json` and saves it whole, so a
  login that overlaps a logout brings the token back. `TrustServer`
  (`client.go:339`) may lose a pin of another process the same way; `status.json` is
  removed by whichever process closes first.
* `client.go:588`: a dial that succeeds after the race was decided is not closed.
* `client.go:614-617`: when the look-up of the server's name fails, the name is
  dialled with no regard for `IPVersion`, although `client.go:107-114` says "the
  excluded family is never attempted, even if the chosen family fails outright". The
  SOCKS variant (line 638) returns the error instead. `SetupSound` excepts the
  attempts whose look-up failed.
* `client.go:1545`: `listenLocalUDP` parses the host with `net.ParseIP`, so a UDP
  tunnel given a host name (`--port dns=localhost:5353`, `hosts:` in the settings)
  listens on every interface, although `Hosts` is "a per-tunnel loopback address
  override" (`client.go:90`) and `resolveBindAddress` refuses host names for that very
  reason (lines 1450-1452). `SetupSound` excepts exactly these tunnels.
* `client.go:90-95`: the comment on `Options.Hosts` calls it "a strict override" that
  "aborts the connect" and says that `BindAddress` "takes precedence over both";
  `resolveTunnelHost` (1477-1491), its comment and its tests make `Hosts` soft and
  put it before `BindAddress`. The model follows the code.
* Streams: the client's SOCKS forwarder (`client.go:3177`) closes both connections when
  one direction ends, so a half-close is not passed on, unlike `forward` and
  `copyToTarget` (`dataplane.go:914`); a fixed tunnel may lose the end of an answer
  while the question is still being sent.
* UDP: the server's flow of a session that ended answers to the session that took
  its address over, until the flow is idle (`dataplane.go:606`).
* `dataplane.go:334`: the refresher of native relays reads `s.data` without a lock while
  `Close` sets it to nil.
* `authlimit.go:105` speaks of a rolling window; the count starts anew with the first
  request after a window, so twice the limit may pass around its edge.
* `cmd/ntwire-server/main.go`: the SIGHUP goroutine may apply an older version after
  the watcher's, and an edit between the first reading and the watch is missed
  until the next one. So is a configuration whose key directory cannot be watched
  (`reload.go:85-94`): it is not applied, and nothing tries it again. `missed` is the
  history of both.
* SOCKS: BIND accepts any peer, only the first resolved address is judged, and a UDP
  flow keeps the permission it was opened with.
* `server.go:862`: `punch` looks its session up, decodes the body and registers the
  path without `operationMu`; a session dropped in between has its multipath
  peer resurrected, and nothing removes it. `server.go:935` says of the sister
  handler that it holds the mutex "so a late request cannot resurrect a dropped
  peer".
* `multipath.go:253`: `Send` meets the old WebSocket and records the failure after a
  redial has activated the new one; the WebSocket is not probed, so the client
  distrusts a connected carrier until it drops again.
* `directupgrade.go:178`: with multipath, when the direct and the relay path are
  lost together, the loop goes to the WebSocket rung without stopping the
  relay keepalive; the next relay session overwrites `relayStop`, and the
  keepalive goroutine of the old one never ends, not even after `Close`.
  `directupgrade.go:719` says it runs "for as long as this rung stays active".
* `directupgrade.go:484`: after a failed probe the endpoint is put back with the
  error ignored. If the WebSocket is being redialled at that moment, the peer
  stays on the dead address and the WebSocket rung does not look at its
  endpoint; the comment of `setEndpoint` asks to "keep retrying rather than
  silently accepting the peer staying pointed at a dead address".
* `reconnect.go:67`: a transport forced at runtime is carried over to a new network
  only from one with multipath to one with multipath. A return to "auto" is not
  carried over (the new network is forced to `Options.Transport` again), and a
  network without multipath forgets the choice: `reconnect.go:51` then reads no
  forced transport, and the network after it starts from `Options.Transport`.
  `ChoiceKept` states this with the history `choice`, which such a network resets.
* A local connection accepted for a tunnel that a reconnect drops may be dialled
  on the new network at its old target (`client.go:2935`); it then fails or
  reaches a server at that address, which is why `OneGeneration` excepts it.
* `client.go:1708`: `ReplaceListener` writes the status file after the unlock, and
  may write it after `Close` has removed it.
* `udpforward.go:190` acknowledges a bind whatever `BindServer` answered;
  `docs/PROTOCOL.md:539` says only a live token is acknowledged.
* `nativewg.go:57`: a replaced control connection that issues its native token
  late revokes the token of its successor; `agent.go` guards the PAC table
  against the same race.
* `nativewg.go:194` takes over the route of an index whoever sends it. WireGuard draws
  the 32-bit indices at random and the model has them distinct: two clients that draw
  the same one would get each other's answers, encrypted, until the next handshake.
* `relay.go:489`: a second `Relay.Close` would close `udpSweepStop` again and panic; `main`
  closes once, and the model has one `Close`. Closing a socket again is harmless, so
  the model only says that none is left.
* `dataplane.go:440`: a native peer that the device refuses at a reload is only logged.
  `ParseConfig` has checked its key and address by then, and the model takes it as
  installed.
* `reload.go:80`: a change of the key directory is lost when the configuration
  file does not load; `docs/SECURITY.md:279` says that deleting a key file revokes.
* `registry.go:505`: `Redeem` gives the pending slot back before `Open` accounts the
  live one, so a tenant can exceed `max_conns_per_server` by what is in between;
  `docs/RELAY-CONFIG-GUIDE.md:86` calls it "live spliced connections per tenant".
* `multipath.go:154`: a path that is registered again with another address keeps
  the health the old address had, and carries traffic before the new one answers;
  `multipath.go:913` says not to send on a new path "before it proves reachability".
* An MTU probe has no timeout: a lost one ends the search on that path.
* An allocation that times out on the server is held by the relay until its idle
  sweep.

## 6. Not modelled, and abstractions

Signatures, certificates' contents and the authorization hook decide which
requests are refused; in the models any may be. Byte counts, telemetry, logging
and wire encodings are left out. Time is a set of things that have expired, a
small clock in `AuthLimits`. Parsers, renderers, wire types, the status page and
the terminal UI are sequential text work for tests; the user-space WireGuard stack
is a library (its roaming and its allowed addresses are modelled where the
server and the client depend on them); the iOS application is a second client.
Of the multipath transport the path MTU search, the duplicate cache and the
index of sources of several peers are left out. A SOCKS upstream that resolves
names by itself is left out. `PROJECT.json` lists every component with its reason.

## 7. Plan

The safety properties of the runs are proved. What is left, in this order:

1. The rest of multipath: the sources of several peers (`bySource`, reserved
   sources, replaced endpoints), duplicate cache, path MTU search.
2. The bootstrap of a direct connection (`shouldBootstrapDirectMultipath`) and the
   diagnostics of the client, and the tickets of the portal.
3. `NoClaimLeaks` and `NoOrphan` without the exception of `overtaken`, once `Disconnect`
   takes the handle and clears it in one critical section.
