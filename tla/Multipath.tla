----------------------------- MODULE Multipath -----------------------------
(***************************************************************************)
(* One client session over several carriers: MultipathBind and its         *)
(* Scheduler on the client, the peer of ServerMultipathBind and its own    *)
(* Scheduler on the server, and the WebSocket whose life cycle both follow *)
(* (pkg/wstransport/multipath.go, server_multipath.go, bind.go).           *)
(*                                                                         *)
(* The two schedulers never talk to each other. Each probes its datagram   *)
(* paths, takes the WebSocket's health from its callbacks, and chooses     *)
(* alone; the server also takes an inbound WireGuard packet as evidence    *)
(* for the path it came on. A link may fail in one direction only.         *)
(*                                                                         *)
(* An answer to a nonce that is not the outstanding one is ignored, so     *)
(* only the exchange of the outstanding probe is modelled. RTT and loss    *)
(* rank replacements: here any healthy path may rank first. Counters, the  *)
(* duplicate cache and the path MTU search do not influence the choice of  *)
(* a path and are left out.                                                *)
(***************************************************************************)
EXTENDS Integers, FiniteSets

CONSTANTS
  Client, Server,
  Datagram,     \* names of the datagram paths: "udp-relay", "direct-udp"
  WSS,          \* the path over the WebSocket
  None,
  MissLimit,    \* misses in a row that make a path unhealthy (3)
  ServerForce,  \* transport.force of the server's configuration, or None
  Forceable,    \* the transports the user asks for, None for automatic
  Fragile       \* sides that datagrams may stop reaching

ASSUME Limits == MissLimit \in Nat \ {0}
ASSUME NamesDistinct ==
  /\ WSS \notin Datagram
  /\ None \notin Datagram \cup {WSS}
  /\ Client # Server /\ Fragile \subseteq {Client, Server}
  /\ Forceable \cup {ServerForce} \subseteq Datagram \cup {WSS, None}

Sides == {Client, Server}
Paths == Datagram \cup {WSS}
Other(s) == IF s = Client THEN Server ELSE Client

VARIABLES
  registered,  \* Scheduler.candidates of each side
  healthy,     \* the candidates with Healthy set
  proven,      \* the candidates with LastSuccess set
  misses,      \* candidate.misses, capped at MissLimit
  primary,     \* Scheduler.primary
  forced,      \* Scheduler.forced
  probe,       \* the outstanding probe of a datagram path: "none", "flying", "lost"
  failing,     \* the path whose Send failed and whose failure is yet to be recorded
  data,        \* paths with a transport packet of the client under way
  up,          \* the datagram paths whose packets reach each side, in time
  link,        \* the newest WebSocket connection works
  ws           \* each side's end of it: "down", "opening" (callback due), "up"

candidates == <<registered, healthy, proven, misses>>
network == <<up, link, ws>>
vars == <<candidates, primary, forced, probe, failing, data, network>>

On(s, f, p, v) == [f EXCEPT ![s][p] = v]
With(f, s, p) == [f EXCEPT ![s] = @ \cup {p}]
Without(f, s, p) == [f EXCEPT ![s] = @ \ {p}]

TypeOK ==
  /\ registered \in [Sides -> SUBSET Paths]
  /\ healthy \in [Sides -> SUBSET Paths]
  /\ proven \in [Sides -> SUBSET Paths]
  /\ misses \in [Sides -> [Paths -> 0..MissLimit]]
  /\ primary \in [Sides -> Paths \cup {None}]
  /\ forced \in [Sides -> Paths \cup {None}]
  /\ probe \in [Sides -> [Datagram -> {"none", "flying", "lost"}]]
  /\ failing \in [Sides -> Paths \cup {None}]
  /\ data \subseteq Paths
  /\ up \in [Sides -> SUBSET Datagram]
  /\ link \in BOOLEAN
  /\ ws \in [Sides -> {"down", "opening", "up"}]

\* The client's bind is open: its WebSocket is registered and activated. The
\* server has upgraded the connection and is about to run its callback.
Init ==
  /\ registered = [s \in Sides |-> IF s = Client THEN {WSS} ELSE {}]
  /\ healthy = registered
  /\ proven = registered
  /\ misses = [s \in Sides |-> [p \in Paths |-> 0]]
  /\ primary = [s \in Sides |-> IF s = Client THEN WSS ELSE None]
  /\ forced = [s \in Sides |-> IF s = Server THEN ServerForce ELSE None]
  /\ probe = [s \in Sides |-> [p \in Datagram |-> "none"]]
  /\ failing = [s \in Sides |-> None]
  /\ data = {}
  /\ up = [s \in Sides |-> Datagram]
  /\ link = TRUE
  /\ ws = [s \in Sides |-> IF s = Client THEN "up" ELSE "opening"]

(***************************************************************************)
(* The scheduler's bookkeeping.                                            *)
(***************************************************************************)
Success(s, p) ==
  /\ healthy' = With(healthy, s, p)
  /\ proven' = With(proven, s, p)
  /\ misses' = On(s, misses, p, 0)
  /\ UNCHANGED registered

\* Mutant: a path never becomes unhealthy by missed probes.
MutMiss(s, p) ==
  /\ misses' = On(s, misses, p, IF misses[s][p] < MissLimit THEN misses[s][p] + 1 ELSE MissLimit)
  /\ UNCHANGED <<registered, proven, healthy>>

Miss(s, p) ==
  LET n == IF misses[s][p] < MissLimit THEN misses[s][p] + 1 ELSE MissLimit
  IN /\ misses' = On(s, misses, p, n)
     /\ healthy' = IF n < MissLimit THEN healthy ELSE Without(healthy, s, p)
     /\ UNCHANGED <<registered, proven>>

\* Known candidates only: the others are not in the map.
ProbeResult(s, p, ok) ==
  IF p \notin registered[s] THEN UNCHANGED candidates
  ELSE IF ok THEN Success(s, p) ELSE Miss(s, p)

\* Mutant: one miss too many is recorded.
MutCarrierFailure(s, p) ==
  /\ healthy' = Without(healthy, s, p)
  /\ misses' = On(s, misses, p, MissLimit + 1)
  /\ UNCHANGED <<registered, proven>>

CarrierFailure(s, p) ==
  IF p \notin registered[s] THEN UNCHANGED candidates
  ELSE /\ healthy' = Without(healthy, s, p)
       /\ misses' = On(s, misses, p, MissLimit)
       /\ UNCHANGED <<registered, proven>>

\* ActivateCarrier, after RegisterPath on the server: an established carrier
\* is usable, and is the first incumbent if there is none.
ActivateCarrier(s, p) ==
  /\ registered' = With(registered, s, p)
  /\ healthy' = With(healthy, s, p)
  /\ proven' = With(proven, s, p)
  /\ misses' = On(s, misses, p, 0)
  /\ primary' = [primary EXCEPT ![s] = IF @ = None THEN p ELSE @]

Usable(s) == registered[s] \cap healthy[s]

\* Mutant: with no healthy path, any registered one is an escape.
MutSelectedEscape(s) ==
  IF Usable(s) = {} THEN registered[s]
  ELSE IF forced[s] \in Usable(s) THEN {forced[s]}
  ELSE IF primary[s] \in Usable(s) THEN {primary[s]} ELSE Usable(s)

\* Mutant: the best ranked path is taken on every packet.
MutSelectedBest(s) ==
  IF Usable(s) = {} THEN {primary[s]} \cap registered[s]
  ELSE IF forced[s] \in Usable(s) THEN {forced[s]} ELSE Usable(s)

\* The paths selectLocked may return: the forced one, else the incumbent,
\* else the best ranked; with no healthy path the last incumbent, else a
\* forced one that worked before.
Selected(s) ==
  IF Usable(s) = {}
    THEN IF primary[s] \in registered[s] THEN {primary[s]}
         ELSE {p \in registered[s] : p = forced[s] /\ p \in proven[s]}
    ELSE IF forced[s] \in Usable(s) THEN {forced[s]}
    ELSE IF primary[s] \in Usable(s) THEN {primary[s]} ELSE Usable(s)

\* Committing the choice of p. The incumbent changes only while some path is
\* healthy. (The loads of forced and primary and the store are not one
\* critical section; a commit of a forced path read before it was cleared
\* leaves the state of a commit made just before.)
Commit(s, p) ==
  primary' = IF Usable(s) = {} THEN primary ELSE [primary EXCEPT ![s] = p]

\* A suspected incumbent is backed by one other healthy path.
Backups(s, p) ==
  IF p \in healthy[s] /\ misses[s][p] > 0 THEN Usable(s) \ {p} ELSE {}

(***************************************************************************)
(* Paths come up.                                                          *)
(***************************************************************************)
\* A worker of the client, or a request of the server, registers a path for
\* the first time: it is probed at once.
RegisterPath(s, p) ==
  /\ p \notin registered[s]
  /\ registered' = With(registered, s, p)
  /\ probe' = On(s, probe, p, "flying")
  /\ UNCHANGED <<healthy, proven, misses, primary, forced, failing, data, network>>

\* A known path is registered again: its health stays, and a new probe takes
\* the place of the outstanding one without a miss.
Refresh(s, p) ==
  /\ p \in registered[s] /\ probe[s][p] # "flying"
  /\ probe' = On(s, probe, p, "flying")
  /\ UNCHANGED <<candidates, primary, forced, failing, data, network>>

SetForced(f) ==
  /\ f # forced[Client]
  /\ forced' = [forced EXCEPT ![Client] = f]
  /\ UNCHANGED <<candidates, primary, probe, failing, data, network>>

(***************************************************************************)
(* Probing.                                                                *)
(***************************************************************************)
\* A tick of probeLoop finds no probe under way for the path and sends one.
ProbeOne(s, p) ==
  /\ p \in registered[s] /\ probe[s][p] = "none"
  /\ probe' = On(s, probe, p, "flying")
  /\ UNCHANGED <<candidates, primary, forced, failing, data, network>>

\* Mutant: the missed probe stays in the table and no other is sent.
MutMissProbe(s, p) ==
  /\ probe[s][p] = "lost"
  /\ ProbeResult(s, p, FALSE)
  /\ UNCHANGED <<probe, primary, forced, failing, data, network>>

\* A tick of probeLoop finds the probe outstanding for probeTimeout: a miss,
\* and the next probe. One that is not lost is answered before; ticks that
\* find it younger do nothing.
MissProbe(s, p) ==
  /\ probe[s][p] = "lost"
  /\ ProbeResult(s, p, FALSE)
  /\ probe' = On(s, probe, p, "flying")
  /\ UNCHANGED <<primary, forced, failing, data, network>>

Works(p) == IF p = WSS THEN link /\ \A s \in Sides : ws[s] # "down"
                       ELSE \A s \in Sides : p \in up[s]

\* The other side knows the path and answers on it; the answer is counted.
PathAck(s, p) ==
  /\ probe[s][p] = "flying"
  /\ Works(p) /\ p \in registered[Other(s)]
  /\ probe' = On(s, probe, p, "none")
  /\ ProbeResult(s, p, TRUE)
  /\ UNCHANGED <<primary, forced, failing, data, network>>

\* The probe or its answer is lost: a direction fails, or the other side does
\* not know the source and ignores the probe.
LoseProbe(s, p) ==
  /\ probe[s][p] = "flying"
  /\ ~Works(p) \/ p \notin registered[Other(s)]
  /\ probe' = On(s, probe, p, "lost")
  /\ UNCHANGED <<candidates, primary, forced, failing, data, network>>

(***************************************************************************)
(* Sending.                                                                *)
(***************************************************************************)
\* A path the carrier itself refuses: no WebSocket connection, or no route.
Refuses(s, p) == IF p = WSS THEN ws[s] = "down" ELSE p \notin up[Other(s)]

\* What of a packet sent on ps may reach the server as a transport packet.
Arriving(ps) == {p \in ps : IF p = WSS THEN Works(WSS) ELSE p \in up[Server]}

\* Send: select, hand the packet to the carrier, and for a suspected path one
\* copy to a backup if the budget allows. An error is recorded later. At most
\* one failed Send is under way, and the packets of one Send.
Send(s) ==
  /\ \A t \in Sides : failing[t] = None
  /\ \E p \in Selected(s) :
       /\ Commit(s, p)
       /\ \/ /\ Refuses(s, p)
             /\ failing' = [failing EXCEPT ![s] = p]
             /\ UNCHANGED data
          \/ /\ p = WSS => ~Refuses(s, p)
             /\ \E q \in Backups(s, p) \cup {p} : \E sent \in SUBSET Arriving({p, q}) :
                  data' = IF s = Client /\ data = {} THEN sent ELSE data
             /\ UNCHANGED failing
  /\ UNCHANGED <<candidates, forced, probe, network>>

\* Send goes on after the carrier's error, with no lock held since.
SendFailed(s) ==
  /\ failing[s] # None
  /\ CarrierFailure(s, failing[s])
  /\ failing' = [failing EXCEPT ![s] = None]
  /\ UNCHANGED <<primary, forced, probe, data, network>>

\* wrap of the server: a transport packet from a known source proves the path.
Receive(p) ==
  /\ p \in data
  /\ p = WSS => ws[Server] = "up"
  /\ data' = data \ {p}
  /\ ProbeResult(Server, p, TRUE)
  /\ UNCHANGED <<primary, forced, probe, failing, network>>

(***************************************************************************)
(* The WebSocket. Its callbacks are serialized with the replacement of the *)
(* connection, and a connection that was replaced reports nothing.         *)
(***************************************************************************)
Connected(s) ==
  /\ ws[s] = "opening"
  /\ ws' = [ws EXCEPT ![s] = "up"]
  /\ ActivateCarrier(s, WSS)
  /\ UNCHANGED <<forced, probe, failing, data, up, link>>

Disconnected(s) ==
  /\ ws[s] = "up" /\ ~link
  /\ ws' = [ws EXCEPT ![s] = "down"]
  /\ CarrierFailure(s, WSS)
  /\ UNCHANGED <<primary, forced, probe, failing, data, up, link>>

\* A stalled writer, or a queue that overflows: reported, then closed.
WriteFailure(s) ==
  /\ ws[s] = "up" /\ link
  /\ link' = FALSE
  /\ CarrierFailure(s, WSS)
  /\ UNCHANGED <<primary, forced, probe, failing, data, up, ws>>

\* The client dials again; the server's end replaces the one it still has,
\* and packets of the old connection no longer name a source.
Redial ==
  /\ ws[Client] = "down"
  /\ link' = TRUE
  /\ ws' = [s \in Sides |-> "opening"]
  /\ data' = data \ {WSS}
  /\ UNCHANGED <<candidates, primary, forced, probe, failing, up>>

(***************************************************************************)
(* The network.                                                            *)
(***************************************************************************)
LoseLink ==
  /\ link
  /\ link' = FALSE
  /\ UNCHANGED <<candidates, primary, forced, probe, failing, data, up, ws>>

FlipLink(s, p) ==
  /\ s \in Fragile
  /\ up' = IF p \in up[s] THEN Without(up, s, p) ELSE With(up, s, p)
  /\ UNCHANGED <<candidates, primary, forced, probe, failing, data, link, ws>>

Next ==
  \/ \E s \in Sides : Send(s) \/ SendFailed(s) \/ Connected(s) \/ Disconnected(s) \/ WriteFailure(s)
  \/ \E s \in Sides, p \in Datagram :
       RegisterPath(s, p) \/ Refresh(s, p) \/ ProbeOne(s, p)
         \/ MissProbe(s, p) \/ PathAck(s, p) \/ LoseProbe(s, p) \/ FlipLink(s, p)
  \/ \E p \in Paths : Receive(p)
  \/ \E f \in Forceable : SetForced(f)
  \/ Redial \/ LoseLink

\* The probe loops tick, carriers report, answers arrive, and packets are sent.
\* A path is registered again at most every 20 seconds, in which probes are
\* missed several times over: registering cannot put the miss off for ever.
\* A link, a redial, a registration and the user owe nothing.
Fairness ==
  /\ \A s \in Sides : WF_vars(Send(s)) /\ WF_vars(SendFailed(s))
                        /\ WF_vars(Connected(s)) /\ WF_vars(Disconnected(s))
  /\ \A s \in Sides, p \in Datagram :
       WF_vars(ProbeOne(s, p)) /\ SF_vars(MissProbe(s, p))
         /\ WF_vars(PathAck(s, p)) /\ WF_vars(LoseProbe(s, p))
  /\ \A p \in Paths : WF_vars(Receive(p))

Spec == Init /\ [][Next]_vars /\ Fairness

(***************************************************************************)
(* Properties.                                                             *)
(***************************************************************************)
\* Nothing is sent on a path that never worked: whatever was registered,
\* failed or was forced, what Select returns has been activated, has answered
\* a probe or has delivered a packet at least once.
OnlyProvenCarries ==
  TypeOK /\ \A s \in Sides : Selected(s) \subseteq proven[s]

\* A live flow moves only off a path that is unhealthy, or onto the healthy
\* path the user or the operator forces: probe timing never moves it.
StickyFlow ==
  [][\A s \in Sides :
       primary'[s] # primary[s] /\ primary[s] # None =>
         primary[s] \notin healthy[s] \/ (primary'[s] = forced[s] /\ forced[s] \in healthy[s])]_vars

BothKnow(p) == \A s \in Sides : p \in registered[s]
BothTrust(p) == \A s \in Sides : p \in Usable(s)

\* A path that stops working, be it in one direction only, is given up by
\* both sides if they have one they go on trusting: the side that still gets
\* packets over the broken path gives it up too, because the other stops
\* sending there first.
BrokenPathAbandoned ==
  \A r \in Paths, p \in Paths :
    p # r => (<>[](~Works(r)) /\ <>[]BothTrust(p)
                => \A s \in Sides : <>[](primary[s] # r))

\* A datagram path both sides know and that works from some point on is
\* trusted by both from some point on, whatever they thought of it before.
WorkingPathRecovers ==
  \A p \in Datagram : <>[](BothKnow(p) /\ Works(p)) => <>[]BothTrust(p)
=============================================================================
