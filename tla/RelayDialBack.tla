--------------------------- MODULE RelayDialBack ---------------------------
(***************************************************************************)
(* The relay's TLS-passthrough tier: a public connection is resolved to a  *)
(* tenant or to a discovered Kubernetes Service, a single-use conn_id is   *)
(* minted and pushed to the tenant's agent, the agent dials back with that *)
(* conn_id, and the dialed-back connection is handed to the goroutine that *)
(* waits for it (pkg/relay: registry.go, public.go, handleData of          *)
(* agent.go).                                                              *)
(*                                                                         *)
(* Two goroutines share one conn_id: the public one (its control point is  *)
(* pc) and the data one (dpc). Every action is one section of the code     *)
(* that nothing can interleave with: a hold of Registry.mu, one channel    *)
(* operation, or one call into the network.                                *)
(*                                                                         *)
(* SNI parsing, rate limiting and byte copying are left out: a connection  *)
(* the limiter or the TLS peek refuses never reaches the registry.         *)
(***************************************************************************)
EXTENDS Integers, FiniteSets

CONSTANTS
  Conns,        \* slots for public connections; a slot is also its conn_id
  Tenants,      \* registered tenant names
  Hosts,        \* hostnames Kubernetes discovery may publish
  None,         \* "no route"
  MaxPending,   \* limits.max_pending_per_server
  MaxConns      \* limits.max_conns_per_server

ASSUME RoutesDisjoint == Tenants \cap Hosts = {} /\ None \notin Tenants \cup Hosts
ASSUME ConnsFinite    == IsFiniteSet(Conns)
ASSUME LimitsPositive == MaxPending \in Nat \ {0} /\ MaxConns \in Nat \ {0}

Routes == Tenants \cup Hosts

VARIABLES
  agentUp,      \* tenant -> does it have a live control connection
  discovered,   \* host -> is it an unambiguous discovered Service
  pc,           \* control point of the public goroutine
  route,        \* what the public goroutine resolved to
  idPending,    \* the conn_ids in Registry.pending
  sent,         \* conn_ids whose RelayOpen frame reached the agent
  late,         \* conn_ids whose pendingConn.expires has passed
  dpc,          \* control point of the data goroutine
  chFull,       \* conn_ids whose one-slot handoff channel holds a connection
  done,         \* conn_ids whose done channel is closed
  back,         \* state of the dialed-back (or dialed) connection
  pending,      \* route -> tenantState.pending
  live          \* route -> tenantState.live

vars == <<agentUp, discovered, pc, route, idPending, sent, late, dpc, chFull,
          done, back, pending, live>>

envVars  == <<agentUp, discovered>>
dataVars == <<sent, late, dpc, chFull, done, back>>

PublicPoints == {"idle", "resolved", "pushing", "waiting", "got", "dialing",
                 "live", "closing", "cancelled", "drained", "closed"}
DataPoints   == {"none", "redeemed", "accepted", "checked", "parked", "finished"}

Init ==
  /\ agentUp \in [Tenants -> BOOLEAN]
  /\ discovered \in [Hosts -> BOOLEAN]
  /\ pc = [c \in Conns |-> "idle"]
  /\ route = [c \in Conns |-> None]
  /\ idPending = {}
  /\ sent = {}
  /\ late = {}
  /\ dpc = [c \in Conns |-> "none"]
  /\ chFull = {}
  /\ done = {}
  /\ back = [c \in Conns |-> "none"]
  /\ pending = [r \in Routes |-> 0]
  /\ live = [r \in Routes |-> 0]

Goto(c, from, to) ==
  /\ pc[c] = from
  /\ pc' = [pc EXCEPT ![c] = to]

GotoData(c, from, to) ==
  /\ dpc[c] = from
  /\ dpc' = [dpc EXCEPT ![c] = to]

-----------------------------------------------------------------------------
(* The tenant's control connection and the discovery cache change on their *)
(* own; the modules RelayAgents and KubernetesDiscovery say how.           *)

AgentChanges(t) ==
  /\ agentUp' = [agentUp EXCEPT ![t] = ~@]
  /\ UNCHANGED <<discovered, pc, route, idPending, dataVars, pending, live>>

DiscoveryChanges(h) ==
  /\ discovered' = [discovered EXCEPT ![h] = ~@]
  /\ UNCHANGED <<agentUp, pc, route, idPending, dataVars, pending, live>>

-----------------------------------------------------------------------------
(* The public goroutine.                                                   *)

\* The source precedence of OpenSNI: a tenant whose agent is connected, then
\* a discovered Service, then the tenant whose agent is not connected.
ResolvedRoute(t, h) ==
  IF t # None /\ agentUp[t] THEN t ELSE IF discovered[h] THEN h ELSE t

\* handle resolves the SNI to a tenant (t, None when the label is not under
\* the relay's domain) and to a hostname h.
Resolve(c, t, h) ==
  /\ pc[c] = "idle"
  /\ LET r == ResolvedRoute(t, h) IN
     /\ pc' = [pc EXCEPT ![c] = IF r = None THEN "closed" ELSE "resolved"]
     /\ route' = [route EXCEPT ![c] = r]
  /\ UNCHANGED <<envVars, idPending, dataVars, pending, live>>

HasCapacity(r) ==
  /\ pending[r] < MaxPending
  /\ pending[r] + live[r] < MaxConns

\* The first critical section of Open: mint and account a conn_id, or refuse.
OpenMint(c) ==
  /\ pc[c] = "resolved"
  /\ route[c] \in Tenants
  /\ IF agentUp[route[c]] /\ HasCapacity(route[c])
       THEN /\ pc' = [pc EXCEPT ![c] = "pushing"]
            /\ idPending' = idPending \cup {c}
            /\ pending' = [pending EXCEPT ![route[c]] = @ + 1]
       ELSE /\ pc' = [pc EXCEPT ![c] = "closed"]
            /\ UNCHANGED <<idPending, pending>>
  /\ UNCHANGED <<envVars, route, dataVars, live>>

\* agent.Push: the write that carries the RelayOpen reaches the agent.
PushSend(c) ==
  /\ pc[c] = "pushing"
  /\ c \notin sent
  /\ sent' = sent \cup {c}
  /\ UNCHANGED <<envVars, pc, route, idPending, late, dpc, chFull, done, back,
                 pending, live>>

PushOk(c) ==
  /\ c \in sent
  /\ Goto(c, "pushing", "waiting")
  /\ UNCHANGED <<envVars, route, idPending, dataVars, pending, live>>

MutCancelPending(c) ==
  /\ idPending' = idPending \ {c}
  /\ pending' = [pending EXCEPT ![route[c]] = @ - 1]

\* cancelPending: forget the conn_id and give its pending slot back, unless a
\* redemption already did both.
CancelPending(c) ==
  /\ idPending' = idPending \ {c}
  /\ pending' = IF c \in idPending
                  THEN [pending EXCEPT ![route[c]] = @ - 1] ELSE pending

MutPushFail(c) ==
  /\ Goto(c, "pushing", "closed")
  /\ ~agentUp[route[c]]
  /\ CancelPending(c)
  /\ UNCHANGED <<envVars, route, dataVars, live>>

\* The write failed, which does not say whether the frame left.
PushFail(c) ==
  /\ Goto(c, "pushing", "closed")
  /\ CancelPending(c)
  /\ UNCHANGED <<envVars, route, dataVars, live>>

\* Time passes: pendingConn.expires is behind us.
Expire(c) ==
  /\ pc[c] \in {"pushing", "waiting", "cancelled"}
  /\ c \notin late
  /\ late' = late \cup {c}
  /\ UNCHANGED <<envVars, pc, route, idPending, sent, dpc, chFull, done, back,
                 pending, live>>

\* Open's select takes the delivered connection ...
OpenReceive(c) ==
  /\ Goto(c, "waiting", "got")
  /\ c \in chFull
  /\ chFull' = chFull \ {c}
  /\ UNCHANGED <<envVars, route, idPending, sent, late, dpc, done, back,
                 pending, live>>

\* ... and accounts it as live under the mutex.
OpenAccount(c) ==
  /\ Goto(c, "got", "live")
  /\ live' = [live EXCEPT ![route[c]] = @ + 1]
  /\ UNCHANGED <<envVars, route, idPending, dataVars, pending>>

\* Open's select takes the timer or the cancelled context instead: it cancels
\* the conn_id, drains the channel and closes done, in three separate steps.
AbandonCancel(c) ==
  /\ Goto(c, "waiting", "cancelled")
  /\ CancelPending(c)
  /\ UNCHANGED <<envVars, route, dataVars, live>>

AbandonDrain(c) ==
  /\ Goto(c, "cancelled", "drained")
  /\ chFull' = chFull \ {c}
  /\ back' = IF c \in chFull THEN [back EXCEPT ![c] = "closed"] ELSE back
  /\ UNCHANGED <<envVars, route, idPending, sent, late, dpc, done, pending, live>>

AbandonSignal(c) ==
  /\ Goto(c, "drained", "closed")
  /\ done' = done \cup {c}
  /\ UNCHANGED <<envVars, route, idPending, sent, late, dpc, chFull, back,
                 pending, live>>

\* The Kubernetes path of OpenSNI: claim a usage slot, dial, account the
\* result in one critical section.
DialStart(c) ==
  /\ pc[c] = "resolved"
  /\ route[c] \in Hosts
  /\ IF HasCapacity(route[c])
       THEN /\ pc' = [pc EXCEPT ![c] = "dialing"]
            /\ pending' = [pending EXCEPT ![route[c]] = @ + 1]
       ELSE /\ pc' = [pc EXCEPT ![c] = "closed"]
            /\ UNCHANGED pending
  /\ UNCHANGED <<envVars, route, idPending, dataVars, live>>

DialOk(c) ==
  /\ Goto(c, "dialing", "live")
  /\ pending' = [pending EXCEPT ![route[c]] = @ - 1]
  /\ live' = [live EXCEPT ![route[c]] = @ + 1]
  /\ back' = [back EXCEPT ![c] = "open"]
  /\ UNCHANGED <<envVars, route, idPending, sent, late, dpc, chFull, done>>

DialFail(c) ==
  /\ Goto(c, "dialing", "closed")
  /\ pending' = [pending EXCEPT ![route[c]] = @ - 1]
  /\ UNCHANGED <<envVars, route, idPending, dataVars, live>>

\* dispatch's deferred function: the splice is over (or the first write
\* failed); close the back connection, then release the live slot.
SpliceEnd(c) ==
  /\ Goto(c, "live", "closing")
  /\ back' = [back EXCEPT ![c] = "closed"]
  /\ UNCHANGED <<envVars, route, idPending, sent, late, dpc, chFull, done,
                 pending, live>>

Release(c) ==
  /\ Goto(c, "closing", "closed")
  /\ live' = IF live[route[c]] > 0
               THEN [live EXCEPT ![route[c]] = @ - 1] ELSE live
  /\ UNCHANGED <<envVars, route, idPending, dataVars, pending>>

-----------------------------------------------------------------------------
(* The data goroutine: handleData, entered when the agent dials back.      *)

MutRedeem(c) ==
  /\ c \in sent
  /\ c \in idPending
  /\ dpc[c] = "none"
  /\ idPending' = idPending \ {c}
  /\ dpc' = [dpc EXCEPT ![c] = IF c \in late THEN "finished" ELSE "redeemed"]
  /\ UNCHANGED <<envVars, pc, route, sent, late, chFull, done, back, pending, live>>

\* Redeem consumes the conn_id whatever it answers; an expired one is refused.
Redeem(c) ==
  /\ c \in sent
  /\ c \in idPending
  /\ dpc[c] = "none"
  /\ idPending' = idPending \ {c}
  /\ pending' = [pending EXCEPT ![route[c]] = @ - 1]
  /\ dpc' = [dpc EXCEPT ![c] = IF c \in late THEN "finished" ELSE "redeemed"]
  /\ UNCHANGED <<envVars, pc, route, sent, late, chFull, done, back, live>>

AcceptOk(c) ==
  /\ GotoData(c, "redeemed", "accepted")
  /\ back' = [back EXCEPT ![c] = "open"]
  /\ UNCHANGED <<envVars, pc, route, idPending, sent, late, chFull, done,
                 pending, live>>

AcceptFail(c) ==
  /\ GotoData(c, "redeemed", "finished")
  /\ UNCHANGED <<envVars, pc, route, idPending, sent, late, chFull, done, back,
                 pending, live>>

\* The data goroutine closes its own connection and returns.
CloseAndReturn(c, from) ==
  /\ GotoData(c, from, "finished")
  /\ back' = [back EXCEPT ![c] = "closed"]
  /\ UNCHANGED <<envVars, pc, route, idPending, sent, late, chFull, done,
                 pending, live>>

\* The non-blocking look at Done before the delivery.
CheckDone(c) ==
  IF c \in done
    THEN CloseAndReturn(c, "accepted")
    ELSE /\ GotoData(c, "accepted", "checked")
         /\ UNCHANGED <<envVars, pc, route, idPending, sent, late, chFull, done,
                        back, pending, live>>

\* The blocking select between Deliver and Done: either ready case may win.
Deliver(c) ==
  /\ GotoData(c, "checked", "parked")
  /\ c \notin chFull
  /\ chFull' = chFull \cup {c}
  /\ UNCHANGED <<envVars, pc, route, idPending, sent, late, done, back,
                 pending, live>>

SeeDone(c) ==
  /\ c \in done
  /\ CloseAndReturn(c, "checked")

MutHandlerReturn(c) ==
  /\ GotoData(c, "parked", "finished")
  /\ back' = [back EXCEPT ![c] = "closed"]
  /\ UNCHANGED <<envVars, pc, route, idPending, sent, late, chFull, done,
                 pending, live>>

\* <-conn.done: the handler outlives the connection it accepted.
HandlerReturn(c) ==
  /\ back[c] = "closed"
  /\ GotoData(c, "parked", "finished")
  /\ UNCHANGED <<envVars, pc, route, idPending, sent, late, chFull, done, back,
                 pending, live>>

-----------------------------------------------------------------------------
\* Both goroutines of a slot are gone: the next public connection uses it.
Reuse(c) ==
  /\ Goto(c, "closed", "idle")
  /\ dpc[c] \in {"none", "finished"}
  /\ route' = [route EXCEPT ![c] = None]
  /\ sent' = sent \ {c}
  /\ late' = late \ {c}
  /\ done' = done \ {c}
  /\ dpc' = [dpc EXCEPT ![c] = "none"]
  /\ back' = [back EXCEPT ![c] = "none"]
  /\ UNCHANGED <<envVars, idPending, chFull, pending, live>>

Public(c) ==
  \/ \E t \in Tenants \cup {None}, h \in Hosts : Resolve(c, t, h)
  \/ OpenMint(c) \/ PushSend(c) \/ PushOk(c) \/ PushFail(c)
  \/ OpenReceive(c) \/ OpenAccount(c)
  \/ AbandonCancel(c) \/ AbandonDrain(c) \/ AbandonSignal(c)
  \/ DialStart(c) \/ DialOk(c) \/ DialFail(c)
  \/ SpliceEnd(c) \/ Release(c)

Data(c) ==
  \/ Redeem(c) \/ AcceptOk(c) \/ AcceptFail(c) \/ CheckDone(c)
  \/ Deliver(c) \/ SeeDone(c) \/ HandlerReturn(c)

Next ==
  \/ \E t \in Tenants : AgentChanges(t)
  \/ \E h \in Hosts : DiscoveryChanges(h)
  \/ \E c \in Conns : Public(c) \/ Data(c) \/ Expire(c) \/ Reuse(c)

\* The runtime schedules every runnable goroutine, the push and the dial have
\* a deadline, and the timer of Open fires. Nothing makes a client arrive, a
\* splice end, an agent dial back, or a clock pass at a given moment.
OpenStep(c) ==
  \/ OpenMint(c) \/ PushOk(c) \/ PushFail(c) \/ OpenReceive(c)
  \/ OpenAccount(c) \/ AbandonCancel(c) \/ AbandonDrain(c) \/ AbandonSignal(c)
  \/ DialStart(c) \/ DialOk(c) \/ DialFail(c) \/ Release(c)

Fairness ==
  \A c \in Conns :
    /\ WF_vars(OpenStep(c))
    /\ WF_vars(AcceptOk(c) \/ AcceptFail(c) \/ CheckDone(c) \/ Deliver(c)
                 \/ SeeDone(c) \/ HandlerReturn(c))

Spec == Init /\ [][Next]_vars /\ Fairness

-----------------------------------------------------------------------------
(* Properties.                                                             *)

TypeOK ==
  /\ agentUp \in [Tenants -> BOOLEAN]
  /\ discovered \in [Hosts -> BOOLEAN]
  /\ pc \in [Conns -> PublicPoints]
  /\ route \in [Conns -> Routes \cup {None}]
  /\ idPending \in SUBSET Conns
  /\ sent \in SUBSET Conns
  /\ late \in SUBSET Conns
  /\ dpc \in [Conns -> DataPoints]
  /\ chFull \in SUBSET Conns
  /\ done \in SUBSET Conns
  /\ back \in [Conns -> {"none", "open", "closed"}]
  /\ pending \in [Routes -> Nat]
  /\ live \in [Routes -> Nat]

\* The connections a route's pending counter stands for: conn_ids nobody
\* redeemed or cancelled, and Kubernetes dials in flight.
PendingOn(r) == {c \in Conns : route[c] = r /\ (c \in idPending \/ pc[c] = "dialing")}

\* The connections a route's live counter stands for.
LiveOn(r) == {c \in Conns : route[c] = r /\ pc[c] \in {"live", "closing"}}

\* Every pending and every live slot that Open, Redeem, cancelPending,
\* OpenSNI and Release account is given back exactly once, however a
\* redemption, a failed push, a timeout and an expiry race: the two counters
\* of a tenant always equal the connections they stand for.
CountersExact ==
  \A r \in Routes : /\ pending[r] = Cardinality(PendingOn(r))
                    /\ live[r] = Cardinality(LiveOn(r))

\* max_pending_per_server holds for every route, and a discovered Service,
\* whose dial and accounting share one critical section of OpenSNI, never has
\* more than max_conns_per_server connections being dialed or spliced.
LimitsHold ==
  /\ \A r \in Routes : Cardinality(PendingOn(r)) <= MaxPending
  /\ \A h \in Hosts : Cardinality(PendingOn(h) \cup LiveOn(h)) <= MaxConns

\* Both: the accounting of Open, Redeem and Release is exact, no counter goes
\* below zero, and the limits it enforces hold.
SlotsAccounted == TypeOK /\ CountersExact /\ LimitsHold

\* What the public goroutine splices is an open connection whose HTTP handler
\* is still parked in handleData: handleData returning under a live
\* WebSocket-backed connection is what handoffConn exists to prevent.
SplicedConnIsHeld ==
  \A c \in Conns : pc[c] \in {"got", "live"} =>
    /\ back[c] = "open"
    /\ route[c] \in Tenants => dpc[c] = "parked"

\* Every Open and every Kubernetes dial ends: once a route is resolved the
\* public goroutine reaches a splice or gives up, whatever the agent does.
OpenTerminates ==
  \A c \in Conns : pc[c] = "resolved" ~> pc[c] \in {"live", "closed"}

\* A handler never outlives its use: once dispatch has closed the spliced
\* connection, and when handleData first looks at an Open that has already
\* given up, the HTTP handler of the dial-back returns.
HandlersReturn ==
  \A c \in Conns :
    (pc[c] = "closing" \/ (c \in done /\ dpc[c] = "accepted"))
      ~> dpc[c] \in {"none", "finished"}

\* Nobody waits for ever: neither the public goroutine nor the handler.
EverybodyReturns == OpenTerminates /\ HandlersReturn

\* What the comment in handleData claims of the two looks at Done: once Open
\* has given up, no connection stays behind in the handoff channel.
NothingDeliveredToAbandonedOpen == done \cap chFull = {}
=============================================================================
