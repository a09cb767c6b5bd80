-------------------------- MODULE UDPRelaySessions --------------------------
(***************************************************************************)
(* The relay's UDP tier: a table of TURN-style sessions, each with a token *)
(* and a pooled server-leg port, and the goroutines that read the sockets  *)
(* (pkg/relay: udpsession.go, udpforward.go).                              *)
(*                                                                         *)
(* One goroutine reads the shared client-facing socket and one reads each  *)
(* pooled port. They look a session up under the table lock, let go of it, *)
(* read the session's legs under the session's own lock, and write: in     *)
(* between the control connections and the idle sweep allocate and release *)
(* sessions, and a port that is released serves the next session.          *)
(*                                                                         *)
(* A session's token and its object are one model value. Datagram contents *)
(* and traffic counters are left out.                                      *)
(***************************************************************************)
EXTENDS Integers, FiniteSets

CONSTANTS
  Sessions,       \* session objects; each is also its token
  Tenants,
  Ports,          \* the pooled server-leg ports
  Addrs,          \* source addresses of datagrams, on either leg
  None,
  MaxPerTenant    \* limits.max_udp_relay_sessions_per_server

ASSUME NoneIsNothing == None \notin Sessions \cup Tenants \cup Ports \cup Addrs
ASSUME FiniteTable   == IsFiniteSet(Sessions)
ASSUME TenantLimit   == MaxPerTenant \in Nat \ {0}

VARIABLES
  tokens,       \* the domain of byToken: the live sessions
  byPort,       \* port -> session
  byClient,     \* client address -> session
  tenantN,      \* tenant -> number of sessions
  free,         \* port -> how often it is on the allocator's free list
  inUse,        \* the allocator's ports in use
  failed,       \* ports whose read loop stopped
  tenant,       \* session -> its tenant
  port,         \* session -> its server-leg port
  serverAddr,   \* session -> locked server address; None: leg not bound
  clientAddr,   \* session -> locked client address; None: leg not bound
  activity,     \* session -> lastActivity, as the idle sweep sees it
  cl,           \* the goroutine of the client-facing socket
  sl            \* port -> the goroutine of that pooled socket

tableVars   == <<tokens, byPort, byClient, tenantN>>
allocVars   == <<free, inUse, failed>>
sessionVars == <<tenant, port, serverAddr, clientAddr, activity>>
readerVars  == <<cl, sl>>
vars        == <<tableVars, allocVars, sessionVars, readerVars>>

Idle == [at |-> "idle", sess |-> None, from |-> None, dst |-> None]

Readers == [at : {"idle", "looked", "writing", "acking"}, sess : Sessions \cup {None},
            from : Addrs \cup {None}, dst : Addrs \cup {None}]

Init ==
  /\ tokens = {}
  /\ byPort = [p \in Ports |-> None]
  /\ byClient = [a \in Addrs |-> None]
  /\ tenantN = [t \in Tenants |-> 0]
  /\ free = [p \in Ports |-> 1]
  /\ inUse = {}
  /\ failed = {}
  /\ tenant = [s \in Sessions |-> None]
  /\ port = [s \in Sessions |-> None]
  /\ serverAddr = [s \in Sessions |-> None]
  /\ clientAddr = [s \in Sessions |-> None]
  /\ activity = [s \in Sessions |-> "dead"]
  /\ cl = Idle
  /\ sl = [p \in Ports |-> Idle]

-----------------------------------------------------------------------------
(* The session table, under its lock.                                      *)

\* A fresh object: nothing in the program refers to it any more.
Unreferenced(s) ==
  /\ s \notin tokens
  /\ cl.sess # s
  /\ \A p \in Ports : sl[p].sess # s

\* Allocate, and portAllocator.allocate below it. A tenant at its limit and
\* an exhausted pool are refused and change nothing.
Allocate(t, s, p) ==
  /\ tenantN[t] < MaxPerTenant
  /\ free[p] > 0
  /\ Unreferenced(s)
  /\ free' = [free EXCEPT ![p] = @ - 1]
  /\ inUse' = inUse \cup {p}
  /\ tokens' = tokens \cup {s}
  /\ byPort' = [byPort EXCEPT ![p] = s]
  /\ tenantN' = [tenantN EXCEPT ![t] = @ + 1]
  /\ tenant' = [tenant EXCEPT ![s] = t]
  /\ port' = [port EXCEPT ![s] = p]
  /\ activity' = [activity EXCEPT ![s] = "recent"]
  /\ UNCHANGED <<byClient, failed, serverAddr, clientAddr, readerVars>>

\* releaseLocked without the allocator: the session leaves every index, its
\* legs are unbound and its activity says it is gone.
MutForget(s) ==
  /\ tokens' = tokens \ {s}
  /\ byPort' = [byPort EXCEPT ![port[s]] = None]
  /\ tenantN' = [tenantN EXCEPT ![tenant[s]] = @ - 1]
  /\ byClient' = IF clientAddr[s] # None /\ byClient[clientAddr[s]] = s
                   THEN [byClient EXCEPT ![clientAddr[s]] = None] ELSE byClient
  /\ activity' = [activity EXCEPT ![s] = "dead"]
  /\ UNCHANGED <<tenant, port, readerVars, serverAddr, clientAddr>>

Forget(s) ==
  /\ tokens' = tokens \ {s}
  /\ byPort' = [byPort EXCEPT ![port[s]] = None]
  /\ tenantN' = [tenantN EXCEPT ![tenant[s]] = @ - 1]
  /\ byClient' = IF clientAddr[s] # None /\ byClient[clientAddr[s]] = s
                   THEN [byClient EXCEPT ![clientAddr[s]] = None] ELSE byClient
  /\ serverAddr' = [serverAddr EXCEPT ![s] = None]
  /\ clientAddr' = [clientAddr EXCEPT ![s] = None]
  /\ activity' = [activity EXCEPT ![s] = "dead"]
  /\ UNCHANGED <<tenant, port, readerVars>>

\* portAllocator.release: a port that is not in use is left alone.
ReleasePort(p) ==
  /\ inUse' = inUse \ {p}
  /\ free' = IF p \in inUse THEN [free EXCEPT ![p] = @ + 1] ELSE free

\* Release by the server's control connection; an unknown token is a no-op.
Release(s) ==
  /\ s \in tokens
  /\ Forget(s)
  /\ ReleasePort(port[s])
  /\ UNCHANGED failed

\* One iteration of sweepOnce: a session nobody touched is claimed with a
\* compare-and-swap and released.
MutSweep(s) ==
  /\ s \in tokens
  /\ activity[s] = "idle"
  /\ clientAddr[s] # None
  /\ Forget(s)
  /\ ReleasePort(port[s])
  /\ UNCHANGED failed

Sweep(s) ==
  /\ s \in tokens
  /\ activity[s] = "idle"
  /\ Forget(s)
  /\ ReleasePort(port[s])
  /\ UNCHANGED failed

MutDisablePort(p) ==
  /\ p \notin failed
  /\ sl[p] = Idle
  /\ failed' = failed \cup {p}
  /\ inUse' = inUse \ {p}
  /\ free' = [free EXCEPT ![p] = @ - 1]
  /\ IF byPort[p] # None
       THEN Forget(byPort[p])
       ELSE UNCHANGED <<tableVars, sessionVars, readerVars>>

\* A release that does not look at inUse hands the failed port back.
\* disablePort, by the read loop that stopped: portAllocator.disable first,
\* then releaseLocked, which finds the port not in use. The loop was reading.
DisablePort(p) ==
  /\ p \notin failed
  /\ sl[p] = Idle
  /\ failed' = failed \cup {p}
  /\ inUse' = inUse \ {p}
  /\ free' = [free EXCEPT ![p] = IF @ > 0 THEN @ - 1 ELSE 0]
  /\ IF byPort[p] # None
       THEN Forget(byPort[p])
       ELSE UNCHANGED <<tableVars, sessionVars, readerVars>>

\* Time passes without a touch.
GrowIdle(s) ==
  /\ activity[s] = "recent"
  /\ activity' = [activity EXCEPT ![s] = "idle"]
  /\ UNCHANGED <<tableVars, allocVars, tenant, port, serverAddr, clientAddr, readerVars>>

\* touch never revives a released session.
Touched(s) ==
  [activity EXCEPT ![s] = IF @ = "dead" THEN "dead" ELSE "recent"]

-----------------------------------------------------------------------------
(* The goroutine of the client-facing socket.                              *)

\* A bind frame for s from a: BindClient moves the client index.
MutClientBind(s, a) ==
  /\ cl = Idle
  /\ s \in tokens
  /\ clientAddr' = [clientAddr EXCEPT ![s] = a]
  /\ byClient' = [byClient EXCEPT ![a] = s]
  /\ activity' = Touched(s)
  /\ UNCHANGED <<tokens, byPort, tenantN, allocVars, tenant, port, serverAddr, readerVars>>

ClientBind(s, a) ==
  /\ cl = Idle
  /\ s \in tokens
  /\ clientAddr' = [clientAddr EXCEPT ![s] = a]
  /\ byClient' = [b \in Addrs |->
                    IF b = a THEN s
                    ELSE IF b = clientAddr[s] /\ byClient[b] = s THEN None
                    ELSE byClient[b]]
  /\ activity' = Touched(s)
  /\ UNCHANGED <<tokens, byPort, tenantN, allocVars, tenant, port, serverAddr, readerVars>>

\* Any other datagram from a: LookupByClientAddr ...
ClientLookup(a) ==
  /\ cl = Idle
  /\ byClient[a] # None
  /\ cl' = [Idle EXCEPT !.at = "looked", !.sess = byClient[a], !.from = a]
  /\ UNCHANGED <<tableVars, allocVars, sessionVars, sl>>

\* ... then the legs: a session whose server leg is not bound drops it ...
ClientLegs ==
  /\ cl.at = "looked"
  /\ cl' = IF serverAddr[cl.sess] = None THEN Idle
           ELSE [cl EXCEPT !.at = "writing", !.dst = serverAddr[cl.sess]]
  /\ UNCHANGED <<tableVars, allocVars, sessionVars, sl>>

\* ... then touch and the write.
ClientWrite ==
  /\ cl.at = "writing"
  /\ activity' = Touched(cl.sess)
  /\ cl' = Idle
  /\ UNCHANGED <<tableVars, allocVars, tenant, port, serverAddr, clientAddr, sl>>

-----------------------------------------------------------------------------
(* The goroutine of a pooled port.                                         *)

ServerLookup(p, a) ==
  /\ p \notin failed
  /\ sl[p] = Idle
  /\ byPort[p] # None
  /\ sl' = [sl EXCEPT ![p] = [Idle EXCEPT !.at = "looked", !.sess = byPort[p], !.from = a]]
  /\ UNCHANGED <<tableVars, allocVars, sessionVars, cl>>

\* A bind frame with the session's token: BindServer finds the session by its
\* token again, and the ack follows whatever it answered.
ServerBind(p) ==
  /\ sl[p].at = "looked"
  /\ sl' = [sl EXCEPT ![p].at = "acking"]
  /\ IF sl[p].sess \in tokens
       THEN /\ serverAddr' = [serverAddr EXCEPT ![sl[p].sess] = sl[p].from]
            /\ activity' = Touched(sl[p].sess)
       ELSE UNCHANGED <<serverAddr, activity>>
  /\ UNCHANGED <<tableVars, allocVars, tenant, port, clientAddr, cl>>

ServerAck(p) ==
  /\ sl[p].at = "acking"
  /\ sl' = [sl EXCEPT ![p] = Idle]
  /\ UNCHANGED <<tableVars, allocVars, sessionVars, cl>>

\* A bind frame with another token, a control frame of another kind or a
\* malformed datagram is dropped.
ServerDrop(p) ==
  /\ sl[p].at = "looked"
  /\ sl' = [sl EXCEPT ![p] = Idle]
  /\ UNCHANGED <<tableVars, allocVars, sessionVars, cl>>

\* Any other datagram: only from the locked server address, to a bound client.
ServerLegs(p) ==
  /\ sl[p].at = "looked"
  /\ LET s == sl[p].sess IN
     sl' = [sl EXCEPT ![p] =
              IF serverAddr[s] = sl[p].from /\ clientAddr[s] # None
                THEN [@ EXCEPT !.at = "writing", !.dst = clientAddr[s]] ELSE Idle]
  /\ UNCHANGED <<tableVars, allocVars, sessionVars, cl>>

ServerWrite(p) ==
  /\ sl[p].at = "writing"
  /\ activity' = Touched(sl[p].sess)
  /\ sl' = [sl EXCEPT ![p] = Idle]
  /\ UNCHANGED <<tableVars, allocVars, tenant, port, serverAddr, clientAddr, cl>>

-----------------------------------------------------------------------------
Table ==
  \/ \E t \in Tenants, s \in Sessions, p \in Ports : Allocate(t, s, p)
  \/ \E s \in Sessions : Release(s) \/ Sweep(s) \/ GrowIdle(s)
  \/ \E p \in Ports : DisablePort(p)

ClientLeg ==
  \/ \E s \in Sessions, a \in Addrs : ClientBind(s, a)
  \/ \E a \in Addrs : ClientLookup(a)
  \/ ClientLegs \/ ClientWrite

ServerLeg(p) ==
  \/ \E a \in Addrs : ServerLookup(p, a)
  \/ ServerBind(p) \/ ServerAck(p) \/ ServerDrop(p) \/ ServerLegs(p) \/ ServerWrite(p)

Next == Table \/ ClientLeg \/ \E p \in Ports : ServerLeg(p)

\* runIdleSweep ticks for as long as the relay runs.
Fairness == \A s \in Sessions : WF_vars(Sweep(s))

Spec == Init /\ [][Next]_vars /\ Fairness

-----------------------------------------------------------------------------
(* Properties.                                                             *)

TypeOK ==
  /\ tokens \in SUBSET Sessions
  /\ byPort \in [Ports -> Sessions \cup {None}]
  /\ byClient \in [Addrs -> Sessions \cup {None}]
  /\ tenantN \in [Tenants -> Nat]
  /\ free \in [Ports -> Nat]
  /\ inUse \in SUBSET Ports
  /\ failed \in SUBSET Ports
  /\ tenant \in [Sessions -> Tenants \cup {None}]
  /\ port \in [Sessions -> Ports \cup {None}]
  /\ serverAddr \in [Sessions -> Addrs \cup {None}]
  /\ clientAddr \in [Sessions -> Addrs \cup {None}]
  /\ activity \in [Sessions -> {"recent", "idle", "dead"}]
  /\ cl \in Readers
  /\ sl \in [Ports -> Readers]

\* A pooled port belongs to exactly one place: the free list, once; one live
\* session, found under it by sessionForPort; or, once its read loop has
\* stopped, nowhere. Two sessions on a port would be one WireGuard endpoint.
PortsPartitioned ==
  /\ \A p \in Ports :
       free[p] = IF p \in inUse \cup failed THEN 0 ELSE 1
  /\ inUse \cap failed = {}
  /\ inUse = {port[s] : s \in tokens}
  /\ \A p \in Ports, s \in Sessions : byPort[p] = s <=> s \in tokens /\ port[s] = p

OfTenant(t) == {s \in tokens : tenant[s] = t}

\* A tenant's session count is exact, and within its limit, whichever of
\* Release, the idle sweep and a failed port gets to a session first.
TenantCountsExact ==
  \A t \in Tenants : /\ tenantN[t] = Cardinality(OfTenant(t))
                     /\ tenantN[t] <= MaxPerTenant

\* "A NAT reusing a freed external port for a different client must never hit
\* a stale byClient mapping": what the client index finds is live and locked
\* to the very address it was found under.
ClientIndexSound ==
  \A a \in Addrs : byClient[a] # None =>
    byClient[a] \in tokens /\ clientAddr[byClient[a]] = a

\* The port allocator, the tenant counts and the two indices agree with the
\* sessions there are.
TablesAgree == TypeOK /\ PortsPartitioned /\ TenantCountsExact /\ ClientIndexSound

\* The permission model of datagramRelay: a datagram is forwarded only between
\* two addresses that are, when the legs are read, locked to the two legs of
\* one live session, although that session was looked up earlier.
ForwardOnlyBetweenBound ==
  [][ /\ (cl.at = "looked" /\ cl'.at = "writing") =>
           /\ cl.sess \in tokens
           /\ clientAddr[cl.sess] = cl.from
           /\ serverAddr[cl.sess] = cl'.dst
      /\ \A p \in Ports : (sl[p].at = "looked" /\ sl'[p].at = "writing") =>
           /\ sl[p].sess \in tokens /\ port[sl[p].sess] = p
           /\ serverAddr[sl[p].sess] = sl[p].from
           /\ clientAddr[sl[p].sess] = sl'[p].dst ]_vars

\* Sessions do not pile up: a session that no bind, keepalive or datagram
\* touches any more is released, so its port serves again.
IdleSessionsReclaimed ==
  \A s \in Sessions : activity[s] = "idle" ~> activity[s] # "idle"
=============================================================================
