--------------------------- MODULE DataPath_proofs ---------------------------
(***************************************************************************)
(* Proofs about the data path and starting up.  The parts share no state,  *)
(* so each has an inductive invariant of its own.                          *)
(***************************************************************************)
EXTENDS DataPath, FiniteSetTheorems, TLAPS

-----------------------------------------------------------------------------
(* The MASQUE gateway.                                                     *)

\* A request under way is of the connection, and what it was told stands as
\* long as nothing disturbed it.
ConfInv ==
  /\ request = [at |-> request.at, tunnel |-> request.tunnel, config |-> request.config,
                undisturbed |-> request.undisturbed]
  /\ request.at /= "idle" => link /= None
  /\ request.at /= "idle" /\ request.undisturbed =>
       session /= None /\ session.id = link /\ request.tunnel \in session.tunnels
  /\ request.at = "dial" /\ request.undisturbed =>
       Conf!Fixed(request.tunnel) /\ request.config = running.tunnels[request.tunnel]

\* A new session, an end of one or a new configuration.
LEMMA DisturbedStep ==
  ASSUME ConfInv, Conf!Disturbs, UNCHANGED link PROVE ConfInv'
<1>1. CASE request.at = "idle"
  BY <1>1 DEF ConfInv, Conf!Disturbs
<1>2. CASE request.at /= "idle"
  <2>1. request' = [request EXCEPT !.undisturbed = FALSE]
    BY <1>2 DEF Conf!Disturbs
  <2>2. request' = [at |-> request.at, tunnel |-> request.tunnel, config |-> request.config,
                    undisturbed |-> FALSE]
    BY <2>1 DEF ConfInv
  <2> QED BY <1>2, <2>2 DEF ConfInv
<1> QED BY <1>1, <1>2

LEMMA ConfStep == ConfInv /\ [Conf!Next]_(Conf!cfgVars) => ConfInv'
<1> SUFFICES ASSUME ConfInv, [Conf!Next]_(Conf!cfgVars) PROVE ConfInv'
  OBVIOUS
<1> USE DEF Conf!masqueVars
<1>1. ASSUME NEW c \in Files, Conf!Reload(c) PROVE ConfInv'
  BY <1>1, DisturbedStep DEF Conf!Reload
<1>2. CASE Conf!Login \/ Conf!Renew \/ Conf!Logout
  BY <1>2, DisturbedStep DEF Conf!Login, Conf!Renew, Conf!Logout
<1>3. CASE Conf!MasqueCertificate \/ Conf!CertificateExpires
  BY <1>3 DEF ConfInv, Conf!MasqueCertificate, Conf!CertificateExpires, Conf!Fixed
<1>4. CASE Conf!MasqueHandshake
  BY <1>4 DEF ConfInv, Conf!MasqueHandshake, Conf!Fixed
<1>5. CASE \/ \E c \in Files : Conf!Start(c)
           \/ Conf!LinkEnds \/ Conf!MasqueRefuses \/ \E ok \in BOOLEAN : Conf!MasqueDialled(ok)
  <2>1. request' = [at |-> "idle", tunnel |-> None, config |-> None, undisturbed |-> TRUE]
    BY <1>5 DEF Conf!Start, Conf!LinkEnds, Conf!MasqueRefuses, Conf!MasqueDialled, Conf!NoRequest
  <2> QED BY <2>1 DEF ConfInv
<1>6. ASSUME NEW d \in Domains, Conf!MasqueConnect(d) PROVE ConfInv'
  <2>1. /\ request' = [at |-> "granted", tunnel |-> gateway[d], config |-> None, undisturbed |-> TRUE]
        /\ link /= None /\ session /= None /\ session.id = link /\ gateway[d] \in session.tunnels
        /\ UNCHANGED <<session, link>>
    BY <1>6 DEF Conf!MasqueConnect, Conf!NoRequest
  <2> QED BY <2>1 DEF ConfInv
<1>7. CASE Conf!MasqueLooksUp
  <2>1. /\ request.at = "granted" /\ Conf!Fixed(request.tunnel)
        /\ request' = [request EXCEPT !.at = "dial", !.config = running.tunnels[request.tunnel]]
        /\ UNCHANGED <<running, session, link>>
    BY <1>7 DEF Conf!MasqueLooksUp
  <2>2. request' = [at |-> "dial", tunnel |-> request.tunnel,
                    config |-> running.tunnels[request.tunnel], undisturbed |-> request.undisturbed]
    BY <2>1 DEF ConfInv
  <2> QED BY <2>1, <2>2 DEF ConfInv, Conf!Fixed
<1>8. ASSUME NEW t \in Tunnels, Conf!StreamEnds(t) PROVE ConfInv'
  BY <1>8 DEF ConfInv, Conf!StreamEnds, Conf!Fixed
<1>9. CASE UNCHANGED Conf!cfgVars
  BY <1>9 DEF ConfInv, Conf!cfgVars, Conf!Fixed
<1> QED BY <1>1, <1>2, <1>3, <1>4, <1>5, <1>6, <1>7, <1>8, <1>9 DEF Conf!Next

\* What a CONNECT dials is a fixed tunnel of the configuration in force, as it
\* is configured there, and of the live session the certificate was made for,
\* unless one of them changed during the request (MASQUEGateway.connect, which
\* looks up the session and the tunnel without a lock across the two).
THEOREM MasqueIsSound == Conf!Spec => []Conf!MasqueSound
<1>1. Conf!Init => ConfInv
  BY DEF Conf!Init, ConfInv, Conf!NoRequest
<1>2. ConfInv => Conf!MasqueSound
  BY DEF ConfInv, Conf!MasqueSound
<1> QED BY <1>1, <1>2, ConfStep, PTL DEF Conf!Spec

-----------------------------------------------------------------------------
(* The SOCKS session.  The request stays what it was, and every way to a   *)
(* socket passes the filter, and the policy of the moment.                 *)
Permitted(f, a) ==
  /\ a \in Floor => f.allowLocal
  /\ f.onlyLocal => a \in Private
  /\ f.cidrs \cup f.asns /= {} \/ f.domains \/ f.invert \/ f.allowAll \/ f.onlyLocal

LEMMA AllowedPermits ==
  ASSUME NEW f \in Socks!Filter, NEW h, NEW a, Socks!Allowed(f, h, a)
  PROVE  Permitted(f, a)
BY DEF Socks!Allowed, Socks!HasFilters, Permitted

SocksInv ==
  /\ filter \in Socks!Filter /\ version \in {4, 5}
  /\ \A r \in reached : r[2] \in r[3] /\ Permitted(filter, r[2])
  /\ answers # {} => proxy = "udp"
  /\ proxy = "done" => sockets = {}
  /\ client = "closed" => local = {}
  /\ req.cmd = "udp" => version = 5
  /\ req.cmd /= "none" => req = [cmd |-> req.cmd, host |-> req.host, ip |-> req.ip, answer |-> req.answer]
                          /\ req.answer \in {"none", "granted", "failed"}
  /\ IF client = "dial" THEN req = [cmd |-> "none"] /\ heard = "nothing" /\ proxy = "hello"
     ELSE req.cmd /= "none"
  /\ req.cmd = "udp" /\ heard /= "nothing" => heard \in {"failed", "loopback"}
  /\ heard = "loopback" /\ client = "udp" => local = {"pc", "uc"}

LEMMA SocksInit == Socks!Init => SocksInv
BY FiltersAssumption DEF Socks!Init, SocksInv

LEMMA RequestStep ==
  ASSUME SocksInv, NEW c \in Socks!Commands, NEW h, NEW a, Socks!Request(c, h, a)
  PROVE  SocksInv'
BY DEF SocksInv, Socks!Request, Socks!Commands

LEMMA ConnectStep ==
  ASSUME SocksInv, NEW a, NEW d, Socks!Connect(a, d)
  PROVE  SocksInv'
<1>1. /\ UNCHANGED <<filter, answers, client, local, heard, version>>
      /\ req.cmd = "connect" /\ proxy = "hello" /\ proxy' \in {"open", "done"}
      /\ proxy' = "done" => sockets' = {}
      /\ \E w \in {"granted", "failed"} : req' = [req EXCEPT !.answer = w]
  BY DEF Socks!Connect, Socks!Fails
<1>2. \A r \in reached' : r[2] \in r[3] /\ Permitted(filter, r[2])
  <2>1. CASE reached' = reached
    BY <2>1 DEF SocksInv
  <2>2. CASE Socks!Granted(req.host, a) /\ reached' = reached \cup {<<req.host, a, policy>>}
    BY <2>2, AllowedPermits DEF SocksInv, Socks!Granted
  <2> QED BY <2>1, <2>2 DEF Socks!Connect
<1> QED BY <1>1, <1>2 DEF SocksInv

LEMMA OtherRequestsStep ==
  ASSUME SocksInv, NEW a, NEW b,
         Socks!Bind(a, b) \/ Socks!AcceptBind(b) \/ Socks!Associate(b) \/ Socks!Unsupported
  PROVE  SocksInv'
<1>1. /\ UNCHANGED <<filter, version, answers, client, local, heard, reached>>
      /\ proxy' \in {"bound", "open", "udp", "done"} /\ proxy /= "udp"
      /\ proxy' = "done" => sockets' = {}
      /\ req' = req \/ \E w \in {"granted", "failed"} : req' = [req EXCEPT !.answer = w]
  BY DEF Socks!Bind, Socks!AcceptBind, Socks!Associate, Socks!Unsupported, Socks!Fails
<1>2. client /= "dial"
  BY DEF SocksInv, Socks!Bind, Socks!AcceptBind, Socks!Associate, Socks!Unsupported
<1> QED BY <1>1, <1>2 DEF SocksInv

LEMMA DatagramStep ==
  ASSUME SocksInv, NEW h, NEW a, Socks!Datagram(h, a)
  PROVE  SocksInv'
<1>1. /\ UNCHANGED <<filter, version, req, proxy, sockets, client, local, heard>>
      /\ proxy = "udp" /\ Socks!Granted(h, a) /\ reached' = reached \cup {<<h, a, policy>>}
  BY DEF Socks!Datagram
<1>2. \A r \in reached' : r[2] \in r[3] /\ Permitted(filter, r[2])
  BY <1>1, AllowedPermits DEF SocksInv, Socks!Granted
<1> QED BY <1>1, <1>2 DEF SocksInv

LEMMA SocksStep == SocksInv /\ [Socks!Next]_(Socks!socksVars) => SocksInv'
<1> SUFFICES ASSUME SocksInv, [Socks!Next]_(Socks!socksVars) PROVE SocksInv'
  OBVIOUS
<1>1. ASSUME NEW a \in Addresses, Socks!FlowEnds(a) PROVE SocksInv'
  BY <1>1 DEF SocksInv, Socks!FlowEnds
<1>2. CASE Socks!ProxyEnds
  BY <1>2 DEF SocksInv, Socks!ProxyEnds
<1>3. CASE Socks!Passes
  BY <1>3 DEF SocksInv, Socks!Passes
<1>4. ASSUME NEW b \in BOOLEAN, Socks!Relays(b) PROVE SocksInv'
  BY <1>4 DEF SocksInv, Socks!Relays
<1>5. CASE Socks!ClientEnds
  BY <1>5 DEF SocksInv, Socks!ClientEnds
<1>6. CASE Socks!PolicyChanges({}) \/ Socks!PolicyChanges(Private)
  BY <1>6 DEF SocksInv, Socks!PolicyChanges
<1>7. CASE UNCHANGED Socks!socksVars
  BY <1>7 DEF SocksInv, Socks!socksVars
<1> QED
  BY <1>1, <1>2, <1>3, <1>4, <1>5, <1>6, <1>7, RequestStep, ConnectStep, OtherRequestsStep,
     DatagramStep DEF Socks!Next

\* Every connection the proxy dials is allowed by the filter and by the policy
\* when it is asked, and a session that ended holds nothing (Filter.Allowed,
\* ServeConn, proxySocksUDP and forwardSocksUDPAssociateOn).
THEOREM SocksIsSound == Socks!Spec => []Socks!SocksSound
<1>1. SocksInv => Socks!SocksSound
  BY DEF SocksInv, Permitted, Socks!SocksSound, Socks!Contained, Socks!SocksReleased
<1> QED BY <1>1, SocksInit, SocksStep, PTL DEF Socks!Spec

-----------------------------------------------------------------------------
(* The DNS server.  A query carries the grants it was identified with, and *)
(* has a slot while it is forwarded.                                       *)
Forwarded == {q \in Queries : query[q].at \in {"forward", "return"}}

DnsInv ==
  /\ leaked = FALSE
  /\ DOMAIN query = Queries /\ DOMAIN told = Queries /\ DOMAIN known = Queries
  /\ \A q \in Queries :
       /\ told[q] \subseteq known[q]
       /\ query[q].at = "asked" => told[q] = {}
                                   /\ query[q] = [at |-> "asked", from |-> query[q].from, qs |-> query[q].qs]
       /\ query[q].at \in {"known", "answer"} =>
            query[q] = [at |-> query[q].at, from |-> query[q].from, qs |-> query[q].qs, may |-> known[q]]
       /\ query[q].at = "forward" =>
            query[q] = [at |-> "forward", from |-> query[q].from, i |-> query[q].i]
  /\ slots = Cardinality(Forwarded) /\ slots <= Slots

LEMMA DnsCardinality == \A S : Dns!Cardinality(S) = Cardinality(S)
BY DEF Dns!Cardinality, Cardinality

LEMMA ForwardedFinite == IsFiniteSet(Forwarded) /\ Cardinality(Forwarded) \in Nat
BY DnsAssumption, FS_Subset, FS_CardinalityType DEF Forwarded

\* Nobody gets or gives back a slot.
LEMMA SameForwarded ==
  ASSUME NEW q \in Queries, DOMAIN query = Queries, NEW x, query' = [query EXCEPT ![q] = x],
         query[q].at \in {"forward", "return"} <=> x.at \in {"forward", "return"}
  PROVE  Forwarded' = Forwarded
BY DEF Forwarded

LEMMA ReadStep ==
  ASSUME DnsInv, NEW q \in Queries, NEW a, NEW qs, Dns!Read(q, a, qs)
  PROVE  DnsInv'
<1>1. Forwarded' = Forwarded
  BY DEF Dns!Read, DnsInv, Dns!Idle, Forwarded
<1> QED BY <1>1 DEF Dns!Read, DnsInv

LEMMA IdentifyStep ==
  ASSUME DnsInv, NEW q \in Queries, Dns!Identify(q)
  PROVE  DnsInv'
<1>1. PICK x : /\ query' = [query EXCEPT ![q] = x]
               /\ x = Dns!Idle \/ x = [at |-> "known", from |-> query[q].from, qs |-> query[q].qs,
                                       may |-> known'[q]]
  BY DEF Dns!Identify, DnsInv
<1>2. Forwarded' = Forwarded
  <2>1. query[q].at = "asked" /\ x.at \in {"idle", "known"} /\ DOMAIN query = Queries
    BY <1>1 DEF Dns!Identify, DnsInv, Dns!Idle
  <2> QED BY <1>1, <2>1, SameForwarded
<1>3. known' = [known EXCEPT ![q] = known'[q]] /\ told[q] = {}
      /\ UNCHANGED <<slots, leaked, told>>
  BY DEF Dns!Identify, DnsInv
<1> QED BY <1>1, <1>2, <1>3 DEF DnsInv, Dns!Idle

LEMMA DispatchStep ==
  ASSUME DnsInv, NEW q \in Queries, Dns!Dispatch(q)
  PROVE  DnsInv'
<1> DEFINE x == [at |-> "forward", from |-> query[q].from, i |-> 1]
<1>1. UNCHANGED <<told, known>> /\ query[q].at = "known"
  BY DEF Dns!Dispatch
<1>2. CASE query' = [query EXCEPT ![q].at = "answer"] /\ UNCHANGED <<slots, leaked>>
  <2>1. query' = [query EXCEPT ![q] = [query[q] EXCEPT !.at = "answer"]]
    BY <1>2
  <2>2. [query[q] EXCEPT !.at = "answer"].at = "answer"
    BY <1>1 DEF DnsInv
  <2>3. Forwarded' = Forwarded
    BY <1>1, <2>1, <2>2, SameForwarded DEF DnsInv
  <2> QED BY <1>1, <1>2, <2>1, <2>3 DEF DnsInv
<1>3. CASE query' = [query EXCEPT ![q] = Dns!Idle] /\ UNCHANGED <<slots, leaked>>
  <2>1. Forwarded' = Forwarded
    BY <1>1, <1>3, SameForwarded DEF DnsInv, Dns!Idle
  <2> QED BY <1>1, <1>3, <2>1 DEF DnsInv, Dns!Idle
<1>4. CASE /\ query' = [query EXCEPT ![q] = x] /\ slots' = slots + 1 /\ slots /= Slots
           /\ Dns!AllExternal(query[q].qs)
           /\ leaked' = (leaked \/ \E i \in DOMAIN query[q].qs : Dns!IsLocalDNSName(query[q].qs[i]))
  <2>1. Forwarded' = Forwarded \cup {q} /\ q \notin Forwarded
    BY <1>1, <1>4 DEF Forwarded, DnsInv
  <2>2. Cardinality(Forwarded') = Cardinality(Forwarded) + 1
    BY <2>1, ForwardedFinite, FS_AddElement
  <2>3. leaked' = FALSE
    BY <1>4 DEF Dns!AllExternal, DnsInv
  <2>4. slots' = Cardinality(Forwarded') /\ slots' <= Slots
    BY <1>4, <2>2, ForwardedFinite, DnsAssumption DEF DnsInv
  <2> QED BY <1>1, <1>4, <2>3, <2>4 DEF DnsInv
<1> QED BY <1>2, <1>3, <1>4 DEF Dns!Dispatch

LEMMA ExchangeStep ==
  ASSUME DnsInv, NEW q \in Queries, NEW good, Dns!Exchange(q, good)
  PROVE  DnsInv'
<1>1. /\ query[q] = [at |-> "forward", from |-> query[q].from, i |-> query[q].i]
      /\ UNCHANGED <<slots, leaked, told, known>>
  BY DEF Dns!Exchange, DnsInv
<1>2. PICK x : query' = [query EXCEPT ![q] = x]
               /\ (x.at = "return" \/ x = [at |-> "forward", from |-> query[q].from, i |-> x.i])
  BY <1>1 DEF Dns!Exchange
<1>3. Forwarded' = Forwarded
  <2>1. query[q].at = "forward" /\ x.at \in {"forward", "return"} /\ DOMAIN query = Queries
    BY <1>1, <1>2 DEF DnsInv
  <2> QED BY <1>2, <2>1, SameForwarded
<1> QED BY <1>1, <1>2, <1>3 DEF DnsInv

LEMMA ReturnStep ==
  ASSUME DnsInv, NEW q \in Queries, Dns!Return(q)
  PROVE  DnsInv'
<1>1. /\ query[q].at = "return" /\ query' = [query EXCEPT ![q] = Dns!Idle] /\ slots' = slots - 1
      /\ UNCHANGED <<leaked, told, known>>
  BY DEF Dns!Return
<1>2. Forwarded' = Forwarded \ {q} /\ q \in Forwarded
  BY <1>1 DEF Forwarded, DnsInv, Dns!Idle
<1>3. Cardinality(Forwarded') = Cardinality(Forwarded) - 1
  BY <1>2, ForwardedFinite, FS_RemoveElement
<1>4. slots' = Cardinality(Forwarded') /\ slots' <= Slots
  BY <1>1, <1>3, ForwardedFinite, DnsAssumption DEF DnsInv
<1> QED BY <1>1, <1>4 DEF DnsInv, Dns!Idle

LEMMA FactsWithin == \A n, may : Dns!Facts(n, may) \subseteq may
BY DEF Dns!Facts, Dns!Allowed, Dns!Named

LEMMA ResolveStep ==
  ASSUME DnsInv, NEW q \in Queries, Dns!Resolve(q)
  PROVE  DnsInv'
<1>1. /\ query' = [query EXCEPT ![q] = Dns!Idle] /\ query[q].may = known[q]
      /\ query[q].at = "answer" /\ UNCHANGED <<slots, leaked, known>>
      /\ told' = [told EXCEPT ![q] =
           UNION {Dns!Facts(query[q].qs[i], query[q].may) : i \in DOMAIN query[q].qs}]
  BY DEF Dns!Resolve, DnsInv
<1>2. UNION {Dns!Facts(query[q].qs[i], query[q].may) : i \in DOMAIN query[q].qs} \subseteq known[q]
  BY <1>1, FactsWithin
<1>3. Forwarded' = Forwarded
  BY <1>1, SameForwarded DEF DnsInv, Dns!Idle
<1> HIDE DEF Dns!Facts
<1> QED BY <1>1, <1>2, <1>3 DEF DnsInv, Dns!Idle

LEMMA DnsStep == DnsInv /\ [Dns!Next]_(Dns!dnsVars) => DnsInv'
<1> SUFFICES ASSUME DnsInv, [Dns!Next]_(Dns!dnsVars) PROVE DnsInv'
  OBVIOUS
<1>1. ASSUME UNCHANGED <<query, slots, leaked, told, known>> PROVE DnsInv'
  BY <1>1 DEF DnsInv, Forwarded
<1>2. ASSUME NEW a, NEW g, Dns!SessionChanges(a, g) \/ Dns!ConfigChanges(a, g) PROVE DnsInv'
  BY <1>1, <1>2 DEF Dns!SessionChanges, Dns!ConfigChanges
<1>3. CASE UNCHANGED Dns!dnsVars
  BY <1>1, <1>3 DEF Dns!dnsVars
<1>4. ASSUME NEW q \in Queries, Dns!Handle(q) PROVE DnsInv'
  BY <1>4, IdentifyStep, DispatchStep, ReturnStep, ResolveStep, ExchangeStep DEF Dns!Handle
<1> QED BY <1>2, <1>3, <1>4, ReadStep DEF Dns!Next

\* Local names stay inside, nobody learns of a tunnel beyond the session's
\* grants, and the slots are those of the queries being forwarded (dns.go).
THEOREM DnsIsSound == Dns!Spec => []Dns!DnsSound
<1>1. Dns!Init => DnsInv
  <2> SUFFICES ASSUME Dns!Init PROVE DnsInv
    OBVIOUS
  <2>1. Forwarded = {}
    BY DEF Dns!Init, Dns!Idle, Forwarded
  <2>2. Cardinality(Forwarded) = 0
    BY <2>1, FS_EmptySet
  <2> QED BY <2>2, DnsAssumption DEF Dns!Init, Dns!Idle, DnsInv
<1>2. DnsInv => Dns!DnsSound
  BY DnsCardinality DEF DnsInv, Forwarded, Dns!DnsSound
<1> QED BY <1>1, <1>2, DnsStep, PTL DEF Dns!Spec

-----------------------------------------------------------------------------
(* The UDP flows.  Flows are numbered as they open; the server never       *)
(* replaces a flow that is served, the client removes the old one first.   *)
Serving == {f \in Flows!Ids : reader[f] \in {"read", "remove", "close"}}

FlowTypes ==
  /\ side \in {"client", "server"}
  /\ flows \in [Sources -> Flows!Ids \cup {0}]
  /\ src \in [Flows!Ids -> Sources]
  /\ reader \in [Flows!Ids -> {"none", "read", "remove", "close", "done"}]
  /\ sock \subseteq Flows!Ids
  /\ loop.at = "dial" => loop = [at |-> "dial", for |-> loop.for, in |-> loop.in]
                         /\ loop.for \in Sources
  /\ \E n \in 0 .. MaxFlows : Flows!Opened = 1 .. n

FlowTables ==
  /\ \A s \in Sources : flows[s] /= 0 => /\ reader[flows[s]] \in {"read", "remove"}
                                         /\ src[flows[s]] = s
  /\ \A f \in sock : reader[f] \in {"read", "remove"} /\ flows[src[f]] = f
  /\ side = "server" => \A f \in Flows!Ids : reader[f] \in {"read", "remove"} => flows[src[f]] = f
  /\ loop.at = "dial" => flows[loop.for] = 0

FlowCount == active = Cardinality(Serving)

FlowInv == FlowTypes /\ FlowTables /\ FlowCount

LEMMA FlowsCardinality == \A S : Flows!Cardinality(S) = Cardinality(S)
BY DEF Flows!Cardinality, Cardinality

LEMMA ServingFinite == IsFiniteSet(Serving) /\ Cardinality(Serving) \in Nat
<1>1. IsFiniteSet(Flows!Ids)
  BY FS_Interval, FlowsAssumption DEF Flows!Ids
<1> QED BY <1>1, FS_Subset, FS_CardinalityType DEF Serving

LEMMA FlowDatagramStep ==
  ASSUME FlowInv, NEW s \in Sources, Flows!Datagram(s)
  PROVE  FlowInv'
<1> DEFINE f == flows[s]
           old == side = "client" /\ f /= 0 /\ since[f] /= epoch
<1>1. /\ UNCHANGED <<side, src, reader, active>>
      /\ IF old THEN flows' = [flows EXCEPT ![s] = 0] /\ sock' = sock \ {f}
                ELSE UNCHANGED <<flows, sock>>
      /\ IF f = 0 \/ old THEN loop' = [at |-> "dial", for |-> s, in |-> epoch]
                         ELSE loop' = [at |-> "write", to |-> f]
  BY DEF Flows!Datagram
<1> HIDE DEF old
<1>2. FlowTypes'
  BY <1>1 DEF FlowInv, FlowTypes, Flows!Opened
<1>3. FlowTables'
  <2>1. CASE old
    <3>1. side = "client" /\ flows' = [flows EXCEPT ![s] = 0] /\ sock' = sock \ {f}
          /\ loop' = [at |-> "dial", for |-> s, in |-> epoch]
      BY <1>1, <2>1 DEF old
    <3> QED BY <1>1, <3>1 DEF FlowInv, FlowTypes, FlowTables
  <2>2. CASE ~old
    BY <1>1, <2>2 DEF FlowInv, FlowTypes, FlowTables
  <2> QED BY <2>1, <2>2
<1>4. FlowCount'
  BY <1>1 DEF FlowInv, FlowCount, Serving
<1> QED BY <1>2, <1>3, <1>4 DEF FlowInv

LEMMA FlowDialStep ==
  ASSUME FlowInv, Flows!Dial
  PROVE  FlowInv'
<1>1. PICK n \in 0 .. MaxFlows : Flows!Opened = 1 .. n
  BY DEF FlowInv, FlowTypes
<1> DEFINE f == n + 1
<1>2. Flows!Cardinality(Flows!Opened) = n
  <2>1. Cardinality(1 .. n) = n
    BY FS_Interval, FlowsAssumption
  <2> QED BY <1>1, <2>1, FlowsCardinality
<1>3. f \in Flows!Ids /\ reader[f] = "none"
  <2>1. n /= MaxFlows
    BY <1>1 DEF Flows!Dial, Flows!Ids
  <2>2. f \in 1 .. MaxFlows /\ f \notin 1 .. n
    BY <2>1, FlowsAssumption
  <2> QED BY <1>1, <2>2 DEF Flows!Ids, Flows!Opened
<1>4. /\ flows' = [flows EXCEPT ![loop.for] = f] /\ src' = [src EXCEPT ![f] = loop.for]
      /\ sock' = sock \cup {f} /\ reader' = [reader EXCEPT ![f] = "read"]
      /\ loop' = [at |-> "write", to |-> f] /\ active' = active + 1 /\ side' = side
      /\ loop.at = "dial" /\ loop.for \in Sources /\ flows[loop.for] = 0
  BY <1>2 DEF Flows!Dial, FlowInv, FlowTypes, FlowTables
<1>5. Flows!Opened' = 1 .. f /\ f \in 0 .. MaxFlows
  <2>1. Flows!Opened' = Flows!Opened \cup {f}
    BY <1>3, <1>4 DEF Flows!Opened, FlowInv, FlowTypes
  <2>2. (1 .. n) \cup {f} = 1 .. f
    OBVIOUS
  <2> QED BY <1>1, <1>3, <2>1, <2>2, FlowsAssumption DEF Flows!Ids
<1>6. 0 \notin Flows!Ids
  BY DEF Flows!Ids
<1> HIDE DEF f
<1>7. FlowTypes'
  BY <1>3, <1>4, <1>5 DEF FlowInv, FlowTypes
<1>8. FlowTables'
  BY <1>3, <1>4, <1>6 DEF FlowInv, FlowTypes, FlowTables
<1>9. FlowCount'
  <2>1. Serving' = Serving \cup {f} /\ f \notin Serving
    BY <1>3, <1>4 DEF Serving, FlowInv, FlowTypes
  <2>2. Cardinality(Serving') = Cardinality(Serving) + 1
    BY <2>1, ServingFinite, FS_AddElement
  <2> QED BY <1>4, <2>2 DEF FlowInv, FlowCount
<1> QED BY <1>7, <1>8, <1>9 DEF FlowInv

\* A flow goes on to another step, and is served or not as before.
LEMMA ReaderMoves ==
  ASSUME FlowTypes, NEW f \in Flows!Ids, NEW how \in {"remove", "close", "done"},
         reader[f] /= "none", reader' = [reader EXCEPT ![f] = how]
  PROVE  /\ reader' \in [Flows!Ids -> {"none", "read", "remove", "close", "done"}]
         /\ Flows!Opened' = Flows!Opened
         /\ Serving' = IF how = "done" THEN Serving \ {f} ELSE Serving \cup {f}
BY DEF FlowTypes, Flows!Opened, Serving

LEMMA FlowReadStep ==
  ASSUME FlowInv, NEW f \in Flows!Ids, Flows!Answer(f) \/ Flows!ReadFails(f)
  PROVE  FlowInv'
<1>1. UNCHANGED <<side, loop, flows, src, sock, active>> /\ reader[f] = "read"
  BY DEF Flows!Answer, Flows!ReadFails
<1>2. CASE reader' = reader
  BY <1>1, <1>2 DEF FlowInv, FlowTypes, FlowTables, FlowCount, Serving, Flows!Opened
<1>3. CASE reader' = [reader EXCEPT ![f] = "remove"]
  <2>1. /\ reader' \in [Flows!Ids -> {"none", "read", "remove", "close", "done"}]
        /\ Flows!Opened' = Flows!Opened /\ Serving' = Serving \cup {f}
    BY <1>1, <1>3, ReaderMoves DEF FlowInv
  <2>2. f \in Serving
    BY <1>1 DEF Serving
  <2>3. FlowTables'
    BY <1>1, <1>3 DEF FlowInv, FlowTypes, FlowTables
  <2> QED BY <1>1, <2>1, <2>2, <2>3 DEF FlowInv, FlowTypes, FlowCount
<1> QED BY <1>2, <1>3 DEF Flows!Answer, Flows!ReadFails

LEMMA FlowRemoveStep ==
  ASSUME FlowInv, NEW f \in Flows!Ids, Flows!Remove(f)
  PROVE  FlowInv'
<1>1. /\ UNCHANGED <<side, loop, src, active>> /\ reader[f] = "remove"
      /\ reader' = [reader EXCEPT ![f] = "close"]
  BY DEF Flows!Remove
<1>2. /\ reader' \in [Flows!Ids -> {"none", "read", "remove", "close", "done"}]
      /\ Flows!Opened' = Flows!Opened /\ Serving' = Serving \cup {f}
  BY <1>1, ReaderMoves DEF FlowInv
<1>3. f \in Serving
  BY <1>1 DEF Serving
<1>4. sock' = sock \ {f} /\ flows' = IF flows[src[f]] = f THEN [flows EXCEPT ![src[f]] = 0] ELSE flows
  <2>1. CASE side = "server"
    <3>1. flows[src[f]] = f
      BY <1>1, <2>1 DEF FlowInv, FlowTables
    <3> QED BY <2>1, <3>1 DEF Flows!Remove
  <2>2. CASE side = "client"
    BY <2>2 DEF Flows!Remove
  <2> QED BY <2>1, <2>2 DEF FlowInv, FlowTypes
<1>5. 0 \notin Flows!Ids
  BY DEF Flows!Ids
<1>6. flows' \in [Sources -> Flows!Ids \cup {0}] /\ sock' \subseteq Flows!Ids
  BY <1>4 DEF FlowInv, FlowTypes
<1>7. FlowTables'
  BY <1>1, <1>4, <1>5 DEF FlowInv, FlowTypes, FlowTables
<1> QED BY <1>1, <1>2, <1>3, <1>6, <1>7 DEF FlowInv, FlowTypes, FlowCount

LEMMA FlowLeaveStep ==
  ASSUME FlowInv, NEW f \in Flows!Ids, Flows!Leave(f)
  PROVE  FlowInv'
<1>1. /\ UNCHANGED <<side, loop, flows, src, sock>> /\ reader[f] = "close"
      /\ reader' = [reader EXCEPT ![f] = "done"] /\ active' = active - 1
  BY DEF Flows!Leave
<1>2. /\ reader' \in [Flows!Ids -> {"none", "read", "remove", "close", "done"}]
      /\ Flows!Opened' = Flows!Opened /\ Serving' = Serving \ {f}
  BY <1>1, ReaderMoves DEF FlowInv
<1>3. f \in Serving
  BY <1>1 DEF Serving
<1>4. Cardinality(Serving') = Cardinality(Serving) - 1
  BY <1>2, <1>3, ServingFinite, FS_RemoveElement
<1>5. FlowTables'
  BY <1>1 DEF FlowInv, FlowTypes, FlowTables
<1> QED BY <1>1, <1>2, <1>4, <1>5 DEF FlowInv, FlowTypes, FlowCount

\* The map and the goroutines stay, sockets may be closed, and the loop does
\* not begin to dial.
LEMMA FlowQuietStep ==
  ASSUME FlowInv, UNCHANGED <<side, flows, src, reader, active>>, sock' \subseteq sock,
         loop' = loop \/ loop'.at /= "dial"
  PROVE  FlowInv'
<1>1. FlowTypes'
  BY DEF FlowInv, FlowTypes, Flows!Opened
<1>2. FlowTables'
  BY DEF FlowInv, FlowTables
<1> QED BY <1>1, <1>2 DEF FlowInv, FlowCount, Serving

LEMMA FlowStep == FlowInv /\ [Flows!Next]_(Flows!flowVars) => FlowInv'
<1> SUFFICES ASSUME FlowInv, [Flows!Next]_(Flows!flowVars) PROVE FlowInv'
  OBVIOUS
<1>1. CASE Flows!DialFails \/ Flows!Write \/ Flows!LoopEnds
  BY <1>1, FlowQuietStep DEF Flows!DialFails, Flows!Write, Flows!LoopEnds, Flows!Idle
<1>2. CASE Flows!CloseListener \/ Flows!NewEpoch
  BY <1>2, FlowQuietStep DEF Flows!CloseListener, Flows!NewEpoch
<1>3. CASE UNCHANGED Flows!flowVars
  BY <1>3, FlowQuietStep DEF Flows!flowVars
<1>4. ASSUME NEW f \in Flows!Ids, Flows!Answer(f) \/ Flows!Ends(f) PROVE FlowInv'
  BY <1>4, FlowReadStep, FlowRemoveStep, FlowLeaveStep DEF Flows!Ends
<1> QED
  BY <1>1, <1>2, <1>3, <1>4, FlowDatagramStep, FlowDialStep DEF Flows!Next, Flows!LoopSteps

\* A source in the map has a goroutine that takes it out again, an open socket
\* is the map's, and the counter is that of the goroutines (proxyUDP of
\* dataplane.go and forwardUDP of client.go).
THEOREM FlowsAreSound == Flows!Spec => []Flows!FlowsSound
<1>1. Flows!Init => FlowInv
  <2> SUFFICES ASSUME Flows!Init PROVE FlowInv
    OBVIOUS
  <2>1. Serving = {} /\ Flows!Opened = {}
    BY DEF Flows!Init, Serving, Flows!Opened
  <2>2. Cardinality(Serving) = 0
    BY <2>1, FS_EmptySet
  <2>3. Flows!Opened = 1 .. 0 /\ 0 \in 0 .. MaxFlows
    BY <2>1, FlowsAssumption
  <2>4. FlowTypes
    BY <2>3, FlowsAssumption DEF Flows!Init, FlowTypes, Flows!Idle
  <2>5. FlowTables
    BY DEF Flows!Init, FlowTables, Flows!Idle
  <2> QED BY <2>2, <2>4, <2>5 DEF Flows!Init, FlowInv, FlowCount
<1>2. FlowInv => Flows!FlowsSound
  BY FlowsCardinality DEF FlowInv, FlowTables, FlowCount, Serving, Flows!FlowsSound
<1> QED BY <1>1, <1>2, FlowStep, PTL DEF Flows!Spec

-----------------------------------------------------------------------------
(* The tunnels' listeners.  Every socket is a listening tunnel's, one that *)
(* is about to be closed, or a service's; a configured tunnel that does    *)
(* not listen will be opened or its socket is disputed.                    *)
Stages == {"start", "portal", "reload", "done", "close", "stop"}

ListenTypes ==
  /\ conf \in Listeners!Confs /\ listening \in Listeners!Confs
  /\ data \in {"none", "up", "gone"}
  /\ todo = [close |-> todo.close, open |-> todo.open, then |-> todo.then]
  /\ todo.then \in Stages
  /\ todo.close \subseteq Tunnels /\ todo.open \subseteq Listeners!Configured(conf)

ListenStages ==
  /\ todo.then /= "reload" => todo.close = {}
  /\ todo.then \in {"portal", "done", "close", "stop"} => todo.open = {}
  /\ todo.then \in {"portal", "reload", "close"} => data = "up"
  /\ todo.then = "start" => data /= "gone"
  /\ todo.then = "done" => data /= "none"
  /\ todo.then = "stop" => data = "gone"
  /\ todo.then = "done" /\ data = "gone" => open = {}

ListenSettings ==
  /\ \A t \in Tunnels : listening[t] \in {conf[t], None}
  /\ \A t \in todo.open : listening[t] = None

SocketOK(s) ==
  IF s[2] \in Tunnels
  THEN s[2] \in todo.close \/ (listening[s[2]] /= None /\ listening[s[2]].at = s[1])
  ELSE s[1] \in {DnsAt, PortalAt}

ListenSockets == \A s \in open : SocketOK(s)

ListenUndisputed ==
  data /= "gone" /\ todo.then /= "close" =>
    \A t \in Listeners!Undisputed : listening[t] = conf[t] \/ t \in todo.open

Refreshing ==
  /\ refresher /= "off" => data \in {"up", "gone"}
  /\ crashed => data = "gone"

ListenInv ==
  /\ ListenTypes /\ ListenStages /\ ListenSettings /\ ListenSockets /\ ListenUndisputed
  /\ Refreshing

\* A tunnel that may be opened finds its socket taken only when it is disputed.
LEMMA TakenIsDisputed ==
  ASSUME ListenInv, NEW t \in todo.open, todo.close = {}, Listeners!Taken(conf[t].at)
  PROVE  t \notin Listeners!Undisputed
<1>1. PICK s \in open : s[1] = conf[t].at
  BY DEF Listeners!Taken
<1>2. CASE s[2] \in Tunnels
  <2>1. listening[s[2]] /= None /\ listening[s[2]].at = s[1] /\ listening[s[2]] = conf[s[2]]
    BY <1>2 DEF ListenInv, ListenSockets, SocketOK, ListenSettings
  <2>2. s[2] /= t
    BY <2>1 DEF ListenInv, ListenSettings
  <2>3. s[2] \in Listeners!Configured(conf)
    BY <1>2, <2>1 DEF Listeners!Configured
  <2> QED BY <1>1, <2>1, <2>2, <2>3 DEF Listeners!Undisputed
<1>3. CASE s[2] \notin Tunnels
  BY <1>1, <1>3 DEF ListenInv, ListenSockets, SocketOK, Listeners!Undisputed
<1> QED BY <1>2, <1>3

\* listenTunnel for one of the tunnels that are to be opened.
LEMMA ListenOpens ==
  ASSUME ListenInv, NEW t \in todo.open, todo.close = {}, Listeners!Listen(t), UNCHANGED conf,
         todo' = [todo EXCEPT !.open = @ \ {t}], todo.then /= "close", data /= "gone"
  PROVE  /\ listening' \in Listeners!Confs
         /\ ListenSettings' /\ ListenSockets'
         /\ \A u \in Listeners!Undisputed' : listening'[u] = conf'[u] \/ u \in todo'.open
<1>1. t \in Tunnels /\ conf[t] \in Settings /\ conf[t] /= None
  BY DEF ListenInv, ListenTypes, Listeners!Configured, Listeners!Confs
<1>2. /\ todo'.close = {} /\ todo'.open = todo.open \ {t} /\ todo'.then = todo.then
  BY DEF ListenInv, ListenTypes
<1>3. Listeners!Undisputed' = Listeners!Undisputed
  BY DEF Listeners!Undisputed, Listeners!Configured
<1>4. CASE Listeners!Taken(conf[t].at)
  <2>1. UNCHANGED <<open, listening>>
    BY <1>4 DEF Listeners!Listen
  <2>2. t \notin Listeners!Undisputed
    BY <1>4, TakenIsDisputed
  <2>3. ListenSockets'
    BY <1>2, <2>1 DEF ListenInv, ListenSockets, SocketOK
  <2> QED BY <1>2, <1>3, <2>1, <2>2, <2>3
          DEF ListenInv, ListenTypes, ListenSettings, ListenUndisputed
<1>5. CASE ~Listeners!Taken(conf[t].at)
  <2>1. open' = open \cup {<<conf[t].at, t>>} /\ listening' = [listening EXCEPT ![t] = conf[t]]
    BY <1>5 DEF Listeners!Listen
  <2>2. listening' \in Listeners!Confs /\ listening'[t] = conf[t]
        /\ \A u \in Tunnels \ {t} : listening'[u] = listening[u]
    BY <1>1, <2>1 DEF ListenInv, ListenTypes, Listeners!Confs
  <2>3. listening[t] = None
    BY DEF ListenInv, ListenSettings
  <2>4. ListenSockets'
    BY <1>1, <1>2, <2>1, <2>2, <2>3 DEF ListenInv, ListenSockets, SocketOK
  <2>5. ListenSettings'
    BY <1>1, <1>2, <2>2 DEF ListenInv, ListenTypes, ListenSettings, Listeners!Configured
  <2>6. \A u \in Listeners!Undisputed : listening'[u] = conf[u] \/ u \in todo'.open
    BY <1>1, <1>2, <2>2 DEF ListenInv, ListenUndisputed, Listeners!Undisputed, Listeners!Configured
  <2> QED BY <1>3, <2>2, <2>4, <2>5, <2>6
<1> QED BY <1>4, <1>5

LEMMA StartTunnelStep ==
  ASSUME ListenInv, NEW t \in Tunnels, Listeners!StartTunnel(t)
  PROVE  ListenInv'
<1>1. /\ todo.then = "start" /\ t \in todo.open /\ data' = "up" /\ Listeners!Listen(t)
      /\ UNCHANGED <<conf, refresher, stopped, crashed>>
      /\ todo' = IF Listeners!Taken(conf[t].at) THEN [close |-> {}, open |-> {}, then |-> "close"]
                 ELSE [todo EXCEPT !.open = @ \ {t}]
  BY DEF Listeners!StartTunnel
<1>2. todo.close = {} /\ data /= "gone" /\ ~crashed
  BY <1>1 DEF ListenInv, ListenStages, Refreshing
<1>3. Refreshing'
  BY <1>1, <1>2 DEF ListenInv, Refreshing
<1>4. CASE Listeners!Taken(conf[t].at)
  <2>1. UNCHANGED <<open, listening>> /\ todo' = [close |-> {}, open |-> {}, then |-> "close"]
    BY <1>1, <1>4 DEF Listeners!Listen
  <2>2. ListenTypes' /\ ListenStages'
    BY <1>1, <2>1 DEF ListenInv, ListenTypes, ListenStages, Stages
  <2>3. ListenSettings' /\ ListenSockets'
    BY <1>1, <1>2, <2>1 DEF ListenInv, ListenSettings, ListenSockets, SocketOK
  <2> QED BY <1>3, <2>1, <2>2, <2>3 DEF ListenInv, ListenUndisputed
<1>5. CASE ~Listeners!Taken(conf[t].at)
  <2>1. todo' = [todo EXCEPT !.open = @ \ {t}]
    BY <1>1, <1>5
  <2>2. /\ listening' \in Listeners!Confs
        /\ ListenSettings' /\ ListenSockets'
        /\ \A u \in Listeners!Undisputed' : listening'[u] = conf'[u] \/ u \in todo'.open
    BY <1>1, <1>2, <2>1, ListenOpens
  <2>3. ListenTypes' /\ ListenStages'
    BY <1>1, <1>2, <2>1, <2>2 DEF ListenInv, ListenTypes, ListenStages, Stages, Listeners!Configured
  <2> QED BY <1>3, <2>2, <2>3 DEF ListenInv, ListenUndisputed
<1> QED BY <1>4, <1>5

LEMMA ServiceStep ==
  ASSUME ListenInv, Listeners!StartDNS \/ Listeners!StartWebPortal
  PROVE  ListenInv'
<1>1. PICK a \in {DnsAt, PortalAt} :
         open' = open \/ open' = open \cup {<<a, "service">>}
  BY DEF Listeners!StartDNS, Listeners!StartWebPortal, Listeners!StartService
<1>2. /\ UNCHANGED <<conf, listening, refresher, stopped, crashed>>
      /\ todo.close = {} /\ todo.open = {} /\ data' = "up" /\ data /= "gone"
      /\ todo' = [close |-> {}, open |-> {}, then |-> "portal"] \/ todo' = Listeners!Nothing
      /\ todo.then /= "close"
  BY DEF Listeners!StartDNS, Listeners!StartWebPortal, ListenInv, ListenTypes, ListenStages
<1>3. todo'.close = {} /\ todo'.open = {} /\ todo'.then \in {"portal", "done"}
  BY <1>2 DEF Listeners!Nothing
<1>4. ListenTypes'
  BY <1>2 DEF ListenInv, ListenTypes, Listeners!Nothing, Stages
<1>5. ListenStages' /\ ListenSettings'
  BY <1>2, <1>3 DEF ListenInv, ListenStages, ListenSettings
<1>6. ListenSockets'
  BY <1>1, <1>2, <1>3, ListenersAssumption DEF ListenInv, ListenSockets, SocketOK
<1>7. ListenUndisputed'
  BY <1>2, <1>3 DEF ListenInv, ListenUndisputed, Listeners!Undisputed, Listeners!Configured
<1> QED BY <1>2, <1>4, <1>5, <1>6, <1>7 DEF ListenInv, Refreshing

LEMMA ListenReloadStep ==
  ASSUME ListenInv, NEW c \in Listeners!Confs, Listeners!Reload(c)
  PROVE  ListenInv'
<1>1. /\ data = "up" /\ todo = Listeners!Nothing /\ conf' = c
      /\ UNCHANGED <<data, open, refresher, stopped, crashed>>
      /\ listening' = [t \in Tunnels |-> IF t \in Listeners!Changed(c) THEN None ELSE listening[t]]
      /\ todo' = [close |-> Listeners!Changed(c), then |-> "reload",
                  open |-> {t \in Listeners!Configured(c) :
                              t \in Listeners!Changed(c) \/ listening[t] = None}]
  BY DEF Listeners!Reload
<1>2. /\ todo'.then = "reload" /\ todo'.close = Listeners!Changed(c)
      /\ todo'.open = {t \in Listeners!Configured(c) : t \in Listeners!Changed(c) \/ listening[t] = None}
      /\ todo.close = {}
  BY <1>1 DEF Listeners!Nothing
<1>3. ListenTypes'
  <2>1. listening' \in Listeners!Confs
    BY <1>1 DEF ListenInv, ListenTypes, Listeners!Confs
  <2>2. todo' = [close |-> todo'.close, open |-> todo'.open, then |-> todo'.then]
    BY <1>1
  <2>3. todo'.close \subseteq Tunnels /\ todo'.open \subseteq Listeners!Configured(c)
    BY <1>2 DEF Listeners!Changed, Listeners!Configured
  <2> QED BY <1>1, <1>2, <2>1, <2>2, <2>3 DEF ListenInv, ListenTypes, Stages, Listeners!Configured
<1>4. \A t \in Tunnels : IF t \in Listeners!Changed(c) THEN listening'[t] = None
                         ELSE listening'[t] = listening[t] /\ listening[t] \in {c[t], None}
  BY <1>1 DEF Listeners!Changed, Listeners!Configured
<1>5. ListenStages'
  BY <1>1, <1>2 DEF ListenStages
<1>6. ListenSettings'
  BY <1>1, <1>2, <1>4 DEF ListenSettings, Listeners!Configured
<1>7. ListenSockets'
  BY <1>1, <1>2, <1>4 DEF ListenInv, ListenSockets, SocketOK
<1>8. ListenUndisputed'
  <2>1. Listeners!Undisputed' \subseteq Listeners!Configured(c)
    BY <1>1 DEF Listeners!Undisputed, Listeners!Configured
  <2> QED BY <1>1, <1>2, <1>4, <2>1 DEF ListenUndisputed, Listeners!Configured
<1> QED BY <1>1, <1>3, <1>5, <1>6, <1>7, <1>8 DEF ListenInv, Refreshing

LEMMA CloseOneStep ==
  ASSUME ListenInv, NEW t \in Tunnels, Listeners!CloseOne(t)
  PROVE  ListenInv'
<1>1. /\ todo.then = "reload" /\ open' = {s \in open : s[2] /= t}
      /\ todo' = [todo EXCEPT !.close = @ \ {t}]
      /\ UNCHANGED <<conf, data, listening, refresher, stopped, crashed>>
  BY DEF Listeners!CloseOne
<1>2. todo'.then = "reload" /\ todo'.close = todo.close \ {t} /\ todo'.open = todo.open
      /\ todo' = [close |-> todo'.close, open |-> todo'.open, then |-> todo'.then]
  BY <1>1 DEF ListenInv, ListenTypes
<1>3. ListenTypes'
  BY <1>1, <1>2 DEF ListenInv, ListenTypes, Listeners!Configured
<1>4. ListenStages' /\ ListenSettings'
  BY <1>1, <1>2 DEF ListenInv, ListenStages, ListenSettings
<1>5. ListenSockets'
  BY <1>1, <1>2 DEF ListenInv, ListenSockets, SocketOK
<1>6. ListenUndisputed'
  BY <1>1, <1>2 DEF ListenInv, ListenUndisputed, Listeners!Undisputed, Listeners!Configured
<1> QED BY <1>1, <1>3, <1>4, <1>5, <1>6 DEF ListenInv, Refreshing

LEMMA OpenOneStep ==
  ASSUME ListenInv, NEW t \in Tunnels, Listeners!OpenOne(t)
  PROVE  ListenInv'
<1>1. /\ todo.then = "reload" /\ todo.close = {} /\ t \in todo.open /\ Listeners!Listen(t)
      /\ todo' = [todo EXCEPT !.open = @ \ {t}]
      /\ UNCHANGED <<conf, data, refresher, stopped, crashed>>
  BY DEF Listeners!OpenOne
<1>2. data = "up"
  BY <1>1 DEF ListenInv, ListenStages
<1>3. /\ listening' \in Listeners!Confs
      /\ ListenSettings' /\ ListenSockets'
      /\ \A u \in Listeners!Undisputed' : listening'[u] = conf'[u] \/ u \in todo'.open
  BY <1>1, <1>2, ListenOpens
<1>4. ListenTypes' /\ ListenStages'
  BY <1>1, <1>2, <1>3 DEF ListenInv, ListenTypes, ListenStages, Stages, Listeners!Configured
<1> QED BY <1>1, <1>3, <1>4 DEF ListenInv, ListenUndisputed, Refreshing

LEMMA ReloadedStep ==
  ASSUME ListenInv, Listeners!Reloaded
  PROVE  ListenInv'
<1>1. /\ todo.then = "reload" /\ todo.close = {} /\ todo.open = {} /\ todo' = Listeners!Nothing
      /\ UNCHANGED <<conf, data, listening, open, refresher, stopped, crashed>>
  BY DEF Listeners!Reloaded
<1>2. todo'.close = {} /\ todo'.open = {} /\ todo'.then = "done"
      /\ todo' = [close |-> todo'.close, open |-> todo'.open, then |-> todo'.then]
  BY <1>1 DEF Listeners!Nothing
<1>3. ListenTypes'
  BY <1>1, <1>2 DEF ListenInv, ListenTypes, Stages
<1>4. ListenStages' /\ ListenSettings'
  BY <1>1, <1>2 DEF ListenInv, ListenStages, ListenSettings
<1>5. ListenSockets'
  BY <1>1, <1>2 DEF ListenInv, ListenSockets, SocketOK
<1>6. ListenUndisputed'
  BY <1>1, <1>2 DEF ListenInv, ListenUndisputed, Listeners!Undisputed, Listeners!Configured
<1> QED BY <1>1, <1>3, <1>4, <1>5, <1>6 DEF ListenInv, Refreshing

LEMMA ListenCloseStep ==
  ASSUME ListenInv, Listeners!Close
  PROVE  ListenInv'
<1>1. /\ data = "up" /\ data' = "gone" /\ todo' = [close |-> {}, open |-> {}, then |-> "stop"]
      /\ UNCHANGED <<conf, listening, open, refresher, stopped, crashed>>
      /\ todo.close = {}
  BY DEF Listeners!Close, Listeners!Nothing
<1>2. ListenTypes' /\ ListenStages' /\ ListenSettings'
  BY <1>1 DEF ListenInv, ListenTypes, ListenStages, ListenSettings, Stages
<1>3. ListenSockets'
  BY <1>1 DEF ListenInv, ListenSockets, SocketOK
<1> QED BY <1>1, <1>2, <1>3 DEF ListenInv, ListenUndisputed, Refreshing

LEMMA CloseStopsStep ==
  ASSUME ListenInv, Listeners!CloseStops
  PROVE  ListenInv'
<1>1. /\ todo.then = "stop" /\ todo' = Listeners!Nothing
      /\ open' = {s \in open : s[2] \in Tunnels /\ listening[s[2]] = None}
      /\ UNCHANGED <<conf, data, listening, refresher, crashed>>
  BY DEF Listeners!CloseStops
<1>2. data = "gone" /\ todo.close = {}
  BY <1>1 DEF ListenInv, ListenStages
<1>3. open' = {}
  BY <1>1, <1>2 DEF ListenInv, ListenSockets, SocketOK
<1>4. todo'.close = {} /\ todo'.open = {} /\ todo'.then = "done"
      /\ todo' = [close |-> todo'.close, open |-> todo'.open, then |-> todo'.then]
  BY <1>1 DEF Listeners!Nothing
<1>5. ListenTypes' /\ ListenStages' /\ ListenSettings'
  BY <1>1, <1>2, <1>3, <1>4 DEF ListenInv, ListenTypes, ListenStages, ListenSettings, Stages
<1> QED BY <1>1, <1>2, <1>3, <1>5 DEF ListenInv, ListenSockets, ListenUndisputed, Refreshing

LEMMA ListenStep == ListenInv /\ [Listeners!Next]_(Listeners!tunnelVars) => ListenInv'
<1> SUFFICES ASSUME ListenInv, [Listeners!Next]_(Listeners!tunnelVars) PROVE ListenInv'
  OBVIOUS
<1>1. ASSUME UNCHANGED <<conf, data, listening, open, todo>>, Refreshing' PROVE ListenInv'
  BY <1>1 DEF ListenInv, ListenTypes, ListenStages, ListenSettings, ListenSockets, SocketOK,
              ListenUndisputed, Listeners!Undisputed, Listeners!Configured
<1>2. CASE Listeners!EnableRelays \/ Listeners!Refresh \/ Listeners!ReserveSources
             \/ Listeners!RefresherEnds
  <2>1. Refreshing'
    <3>1. CASE Listeners!EnableRelays \/ Listeners!Refresh \/ Listeners!RefresherEnds
      BY <3>1 DEF ListenInv, Refreshing, Listeners!EnableRelays, Listeners!Refresh,
                  Listeners!RefresherEnds
    <3>2. CASE Listeners!ReserveSources
      <4>1. /\ refresher = "reserve" /\ UNCHANGED data
            /\ crashed' => crashed \/ data /= "up"
        BY <3>2 DEF Listeners!ReserveSources
      <4> QED BY <4>1 DEF ListenInv, Refreshing
    <3> QED BY <1>2, <3>1, <3>2
  <2> QED BY <1>1, <1>2, <2>1 DEF Listeners!EnableRelays, Listeners!Refresh,
                                  Listeners!ReserveSources, Listeners!RefresherEnds
<1>3. CASE UNCHANGED Listeners!tunnelVars
  BY <1>1, <1>3 DEF Listeners!tunnelVars, ListenInv, Refreshing
<1> QED
  BY <1>2, <1>3, StartTunnelStep, ServiceStep, ListenReloadStep, CloseOneStep, OpenOneStep,
     ReloadedStep, ListenCloseStep, CloseStopsStep DEF Listeners!Next

\* Between reloads every tunnel listens with its setting or not at all, and
\* does when its socket is undisputed (reloadTunnels of dataplane.go).
THEOREM ListenersAreSound == Listeners!Spec => []Listeners!ListenersFollowConfig
<1>1. Listeners!Init => ListenInv
  <2> SUFFICES ASSUME Listeners!Init PROVE ListenInv
    OBVIOUS
  <2>1. ListenTypes
    BY DEF Listeners!Init, ListenTypes, Stages, Listeners!Confs
  <2>2. ListenStages /\ ListenSettings /\ ListenSockets
    BY DEF Listeners!Init, ListenStages, ListenSettings, ListenSockets, Listeners!Configured
  <2>3. ListenUndisputed /\ Refreshing
    BY DEF Listeners!Init, ListenUndisputed, Listeners!Undisputed, Refreshing
  <2> QED BY <2>1, <2>2, <2>3 DEF ListenInv
<1>2. ListenInv => Listeners!ListenersFollowConfig
  BY DEF ListenInv, ListenTypes, ListenStages, ListenSettings, ListenSockets, SocketOK,
         ListenUndisputed, Refreshing, Listeners!ListenersFollowConfig, Listeners!Nothing
<1> QED BY <1>1, <1>2, ListenStep, PTL DEF Listeners!Spec

\* The data plane of the server and the SOCKS proxy keep what they promise,
\* whatever is reloaded, closed or asked for at the same time (dataplane.go,
\* dns.go, pkg/socks, masque_gateway.go).
THEOREM DataPlaneIsSound ==
  Listeners!Spec /\ Dns!Spec /\ Flows!Spec /\ Socks!Spec /\ Conf!Spec => []DataPlaneSound
BY ListenersAreSound, DnsIsSound, FlowsAreSound, SocksIsSound, MasqueIsSound, PTL
DEF DataPlaneSound

-----------------------------------------------------------------------------
(* The first steps of a connection: the race between the addresses, the    *)
(* transport, and the local listeners.                                     *)

\* A report from each of n addresses is one from all of them.
LEMMA EverybodyHeard ==
  ASSUME NEW D, IsFiniteSet(D), NEW s \in Seq(D), NEW n \in Nat, n = Cardinality(D), n <= Len(s),
         \A j, k \in 1 .. Len(s) : s[j] = s[k] => j = k
  PROVE  \A i \in D : \E k \in 1 .. n : s[k] = i
<1> DEFINE f == [k \in 1 .. n |-> s[k]]
<1>1. f \in Injection(1 .. n, D)
  <2>1. \A k \in 1 .. n : k \in 1 .. Len(s) /\ s[k] \in D
    OBVIOUS
  <2> QED BY <2>1 DEF Injection, IsInjective
<1>2. Cardinality(1 .. n) = n
  BY FS_Interval
<1>3. f \in Surjection(1 .. n, D)
  BY <1>1, <1>2, FS_Injection
<1> QED BY <1>3 DEF Surjection

Reported == {"open", "error", "cancelled"}

RaceTypes ==
  /\ IsFiniteSet(DOMAIN dial) /\ DOMAIN dial \subseteq DOMAIN addrs
  /\ DOMAIN addrs \subseteq Nat \ {0}
  /\ \A i \in DOMAIN dial : Setup!MatchesIPVersion(addrs[i]) \/ unresolved
  /\ results \in Seq(DOMAIN dial) /\ seen \in 0 .. Len(results)
  /\ conn = 0 \/ conn \in DOMAIN dial

RaceReports ==
  /\ \A j, k \in 1 .. Len(results) : results[j] = results[k] => j = k
  /\ \A k \in 1 .. Len(results) : dial[results[k]] \in Reported

RaceOutcome ==
  /\ stage \in {"resolve", "race"} => conn = 0
  /\ stage = "race" => \A k \in 1 .. seen : dial[results[k]] /= "open"
  /\ stage = "resolve" => results = <<>>
  /\ stage = "answer" => conn /= 0
  /\ stage \in {"resolve", "network", "listen", "up"} => DOMAIN dial = {}
  /\ stage = "failed" /\ conn = 0 => \A i \in DOMAIN dial : dial[i] \in {"error", "cancelled"}

RaceInv == RaceTypes /\ RaceReports /\ RaceOutcome

TransportInv ==
  choice /= None =>
    /\ IF choice.ws THEN offer.ws ELSE choice.udp /= None
    /\ choice.udp /= None => choice.udp = offer.udp /\ Setup!MatchesIPVersion(choice.udp)
    /\ offer.transport = "direct-udp" => ~choice.ws
    /\ offer.websocket \/ offer.transport = "wss" => choice.ws
    /\ offer.transport = "udp-relay" => choice.multipath /\ choice.forced = "udp-relay"

\* Where the listener of a tunnel may be
Allowed(t, host) ==
  \/ host \in Setup!Loopback \cup {wish.bind, wish.host[t]}
  \/ host = "any" /\ wish.host[t] = "name" /\ t \in suggestion.udp

LocalInv ==
  /\ stage \notin {"listen", "up"} => bound = <<>>
  /\ stage = "listen" => wish.bind /= "name"
  /\ \A t \in DOMAIN bound :
       /\ Allowed(t, bound[t][1])
       /\ wish.host[t] = None /\ wish.bind /= None => bound[t][1] = wish.bind
       /\ wish.port[t] /= None => bound[t][2] = wish.port[t]

SetupCardinality == \A S : Setup!Cardinality(S) = Cardinality(S)

LEMMA EmptyDomain == DOMAIN <<>> = {}
OBVIOUS

LEMMA SetupCounts == SetupCardinality
BY DEF SetupCardinality, Setup!Cardinality, Cardinality

LEMMA SetupResolveStep ==
  ASSUME RaceInv, NEW names \in Resolved, Setup!Resolve(names)
  PROVE  RaceInv'
<1> DEFINE admitted == {i \in DOMAIN names : Setup!MatchesIPVersion(names[i])}
<1>1. /\ stage = "resolve" /\ stage' \in {"race", "failed"} /\ (stage' = "failed" => admitted = {})
      /\ addrs' = names /\ DOMAIN dial' = admitted
      /\ UNCHANGED <<ip, results, seen, conn>>
  BY DEF Setup!Resolve
<1>2. results = <<>> /\ conn = 0 /\ seen = 0
  BY <1>1 DEF RaceInv, RaceOutcome, RaceTypes
<1>3. IsFiniteSet(admitted) /\ admitted \subseteq DOMAIN names /\ DOMAIN names \subseteq Nat \ {0}
  BY SetupAssumption, FS_Subset
<1>4. \A i \in admitted : Setup!MatchesIPVersion(names[i])'
  BY <1>1 DEF Setup!MatchesIPVersion
<1> HIDE DEF admitted
<1>5. RaceTypes'
  BY <1>1, <1>2, <1>3, <1>4 DEF RaceTypes
<1>6. RaceReports' /\ RaceOutcome'
  BY <1>1, <1>2 DEF RaceReports, RaceOutcome
<1> QED BY <1>5, <1>6 DEF RaceInv

LEMMA SetupUnresolvedStep ==
  ASSUME RaceInv, NEW names \in Resolved, NEW i \in DOMAIN names, NEW socks \in BOOLEAN,
         Setup!LookupFails(names, i, socks)
  PROVE  RaceInv'
<1>1. /\ stage = "resolve" /\ unresolved' = TRUE /\ addrs' = names
      /\ UNCHANGED <<ip, results, seen, conn>>
      /\ \/ stage' = "race" /\ DOMAIN dial' = {i}
         \/ stage' = "failed" /\ DOMAIN dial' = {}
  BY EmptyDomain DEF Setup!LookupFails
<1>2. results = <<>> /\ conn = 0 /\ seen = 0
  BY <1>1 DEF RaceInv, RaceOutcome, RaceTypes
<1>3. IsFiniteSet({i}) /\ IsFiniteSet({}) /\ DOMAIN names \subseteq Nat \ {0}
  BY SetupAssumption, FS_Singleton, FS_EmptySet
<1>4. RaceTypes'
  BY <1>1, <1>2, <1>3 DEF RaceTypes
<1>5. RaceReports' /\ RaceOutcome'
  BY <1>1, <1>2 DEF RaceReports, RaceOutcome
<1> QED BY <1>4, <1>5 DEF RaceInv

\* One more report at the end of a list.
LEMMA OneMore ==
  ASSUME NEW S, NEW q \in Seq(S), NEW e \in S
  PROVE  /\ Append(q, e) \in Seq(S) /\ Len(Append(q, e)) = Len(q) + 1
         /\ \A k \in 1 .. Len(q) : Append(q, e)[k] = q[k]
         /\ Append(q, e)[Len(q) + 1] = e
<1>1. Append(q, e) \in Seq(S) /\ Len(Append(q, e)) = Len(q) + 1
  OBVIOUS
<1>2. \A k \in 1 .. Len(q) : Append(q, e)[k] = q[k]
  OBVIOUS
<1>3. Append(q, e)[Len(q) + 1] = e
  OBVIOUS
<1> QED BY <1>1, <1>2, <1>3

\* A goroutine moves on in the race.
LEMMA SetupDialStep ==
  ASSUME RaceInv, NEW i \in DOMAIN dial,
         Setup!Dials(i) \/ Setup!Cancelled(i) \/ Setup!Reports(i, "open") \/ Setup!Reports(i, "error")
  PROVE  RaceInv'
<1>1. UNCHANGED <<ip, stage, unresolved, addrs, seen, conn>> /\ dial[i] \in {"waiting", "dialling"}
  BY DEF Setup!Dials, Setup!Cancelled, Setup!Reports
<1>2. PICK how \in Reported \cup {"dialling"} : dial' = [dial EXCEPT ![i] = how]
  BY DEF Setup!Dials, Setup!Cancelled, Setup!Reports, Reported
<1>3. \/ results' = results /\ how = "dialling" /\ stage = "race"
      \/ results' = Append(results, i) /\ how = "cancelled" /\ stage /= "race"
      \/ results' = Append(results, i) /\ how \in {"open", "error"} /\ dial[i] = "dialling"
  <2>1. dial'[i] = how
    BY <1>2
  <2> QED BY <2>1, <1>2 DEF Setup!Dials, Setup!Cancelled, Setup!Reports
<1>4. DOMAIN dial' = DOMAIN dial /\ dial'[i] = how /\ \A j \in DOMAIN dial : j /= i => dial'[j] = dial[j]
  BY <1>2
<1>5. /\ results \in Seq(DOMAIN dial) /\ seen \in 0 .. Len(results) /\ Len(results) \in Nat
      /\ \A k \in 1 .. Len(results) : results[k] \in DOMAIN dial /\ dial[results[k]] \in Reported
  BY DEF RaceInv, RaceTypes, RaceReports
<1>6. \A k \in 1 .. Len(results) : results[k] /= i
  BY <1>1, <1>5 DEF Reported
<1>7. /\ results' \in Seq(DOMAIN dial) /\ Len(results') \in {Len(results), Len(results) + 1}
      /\ \A k \in 1 .. Len(results) : results'[k] = results[k]
      /\ Len(results') = Len(results) + 1 => results'[Len(results) + 1] = i /\ how \in Reported
  <2>1. CASE results' = results
    BY <2>1, <1>5
  <2>2. CASE results' = Append(results, i) /\ how \in Reported
    <3>1. /\ Append(results, i) \in Seq(DOMAIN dial) /\ Len(Append(results, i)) = Len(results) + 1
          /\ \A k \in 1 .. Len(results) : Append(results, i)[k] = results[k]
          /\ Append(results, i)[Len(results) + 1] = i
      BY <1>5, OneMore
    <3> QED BY <2>2, <3>1
  <2> QED BY <1>3, <2>1, <2>2 DEF Reported
<1>8. RaceTypes'
  <2>1. \A j \in DOMAIN dial : (Setup!MatchesIPVersion(addrs[j]) \/ unresolved)'
    BY <1>1 DEF RaceInv, RaceTypes, Setup!MatchesIPVersion
  <2>2. seen' \in 0 .. Len(results')
    BY <1>1, <1>5, <1>7
  <2> QED BY <1>1, <1>4, <1>7, <2>1, <2>2 DEF RaceInv, RaceTypes
<1>9. RaceReports'
  <2>1. ASSUME NEW k \in 1 .. Len(results') PROVE dial'[results'[k]] \in Reported
    <3>1. CASE k \in 1 .. Len(results)
      BY <3>1, <1>4, <1>5, <1>6, <1>7
    <3>2. CASE k \notin 1 .. Len(results)
      BY <3>2, <1>4, <1>5, <1>7
    <3> QED BY <3>1, <3>2
  <2>2. ASSUME NEW j \in 1 .. Len(results'), NEW k \in 1 .. Len(results'), results'[j] = results'[k]
        PROVE  j = k
    BY <2>2, <1>5, <1>6, <1>7 DEF RaceInv, RaceReports
  <2> QED BY <2>1, <2>2 DEF RaceReports
<1>10. RaceOutcome'
  <2>1. ASSUME stage' = "race" PROVE \A k \in 1 .. seen' : dial'[results'[k]] /= "open"
    BY <2>1, <1>1, <1>4, <1>5, <1>6, <1>7 DEF RaceInv, RaceOutcome
  <2>3. ASSUME stage' = "failed", conn' = 0
        PROVE  \A j \in DOMAIN dial' : dial'[j] \in {"error", "cancelled"}
    BY <2>3, <1>1, <1>3 DEF RaceInv, RaceOutcome
  <2>4. stage \notin {"resolve", "network", "listen", "up"}
    BY <1>1 DEF RaceInv, RaceOutcome
  <2> QED BY <2>1, <2>3, <2>4, <1>1 DEF RaceInv, RaceOutcome
<1> QED BY <1>8, <1>9, <1>10 DEF RaceInv

\* The race takes a report: it fails with the last one only, when all have
\* been heard.
LEMMA SetupTakesStep ==
  ASSUME RaceInv, Setup!Takes
  PROVE  RaceInv'
<1>1. /\ stage = "race" /\ seen < Len(results) /\ seen' = seen + 1
      /\ UNCHANGED <<ip, unresolved, addrs, dial, results>>
  BY DEF Setup!Takes
<1>2. /\ results \in Seq(DOMAIN dial) /\ seen \in Nat /\ Len(results) \in Nat /\ seen <= Len(results)
      /\ IsFiniteSet(DOMAIN dial)
      /\ \A k \in 1 .. Len(results) : results[k] \in DOMAIN dial /\ dial[results[k]] \in Reported
  BY DEF RaceInv, RaceTypes, RaceReports
<1>3. seen + 1 \in 1 .. Len(results) /\ results[seen + 1] \in DOMAIN dial
  BY <1>1, <1>2
<1>4. 0 \notin DOMAIN dial
  BY DEF RaceInv, RaceTypes
<1>5. \/ dial[results[seen + 1]] = "open" /\ conn' = results[seen + 1] /\ stage' = "answer"
      \/ /\ dial[results[seen + 1]] /= "open" /\ conn' = 0
         /\ stage' = IF seen + 1 = Cardinality(DOMAIN dial) THEN "failed" ELSE "race"
  BY SetupCounts DEF Setup!Takes, SetupCardinality
<1>6. RaceTypes'
  <2>1. seen' \in 0 .. Len(results') /\ (conn' = 0 \/ conn' \in DOMAIN dial)
    BY <1>1, <1>2, <1>3, <1>5
  <2>2. \A j \in DOMAIN dial : (Setup!MatchesIPVersion(addrs[j]) \/ unresolved)'
    BY <1>1 DEF RaceInv, RaceTypes, Setup!MatchesIPVersion
  <2> QED BY <1>1, <2>1, <2>2 DEF RaceInv, RaceTypes
<1>7. RaceReports'
  BY <1>1 DEF RaceInv, RaceReports
<1>8. ASSUME dial[results[seen + 1]] /= "open"
      PROVE  \A k \in 1 .. seen + 1 : dial[results[k]] \in {"error", "cancelled"}
  <2>1. \A k \in 1 .. seen : dial[results[k]] /= "open"
    BY <1>1 DEF RaceInv, RaceOutcome
  <2> QED BY <2>1, <1>8, <1>2, <1>3 DEF Reported
<1>9. ASSUME seen + 1 = Cardinality(DOMAIN dial), NEW i \in DOMAIN dial
      PROVE  \E k \in 1 .. seen + 1 : results[k] = i
  <2>1. seen + 1 \in Nat /\ seen + 1 <= Len(results)
    BY <1>2, <1>3
  <2>2. \A j, k \in 1 .. Len(results) : results[j] = results[k] => j = k
    BY DEF RaceInv, RaceReports
  <2> QED BY <2>1, <2>2, <1>2, <1>9, EverybodyHeard
<1>10. RaceOutcome'
  <2>1. CASE conn' /= 0
    BY <2>1, <1>5 DEF RaceOutcome
  <2>2. CASE conn' = 0
    <3>1. dial[results[seen + 1]] /= "open"
      BY <2>2, <1>3, <1>4, <1>5
    <3>2. stage' \in {"race", "failed"}
      BY <3>1, <1>5
    <3>3. ASSUME stage' = "failed", NEW i \in DOMAIN dial PROVE dial[i] \in {"error", "cancelled"}
      <4>1. seen + 1 = Cardinality(DOMAIN dial)
        BY <3>1, <3>3, <1>5
      <4> QED BY <4>1, <3>1, <1>8, <1>9
    <3>4. \A k \in 1 .. seen' : dial[results[k]] /= "open"
      BY <3>1, <1>1, <1>8
    <3> QED BY <2>2, <3>2, <3>3, <3>4, <1>1 DEF RaceOutcome
  <2> QED BY <2>1, <2>2
<1> QED BY <1>6, <1>7, <1>10 DEF RaceInv

\* The rest of the steps leave the race as it ended, or drop it.
LEMMA SetupLaterStep ==
  ASSUME RaceInv, ip' = ip,
         \/ /\ UNCHANGED <<unresolved, addrs, dial, results, seen, conn>>
            /\ \/ stage = "race" /\ stage' = "expired"
               \/ stage = "answer" /\ stage' = "failed"
               \/ /\ stage \in {"network", "listen", "up"}
                  /\ stage' \in {"network", "listen", "up", "failed"}
               \/ stage' = stage
         \/ /\ addrs' = <<>> /\ dial' = <<>> /\ results' = <<>> /\ seen' = 0 /\ conn' = 0
            /\ stage' \in {"failed", "network"}
  PROVE  RaceInv'
<1>1. CASE UNCHANGED <<unresolved, addrs, dial, results, seen, conn>>
  <2>1. \A j \in DOMAIN dial : (Setup!MatchesIPVersion(addrs[j]) \/ unresolved)'
    BY <1>1 DEF RaceInv, RaceTypes, Setup!MatchesIPVersion
  <2>2. RaceTypes' /\ RaceReports'
    BY <2>1, <1>1 DEF RaceInv, RaceTypes, RaceReports
  <2>3. RaceOutcome'
    <3>1. CASE stage' = stage
      BY <3>1, <1>1 DEF RaceInv, RaceOutcome
    <3>2. CASE stage' /= stage
      BY <3>2, <1>1, EmptyDomain DEF RaceInv, RaceOutcome
    <3> QED BY <3>1, <3>2
  <2> QED BY <2>2, <2>3 DEF RaceInv
<1>2. CASE /\ addrs' = <<>> /\ dial' = <<>> /\ results' = <<>> /\ seen' = 0 /\ conn' = 0
           /\ stage' \in {"failed", "network"}
  <2>1. DOMAIN dial' = {} /\ DOMAIN addrs' = {} /\ IsFiniteSet({})
    BY <1>2, EmptyDomain, FS_EmptySet
  <2>2. RaceTypes'
    BY <2>1, <1>2 DEF RaceTypes
  <2>3. RaceReports' /\ RaceOutcome'
    BY <2>1, <1>2 DEF RaceReports, RaceOutcome
  <2> QED BY <2>2, <2>3 DEF RaceInv
<1> QED BY <1>1, <1>2

LEMMA RaceStep == RaceInv /\ [Setup!Next]_(Setup!setupVars) => RaceInv'
<1> SUFFICES ASSUME RaceInv, [Setup!Next]_(Setup!setupVars) PROVE RaceInv'
  OBVIOUS
<1>1. ASSUME NEW names \in Resolved, Setup!Resolve(names) PROVE RaceInv'
  BY <1>1, SetupResolveStep
<1>0. ASSUME NEW names \in Resolved, NEW i \in DOMAIN names, NEW socks \in BOOLEAN,
             Setup!LookupFails(names, i, socks)
      PROVE  RaceInv'
  BY <1>0, SetupUnresolvedStep
<1>2. ASSUME NEW i \in DOMAIN dial, Setup!Dials(i) \/ Setup!Cancelled(i) PROVE RaceInv'
  BY <1>2, SetupDialStep
<1>3. ASSUME NEW i \in DOMAIN dial, NEW how \in {"open", "error"}, Setup!Reports(i, how) PROVE RaceInv'
  BY <1>3, SetupDialStep
<1>4. CASE Setup!Takes
  BY <1>4, SetupTakesStep
<1>5. CASE Setup!TimesOut \/ Setup!NetworkFails
  BY <1>5, SetupLaterStep DEF Setup!TimesOut, Setup!NetworkFails, Setup!race
<1>6. ASSUME NEW o \in Setup!Answers, Setup!NewConnectionNetwork(o) PROVE RaceInv'
  BY <1>6, SetupLaterStep DEF Setup!NewConnectionNetwork
<1>7. ASSUME NEW w \in Wishes, NEW s \in Offers, NEW taken \in Occupied, Setup!Granted(w, s, taken)
      PROVE  RaceInv'
  BY <1>7, SetupLaterStep DEF Setup!Granted, Setup!race
<1>8. CASE Setup!Listen \/ Setup!ListenFails
  BY <1>8, SetupLaterStep DEF Setup!Listen, Setup!ListenFails, Setup!race
<1>9. CASE Setup!Connected \/ Setup!StatusFails
  BY <1>9, SetupLaterStep DEF Setup!Connected, Setup!StatusFails, Setup!race
<1>10. CASE UNCHANGED Setup!setupVars
  BY <1>10, SetupLaterStep DEF Setup!setupVars
<1> QED BY <1>0, <1>1, <1>2, <1>3, <1>4, <1>5, <1>6, <1>7, <1>8, <1>9, <1>10 DEF Setup!Next

\* The transport chosen is one of the offer.
LEMMA SetupChoice ==
  ASSUME NEW o \in Setup!Answers, Setup!NewConnectionNetwork(o), choice' /= None
  PROVE  TransportInv'
<1> DEFINE ws == Setup!UsesWebSocket(o)
           udp == Setup!UDPEndpoint(o)
           multipath == ws /\ Setup!Multipath(o)
           forced == IF multipath THEN Setup!Preference(o) ELSE "auto"
<1>1. /\ offer' = o /\ ip' = ip /\ ~Setup!Unavailable(o)
      /\ choice' = [ws |-> ws, udp |-> udp, multipath |-> multipath, forced |-> forced]
  BY DEF Setup!NewConnectionNetwork
<1>2. choice'.ws = ws /\ choice'.udp = udp
  BY <1>1
<1>3. choice'.multipath = multipath /\ choice'.forced = forced
  BY <1>1
<1>4. o.websocket \in BOOLEAN /\ o.ws \in BOOLEAN
  BY DEF Setup!Answers
<1>5. ~Setup!Conflict(o) /\ (IF ws THEN o.ws ELSE udp /= None)
  BY <1>1 DEF Setup!Unavailable
<1>6. udp /= None => udp = o.udp /\ (ip' = "any" \/ o.udp = ip')
  BY <1>1 DEF Setup!UDPEndpoint, Setup!MatchesIPVersion
<1>7. /\ o.transport = "direct-udp" => Setup!Preference(o) = "direct-udp"
      /\ o.websocket \/ o.transport = "wss" => Setup!Preference(o) = "wss"
      /\ o.transport = "udp-relay" => Setup!Preference(o) = "udp-relay"
  BY <1>4, <1>5 DEF Setup!Conflict, Setup!Preference
<1>8. o.transport = "direct-udp" => ~ws
  BY <1>7 DEF Setup!UsesWebSocket
<1>9. o.websocket \/ o.transport = "wss" => ws
  BY <1>7 DEF Setup!UsesWebSocket
<1>10. ASSUME o.transport = "udp-relay" PROVE multipath /\ forced = "udp-relay"
  <2>1. Setup!Preference(o) = "udp-relay"
    BY <1>7, <1>10
  <2>2. ws
    BY <2>1 DEF Setup!UsesWebSocket
  <2>3. Setup!Multipath(o)
    BY <1>1, <2>1 DEF Setup!Unavailable
  <2> QED BY <2>1, <2>2, <2>3
<1> HIDE DEF ws, udp, multipath, forced
<1>11. IF choice'.ws THEN offer'.ws ELSE choice'.udp /= None
  BY <1>1, <1>2, <1>5
<1>12. choice'.udp /= None => choice'.udp = offer'.udp /\ Setup!MatchesIPVersion(choice.udp)'
  BY <1>1, <1>2, <1>6 DEF Setup!MatchesIPVersion
<1>13. /\ offer'.transport = "direct-udp" => ~choice'.ws
       /\ offer'.websocket \/ offer'.transport = "wss" => choice'.ws
  BY <1>1, <1>2, <1>8, <1>9
<1>14. offer'.transport = "udp-relay" => choice'.multipath /\ choice'.forced = "udp-relay"
  BY <1>1, <1>3, <1>10
<1> QED BY <1>11, <1>12, <1>13, <1>14 DEF TransportInv

LEMMA TransportStep == TransportInv /\ [Setup!Next]_(Setup!setupVars) => TransportInv'
<1> SUFFICES ASSUME TransportInv, [Setup!Next]_(Setup!setupVars) PROVE TransportInv'
  OBVIOUS
<1>1. ASSUME NEW o \in Setup!Answers, Setup!NewConnectionNetwork(o) PROVE TransportInv'
  <2>1. CASE choice' = None
    BY <2>1 DEF TransportInv
  <2> QED BY <2>1, <1>1, SetupChoice
<1>2. ASSUME NEW w \in Wishes, NEW s \in Offers, NEW taken \in Occupied, Setup!Granted(w, s, taken)
      PROVE  TransportInv'
  BY <1>2 DEF TransportInv, Setup!Granted
<1>3. ASSUME UNCHANGED <<ip, offer, choice>> PROVE TransportInv'
  BY <1>3 DEF TransportInv, Setup!MatchesIPVersion
<1>4. ASSUME NEW names \in Resolved, Setup!Resolve(names) PROVE TransportInv'
  BY <1>3, <1>4 DEF Setup!Resolve, Setup!transport
<1>10. ASSUME NEW names \in Resolved, NEW i \in DOMAIN names, NEW socks \in BOOLEAN,
              Setup!LookupFails(names, i, socks)
       PROVE  TransportInv'
  BY <1>3, <1>10 DEF Setup!LookupFails, Setup!transport
<1>5. ASSUME NEW i \in DOMAIN dial, Setup!Dials(i) \/ Setup!Cancelled(i) PROVE TransportInv'
  BY <1>3, <1>5 DEF Setup!Dials, Setup!Cancelled, Setup!transport
<1>6. ASSUME NEW i \in DOMAIN dial, NEW how \in {"open", "error"}, Setup!Reports(i, how)
      PROVE  TransportInv'
  BY <1>3, <1>6 DEF Setup!Reports, Setup!transport
<1>7. CASE Setup!Takes \/ Setup!TimesOut \/ Setup!NetworkFails
  BY <1>3, <1>7 DEF Setup!Takes, Setup!TimesOut, Setup!NetworkFails, Setup!transport
<1>8. CASE Setup!Listen \/ Setup!ListenFails \/ Setup!Connected \/ Setup!StatusFails
  BY <1>3, <1>8 DEF Setup!Listen, Setup!ListenFails, Setup!Connected, Setup!StatusFails, Setup!transport
<1>9. CASE UNCHANGED Setup!setupVars
  BY <1>3, <1>9 DEF Setup!setupVars
<1> QED BY <1>1, <1>2, <1>4, <1>5, <1>6, <1>7, <1>8, <1>9, <1>10 DEF Setup!Next

\* An address that is tried for a tunnel is loopback or one the user named,
\* at the user's port if there is one.
LEMMA AttemptsObey ==
  ASSUME NEW t, NEW a \in Setup!Attempts(t), wish.bind /= "name", None /= "name"
  PROVE  /\ Allowed(t, a[2][1])
         /\ wish.host[t] = None /\ wish.bind /= None => a[2][1] = wish.bind
         /\ wish.port[t] /= None => a[2][2] = wish.port[t]
<1> DEFINE h == Setup!ResolveTunnelHost(t)
           at == Setup!ListensAt(t, h.host)
           p == Setup!LocalPort(t)
<1>1. /\ a[2][1] = at \/ (a[2][1] = "lo" /\ h.soft)
      /\ a[2][2] = p \/ (a[2][2] = 0 /\ wish.port[t] = None)
  <2>1. \/ a = <<1, <<at, p>>>>
        \/ a = <<2, <<at, 0>>>> /\ wish.port[t] = None
        \/ a = <<3, <<"lo", p>>>> /\ h.soft
        \/ a = <<4, <<"lo", 0>>>> /\ h.soft /\ wish.port[t] = None
    BY Zenon DEF Setup!Attempts
  <2> HIDE DEF h, p, at
  <2> QED BY <2>1
<1>2. h.host \in Setup!Loopback \cup {wish.bind, wish.host[t]} /\ (h.host = "name" => wish.host[t] = "name")
  BY DEF Setup!ResolveTunnelHost, Setup!Loopback
<1>3. wish.host[t] = None /\ wish.bind /= None => h.host = wish.bind /\ h.soft = FALSE
  <2>1. wish.host[t] = None /\ wish.bind /= None => h = [host |-> wish.bind, soft |-> FALSE]
    BY Zenon DEF Setup!ResolveTunnelHost
  <2> HIDE DEF h
  <2>2. wish.host[t] = None /\ wish.bind /= None => h.host = wish.bind
    BY <2>1
  <2>3. wish.host[t] = None /\ wish.bind /= None => h.soft = FALSE
    BY <2>1
  <2> QED BY <2>2, <2>3
<1>4. wish.port[t] /= None => p = wish.port[t]
  BY DEF Setup!LocalPort
<1>5. at = h.host \/ (at = "any" /\ h.host = "name" /\ t \in suggestion.udp)
  BY DEF Setup!ListensAt
<1> HIDE DEF h, p, at
<1>6. Allowed(t, a[2][1])
  BY <1>1, <1>2, <1>5 DEF Allowed, Setup!Loopback
<1>7. wish.host[t] = None /\ wish.bind /= None => a[2][1] = wish.bind
  BY <1>1, <1>3, <1>5
<1> QED BY <1>1, <1>4, <1>6, <1>7

LEMMA SetupListenStep ==
  ASSUME LocalInv, Setup!Listen
  PROVE  LocalInv'
<1> DEFINE n == Setup!NextTunnel
<1>1. stage = "listen" /\ UNCHANGED <<stage, wish, suggestion>>
  BY DEF Setup!Listen
<1>2. PICK a \in Setup!Attempts(n) :
        bound' = [u \in DOMAIN bound \cup {n} |-> IF u = n THEN a[2] ELSE bound[u]]
  BY DEF Setup!Listen
<1>3. wish.bind /= "name" /\ None /= "name"
  BY <1>1, SetupAssumption DEF LocalInv
<1>4. /\ Allowed(n, a[2][1])
      /\ wish.host[n] = None /\ wish.bind /= None => a[2][1] = wish.bind
      /\ wish.port[n] /= None => a[2][2] = wish.port[n]
  BY <1>2, <1>3, AttemptsObey
<1> HIDE DEF n
<1>5. /\ DOMAIN bound' = DOMAIN bound \cup {n} /\ bound'[n] = a[2]
      /\ \A u \in DOMAIN bound : u /= n => bound'[u] = bound[u]
  BY <1>2
<1>6. ASSUME NEW t \in DOMAIN bound'
      PROVE  /\ Allowed(t, bound'[t][1])
             /\ wish.host[t] = None /\ wish.bind /= None => bound'[t][1] = wish.bind
             /\ wish.port[t] /= None => bound'[t][2] = wish.port[t]
  <2>1. CASE t = n
    BY <2>1, <1>4, <1>5
  <2>2. CASE t /= n
    BY <2>2, <1>5 DEF LocalInv
  <2> QED BY <2>1, <2>2
<1> QED BY <1>1, <1>3, <1>6 DEF LocalInv, Allowed, Setup!Loopback

LEMMA LocalStep == LocalInv /\ [Setup!Next]_(Setup!setupVars) => LocalInv'
<1> SUFFICES ASSUME LocalInv, [Setup!Next]_(Setup!setupVars) PROVE LocalInv'
  OBVIOUS
<1>1. ASSUME bound' = <<>>, stage' = "listen" => wish'.bind /= "name" PROVE LocalInv'
  BY <1>1, EmptyDomain DEF LocalInv
<1>2. ASSUME UNCHANGED <<wish, suggestion, bound>>,
             stage' = "up" \/ (stage \notin {"listen", "up"} /\ stage' /= "listen")
      PROVE  LocalInv'
  BY <1>2, EmptyDomain DEF LocalInv, Allowed, Setup!Loopback
<1>3. CASE Setup!Listen
  BY <1>3, SetupListenStep
<1>4. ASSUME NEW w \in Wishes, NEW s \in Offers, NEW taken \in Occupied, Setup!Granted(w, s, taken)
      PROVE  LocalInv'
  BY <1>1, <1>4 DEF LocalInv, Setup!Granted
<1>5. CASE Setup!ListenFails \/ Setup!StatusFails
  BY <1>1, <1>5 DEF Setup!ListenFails, Setup!StatusFails
<1>6. CASE Setup!Connected
  BY <1>2, <1>6 DEF Setup!Connected, Setup!local
<1>7. ASSUME NEW o \in Setup!Answers, Setup!NewConnectionNetwork(o) PROVE LocalInv'
  BY <1>2, <1>7 DEF Setup!NewConnectionNetwork, Setup!local
<1>8. ASSUME NEW names \in Resolved, Setup!Resolve(names) PROVE LocalInv'
  BY <1>2, <1>8 DEF Setup!Resolve, Setup!local
<1>14. ASSUME NEW names \in Resolved, NEW i \in DOMAIN names, NEW socks \in BOOLEAN,
              Setup!LookupFails(names, i, socks)
       PROVE  LocalInv'
  BY <1>2, <1>14 DEF Setup!LookupFails, Setup!local
<1>9. ASSUME UNCHANGED <<stage, wish, suggestion, bound>> PROVE LocalInv'
  BY <1>9 DEF LocalInv, Allowed, Setup!Loopback
<1>10. ASSUME NEW i \in DOMAIN dial, Setup!Dials(i) \/ Setup!Cancelled(i) PROVE LocalInv'
  BY <1>9, <1>10 DEF Setup!Dials, Setup!Cancelled, Setup!local
<1>11. ASSUME NEW i \in DOMAIN dial, NEW how \in {"open", "error"}, Setup!Reports(i, how)
       PROVE  LocalInv'
  BY <1>9, <1>11 DEF Setup!Reports, Setup!local
<1>12. CASE Setup!Takes \/ Setup!TimesOut \/ Setup!NetworkFails
  BY <1>2, <1>12 DEF Setup!Takes, Setup!TimesOut, Setup!NetworkFails, Setup!local
<1>13. CASE UNCHANGED Setup!setupVars
  BY <1>9, <1>13 DEF Setup!setupVars
<1> QED BY <1>3, <1>4, <1>5, <1>6, <1>7, <1>8, <1>10, <1>11, <1>12, <1>13, <1>14 DEF Setup!Next

\* The race gives up only when no address answered and leaves the family the
\* user asked for only after a failed look-up, the transport is one the
\* server offers and the user asked for, and the listeners are where the
\* user allows, a UDP tunnel's host name apart (raceResolvedDial,
\* raceDialAddrs, newConnectionNetwork, listenLocal and listenLocalUDP of
\* client.go).
THEOREM SetupIsSound == Setup!Spec => []Setup!SetupSound
<1> DEFINE SetupInv == RaceInv /\ TransportInv /\ LocalInv
<1>1. Setup!Init => SetupInv
  <2> SUFFICES ASSUME Setup!Init PROVE SetupInv
    OBVIOUS
  <2>1. RaceInv
    BY EmptyDomain, FS_EmptySet DEF Setup!Init, RaceInv, RaceTypes, RaceReports, RaceOutcome
  <2>2. TransportInv /\ LocalInv
    BY EmptyDomain DEF Setup!Init, TransportInv, LocalInv
  <2> QED BY <2>1, <2>2
<1>2. SetupInv => Setup!SetupSound
  <2> SUFFICES ASSUME SetupInv PROVE Setup!SetupSound
    OBVIOUS
  <2>1. stage = "failed" /\ conn = 0 => \A i \in DOMAIN dial : dial[i] /= "open"
    BY DEF RaceInv, RaceOutcome
  <2>2. \A i \in DOMAIN dial : Setup!MatchesIPVersion(addrs[i]) \/ unresolved
    BY DEF RaceInv, RaceTypes
  <2> QED BY <2>1, <2>2 DEF Setup!SetupSound, TransportInv, LocalInv, Allowed
<1>3. SetupInv /\ [Setup!Next]_(Setup!setupVars) => SetupInv'
  BY RaceStep, TransportStep, LocalStep
<1> QED BY <1>1, <1>2, <1>3, PTL DEF Setup!Spec

-----------------------------------------------------------------------------
(* The user's commands and their files.  The invariant is about the record *)
(* of a process: it is a command's in full, or nothing but where it is.    *)
CommandFields == {"at", "server", "cmd", "check", "sso", "up", "again", "pin", "cert", "method",
                  "issuer", "token", "cache"}

InCommand(r) == r.at \notin {"idle", "logout"}

Shaped(r) ==
  /\ r.at /= "idle" => r.server \in Servers
  /\ InCommand(r) => DOMAIN r = CommandFields /\ r.method \in {None, "ssh", "oidc"}
  /\ r.at = "up" => r.up

\* The pins a command works with are the user's.
Pinned(s, c) == c = None \/ <<s, c>> \in agreed
PinsAgreed(f) == DOMAIN f = Servers /\ \A s \in Servers : Pinned(s, f[s])

Trusting(r) ==
  /\ InCommand(r) => Pinned(r.server, r.pin) /\ (r.up /\ r.check = "pin" => <<r.server, r.cert>> \in agreed)
  /\ r.at = "trust" => PinsAgreed(r.cache) /\ <<r.server, r.cert>> \in agreed

\* A token is at hand for its own issuer.
Obtaining == {"get", "refresh", "login", "put", "renewed"}
IssuedFor(r) ==
  /\ r.at \in Obtaining => r.issuer /= None
  /\ r.at \in {"refresh", "put", "renewed"} => r.token = r.issuer

HomeTypes ==
  /\ presents \in [Servers -> Certs]
  /\ PinsAgreed(pins)
  /\ \A r \in released : r[1] = r[2]

ProcsInv == \A p \in DOMAIN proc : Shaped(proc[p]) /\ Trusting(proc[p]) /\ IssuedFor(proc[p])

\* One command at a time: its copy of the file is the file but for its own
\* entry, and it does not hold a token that was forgotten.
Copied(r) ==
  /\ r.at \in {"get", "logout"} => r.cache = tokenFile
  /\ r.at \in Obtaining => DOMAIN r.cache = Servers /\ \A s \in Servers \ {r.server} : r.cache[s] = tokenFile[s]
  /\ r.at \in {"refresh", "renewed"} => r.server \notin forgotten \ astray
  /\ r.at = "put" => r.server \notin forgotten

StoreInv ==
  /\ DOMAIN tokenFile = Servers /\ DOMAIN keyring = Servers
  /\ \A s \in Servers : tokenFile[s] = None /\ s \notin astray => keyring[s] = None
  /\ \A s \in Servers \cap (forgotten \ astray) : tokenFile[s] = None
  /\ silent \subseteq astray

AloneInv == Home!Alone => StoreInv /\ \A p \in DOMAIN proc : Copied(proc[p])

\* What a step makes of the record of its process
Others(p) == DOMAIN proc' = DOMAIN proc /\ \A q \in DOMAIN proc : q /= p => proc'[q] = proc[q]
Stops(p) == Others(p) /\ proc'[p].at = "idle"
Moves(p, at, changed) ==
  /\ Others(p) /\ DOMAIN proc'[p] = CommandFields /\ proc'[p].at = at
  /\ \A f \in CommandFields \ changed : proc'[p][f] = proc[p][f]
GivesUp(p) == Stops(p) \/ (proc[p].up /\ Moves(p, "up", {"at"}))
Asks(p) == /\ ~proc[p].up
           /\ Moves(p, "ask", {"at", "cert"})

LEMMA GiveUpEffect ==
  ASSUME NEW p \in DOMAIN proc, DOMAIN proc[p] = CommandFields, Home!GiveUp(p)
  PROVE  GivesUp(p)
BY DEF Home!GiveUp, Home!Idle, CommandFields, GivesUp, Stops, Moves, Others

LEMMA RejectedEffect ==
  ASSUME NEW p \in DOMAIN proc, DOMAIN proc[p] = CommandFields, NEW c, Home!Rejected(p, c)
  PROVE  GivesUp(p) \/ Asks(p)
<1>1. CASE proc' = [proc EXCEPT ![p].at = "ask", ![p].cert = c]
  <2>1. Moves(p, "ask", {"at", "cert"})
    BY <1>1 DEF CommandFields, Moves, Others
  <2>2. CASE ~proc[p].up
    BY <2>1, <2>2 DEF Asks
  <2>3. CASE proc[p].up
    BY <2>3, GiveUpEffect DEF Home!Rejected
  <2> QED BY <2>2, <2>3
<1> QED BY <1>1, GiveUpEffect DEF Home!Rejected

LEMMA BeginEffect ==
  ASSUME NEW p \in DOMAIN proc, NEW s \in Servers, NEW o \in CommandLines, Home!Begin(p, s, o)
  PROVE  /\ Others(p) /\ DOMAIN proc'[p] = CommandFields /\ proc'[p].at = "start"
         /\ proc'[p].server = s /\ proc'[p].pin = None /\ proc'[p].method = None
         /\ ~proc'[p].up
<1>1. /\ Others(p) /\ DOMAIN proc'[p] = CommandFields /\ proc'[p].at = "start"
      /\ proc'[p].server = s /\ proc'[p].pin = None /\ proc'[p].method = None
  BY DEF Home!Begin, CommandFields, Others
<1>2. proc'[p].up = FALSE
  BY DEF Home!Begin
<1> QED BY <1>1, <1>2

LEMMA HttpClientEffect ==
  ASSUME NEW p \in DOMAIN proc, DOMAIN proc[p] = CommandFields, Home!HttpClient(p)
  PROVE  \/ GivesUp(p)
         \/ Asks(p)
         \/ Moves(p, "method", {"at", "pin"}) /\ proc'[p].pin = pins[proc[p].server]
<1>1. CASE proc' = [proc EXCEPT ![p].at = "method", ![p].pin = pins[proc[p].server]]
  BY <1>1 DEF CommandFields, Moves, Others
<1> QED BY <1>1, RejectedEffect DEF Home!HttpClient

LEMMA TrustEffects ==
  ASSUME NEW p \in DOMAIN proc, DOMAIN proc[p] = CommandFields
  PROVE  /\ Home!Trusts(p) => Moves(p, "trust", {"at", "cache"}) /\ proc'[p].cache = pins
         /\ Home!TrustServer(p) => Moves(p, "start", {"at", "again", "cache"})
<1>1. Home!Trusts(p) => Moves(p, "trust", {"at", "cache"}) /\ proc'[p].cache = pins
  BY DEF Home!Trusts, CommandFields, Moves, Others
<1>2. Home!TrustServer(p) => Moves(p, "start", {"at", "again", "cache"})
  BY DEF Home!TrustServer, CommandFields, Moves, Others
<1> QED BY <1>1, <1>2

LEMMA AuthenticateEffect ==
  ASSUME NEW p \in DOMAIN proc, DOMAIN proc[p] = CommandFields, proc[p].method \in {None, "ssh", "oidc"},
         Home!AuthenticateAny(p)
  PROVE  \/ GivesUp(p)
         \/ Moves(p, "submit", {"at", "method"}) /\ proc'[p].method = "ssh"
         \/ /\ Moves(p, "get", {"at", "method", "issuer", "cache"})
            /\ proc'[p].method = "oidc" /\ proc'[p].issuer /= None /\ proc'[p].cache = tokenFile
<1> DEFINE i == advertised[proc[p].server]
           m == IF proc[p].method /= None THEN proc[p].method ELSE IF proc[p].sso THEN "oidc" ELSE "ssh"
<1>1. m \in {"ssh", "oidc"}
  OBVIOUS
<1>2. CASE m = "ssh"
  <2>1. proc' = [proc EXCEPT ![p].at = "submit", ![p].method = m]
    BY <1>2 DEF Home!AuthenticateAny
  <2> HIDE DEF m
  <2> QED BY <1>2, <2>1 DEF CommandFields, Moves, Others
<1>3. CASE m = "oidc" /\ i = None
  <2>1. Home!GiveUp(p)
    BY <1>3 DEF Home!AuthenticateAny
  <2> QED BY <2>1, GiveUpEffect
<1>4. CASE m = "oidc" /\ i /= None
  <2>1. proc' = [proc EXCEPT ![p].at = "get", ![p].method = m, ![p].issuer = i, ![p].cache = tokenFile]
    BY <1>4 DEF Home!AuthenticateAny
  <2> HIDE DEF m, i
  <2> QED BY <1>4, <2>1 DEF CommandFields, Moves, Others
<1> QED BY <1>1, <1>2, <1>3, <1>4

LEMMA TokenFoundEffect ==
  ASSUME NEW p \in DOMAIN proc, DOMAIN proc[p] = CommandFields, NEW e, NEW cache,
         Home!TokenFound(p, e, cache)
  PROVE  /\ proc'[p].cache = cache
         /\ \/ /\ Moves(p, "refresh", {"at", "token", "cache"})
               /\ proc'[p].token = proc[p].issuer /\ e \in Home!Token
               /\ silent' = silent \cup ({proc[p].server} \cap forgotten)
            \/ Moves(p, "login", {"at", "token", "cache"}) /\ silent' = silent
<1>1. CASE Home!Usable(e, proc[p].issuer)
  <2>1. /\ proc' = [proc EXCEPT ![p].token = e, ![p].cache = cache, ![p].at = "refresh"]
        /\ silent' = silent \cup ({proc[p].server} \cap forgotten)
    BY <1>1 DEF Home!TokenFound
  <2>2. e \in Home!Token /\ e = proc[p].issuer
    BY <1>1 DEF Home!Usable
  <2> QED BY <2>1, <2>2 DEF CommandFields, Moves, Others
<1>2. CASE ~Home!Usable(e, proc[p].issuer)
  <2>1. /\ proc' = [proc EXCEPT ![p].token = None, ![p].cache = cache, ![p].at = "login"]
        /\ silent' = silent
    BY <1>2 DEF Home!TokenFound
  <2> QED BY <2>1 DEF CommandFields, Moves, Others
<1> QED BY <1>1, <1>2

LEMMA ObtainEffects ==
  ASSUME NEW p \in DOMAIN proc, DOMAIN proc[p] = CommandFields
  PROVE  /\ \A ok \in BOOLEAN : Home!Refresh(p, ok) => Moves(p, "renewed", {"at"}) \/ Moves(p, "login", {"at"})
         /\ Home!Login(p) => Moves(p, "put", {"at", "token"}) /\ proc'[p].token = proc[p].issuer
         /\ Home!Submits(p) => Moves(p, "submit", {"at", "cache", "token"})
<1>1. ASSUME NEW ok \in BOOLEAN, Home!Refresh(p, ok)
      PROVE  Moves(p, "renewed", {"at"}) \/ Moves(p, "login", {"at"})
  <2>1. CASE proc' = [proc EXCEPT ![p].at = "renewed"]
    BY <2>1 DEF CommandFields, Moves, Others
  <2>2. CASE proc' = [proc EXCEPT ![p].at = "login"]
    BY <2>2 DEF CommandFields, Moves, Others
  <2> QED BY <1>1, <2>1, <2>2 DEF Home!Refresh, Home!Goto
<1>2. Home!Login(p) => Moves(p, "put", {"at", "token"}) /\ proc'[p].token = proc[p].issuer
  BY DEF Home!Login, CommandFields, Moves, Others
<1>3. Home!Submits(p) => Moves(p, "submit", {"at", "cache", "token"})
  BY DEF Home!Submits, CommandFields, Moves, Others
<1> QED BY <1>1, <1>2, <1>3

LEMMA SubmitEffect ==
  ASSUME NEW p \in DOMAIN proc, DOMAIN proc[p] = CommandFields, Home!Submit(p)
  PROVE  \/ GivesUp(p)
         \/ Asks(p)
         \/ /\ Moves(p, "up", {"at", "up", "cert", "issuer"}) /\ proc'[p].up
            /\ proc'[p].cert = presents[proc[p].server]
            /\ Home!Verifies(p, presents[proc[p].server], proc[p].pin)
<1> DEFINE c == presents[proc[p].server]
<1>1. CASE ~Home!Verifies(p, c, proc[p].pin)
  BY <1>1, RejectedEffect DEF Home!Submit
<1>2. CASE Home!Verifies(p, c, proc[p].pin)
  <2>1. CASE Home!GiveUp(p)
    BY <2>1, GiveUpEffect
  <2>2. CASE proc' = [proc EXCEPT ![p] = Home!Idle]
    BY <2>2 DEF Home!Idle, GivesUp, Stops, Others
  <2>3. CASE proc' = [proc EXCEPT ![p].at = "up", ![p].up = TRUE, ![p].cert = c, ![p].issuer = None]
    <3> HIDE DEF c
    <3>1. Moves(p, "up", {"at", "up", "cert", "issuer"}) /\ proc'[p].cert = c
      BY <2>3 DEF CommandFields, Moves, Others
    <3>2. proc'[p].up = TRUE
      BY <2>3 DEF CommandFields
    <3> QED BY <3>1, <3>2, <1>2 DEF c
  <2> HIDE DEF c
  <2>4. Home!GiveUp(p) \/ proc' = [proc EXCEPT ![p] = Home!Idle]
        \/ proc' = [proc EXCEPT ![p].at = "up", ![p].up = TRUE, ![p].cert = c, ![p].issuer = None]
    BY <1>2, Zenon DEF Home!Submit, c
  <2> QED BY <2>1, <2>2, <2>3, <2>4
<1> QED BY <1>1, <1>2

\* The records of the other processes are as good as before.
LEMMA OtherProcs ==
  ASSUME ProcsInv, NEW p \in DOMAIN proc, Others(p), agreed \subseteq agreed',
         Shaped(proc[p])', Trusting(proc[p])', IssuedFor(proc[p])'
  PROVE  ProcsInv'
<1> SUFFICES ASSUME NEW q \in DOMAIN proc, q /= p
             PROVE  Shaped(proc[q])' /\ Trusting(proc[q])' /\ IssuedFor(proc[q])'
  BY DEF ProcsInv, Others
<1>1. proc'[q] = proc[q] /\ Shaped(proc[q]) /\ Trusting(proc[q]) /\ IssuedFor(proc[q])
  BY DEF ProcsInv, Others
<1>2. Shaped(proc[q])' /\ IssuedFor(proc[q])'
  BY <1>1 DEF Shaped, IssuedFor, InCommand
<1>3. Trusting(proc[q])'
  BY <1>1 DEF Trusting, InCommand, PinsAgreed, Pinned
<1> QED BY <1>2, <1>3

LEMMA StoppedProc ==
  ASSUME ProcsInv, NEW p \in DOMAIN proc, Stops(p), agreed' = agreed
  PROVE  ProcsInv'
<1>1. Shaped(proc[p])' /\ Trusting(proc[p])' /\ IssuedFor(proc[p])'
  BY DEF Stops, Shaped, Trusting, IssuedFor, InCommand, Obtaining
<1> QED BY <1>1, OtherProcs DEF Stops

\* A command that goes on with the same server under the same certificate,
\* and keeps its way of logging in.
LEMMA MovedProc ==
  ASSUME ProcsInv, NEW p \in DOMAIN proc, InCommand(proc[p]), NEW at, NEW changed, Moves(p, at, changed),
         at \notin {"idle", "logout", "trust"},
         at = "up" => proc[p].up,
         {"server", "check", "up", "method", "pin"} \cap changed = {},
         "cert" \notin changed \/ ~proc[p].up,
         IssuedFor(proc[p])', agreed' = agreed
  PROVE  ProcsInv'
<1> DEFINE r == proc[p]
           q == proc'[p]
<1>1. /\ q.at = at /\ DOMAIN q = CommandFields /\ \A f \in CommandFields \ changed : q[f] = r[f]
      /\ Shaped(r) /\ Trusting(r)
  BY DEF Moves, ProcsInv
<1>2. q.server = r.server /\ q.check = r.check /\ q.method = r.method /\ q.pin = r.pin
  BY <1>1 DEF CommandFields
<1>3. (q.up <=> r.up) /\ (~r.up \/ q.cert = r.cert)
  BY <1>1 DEF CommandFields
<1>4. Shaped(proc[p])'
  BY <1>1, <1>2, <1>3 DEF Shaped, InCommand
<1>5. Trusting(proc[p])'
  BY <1>1, <1>2, <1>3 DEF Trusting, InCommand, Pinned
<1> QED BY <1>4, <1>5, OtherProcs DEF Moves

LEMMA GaveUpProc ==
  ASSUME ProcsInv, NEW p \in DOMAIN proc, InCommand(proc[p]), GivesUp(p) \/ Asks(p), agreed' = agreed
  PROVE  ProcsInv'
<1>1. CASE Stops(p)
  BY <1>1, StoppedProc
<1>2. CASE proc[p].up /\ Moves(p, "up", {"at"})
  <2>1. IssuedFor(proc[p])'
    BY <1>2 DEF Moves, IssuedFor, Obtaining
  <2> QED BY <1>2, <2>1, MovedProc
<1>3. CASE Asks(p)
  <2>1. IssuedFor(proc[p])'
    BY <1>3 DEF Moves, IssuedFor, Obtaining, Asks
  <2> QED BY <1>3, <2>1, MovedProc DEF Asks
<1> QED BY <1>1, <1>2, <1>3 DEF GivesUp

LEMMA CommandProc ==
  ASSUME ProcsInv, NEW p \in DOMAIN proc, InCommand(proc[p])
  PROVE  /\ DOMAIN proc[p] = CommandFields /\ proc[p].server \in Servers
         /\ proc[p].method \in {None, "ssh", "oidc"}
BY DEF ProcsInv, Shaped, InCommand

\* Most steps leave the servers, the pins and what was released alone.
LEMMA HomeTypesKept ==
  ASSUME HomeTypes, UNCHANGED <<presents, pins, released>>, agreed \subseteq agreed'
  PROVE  HomeTypes'
BY DEF HomeTypes, PinsAgreed, Pinned

PinInv == HomeTypes /\ ProcsInv

LEMMA BeginStep ==
  ASSUME PinInv, NEW p \in DOMAIN proc, NEW s \in Servers,
         Home!Logout(p, s) \/ \E o \in CommandLines : Home!Begin(p, s, o)
  PROVE  PinInv'
<1>1. HomeTypes'
  BY HomeTypesKept DEF PinInv, Home!Logout, Home!Begin, Home!files, Home!servers, Home!histories
<1>2. agreed' = agreed
  BY DEF Home!Logout, Home!Begin, Home!histories
<1>3. CASE Home!Logout(p, s)
  <2>1. Others(p) /\ proc'[p].at = "logout" /\ proc'[p].server = s
    BY <1>3 DEF Home!Logout, Others
  <2>2. Shaped(proc[p])' /\ Trusting(proc[p])' /\ IssuedFor(proc[p])'
    BY <2>1 DEF Shaped, Trusting, IssuedFor, InCommand, Obtaining
  <2> QED BY <2>1, <2>2, <1>1, <1>2, OtherProcs DEF PinInv
<1>4. ASSUME NEW o \in CommandLines, Home!Begin(p, s, o) PROVE PinInv'
  <2>1. /\ Others(p) /\ DOMAIN proc'[p] = CommandFields /\ proc'[p].at = "start"
        /\ proc'[p].server = s /\ proc'[p].pin = None /\ proc'[p].method = None
    BY <1>4, BeginEffect
  <2>2. ~proc'[p].up
    BY <1>4, BeginEffect
  <2>3. Shaped(proc[p])' /\ IssuedFor(proc[p])'
    BY <2>1 DEF Shaped, IssuedFor, InCommand, Obtaining
  <2>4. Trusting(proc[p])'
    BY <2>1, <2>2 DEF Trusting, InCommand, Pinned
  <2> QED BY <2>1, <2>3, <2>4, <1>1, <1>2, OtherProcs DEF PinInv
<1> QED BY <1>3, <1>4

LEMMA HttpClientStep ==
  ASSUME PinInv, NEW p \in DOMAIN proc, Home!HttpClient(p)
  PROVE  PinInv'
<1>1. HomeTypes' /\ agreed' = agreed
  BY HomeTypesKept DEF PinInv, Home!HttpClient, Home!files, Home!servers, Home!histories
<1>2. InCommand(proc[p]) /\ ProcsInv
  BY DEF Home!HttpClient, Home!Ready, InCommand, PinInv
<1>3. DOMAIN proc[p] = CommandFields /\ proc[p].server \in Servers
  BY <1>2, CommandProc
<1>4. CASE Moves(p, "method", {"at", "pin"}) /\ proc'[p].pin = pins[proc[p].server]
  <2> DEFINE r == proc[p]
             q == proc'[p]
  <2>1. /\ q.at = "method" /\ DOMAIN q = CommandFields
        /\ Shaped(r) /\ Trusting(r)
    BY <1>2, <1>4 DEF Moves, ProcsInv
  <2>2. q.server = r.server /\ q.check = r.check /\ q.method = r.method /\ q.cert = r.cert
    BY <1>4 DEF CommandFields, Moves
  <2>3. q.up <=> r.up
    BY <1>4 DEF CommandFields, Moves
  <2>4. Pinned(q.server, q.pin)
    BY <1>3, <1>4, <2>2 DEF PinInv, HomeTypes, PinsAgreed
  <2>5. Shaped(proc[p])' /\ IssuedFor(proc[p])'
    BY <2>1, <2>2, <1>2 DEF Shaped, IssuedFor, InCommand, Obtaining
  <2>6. Trusting(proc[p])'
    BY <2>1, <2>2, <2>3, <2>4, <1>1, <1>2 DEF Trusting, InCommand, Pinned
  <2> QED BY <1>1, <1>2, <1>4, <2>5, <2>6, OtherProcs DEF PinInv, Moves
<1> QED BY <1>1, <1>2, <1>3, <1>4, HttpClientEffect, GaveUpProc DEF PinInv

LEMMA TrustStep ==
  ASSUME PinInv, NEW p \in DOMAIN proc, Home!Trusts(p) \/ Home!TrustServer(p)
  PROVE  PinInv'
<1> DEFINE r == proc[p]
           q == proc'[p]
<1>1. InCommand(r) /\ ProcsInv
  BY DEF Home!Trusts, Home!TrustServer, Home!Ready, InCommand, PinInv
<1>2. DOMAIN r = CommandFields /\ r.server \in Servers /\ Shaped(r) /\ Trusting(r)
  BY <1>1, CommandProc DEF ProcsInv
<1>3. CASE Home!Trusts(p)
  <2>1. agreed' = agreed \cup {<<r.server, r.cert>>}
    BY <1>3 DEF Home!Trusts
  <2>2. HomeTypes'
    BY <1>3, <2>1, HomeTypesKept DEF PinInv, Home!Trusts, Home!files, Home!servers
  <2>3. Moves(p, "trust", {"at", "cache"}) /\ q.cache = pins /\ pins' = pins
    BY <1>2, <1>3, TrustEffects DEF Home!Trusts, Home!files
  <2>4. /\ q.at = "trust" /\ q.server = r.server /\ q.check = r.check /\ q.method = r.method
        /\ q.cert = r.cert /\ q.pin = r.pin /\ DOMAIN q = CommandFields
    BY <2>3 DEF CommandFields, Moves
  <2>5. Shaped(proc[p])' /\ IssuedFor(proc[p])'
    BY <2>4, <1>1, <1>2 DEF Shaped, IssuedFor, InCommand, Obtaining
  <2>6. PinsAgreed(pins)'
    BY <2>2 DEF HomeTypes
  <2>7. PinsAgreed(proc[p].cache)'
    BY <2>3, <2>6 DEF PinsAgreed, Pinned
  <2>8. Trusting(proc[p])'
    BY <2>1, <2>4, <2>7, <1>1, <1>2 DEF Trusting, InCommand, Pinned
  <2>9. Others(p) /\ agreed \subseteq agreed'
    BY <2>1, <2>3 DEF Moves
  <2> QED BY <1>1, <2>2, <2>5, <2>8, <2>9, OtherProcs DEF PinInv
<1>4. CASE Home!TrustServer(p)
  <2>1. agreed' = agreed /\ UNCHANGED <<presents, released>>
    BY <1>4 DEF Home!TrustServer, Home!servers, Home!histories
  <2>2. r.at = "trust" /\ pins' = [r.cache EXCEPT ![r.server] = r.cert]
    BY <1>4 DEF Home!TrustServer, Home!Ready
  <2>3. PinsAgreed(r.cache) /\ <<r.server, r.cert>> \in agreed
    BY <1>2, <2>2 DEF Trusting
  <2>4. PinsAgreed(pins)'
    BY <1>2, <2>1, <2>2, <2>3 DEF PinsAgreed, Pinned
  <2>5. HomeTypes'
    BY <2>1, <2>4 DEF PinInv, HomeTypes
  <2>6. Moves(p, "start", {"at", "again", "cache"})
    BY <1>2, <1>4, TrustEffects
  <2>7. IssuedFor(proc[p])'
    BY <2>6 DEF Moves, IssuedFor, Obtaining
  <2> QED BY <1>1, <2>1, <2>5, <2>6, <2>7, MovedProc DEF PinInv
<1> QED BY <1>3, <1>4

LEMMA MethodStep ==
  ASSUME PinInv, NEW p \in DOMAIN proc, Home!AuthenticateAny(p)
  PROVE  PinInv'
<1> DEFINE r == proc[p]
           q == proc'[p]
<1>1. HomeTypes' /\ agreed' = agreed
  BY HomeTypesKept DEF PinInv, Home!AuthenticateAny, Home!files, Home!servers, Home!histories
<1>2. InCommand(r) /\ ProcsInv
  BY DEF Home!AuthenticateAny, Home!Ready, InCommand, PinInv
<1>3. /\ DOMAIN r = CommandFields /\ r.server \in Servers /\ r.method \in {None, "ssh", "oidc"}
      /\ Shaped(r) /\ Trusting(r)
  BY <1>2, CommandProc DEF ProcsInv
<1>4. CASE GivesUp(p)
  BY <1>1, <1>2, <1>4, GaveUpProc DEF PinInv
<1>5. ASSUME NEW at \in {"submit", "get"}, NEW changed \in SUBSET {"at", "method", "issuer", "cache"},
             Moves(p, at, changed), q.method \in {"ssh", "oidc"}, at = "get" => q.issuer /= None
      PROVE  PinInv'
  <2>1. /\ q.at = at /\ q.server = r.server /\ q.check = r.check
        /\ q.cert = r.cert /\ q.pin = r.pin /\ DOMAIN q = CommandFields
    BY <1>5 DEF CommandFields, Moves
  <2>2. q.up <=> r.up
    BY <1>5 DEF CommandFields, Moves
  <2>3. Shaped(proc[p])' /\ IssuedFor(proc[p])'
    BY <2>1, <1>2, <1>3, <1>5 DEF Shaped, IssuedFor, InCommand, Obtaining
  <2>4. Trusting(proc[p])'
    BY <2>1, <2>2, <1>1, <1>2, <1>3 DEF Trusting, InCommand, Pinned
  <2> QED BY <1>1, <1>2, <1>5, <2>3, <2>4, OtherProcs DEF PinInv, Moves
<1>6. CASE Moves(p, "submit", {"at", "method"}) /\ q.method = "ssh"
  BY <1>5, <1>6
<1>7. CASE /\ Moves(p, "get", {"at", "method", "issuer", "cache"})
           /\ q.method = "oidc" /\ q.issuer /= None
  BY <1>5, <1>7
<1> QED BY <1>3, <1>4, <1>6, <1>7, AuthenticateEffect

\* GetNative, GetLegacy and GetMigrates differ in where the token is.
LEMMA TokenFoundStep ==
  ASSUME PinInv, NEW p \in DOMAIN proc, proc[p].at = "get", NEW e, NEW cache,
         Home!TokenFound(p, e, cache), UNCHANGED <<presents, pins, agreed, released>>
  PROVE  PinInv'
<1> DEFINE r == proc[p]
           q == proc'[p]
<1>1. HomeTypes' /\ ProcsInv /\ InCommand(r)
  BY HomeTypesKept DEF PinInv, InCommand
<1>2. DOMAIN r = CommandFields /\ IssuedFor(r)
  BY <1>1, CommandProc DEF ProcsInv
<1>3. \/ Moves(p, "refresh", {"at", "token", "cache"}) /\ q.token = r.issuer
      \/ Moves(p, "login", {"at", "token", "cache"})
  BY <1>2, TokenFoundEffect
<1>4. q.at \in {"refresh", "login"} /\ q.issuer = r.issuer /\ (q.at = "refresh" => q.token = r.issuer)
  BY <1>3 DEF Moves, CommandFields
<1>5. IssuedFor(proc[p])'
  BY <1>2, <1>4 DEF IssuedFor, Obtaining
<1> QED BY <1>1, <1>3, <1>5, MovedProc DEF PinInv

LEMMA ObtainStep ==
  ASSUME PinInv, NEW p \in DOMAIN proc,
         Home!Login(p) \/ \E ok \in BOOLEAN : Home!Refresh(p, ok)
  PROVE  PinInv'
<1> DEFINE r == proc[p]
           q == proc'[p]
<1>1. r.at \in {"refresh", "login"} /\ ProcsInv /\ InCommand(r)
  BY DEF PinInv, InCommand, Home!Ready, Home!Refresh, Home!Login
<1>2. DOMAIN r = CommandFields /\ IssuedFor(r)
  BY <1>1, CommandProc DEF ProcsInv
<1>3. UNCHANGED <<presents, pins, agreed>>
  BY DEF Home!Refresh, Home!Login, Home!files, Home!servers
<1>4. CASE Home!Login(p)
  <2>1. Moves(p, "put", {"at", "token"}) /\ q.token = r.issuer
    BY <1>2, <1>4, ObtainEffects
  <2>2. q.issuer = r.issuer /\ q.at = "put"
    BY <2>1 DEF Moves, CommandFields
  <2>3. IssuedFor(proc[p])'
    BY <2>1, <2>2, <1>1, <1>2 DEF IssuedFor, Obtaining
  <2>4. HomeTypes'
    BY <1>3, <1>4, HomeTypesKept DEF PinInv, Home!Login
  <2> QED BY <1>1, <1>3, <2>1, <2>3, <2>4, MovedProc DEF PinInv
<1>5. ASSUME NEW ok \in BOOLEAN, Home!Refresh(p, ok) PROVE PinInv'
  <2>1. Moves(p, "renewed", {"at"}) \/ Moves(p, "login", {"at"})
    BY <1>2, <1>5, ObtainEffects
  <2>2. q.issuer = r.issuer /\ q.token = r.token /\ q.at \in {"renewed", "login"}
    BY <2>1 DEF Moves, CommandFields
  <2>3. r.at = "refresh" /\ released' = released \cup {<<r.token, r.issuer>>}
    BY <1>5 DEF Home!Refresh, Home!Ready
  <2>4. r.token = r.issuer
    BY <1>2, <2>3 DEF IssuedFor
  <2>5. IssuedFor(proc[p])'
    BY <2>2, <2>3, <1>2 DEF IssuedFor, Obtaining
  <2>6. HomeTypes'
    BY <1>3, <2>3, <2>4 DEF PinInv, HomeTypes, PinsAgreed, Pinned
  <2> QED BY <1>1, <1>3, <2>1, <2>5, <2>6, MovedProc DEF PinInv
<1> QED BY <1>4, <1>5

LEMMA KeepStep ==
  ASSUME PinInv, NEW p \in DOMAIN proc, \E native \in BOOLEAN : Home!Put(p, native) \/ Home!PutFails(p, native)
  PROVE  PinInv'
<1>1. InCommand(proc[p]) /\ ProcsInv
  BY DEF PinInv, InCommand, Home!Ready, Home!Keeps, Home!Put, Home!PutFails
<1>2. DOMAIN proc[p] = CommandFields
  BY <1>1, CommandProc
<1>3. UNCHANGED <<presents, pins, agreed, released>>
  BY DEF Home!Put, Home!PutFails, Home!servers, Home!histories
<1>4. HomeTypes'
  BY <1>3, HomeTypesKept DEF PinInv
<1>5. CASE Home!GiveUp(p)
  BY <1>1, <1>2, <1>3, <1>4, <1>5, GiveUpEffect, GaveUpProc DEF PinInv
<1>6. CASE Home!Submits(p)
  <2>1. Moves(p, "submit", {"at", "cache", "token"})
    BY <1>2, <1>6, ObtainEffects
  <2>2. IssuedFor(proc[p])'
    BY <2>1 DEF Moves, IssuedFor, Obtaining
  <2> QED BY <1>1, <1>3, <1>4, <2>1, <2>2, MovedProc DEF PinInv
<1> QED BY <1>5, <1>6 DEF Home!Put, Home!PutFails

\* A session is up under the certificate it checked.
LEMMA SubmitStep ==
  ASSUME PinInv, NEW p \in DOMAIN proc, Home!Submit(p)
  PROVE  PinInv'
<1> DEFINE r == proc[p]
           q == proc'[p]
           c == presents[r.server]
<1>1. InCommand(r) /\ ProcsInv
  BY DEF PinInv, InCommand, Home!Ready, Home!Submit
<1>2. /\ DOMAIN r = CommandFields /\ r.server \in Servers /\ r.method \in {None, "ssh", "oidc"}
      /\ Shaped(r) /\ Trusting(r)
  BY <1>1, CommandProc DEF ProcsInv
<1>3. UNCHANGED <<presents, pins, agreed, released>>
  BY DEF Home!Submit, Home!servers, Home!histories
<1>4. HomeTypes'
  BY <1>3, HomeTypesKept DEF PinInv
<1>5. CASE GivesUp(p) \/ Asks(p)
  BY <1>1, <1>3, <1>4, <1>5, GaveUpProc DEF PinInv
<1>6. ASSUME Moves(p, "up", {"at", "up", "cert", "issuer"}), q.up, q.cert = c, Home!Verifies(p, c, r.pin)
      PROVE  PinInv'
  <2>1. /\ q.at = "up" /\ q.server = r.server /\ q.check = r.check /\ q.method = r.method
        /\ q.pin = r.pin /\ DOMAIN q = CommandFields
    BY <1>6 DEF CommandFields, Moves
  <2>2. c \in Certs /\ c /= None
    BY <1>2, HomeAssumption DEF PinInv, HomeTypes
  <2>3. Pinned(r.server, r.pin)
    BY <1>1, <1>2 DEF Trusting
  <2>4. r.check = "pin" => r.pin = c
    BY <1>6 DEF Home!Verifies
  <2>5. q.check = "pin" => <<q.server, q.cert>> \in agreed
    BY <1>6, <2>1, <2>2, <2>3, <2>4 DEF Pinned
  <2>6. Shaped(proc[p])' /\ IssuedFor(proc[p])'
    BY <2>1, <1>2, <1>6 DEF Shaped, IssuedFor, InCommand, Obtaining
  <2>7. Trusting(proc[p])'
    BY <2>1, <2>3, <2>5, <1>3 DEF Trusting, InCommand, Pinned
  <2> QED BY <1>1, <1>3, <1>4, <1>6, <2>6, <2>7, OtherProcs DEF PinInv, Moves
<1> QED BY <1>2, <1>5, <1>6, SubmitEffect

LEMMA EndStep ==
  ASSUME PinInv, NEW p \in DOMAIN proc,
         \/ Home!Quit(p) \/ Home!Dies(p) \/ Home!Disconnect(p)
         \/ Home!DeleteServer(p) \/ Home!DeleteUnsaved(p) \/ \E ok \in BOOLEAN : Home!DeleteFails(p, ok)
  PROVE  PinInv' /\ Stops(p)
<1>1. UNCHANGED <<presents, pins, agreed, released>>
  BY DEF Home!Quit, Home!Dies, Home!Disconnect, Home!DeleteServer, Home!DeleteUnsaved,
         Home!DeleteFails, Home!files, Home!servers, Home!histories
<1>2. proc' = [proc EXCEPT ![p] = Home!Idle]
  BY DEF Home!Quit, Home!Dies, Home!Disconnect, Home!DeleteServer, Home!DeleteUnsaved, Home!DeleteFails
<1>3. Stops(p)
  BY <1>2 DEF Stops, Others, Home!Idle
<1> QED BY <1>1, <1>3, HomeTypesKept, StoppedProc DEF PinInv

LEMMA QuietStep ==
  ASSUME PinInv, NEW p \in DOMAIN proc,
         Home!Declines(p) \/ Home!LoginFails(p) \/ Home!Refused(p) \/ Home!Reconnect(p)
  PROVE  PinInv' /\ (GivesUp(p) \/ Moves(p, "method", {"at"}))
<1>1. UNCHANGED <<presents, pins, agreed, released>>
  BY DEF Home!Declines, Home!LoginFails, Home!Refused, Home!Reconnect, Home!files, Home!servers,
         Home!histories
<1>2. InCommand(proc[p]) /\ ProcsInv
  BY DEF PinInv, InCommand, Home!Ready, Home!Declines, Home!LoginFails, Home!Refused, Home!Reconnect
<1>3. DOMAIN proc[p] = CommandFields
  BY <1>2, CommandProc
<1>4. HomeTypes'
  BY <1>1, HomeTypesKept DEF PinInv
<1>5. CASE Home!GiveUp(p)
  BY <1>1, <1>2, <1>3, <1>4, <1>5, GiveUpEffect, GaveUpProc DEF PinInv
<1>6. CASE Home!Goto(p, "method")
  <2>1. Moves(p, "method", {"at"})
    BY <1>3, <1>6 DEF Home!Goto, Moves, Others, CommandFields
  <2>2. IssuedFor(proc[p])'
    BY <2>1 DEF Moves, IssuedFor, Obtaining
  <2> QED BY <1>1, <1>2, <1>4, <2>1, <2>2, MovedProc DEF PinInv
<1> QED BY <1>5, <1>6 DEF Home!Declines, Home!LoginFails, Home!Refused, Home!Reconnect

LEMMA ServerStep ==
  ASSUME PinInv, NEW s \in Servers,
         \/ \E c \in Certs : Home!Rotate(s, c)
         \/ \E i \in Issuers \cup {None} : Home!Readvertise(s, i)
  PROVE  PinInv'
<1>1. UNCHANGED <<pins, agreed, released, proc>>
  BY DEF Home!Rotate, Home!Readvertise, Home!files, Home!histories
<1>2. presents' \in [Servers -> Certs]
  BY DEF Home!Rotate, Home!Readvertise, PinInv, HomeTypes
<1>3. HomeTypes'
  BY <1>1, <1>2 DEF PinInv, HomeTypes, PinsAgreed, Pinned
<1>4. ProcsInv'
  BY <1>1 DEF PinInv, ProcsInv, Shaped, Trusting, IssuedFor, InCommand, PinsAgreed, Pinned
<1> QED BY <1>3, <1>4 DEF PinInv

LEMMA PinStep == PinInv /\ [Home!Next]_(Home!homeVars) => PinInv'
<1> SUFFICES ASSUME PinInv, [Home!Next]_(Home!homeVars) PROVE PinInv'
  OBVIOUS
<1>1. ASSUME NEW p \in DOMAIN proc, NEW s \in Servers,
             Home!Logout(p, s) \/ \E o \in CommandLines : Home!Begin(p, s, o)
      PROVE  PinInv'
  BY <1>1, BeginStep
<1>2. ASSUME NEW p \in DOMAIN proc, Home!HttpClient(p) \/ Home!Trusts(p) \/ Home!TrustServer(p)
      PROVE  PinInv'
  BY <1>2, HttpClientStep, TrustStep
<1>3. ASSUME NEW p \in DOMAIN proc, Home!AuthenticateAny(p) \/ Home!Submit(p) PROVE PinInv'
  BY <1>3, MethodStep, SubmitStep
<1>4. ASSUME NEW p \in DOMAIN proc,
             Home!GetNative(p) \/ Home!GetLegacy(p) \/ \E ok \in BOOLEAN : Home!GetMigrates(p, ok)
      PROVE  PinInv'
  <2>1. proc[p].at = "get" /\ UNCHANGED <<presents, pins, agreed, released>>
    BY <1>4 DEF Home!GetNative, Home!GetLegacy, Home!GetMigrates, Home!Ready, Home!files, Home!servers
  <2>2. \E e, cache : Home!TokenFound(p, e, cache)
    BY <1>4 DEF Home!GetNative, Home!GetLegacy, Home!GetMigrates
  <2> QED BY <2>1, <2>2, TokenFoundStep
<1>5. ASSUME NEW p \in DOMAIN proc, Home!Login(p) \/ \E ok \in BOOLEAN : Home!Refresh(p, ok)
      PROVE  PinInv'
  BY <1>5, ObtainStep
<1>6. ASSUME NEW p \in DOMAIN proc, \E ok \in BOOLEAN : Home!Put(p, ok) \/ Home!PutFails(p, ok)
      PROVE  PinInv'
  BY <1>6, KeepStep
<1>7. ASSUME NEW p \in DOMAIN proc,
             \/ Home!Quit(p) \/ Home!Dies(p) \/ Home!Disconnect(p)
             \/ Home!DeleteServer(p) \/ Home!DeleteUnsaved(p) \/ \E ok \in BOOLEAN : Home!DeleteFails(p, ok)
      PROVE  PinInv'
  BY <1>7, EndStep
<1>8. ASSUME NEW p \in DOMAIN proc,
             Home!Declines(p) \/ Home!LoginFails(p) \/ Home!Refused(p) \/ Home!Reconnect(p)
      PROVE  PinInv'
  BY <1>8, QuietStep
<1>9. ASSUME NEW s \in Servers,
             \/ \E c \in Certs : Home!Rotate(s, c)
             \/ \E i \in Issuers \cup {None} : Home!Readvertise(s, i)
      PROVE  PinInv'
  BY <1>9, ServerStep
<1>10. CASE UNCHANGED Home!homeVars
  BY <1>10 DEF Home!homeVars, PinInv, HomeTypes, ProcsInv, Shaped, Trusting, IssuedFor, InCommand,
               PinsAgreed, Pinned
<1> QED BY <1>1, <1>2, <1>3, <1>4, <1>5, <1>6, <1>7, <1>8, <1>9, <1>10 DEF Home!Next

\* Alone, what one process does is all there is.
LEMMA AloneFrom ==
  ASSUME AloneInv, NEW p \in DOMAIN proc, Others(p),
         StoreInv /\ Copied(proc[p]) => StoreInv' /\ Copied(proc[p])'
  PROVE  AloneInv'
<1> SUFFICES ASSUME Home!Alone' PROVE StoreInv' /\ \A q \in DOMAIN proc' : Copied(proc[q])'
  BY DEF AloneInv
<1>1. Home!Alone /\ DOMAIN proc' = DOMAIN proc /\ \A q \in DOMAIN proc : q = p
  BY DEF Home!Alone, Others
<1>2. StoreInv' /\ Copied(proc[p])'
  BY <1>1 DEF AloneInv
<1> QED BY <1>1, <1>2

store == <<tokenFile, keyring, forgotten, silent, astray>>

LEMMA AloneQuiet ==
  ASSUME AloneInv, NEW p \in DOMAIN proc, Others(p), UNCHANGED store,
         proc'[p].at \notin Obtaining \cup {"logout"}
  PROVE  AloneInv'
<1>1. Copied(proc[p])'
  BY DEF Copied, Obtaining
<1>2. StoreInv => StoreInv'
  BY DEF StoreInv, store
<1> QED BY <1>1, <1>2, AloneFrom

LEMMA AloneGivesUp ==
  ASSUME AloneInv, NEW p \in DOMAIN proc, UNCHANGED store, GivesUp(p) \/ Asks(p)
  PROVE  AloneInv'
<1>1. Others(p) /\ proc'[p].at \in {"idle", "up", "ask"}
  BY DEF GivesUp, Asks, Stops, Moves
<1> QED BY <1>1, AloneQuiet DEF Obtaining

\* The copy is taken.
LEMMA AloneOpens ==
  ASSUME AloneInv, NEW p \in DOMAIN proc, Others(p), UNCHANGED store,
         proc'[p].at \in {"get", "logout"}, proc'[p].cache = tokenFile
  PROVE  AloneInv'
<1>1. StoreInv => StoreInv'
  BY DEF StoreInv, store
<1>2. StoreInv => Copied(proc[p])'
  BY DEF Copied, Obtaining, StoreInv, store
<1> QED BY <1>1, <1>2, AloneFrom

\* What is found is not a token that was forgotten: the file has no entry of
\* such a server, nor has the store.
LEMMA AloneFinds ==
  ASSUME PinInv, AloneInv, NEW p \in DOMAIN proc,
         Home!GetNative(p) \/ Home!GetLegacy(p) \/ \E ok \in BOOLEAN : Home!GetMigrates(p, ok)
  PROVE  AloneInv'
<1> DEFINE r == proc[p]
           q == proc'[p]
           s == r.server
<1>1. r.at = "get" /\ forgotten' = forgotten /\ astray' = astray
  BY DEF Home!GetNative, Home!GetLegacy, Home!GetMigrates, Home!Ready
<1>2. DOMAIN r = CommandFields /\ s \in Servers
  BY <1>1, CommandProc DEF PinInv, InCommand
<1>3. None \notin Home!Token /\ Index /= None
  BY HomeAssumption DEF Home!Token
<1>4. PICK e, cache :
        /\ Home!TokenFound(p, e, cache)
        /\ \/ cache = r.cache /\ UNCHANGED <<tokenFile, keyring>> /\ (e = keyring[s] \/ e = r.cache[s])
           \/ /\ e = r.cache[s] /\ e \in Home!Token /\ cache = [r.cache EXCEPT ![s] = Index]
              /\ keyring' = [keyring EXCEPT ![s] = e]
              /\ tokenFile' = cache \/ tokenFile' = tokenFile
  <2>1. CASE Home!GetNative(p) \/ Home!GetLegacy(p)
    BY <2>1 DEF Home!GetNative, Home!GetLegacy, Home!files
  <2>2. ASSUME NEW ok \in BOOLEAN, Home!GetMigrates(p, ok)
        PROVE  /\ Home!TokenFound(p, r.cache[s], [r.cache EXCEPT ![s] = Index])
               /\ r.cache[s] \in Home!Token /\ keyring' = [keyring EXCEPT ![s] = r.cache[s]]
               /\ tokenFile' = [r.cache EXCEPT ![s] = Index] \/ tokenFile' = tokenFile
    BY <2>2 DEF Home!GetMigrates
  <2> QED BY <2>1, <2>2
<1>5. /\ q.cache = cache /\ Others(p)
      /\ q.at \in {"refresh", "login"} /\ q.server = s
      /\ q.at = "refresh" => e \in Home!Token /\ silent' = silent \cup ({s} \cap forgotten)
      /\ q.at = "login" => silent' = silent
  BY <1>2, <1>4, TokenFoundEffect DEF Moves, CommandFields
<1> HIDE DEF r, q, s
<1>6. ASSUME StoreInv, Copied(r) PROVE StoreInv' /\ Copied(proc[p])'
  <2>1. r.cache = tokenFile /\ DOMAIN tokenFile = Servers
    BY <1>1, <1>6 DEF Copied, StoreInv
  <2>2. e \in Home!Token => s \notin forgotten \ astray
    BY <1>2, <1>3, <1>4, <1>6, <2>1 DEF StoreInv
  <2>3. silent' \subseteq astray'
    BY <1>1, <1>5, <1>6, <2>2 DEF StoreInv
  <2>4. StoreInv'
    <3>1. CASE UNCHANGED <<tokenFile, keyring>>
      BY <3>1, <1>1, <1>6, <2>3 DEF StoreInv
    <3>2. CASE /\ e = r.cache[s] /\ e \in Home!Token /\ cache = [r.cache EXCEPT ![s] = Index]
               /\ keyring' = [keyring EXCEPT ![s] = e]
               /\ tokenFile' = cache \/ tokenFile' = tokenFile
      <4>1. /\ DOMAIN tokenFile' = Servers /\ DOMAIN keyring' = Servers /\ tokenFile'[s] /= None
            /\ tokenFile[s] /= None
            /\ \A u \in Servers \ {s} : tokenFile'[u] = tokenFile[u] /\ keyring'[u] = keyring[u]
        BY <3>2, <1>2, <1>3, <1>6, <2>1 DEF StoreInv
      <4> QED BY <4>1, <1>1, <1>2, <1>6, <2>2, <2>3, <3>2 DEF StoreInv
    <3> QED BY <3>1, <3>2, <1>4
  <2>5. Copied(proc[p])'
    <3>1. DOMAIN cache = Servers /\ \A u \in Servers \ {s} : cache[u] = tokenFile'[u]
      BY <1>2, <1>4, <2>1
    <3> QED BY <3>1, <1>1, <1>5, <2>2 DEF Copied, Obtaining, q
  <2> QED BY <2>4, <2>5
<1> QED BY <1>5, <1>6, AloneFrom DEF r, q

\* The login ends what was forgotten.
LEMMA AloneObtains ==
  ASSUME PinInv, AloneInv, NEW p \in DOMAIN proc,
         Home!Login(p) \/ \E ok \in BOOLEAN : Home!Refresh(p, ok)
  PROVE  AloneInv'
<1> DEFINE r == proc[p]
           q == proc'[p]
<1>1. r.at \in {"refresh", "login"} /\ UNCHANGED <<tokenFile, keyring, silent, astray>>
  BY DEF Home!Login, Home!Refresh, Home!Ready, Home!files
<1>2. DOMAIN r = CommandFields /\ r.server \in Servers
  BY <1>1, CommandProc DEF PinInv, InCommand
<1>3. \/ Home!Login(p) /\ Moves(p, "put", {"at", "token"}) /\ forgotten' = forgotten \ {r.server}
      \/ /\ r.at = "refresh" /\ forgotten' = forgotten
         /\ Moves(p, "renewed", {"at"}) \/ Moves(p, "login", {"at"})
  BY <1>2, ObtainEffects DEF Home!Login, Home!Refresh, Home!Ready
<1>4. /\ Others(p) /\ q.cache = r.cache /\ q.server = r.server
      /\ \/ q.at = "put" /\ forgotten' = forgotten \ {r.server}
         \/ q.at \in {"renewed", "login"} /\ r.at = "refresh" /\ forgotten' = forgotten
  BY <1>3 DEF Moves, CommandFields
<1> HIDE DEF r, q
<1>5. ASSUME StoreInv, Copied(r) PROVE StoreInv' /\ Copied(proc[p])'
  <2>1. StoreInv'
    BY <1>1, <1>4, <1>5 DEF StoreInv
  <2>2. Copied(proc[p])'
    BY <1>1, <1>4, <1>5 DEF Copied, Obtaining, q
  <2> QED BY <2>1, <2>2
<1> QED BY <1>4, <1>5, AloneFrom DEF r

\* Saving the copy brings back no other entry.
LEMMA AlonePuts ==
  ASSUME PinInv, AloneInv, NEW p \in DOMAIN proc, NEW native \in BOOLEAN, Home!Put(p, native)
  PROVE  AloneInv'
<1> DEFINE r == proc[p]
           q == proc'[p]
           s == r.server
<1>1. /\ r.at \in {"put", "renewed"} /\ UNCHANGED <<forgotten, silent, astray>>
      /\ keyring' = keyring \/ keyring' = [keyring EXCEPT ![s] = r.token]
      /\ \E e \in {Index, r.token} : tokenFile' = [r.cache EXCEPT ![s] = e]
      /\ Home!Submits(p)
  BY DEF Home!Put, Home!Keeps, Home!Ready, Home!histories
<1>2. DOMAIN r = CommandFields /\ s \in Servers /\ IssuedFor(r)
  BY <1>1, CommandProc DEF PinInv, InCommand, ProcsInv
<1>3. r.token /= None /\ Index /= None
  BY <1>1, <1>2, HomeAssumption DEF IssuedFor, Obtaining
<1>4. Others(p) /\ q.at = "submit"
  BY <1>1, <1>2, ObtainEffects DEF Moves
<1> HIDE DEF r, q, s
<1>5. ASSUME StoreInv, Copied(r) PROVE StoreInv' /\ Copied(proc[p])'
  <2>1. /\ DOMAIN r.cache = Servers /\ \A u \in Servers \ {s} : r.cache[u] = tokenFile[u]
        /\ s \notin forgotten \ astray
    BY <1>1, <1>5 DEF Copied, Obtaining, s
  <2>2. /\ DOMAIN tokenFile' = Servers /\ DOMAIN keyring' = Servers /\ tokenFile'[s] /= None
        /\ \A u \in Servers \ {s} : tokenFile'[u] = tokenFile[u] /\ keyring'[u] = keyring[u]
    BY <1>1, <1>2, <1>3, <1>5, <2>1 DEF StoreInv
  <2>3. StoreInv'
    BY <1>1, <1>5, <2>1, <2>2 DEF StoreInv
  <2>4. Copied(proc[p])'
    BY <1>4 DEF Copied, Obtaining, q
  <2> QED BY <2>3, <2>4
<1> QED BY <1>4, <1>5, AloneFrom DEF r

LEMMA AlonePutFails ==
  ASSUME PinInv, AloneInv, NEW p \in DOMAIN proc, NEW native \in BOOLEAN, Home!PutFails(p, native)
  PROVE  AloneInv'
<1> DEFINE r == proc[p]
           q == proc'[p]
           s == r.server
<1>1. /\ r.at \in {"put", "renewed"} /\ UNCHANGED <<tokenFile, forgotten, silent>>
      /\ \/ UNCHANGED <<keyring, astray>>
         \/ keyring' = [keyring EXCEPT ![s] = r.token] /\ astray' = astray \cup {s}
      /\ Home!GiveUp(p) \/ Home!Submits(p)
  BY DEF Home!PutFails, Home!Keeps, Home!Ready
<1>2. DOMAIN r = CommandFields /\ s \in Servers
  BY <1>1, CommandProc DEF PinInv, InCommand
<1>3. Others(p) /\ q.at \in {"submit", "up", "idle"}
  BY <1>1, <1>2, ObtainEffects, GiveUpEffect DEF Moves, GivesUp, Stops
<1> HIDE DEF r, q, s
<1>4. ASSUME StoreInv PROVE StoreInv'
  BY <1>1, <1>2, <1>4 DEF StoreInv
<1>5. Copied(proc[p])'
  BY <1>3 DEF Copied, Obtaining, q
<1> QED BY <1>3, <1>4, <1>5, AloneFrom

\* After a logout neither the file nor the store has an entry, or the store
\* kept what the file lost.
LEMMA AloneDeletes ==
  ASSUME PinInv, AloneInv, NEW p \in DOMAIN proc,
         Home!DeleteServer(p) \/ Home!DeleteUnsaved(p) \/ \E ok \in BOOLEAN : Home!DeleteFails(p, ok)
  PROVE  AloneInv'
<1> DEFINE r == proc[p]
           s == r.server
<1>1. /\ r.at = "logout" /\ silent' = silent
      /\ \/ /\ tokenFile' = [r.cache EXCEPT ![s] = None]
            /\ \/ /\ astray' = astray /\ forgotten' = forgotten \cup {s}
                  /\ keyring' = IF r.cache[s] = None THEN keyring ELSE [keyring EXCEPT ![s] = None]
               \/ keyring' = keyring /\ astray' = astray \cup {s} /\ forgotten' = forgotten
         \/ /\ UNCHANGED <<tokenFile, astray, forgotten>>
            /\ keyring' = keyring \/ keyring' = [keyring EXCEPT ![s] = None]
  BY DEF Home!DeleteServer, Home!DeleteUnsaved, Home!DeleteFails, Home!Ready, Home!histories
<1>2. s \in Servers
  BY <1>1 DEF PinInv, ProcsInv, Shaped
<1>3. Stops(p)
  BY EndStep
<1> HIDE DEF r, s
<1>4. ASSUME StoreInv, Copied(r) PROVE StoreInv'
  <2>1. r.cache = tokenFile
    BY <1>1, <1>4 DEF Copied
  <2>2. /\ DOMAIN tokenFile' = Servers /\ DOMAIN keyring' = Servers
        /\ \A u \in Servers \ {s} : tokenFile'[u] = tokenFile[u] /\ keyring'[u] = keyring[u]
        /\ \/ tokenFile'[s] = None
           \/ tokenFile'[s] = tokenFile[s] /\ forgotten' = forgotten /\ astray' = astray
    BY <1>1, <1>2, <1>4, <2>1 DEF StoreInv
  <2>3. tokenFile'[s] = None /\ s \notin astray' => keyring'[s] = None
    BY <1>1, <1>2, <1>4, <2>1 DEF StoreInv
  <2> QED BY <1>1, <1>4, <2>2, <2>3 DEF StoreInv
<1>5. Copied(proc[p])'
  BY <1>3 DEF Copied, Obtaining, Stops
<1> QED BY <1>3, <1>4, <1>5, AloneFrom DEF Stops, r

LEMMA AloneStep == PinInv /\ AloneInv /\ [Home!Next]_(Home!homeVars) => AloneInv'
<1> SUFFICES ASSUME PinInv, AloneInv, [Home!Next]_(Home!homeVars) PROVE AloneInv'
  OBVIOUS
<1> USE DEF store
<1>1. ASSUME NEW p \in DOMAIN proc, NEW s \in Servers, Home!Logout(p, s) PROVE AloneInv'
  <2>1. /\ Others(p) /\ proc'[p].at = "logout" /\ proc'[p].cache = tokenFile
        /\ UNCHANGED <<tokenFile, keyring, forgotten, silent, astray>>
    BY <1>1 DEF Home!Logout, Others, Home!files, Home!histories
  <2> QED BY <2>1, AloneOpens
<1>2. ASSUME NEW p \in DOMAIN proc, NEW s \in Servers, NEW o \in CommandLines, Home!Begin(p, s, o)
      PROVE  AloneInv'
  <2>1. UNCHANGED <<tokenFile, keyring, forgotten, silent, astray>>
    BY <1>2 DEF Home!Begin, Home!files, Home!histories
  <2> QED BY <1>2, <2>1, BeginEffect, AloneQuiet DEF Obtaining
<1>3. ASSUME NEW p \in DOMAIN proc,
             Home!HttpClient(p) \/ Home!Trusts(p) \/ Home!TrustServer(p) \/ Home!AuthenticateAny(p) \/ Home!Submit(p)
      PROVE  AloneInv'
  <2>1. UNCHANGED <<tokenFile, keyring, forgotten, silent, astray>>
    BY <1>3 DEF Home!HttpClient, Home!Trusts, Home!TrustServer, Home!AuthenticateAny, Home!Submit, Home!files, Home!histories
  <2>2. InCommand(proc[p]) /\ ProcsInv
    BY <1>3 DEF Home!HttpClient, Home!Trusts, Home!TrustServer, Home!AuthenticateAny, Home!Submit, Home!Ready, InCommand, PinInv
  <2>3. DOMAIN proc[p] = CommandFields /\ proc[p].method \in {None, "ssh", "oidc"}
    BY <2>2, CommandProc
  <2>4. CASE GivesUp(p) \/ Asks(p)
    BY <2>1, <2>4, AloneGivesUp
  <2>5. ASSUME NEW at \in {"method", "trust", "start", "submit", "up"}, NEW changed, Moves(p, at, changed)
        PROVE  AloneInv'
    BY <2>1, <2>5, AloneQuiet DEF Moves, Obtaining
  <2>6. CASE Home!HttpClient(p)
    BY <2>3, <2>4, <2>5, <2>6, HttpClientEffect
  <2>7. CASE Home!Trusts(p) \/ Home!TrustServer(p)
    BY <2>3, <2>5, <2>7, TrustEffects
  <2>8. CASE Home!Submit(p)
    BY <2>3, <2>4, <2>5, <2>8, SubmitEffect
  <2>9. CASE Home!AuthenticateAny(p)
    <3>1. CASE Moves(p, "get", {"at", "method", "issuer", "cache"}) /\ proc'[p].cache = tokenFile
      BY <2>1, <3>1, AloneOpens DEF Moves
    <3> QED BY <2>3, <2>4, <2>5, <2>9, <3>1, AuthenticateEffect
  <2> QED BY <1>3, <2>6, <2>7, <2>8, <2>9
<1>4. ASSUME NEW p \in DOMAIN proc,
             Home!GetNative(p) \/ Home!GetLegacy(p) \/ \E ok \in BOOLEAN : Home!GetMigrates(p, ok)
      PROVE  AloneInv'
  BY <1>4, AloneFinds
<1>5. ASSUME NEW p \in DOMAIN proc, Home!Login(p) \/ \E ok \in BOOLEAN : Home!Refresh(p, ok)
      PROVE  AloneInv'
  BY <1>5, AloneObtains
<1>6. ASSUME NEW p \in DOMAIN proc, NEW ok \in BOOLEAN, Home!Put(p, ok) \/ Home!PutFails(p, ok)
      PROVE  AloneInv'
  BY <1>6, AlonePuts, AlonePutFails
<1>7. ASSUME NEW p \in DOMAIN proc,
             Home!DeleteServer(p) \/ Home!DeleteUnsaved(p) \/ \E ok \in BOOLEAN : Home!DeleteFails(p, ok)
      PROVE  AloneInv'
  BY <1>7, AloneDeletes
<1>8. ASSUME NEW p \in DOMAIN proc, Home!Quit(p) \/ Home!Dies(p) \/ Home!Disconnect(p) PROVE AloneInv'
  <2>1. UNCHANGED <<tokenFile, keyring, forgotten, silent, astray>>
    BY <1>8 DEF Home!Quit, Home!Dies, Home!Disconnect, Home!files, Home!histories
  <2>2. Stops(p)
    BY <1>8, EndStep
  <2> QED BY <2>1, <2>2, AloneQuiet DEF Stops, Obtaining
<1>9. ASSUME NEW p \in DOMAIN proc,
             Home!Declines(p) \/ Home!LoginFails(p) \/ Home!Refused(p) \/ Home!Reconnect(p)
      PROVE  AloneInv'
  <2>1. UNCHANGED <<tokenFile, keyring, forgotten, silent, astray>>
    BY <1>9 DEF Home!Declines, Home!LoginFails, Home!Refused, Home!Reconnect, Home!files, Home!histories
  <2>2. GivesUp(p) \/ Moves(p, "method", {"at"})
    BY <1>9, QuietStep
  <2>3. CASE Moves(p, "method", {"at"})
    BY <2>1, <2>3, AloneQuiet DEF Moves, Obtaining
  <2> QED BY <2>1, <2>2, <2>3, AloneGivesUp
<1>10. ASSUME UNCHANGED <<tokenFile, keyring, forgotten, silent, astray, proc>> PROVE AloneInv'
  BY <1>10 DEF AloneInv, StoreInv, Copied, Home!Alone
<1>11. ASSUME NEW s \in Servers,
              \/ \E c \in Certs : Home!Rotate(s, c)
              \/ \E i \in Issuers \cup {None} : Home!Readvertise(s, i)
       PROVE  AloneInv'
  BY <1>10, <1>11 DEF Home!Rotate, Home!Readvertise, Home!files, Home!histories
<1>12. CASE UNCHANGED Home!homeVars
  BY <1>10, <1>12 DEF Home!homeVars
<1> QED BY <1>1, <1>2, <1>3, <1>4, <1>5, <1>6, <1>7, <1>8, <1>9, <1>11, <1>12 DEF Home!Next

\* Whatever the user's processes write over each other: a pinned connection
\* is up under a certificate the user agreed to, a token goes to its own
\* issuer only, and one command at a time is never logged in silently after a
\* logout, unless the store and the file came apart (TrustServer, TokensForIssuer
\* and DeleteServer of pkg/client and pkg/oidcclient).
THEOREM HomeIsSound == Home!Spec => []Home!HomeSound
<1> DEFINE HomeInv == PinInv /\ AloneInv
<1>1. Home!Init => HomeInv
  <2> SUFFICES ASSUME Home!Init PROVE HomeInv
    OBVIOUS
  <2>1. \A p \in DOMAIN proc : proc[p].at = "idle"
    BY DEF Home!Init, Home!Idle
  <2>2. ProcsInv /\ \A p \in DOMAIN proc : Copied(proc[p])
    BY <2>1 DEF ProcsInv, Shaped, Trusting, IssuedFor, Copied, InCommand, Obtaining
  <2>3. HomeTypes
    BY HomeAssumption DEF Home!Init, HomeTypes, PinsAgreed, Pinned
  <2>4. StoreInv
    BY DEF Home!Init, StoreInv
  <2> QED BY <2>2, <2>3, <2>4 DEF PinInv, AloneInv
<1>2. HomeInv => Home!HomeSound
  <2> SUFFICES ASSUME HomeInv PROVE Home!HomeSound
    OBVIOUS
  <2>1. ASSUME NEW p \in DOMAIN proc, Home!Ready(p, "up"), proc[p].check = "pin"
        PROVE  <<proc[p].server, proc[p].cert>> \in agreed
    BY <2>1 DEF Home!Ready, PinInv, ProcsInv, Shaped, Trusting, InCommand
  <2>2. \A r \in released : r[1] = r[2]
    BY DEF PinInv, HomeTypes
  <2>3. Home!Alone => silent \subseteq astray
    BY DEF AloneInv, StoreInv
  <2> QED BY <2>1, <2>2, <2>3 DEF Home!HomeSound
<1>3. HomeInv /\ [Home!Next]_(Home!homeVars) => HomeInv'
  BY PinStep, AloneStep
<1> QED BY <1>1, <1>2, <1>3, PTL DEF Home!Spec

\* Starting up: what the user and the server agreed to is what the client's
\* files, transport and listeners hold (cmd/ntwire/main.go, pkg/client/client.go).
THEOREM ClientStartIsSound == Home!Spec /\ Setup!Spec => []ClientStartSound
BY HomeIsSound, SetupIsSound, PTL DEF ClientStartSound
=============================================================================
