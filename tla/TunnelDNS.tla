------------------------------ MODULE TunnelDNS ------------------------------
(***************************************************************************)
(* The DNS server inside the tunnel (pkg/server/dns.go).  A goroutine per  *)
(* query: it finds the principal of the asking address, answers for the    *)
(* names ntwire owns from the tunnels that principal may use, and hands a  *)
(* query without such a name to the upstream servers, one after another,   *)
(* while it has one of a fixed number of slots.                            *)
(*                                                                         *)
(* A name is what matchDomainPrefix makes of it: <<"apex">>, <<"list">>    *)
(* (service discovery), <<"srv", t>>, <<"host", t>> for any label t,       *)
(* <<"arpa", address>> or <<"out">>, a name outside every local domain.    *)
(* Record types are left out: they choose among the facts Facts names.     *)
(***************************************************************************)
EXTENDS Naturals, Sequences, FiniteSets

CONSTANTS
  Askers,      \* tunnel addresses
  Tunnels,     \* configured tunnels, and labels no tunnel has
  Queries,     \* slots for queries being handled
  Upstreams,   \* forwarding.upstreams, a sequence
  Slots,       \* capacity of dnsForwardSlots, 64 in the code
  MaxChanges,  \* changes of grants and configuration
  ServerIP, Nobody

VARIABLES
  grants,      \* asker -> the tunnels of its session, or Nobody
  config,      \* Server.Config.Tunnels
  forwarding,  \* forwarding.Enabled
  query,       \* what each goroutine is doing
  held,        \* tokens in dnsForwardSlots
  leaked,      \* history: local names that were sent upstream
  told,        \* history: query -> the tunnels its answer tells of
  known,       \* history: query -> the grants of its asker when identified
  changes

dnsVars == <<grants, config, forwarding, query, held, leaked, told, known, changes>>

Idle == [at |-> "idle"]
Names == {<<"apex">>, <<"list">>, <<"out">>} \cup ({"srv", "host"} \X Tunnels)
           \cup ({"arpa"} \X (Askers \cup {ServerIP}))
Questions == {<<n>> : n \in Names} \cup {<<<<"out">>, <<"list">>>>}

Init ==
  /\ grants \in [Askers -> {{}, Tunnels}] /\ config = Tunnels /\ forwarding \in BOOLEAN
  /\ query = [q \in Queries |-> Idle] /\ held = 0 /\ changes = 0
  /\ leaked = FALSE
  /\ told = [q \in Queries |-> {}] /\ known = [q \in Queries |-> {}]
-----------------------------------------------------------------------------
IsLocalDNSName(n) == n /= <<"out">>

(* A first question outside the local domains is enough                    *)
MutAllExternal(qs) == Len(qs) > 0 /\ ~IsLocalDNSName(qs[1])

AllExternal(qs) == Len(qs) > 0 /\ \A i \in DOMAIN qs : ~IsLocalDNSName(qs[i])

(* dnsLoop: a packet is read and gets a goroutine.                         *)
Read(q, a, qs) ==
  /\ query[q] = Idle
  /\ query' = [query EXCEPT ![q] = [at |-> "asked", from |-> a, qs |-> qs]]
  /\ known' = [known EXCEPT ![q] = {}] /\ told' = [told EXCEPT ![q] = {}]
  /\ UNCHANGED <<grants, config, forwarding, held, leaked, changes>>

(* handleDNS looks the principal up once: its grants are those of then.    *)
Identify(q) ==
  /\ query[q].at = "asked"
  /\ LET a == query[q].from
     IN  /\ query' = [query EXCEPT ![q] =
                        IF grants[a] = Nobody THEN Idle    \* refused
                        ELSE [at |-> "known", from |-> a, qs |-> @.qs, may |-> grants[a]]]
         /\ known' = [known EXCEPT ![q] = IF grants[a] = Nobody THEN {} ELSE grants[a]]
  /\ UNCHANGED <<grants, config, forwarding, held, leaked, told, changes>>

(* Saturated, the query fails and keeps no slot.                           *)
Dispatch(q) ==
  /\ query[q].at = "known"
  /\ IF ~(forwarding /\ AllExternal(query[q].qs))
     THEN query' = [query EXCEPT ![q].at = "answer"] /\ UNCHANGED <<held, leaked>>
     ELSE IF held = Slots
     THEN query' = [query EXCEPT ![q] = Idle] /\ UNCHANGED <<held, leaked>>
     ELSE /\ query' = [query EXCEPT ![q] = [at |-> "forward", from |-> @.from, i |-> 1]]
          /\ held' = held + 1
          /\ leaked' = (leaked \/ \E i \in DOMAIN query[q].qs : IsLocalDNSName(query[q].qs[i]))
  /\ UNCHANGED <<grants, config, forwarding, told, known, changes>>

(* forwardDNS: an upstream's answer ends the search, over TCP when it was  *)
(* truncated; anything else (no answer in time, another id) tries the      *)
(* next, and the last failure is answered with an error.                   *)
Exchange(q, good) ==
  /\ query[q].at = "forward"
  /\ IF good \/ query[q].i = Len(Upstreams)
     THEN query' = [query EXCEPT ![q].at = "return"]
     ELSE query' = [query EXCEPT ![q].i = @ + 1]
  /\ UNCHANGED <<grants, config, forwarding, held, leaked, told, known, changes>>

(* The deferred receive gives the slot back after the answer is written.   *)
Return(q) ==
  /\ query[q].at = "return" /\ query' = [query EXCEPT ![q] = Idle]
  /\ held' = held - 1
  /\ UNCHANGED <<grants, config, forwarding, leaked, told, known, changes>>

(* allowedTunnelsForPrincipal                                              *)
Allowed(may) == config \cap may

(* A tunnel's own name, as a service or as a host                          *)
Named(t, may) == Allowed(may) \cap {t}

(* The facts about tunnels that resolveDNSQuestion's answer holds: the     *)
(* apex and service discovery list them all, an address tells of none.     *)
Facts(n, may) ==
  CASE n \in {<<"apex">>, <<"list">>} -> Allowed(may)
    [] n[1] \in {"srv", "host"} -> Named(n[2], may)
    [] OTHER -> {}

(* Service discovery lists what the server has                             *)
MutFacts(n, may) == IF n = <<"list">> THEN config ELSE Facts(n, may)

MutResolve(q) ==
  /\ query[q].at = "answer" /\ query' = [query EXCEPT ![q] = Idle]
  /\ told' = [told EXCEPT ![q] =
       UNION {MutFacts(query[q].qs[i], query[q].may) : i \in DOMAIN query[q].qs}]
  /\ UNCHANGED <<grants, config, forwarding, held, leaked, known, changes>>

(* resolveDNSQuestion for the questions of the packet; the configuration   *)
(* is read after the principal.                                            *)
Resolve(q) ==
  /\ query[q].at = "answer" /\ query' = [query EXCEPT ![q] = Idle]
  /\ told' = [told EXCEPT ![q] =
       UNION {Facts(query[q].qs[i], query[q].may) : i \in DOMAIN query[q].qs}]
  /\ UNCHANGED <<grants, config, forwarding, held, leaked, known, changes>>

(* Sessions come, go and lose tunnels, and the configuration changes.      *)
SessionChanges(a, g) ==
  /\ changes < MaxChanges /\ changes' = changes + 1
  /\ grants' = [grants EXCEPT ![a] = g]
  /\ UNCHANGED <<config, forwarding, query, held, leaked, told, known>>

ConfigChanges(c, f) ==
  /\ changes < MaxChanges /\ changes' = changes + 1
  /\ config' = c /\ forwarding' = f
  /\ UNCHANGED <<grants, query, held, leaked, told, known>>

Handle(q) ==
  \/ Identify(q) \/ Dispatch(q) \/ Return(q) \/ Resolve(q)
  \/ \E good \in BOOLEAN : Exchange(q, good)

Next ==
  \/ \E q \in Queries, a \in Askers, qs \in Questions : Read(q, a, qs)
  \/ \E q \in Queries : Handle(q)
  \/ \E a \in Askers, g \in (SUBSET Tunnels) \cup {Nobody} : SessionChanges(a, g)
  \/ \E c \in SUBSET Tunnels, f \in BOOLEAN : ConfigChanges(c, f)

Spec == Init /\ [][Next]_dnsVars
-----------------------------------------------------------------------------
(* Local names stay inside, whatever else the packet asks; every query     *)
(* learns only of tunnels its session had been granted when it was         *)
(* identified, and a slot is held exactly while its query is forwarded.    *)
DnsSound ==
  /\ ~leaked
  /\ \A q \in Queries : told[q] \subseteq known[q]
  /\ held = Cardinality({q \in Queries : query[q].at \in {"forward", "return"}})
  /\ held <= Slots
==============================================================================
