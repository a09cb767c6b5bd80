---------------------------- MODULE RelayProcess ----------------------------
(***************************************************************************)
(* ntwire-relay as a process: Start binds its sockets one after the other, *)
(* hands them to the parts that use them and only then serves, and Close   *)
(* takes them back (pkg/relay/relay.go).  Which sockets there are depends  *)
(* on the configuration.                                                   *)
(***************************************************************************)
EXTENDS Integers, Sequences, FiniteSets, SequencesExt

CONSTANTS Ports, Tenants   \* of listen.udp_relay_ports; registrations

VARIABLES
  want,      \* the sockets the configuration asks for, in the order of Start
  bound,     \* the sockets that are open
  owned,     \* the sockets the Relay refers to, which Close closes
  serving,   \* the sockets with a goroutine that reads from them
  told,      \* what the agents listener offers to servers that register
  watching,  \* Kubernetes discovery runs
  life       \* "new", "starting", "failed", "running" or "closed"

procVars == <<want, bound, owned, serving, told, watching, life>>
-----------------------------------------------------------------------------
One(kind) == <<kind, "relay">>
Base == <<One("public"), One("agents")>>
Offers == {One("reflect"), One("udp")}

(* Start's order: the two listeners, the reflector, the UDP tier with its  *)
(* pool, the tenants' native WireGuard sockets and TCP listeners.          *)
Plan(reflect, udp, native, tcp) ==
  Base \o (IF reflect THEN <<One("reflect")>> ELSE <<>>)
       \o (IF udp THEN <<One("udp")>> \o SetToSeq({<<"port", p>> : p \in Ports}) ELSE <<>>)
       \o SetToSeq({<<"native", t>> : t \in native})
       \o SetToSeq({<<"tcp", t>> : t \in tcp})

Init ==
  /\ want \in {Plan(r, u, n, t) : r \in BOOLEAN, u \in BOOLEAN,
                                  n \in SUBSET Tenants, t \in SUBSET Tenants}
  /\ bound = {} /\ owned = {} /\ serving = {} /\ told = {}
  /\ watching = FALSE /\ life = "new"

(* Start: the next socket is bound, if it can be.                          *)
Bind ==
  /\ life \in {"new", "starting"} /\ Cardinality(bound) < Len(want)
  /\ bound' = bound \cup {want[Cardinality(bound) + 1]}
  /\ life' = "starting"
  /\ UNCHANGED <<want, owned, serving, told, watching>>

MutBindFails ==
  /\ life \in {"new", "starting"} /\ Cardinality(bound) < Len(want)
  /\ bound' = {s \in bound : s[1] = "native"}
  /\ life' = "failed"
  /\ UNCHANGED <<want, owned, serving, told, watching>>

(* abortAll: a socket that cannot be bound takes the others along.         *)
BindFails ==
  /\ life \in {"new", "starting"} /\ Cardinality(bound) < Len(want)
  /\ bound' = {} /\ life' = "failed"
  /\ UNCHANGED <<want, owned, serving, told, watching>>

All == ToSet(want)

(* The Relay takes the sockets over, and the agents listener learns what   *)
(* it may offer.                                                           *)
Hand ==
  /\ life = "starting" /\ Cardinality(bound) = Len(want) /\ owned = {}
  /\ owned' = bound /\ told' = All \cap Offers
  /\ UNCHANGED <<want, bound, serving, watching, life>>

(* Discovery comes before the goroutines that serve; without it the relay  *)
(* does not start.                                                         *)
Discover ==
  /\ life = "starting" /\ owned /= {} /\ ~watching
  /\ \/ watching' = TRUE /\ UNCHANGED <<bound, life>>
     \/ bound' = {} /\ life' = "failed" /\ UNCHANGED watching
  /\ UNCHANGED <<want, owned, serving, told>>

StartServing ==
  /\ life = "starting" /\ owned /= {}
  /\ serving' = owned /\ life' = "running"
  /\ UNCHANGED <<want, bound, owned, told, watching>>

(* Close: everything the Relay owns; connections already spliced go on.    *)
Close ==
  /\ life = "running"
  /\ bound' = bound \ owned /\ watching' = FALSE /\ life' = "closed"
  /\ UNCHANGED <<want, owned, serving, told>>

(* A reader whose socket is closed ends.                                   *)
ReaderEnds(s) ==
  /\ s \in serving \ bound
  /\ serving' = serving \ {s}
  /\ UNCHANGED <<want, bound, owned, told, watching, life>>

Next ==
  \/ Bind \/ BindFails \/ Hand \/ Discover \/ StartServing \/ Close
  \/ \E s \in All : ReaderEnds(s)

Spec == Init /\ [][Next]_procVars
-----------------------------------------------------------------------------
(* No socket is left behind by a start that failed half-way or by Close,   *)
(* what the agents listener offers is there to be used, and a relay that   *)
(* runs serves all it was asked to.                                        *)
SocketsAccounted ==
  /\ life \in {"failed", "closed"} => bound = {} /\ ~watching
  /\ life = "running" => serving = All /\ bound = All /\ told = All \cap Offers
  /\ serving /= {} => life \in {"running", "closed"}
=============================================================================
