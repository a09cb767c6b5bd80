------------------------------- MODULE MCRelay -------------------------------
(***************************************************************************)
(* The relay process for TLC: dial-back, and beside it the parts of the    *)
(* relay that share no state with it.  A behaviour is one of one part,     *)
(* chosen at the start, while the others stay in their initial state.      *)
(***************************************************************************)
EXTENDS Relay, TLC

VARIABLE part

\* A native client of two addresses and one of a single address.
MCClientIndex == (1 :> "a") @@ (2 :> "a") @@ (3 :> "b")
MCServerIndex == (11 :> "a") @@ (12 :> "a") @@ (13 :> "b")
MCAddrsOf == [c \in Clients |-> IF c = "a" THEN {"a1", "a2"} ELSE {"b1"}]

kubeVars == <<cluster, labelled, services, ns, todo, byID, routes, conflicts, changes>>
procVars == <<want, bound, owned, serving, told, watching, life>>
nativeVars == <<issued, token, server, indices, flows, ring, at, pairs, pairRing, pairAt>>
authVars == <<now, seen, accepted, sources, sweepAt, allowed, evicted>>

RelayInit ==
  /\ part \in {"dialback", "discovery", "process", "native", "nonces", "sources"}
  /\ Init /\ Kube!Init /\ Process!Init /\ Native!Init /\ Auth!Init
  /\ part /= "dialback" => agentUp = [t \in Tenants |-> FALSE] /\ discovered = [h \in Hosts |-> FALSE]
  /\ part /= "process" => want = Process!Plan(FALSE, FALSE, {}, {})

RelayNext ==
  \/ /\ part = "dialback" /\ Next
     /\ UNCHANGED <<part, kubeVars, procVars, nativeVars, authVars>>
  \/ /\ part = "discovery" /\ Kube!Next
     /\ UNCHANGED <<part, vars, procVars, nativeVars, authVars>>
  \/ /\ part = "process" /\ Process!Next
     /\ UNCHANGED <<part, vars, kubeVars, nativeVars, authVars>>
  \/ /\ part = "native" /\ Native!Next
     /\ UNCHANGED <<part, vars, kubeVars, procVars, authVars>>
  \/ /\ part = "nonces" /\ Auth!NonceNext
     /\ UNCHANGED <<part, vars, kubeVars, procVars, nativeVars>>
  \/ /\ part = "sources" /\ Auth!SourceNext
     /\ UNCHANGED <<part, vars, kubeVars, procVars, nativeVars>>

\* Nothing that Fairness asks for is possible before a connection arrives.
RelaySpec ==
  RelayInit /\ [][RelayNext]_<<part, vars, kubeVars, procVars, nativeVars, authVars>> /\ Fairness
==============================================================================
