-------------------------------- MODULE Relay --------------------------------
(***************************************************************************)
(* The relay process: dial-back, and beside it the parts that share no     *)
(* state with it: Kubernetes discovery, the sockets of the process, the    *)
(* native WireGuard forwarder and the limits on what a caller can make it  *)
(* remember.                                                               *)
(***************************************************************************)
EXTENDS RelayDialBack, Sequences

CONSTANTS
  Services, KubeHosts, Spaces, NoHost, MaxChanges,           \* KubernetesDiscovery
  Ports, Listening,                                          \* RelayProcess
  Clients, ClientIndex, ServerIndex, AddrsOf, ServerAddrs,   \* NativeWireGuard
  MaxTokens, MaxIndices,
  Nonces, TTL, MaxNonces,                                    \* AuthLimits
  Sources, Limit, Window, MaxSources, Watched, Share, MaxTime

VARIABLES
  cluster, labelled, services, ns, todo, byID, routes, conflicts, changes,
  want, bound, owned, serving, told, watching, life,
  issued, token, server, indices, flows, ring, at, pairs, pairRing, pairAt,
  now, seen, accepted, sources, sweepAt, allowed, evicted

\* A UID is no hostname, and neither is "none".
ASSUME DiscoveryAssumption == NoHost \notin Services \cup KubeHosts \cup Spaces

ASSUME SocketsAssumption == IsFiniteSet(Ports) /\ IsFiniteSet(Listening)

\* nativeWGMaxIndices is positive; an address or an index is somebody's.
ASSUME NativeAssumption ==
  /\ MaxIndices \in Nat \ {0}
  /\ \A i \in DOMAIN ClientIndex : ClientIndex[i] \in Clients
  /\ None \notin DOMAIN ClientIndex /\ None \notin DOMAIN ServerIndex
  /\ None \notin ServerAddrs
  /\ \A c \in Clients : None \notin AddrsOf[c]

\* NewNonceCache and NewSourceLimiter replace a size that is not positive by
\* the default, as every caller has it, which an eviction can free a share of.
ASSUME LimitsAssumption ==
  /\ IsFiniteSet(Nonces) /\ TTL \in Nat /\ MaxNonces \in Nat \ {0}
  /\ IsFiniteSet(Sources) /\ Watched \in Sources /\ Limit \in Nat \ {0} /\ Window \in Nat
  /\ MaxSources \in Nat /\ Share \in 1..MaxSources

Kube == INSTANCE KubernetesDiscovery WITH Hosts <- KubeHosts
Process == INSTANCE RelayProcess WITH Tenants <- Listening
Native == INSTANCE NativeWireGuard WITH live <- flows, Nobody <- None
Auth == INSTANCE AuthLimits

(* A hostname that two Services claim is routed to neither, the native     *)
(* forwarder answers only a client a route was made for, and every socket  *)
(* the relay opened is served or was closed again; no nonce is accepted    *)
(* twice while it is remembered as used, and no source exceeds its share,  *)
(* whatever the tables had to forget.                                      *)
RelaySound ==
  /\ Kube!NoArbitraryChoice /\ Native!NativeSound
  /\ Process!SocketsAccounted /\ Auth!LimitsHold
==============================================================================
