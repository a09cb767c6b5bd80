------------------------------- MODULE DataPath -------------------------------
(***************************************************************************)
(* The parts of the data path and of starting up that are a matter of      *)
(* safety alone: the server's tunnel listeners, DNS server, UDP flows and  *)
(* configuration, the SOCKS proxy, and the client's files and first steps. *)
(* They share no state.                                                    *)
(***************************************************************************)
EXTENDS Naturals, Sequences, FiniteSets

CONSTANTS
  None,
  Tunnels, Settings, DnsAt, PortalAt, MaxReloads,             \* TunnelListeners
  Askers, Queries, Upstreams, Slots, ServerIP, MaxChanges,    \* TunnelDNS
  Sources, MaxFlows, MaxEpochs,                               \* UdpFlows
  Domains, Policies, Networks, Files, MaxSessions,            \* ServerConfig
  Addresses, Floor, Private, Hosts, Suffixed, Filters,        \* SocksSession
  NoName, Nowhere,
  Teams, Servers, Certs, Issuers, Signed, CommandLines,       \* ClientHome
  FirstCert, FirstIssuer, MaxRuns, Unbound, Index,
  Resolved, Order, Wishes, Offers, Occupied                   \* ClientSetup

VARIABLES
  conf, data, listening, open, todo, reloads, refresher, stopped, crashed,
  grants, config, forwarding, query, slots, leaked, told, known, changes,
  side, epoch, accepting, loop, flows, src, since, sock, reader, active,
  running, gateway, session, ids, cert, link, request, streams, loads,
  filter, policy, version, req, proxy, sockets, answers, client, local, heard, reached, edits,
  presents, advertised, pins, tokenFile, keyring, status, proc, agreed, released, forgotten,
  silent, astray, runs, rotations,
  ip, stage, unresolved, addrs, dial, results, seen, conn, offer, choice, wish, suggestion,
  occupied, bound

\* A tunnel without a setting is not configured, and the sockets of the
\* server's own services are no tunnel's.
ASSUME ListenersAssumption == None \notin Settings /\ "service" \notin Tunnels

ASSUME DnsAssumption == IsFiniteSet(Queries) /\ Slots \in Nat

ASSUME FlowsAssumption == MaxFlows \in Nat /\ Sources /= {}

Listeners == INSTANCE TunnelListeners WITH Absent <- None
Dns == INSTANCE TunnelDNS WITH held <- slots, Nobody <- None
Flows == INSTANCE UdpFlows WITH listening <- accepting
Conf == INSTANCE ServerConfig WITH reloads <- loads, MaxReloads <- MaxChanges
Socks == INSTANCE SocksSession WITH told <- heard, changes <- edits
Home == INSTANCE ClientHome WITH known <- pins, changes <- rotations
Setup == INSTANCE ClientSetup WITH heard <- seen, listening <- bound, Tunnels <- Order

\* What ParseConfig reads has the fields of Config.
ASSUME FilesAssumption == Files \subseteq Conf!Config

ASSUME FiltersAssumption == Filters \subseteq Socks!Filter

\* A server has a certificate, and no entry in a file is neither a token nor
\* the mark of one.
ASSUME HomeAssumption ==
  FirstCert \in Certs /\ None \notin Certs \cup Issuers \cup {Unbound, Index}

\* A resolver's answer is a list, and a tunnel without a host is not one
\* with a host name.
ASSUME SetupAssumption ==
  /\ \A names \in Resolved : IsFiniteSet(DOMAIN names) /\ DOMAIN names \subseteq Nat \ {0}
  /\ None /= "name"
-----------------------------------------------------------------------------
(* The tunnels' listeners follow the configuration, the DNS server keeps   *)
(* local names inside and its slots counted, a UDP flow's entry, socket    *)
(* and goroutine go together, the SOCKS proxy reaches only what the filter *)
(* and the policy allow and gives back what it opened, and the MASQUE      *)
(* gateway dials what the session and the configuration of the moment have.*)
DataPlaneSound ==
  /\ Listeners!ListenersFollowConfig /\ Dns!DnsSound
  /\ Flows!FlowsSound /\ Socks!SocksSound /\ Conf!MasqueSound

(* The client's pins, tokens and listeners are what the user and the       *)
(* server agreed to, and a logout is one.                                  *)
ClientStartSound == Home!HomeSound /\ Setup!SetupSound
===============================================================================
