---------------------------- MODULE ServerConfig ----------------------------
(***************************************************************************)
(* The server's configuration (pkg/server/config.go) from the file to what *)
(* is in force, and the MASQUE gateway (masque.go, masque_gateway.go) that *)
(* keeps its own copy of a part of it.  ParseConfig accepts a file as a    *)
(* whole; Reload puts some of its fields next to fields of the             *)
(* configuration the server started with.                                  *)
(*                                                                         *)
(* A certificate is of one session, and a connection to the gateway of the *)
(* certificate it was made with.  A CONNECT on it looks up the session,    *)
(* then the tunnel, and then dials, with no lock in between: a reload, a   *)
(* renewal or the end of the session comes anywhere.                       *)
(*                                                                         *)
(* A configuration is what its checks are about: which tunnels, policies   *)
(* and native peers there are and what they refer to, the tunnel network,  *)
(* and the switches that exclude or require each other.  The syntax of     *)
(* single values (addresses, URLs, ports, templates) is left out.          *)
(***************************************************************************)
EXTENDS Naturals, FiniteSets

CONSTANTS
  Tunnels, Domains, Policies,
  Networks,    \* candidates for network.tunnel_cidr
  Files,       \* the configuration files an operator may write
  MaxReloads,
  MaxSessions, \* bounds the sessions, renewals included
  None

VARIABLES
  running,   \* Server.Config, or None before the start
  gateway,   \* MASQUEGateway.config: domain -> tunnel, or None when there is none
  session,   \* the client's session: its ID and tunnels, or None
  ids,       \* session IDs given out
  cert,      \* the session the client's certificate is of, or None
  link,      \* the same of the connection to the gateway, or None
  request,   \* the CONNECT being handled
  streams,   \* tunnels with an open CONNECT stream
  reloads

cfgVars == <<running, gateway, session, ids, cert, link, request, streams, reloads>>
masqueVars == <<cert, link, streams>>

NoRequest == [at |-> "idle", tunnel |-> None, config |-> None, undisturbed |-> TRUE]
-----------------------------------------------------------------------------
(* The first address of the tunnel network, which is the server's          *)
ServerAddr(n) == <<n, 1>>

(* Config: logins, native, peers, cidr, upstream, relay, endpoint, direct, *)
(* force, multipath, tunnels, policies and masque, each as in Config       *)
Tunnel == [socks : BOOLEAN, policy : Policies \cup {None}]
Peer == [ip : Networks \X (1 .. 2), tunnels : SUBSET Tunnels,
         policy : Policies \cup {None}]
Config == [logins : SUBSET {"keys", "oidc"}, native : BOOLEAN, peers : SUBSET Peer,
           cidr : Networks, upstream : (Networks \X (1 .. 2)) \cup {None},
           relay : BOOLEAN, endpoint : BOOLEAN, direct : BOOLEAN, force : BOOLEAN,
           multipath : BOOLEAN, tunnels : UNION {[T -> Tunnel] : T \in SUBSET Tunnels},
           policies : SUBSET Policies,
           masque : {None} \cup UNION {[D -> Tunnels] : D \in SUBSET Domains}]

(* One kind of login is required.                                          *)
LoginGiven(c) == c.logins /= {} \/ c.native

(* DNS upstreams: the in-tunnel listener is none.                          *)
UpstreamElsewhere(c) == c.upstream /= ServerAddr(c.cidr)

ForceHasMultipath(c) == c.force => c.multipath

(* A relayed server advertises no endpoint, and the switches of relay mode *)
(* need it.                                                                *)
RelayConsistent(c) == IF c.relay THEN ~c.endpoint ELSE ~c.direct

PolicyKnown(c, p) == p = None \/ p \in c.policies

TunnelsConsistent(c) == \A t \in DOMAIN c.tunnels : PolicyKnown(c, c.tunnels[t].policy)

(* Native peers: enabled, inside the network and not the server, and what  *)
(* they refer to exists.                                                   *)
PeersInNetwork(c) ==
  \A p \in c.peers : p.ip[1] = c.cidr /\ p.ip /= ServerAddr(c.cidr)

PeersConsistent(c) ==
  /\ c.peers /= {} => c.native
  /\ \A p, q \in c.peers : p.ip = q.ip => p = q
  /\ \A p \in c.peers : PolicyKnown(c, p.policy) /\ p.tunnels \subseteq DOMAIN c.tunnels

(* The gateway's domains lead to configured tunnels that are not SOCKS.    *)
MasqueConsistent(c) ==
  c.masque /= None => \A d \in DOMAIN c.masque :
    c.masque[d] \in DOMAIN c.tunnels /\ ~c.tunnels[c.masque[d]].socks

ParseConfig(c) ==
  /\ LoginGiven(c) /\ UpstreamElsewhere(c) /\ ForceHasMultipath(c) /\ RelayConsistent(c)
  /\ TunnelsConsistent(c) /\ PeersInNetwork(c) /\ PeersConsistent(c) /\ MasqueConsistent(c)
-----------------------------------------------------------------------------
Init ==
  /\ running = None /\ gateway = None /\ session = None /\ ids = 0
  /\ cert = None /\ link = None /\ request = NoRequest /\ streams = {} /\ reloads = 0

(* main: the gateway copies its part of the configuration once.            *)
Start(c) ==
  /\ running = None /\ ParseConfig(c)
  /\ running' = c /\ gateway' = c.masque
  /\ link' = None /\ request' = NoRequest /\ streams' = {}
  /\ UNCHANGED <<session, ids, cert, reloads>>

(* The fields Reload keeps until a restart                                 *)
Kept(c) == [c EXCEPT !.cidr = running.cidr, !.relay = running.relay, !.direct = running.direct]

(* What a request was told is no longer so.  (History.)                    *)
Disturbs ==
  request' = IF request.at = "idle" THEN request ELSE [request EXCEPT !.undisturbed = FALSE]

(* Reload: the session keeps the tunnels that are still there, and goes    *)
(* without one.  A stream that is open stays open.                         *)
Reload(c) ==
  /\ running /= None /\ ParseConfig(c) /\ reloads < MaxReloads
  /\ reloads' = reloads + 1
  /\ running' = Kept(c)
  /\ session' = IF session = None \/ session.tunnels \cap DOMAIN c.tunnels = {} THEN None
                ELSE [session EXCEPT !.tunnels = @ \cap DOMAIN c.tunnels]
  /\ Disturbs
  /\ UNCHANGED <<gateway, ids, masqueVars>>

NewSession(tunnels) ==
  /\ ids < MaxSessions /\ ids' = ids + 1
  /\ session' = [id |-> ids + 1, tunnels |-> tunnels]

(* A session comes, is renewed under a new ID, and goes.                   *)
Login ==
  /\ running /= None /\ session = None /\ running.logins /= {}
  /\ DOMAIN running.tunnels /= {} /\ NewSession(DOMAIN running.tunnels)
  /\ Disturbs
  /\ UNCHANGED <<running, gateway, masqueVars, reloads>>

Renew ==
  /\ session /= None /\ NewSession(session.tunnels)
  /\ Disturbs
  /\ UNCHANGED <<running, gateway, masqueVars, reloads>>

Logout ==
  /\ session /= None /\ session' = None
  /\ Disturbs
  /\ UNCHANGED <<running, gateway, ids, masqueVars, reloads>>
-----------------------------------------------------------------------------
(* masqueCertificate: as long as the configuration has MASQUE, a live      *)
(* session gets a certificate, which ends when it would at the latest.     *)
MasqueCertificate ==
  /\ running /= None /\ running.masque /= None /\ session /= None
  /\ cert' = session.id
  /\ UNCHANGED <<running, gateway, session, ids, link, request, streams, reloads>>

CertificateExpires ==
  /\ cert /= None /\ cert' = None
  /\ UNCHANGED <<running, gateway, session, ids, link, request, streams, reloads>>

(* The certificate is verified when the connection is made, and not again. *)
MasqueHandshake ==
  /\ gateway /= None /\ link = None /\ cert /= None /\ link' = cert
  /\ UNCHANGED <<running, gateway, session, ids, cert, request, streams, reloads>>

LinkEnds ==
  /\ link /= None /\ link' = None /\ request' = NoRequest /\ streams' = {}
  /\ UNCHANGED <<running, gateway, session, ids, cert, reloads>>

(* connect: the connection names the session, which must live and have the *)
(* tunnel that the gateway's own table names for the domain.               *)
MasqueConnect(d) ==
  /\ link /= None /\ request.at = "idle"
  /\ session /= None /\ session.id = link
  /\ d \in DOMAIN gateway /\ gateway[d] \in session.tunnels
  /\ request' = [NoRequest EXCEPT !.at = "granted", !.tunnel = gateway[d]]
  /\ UNCHANGED <<running, gateway, session, ids, masqueVars, reloads>>

Fixed(t) == t \in DOMAIN running.tunnels /\ ~running.tunnels[t].socks

(* The gateway's table was checked when it was made                        *)
MutMasqueLooksUp ==
  /\ request.at = "granted" /\ request.tunnel \in DOMAIN running.tunnels
  /\ request' = [request EXCEPT !.at = "dial", !.config = running.tunnels[request.tunnel]]
  /\ UNCHANGED <<running, gateway, session, ids, masqueVars, reloads>>

(* tunnelConfig: the tunnel as it is configured now, if it is and is fixed *)
MasqueLooksUp ==
  /\ request.at = "granted" /\ Fixed(request.tunnel)
  /\ request' = [request EXCEPT !.at = "dial", !.config = running.tunnels[request.tunnel]]
  /\ UNCHANGED <<running, gateway, session, ids, masqueVars, reloads>>

(* It is not there or not fixed, or the CONNECT is for another port.       *)
MasqueRefuses ==
  /\ request.at = "granted" /\ request' = NoRequest
  /\ UNCHANGED <<running, gateway, session, ids, masqueVars, reloads>>

(* The dial may take its time, and fail.                                   *)
MasqueDialled(ok) ==
  /\ request.at = "dial" /\ request' = NoRequest
  /\ streams' = IF ok THEN streams \cup {request.tunnel} ELSE streams
  /\ UNCHANGED <<running, gateway, session, ids, cert, link, reloads>>

StreamEnds(t) ==
  /\ t \in streams /\ streams' = streams \ {t}
  /\ UNCHANGED <<running, gateway, session, ids, cert, link, request, reloads>>

Next ==
  \/ \E c \in Files : Start(c) \/ Reload(c)
  \/ Login \/ Renew \/ Logout \/ MasqueCertificate \/ CertificateExpires
  \/ MasqueHandshake \/ LinkEnds \/ MasqueLooksUp \/ MasqueRefuses
  \/ \E d \in Domains : MasqueConnect(d)
  \/ \E ok \in BOOLEAN : MasqueDialled(ok)
  \/ \E t \in Tunnels : StreamEnds(t)

Spec == Init /\ [][Next]_cfgVars
-----------------------------------------------------------------------------
(* However old the gateway's table, the certificate and the connection     *)
(* are, what a CONNECT dials is a fixed tunnel of the configuration in     *)
(* force, as it is configured there, of the live session that the          *)
(* certificate was made for; unless a reload, a renewal or the end of the  *)
(* session came during that very request.                                  *)
MasqueSound ==
  request.at = "dial" /\ request.undisturbed =>
    /\ Fixed(request.tunnel) /\ request.config = running.tunnels[request.tunnel]
    /\ session /= None /\ session.id = link /\ request.tunnel \in session.tunnels
=============================================================================
