------------------------------- MODULE Server -------------------------------
(***************************************************************************)
(* The tables of ntwire-server together: the sessions (ServerSessions) and *)
(* the relays it is behind, with the UDP-relay allocations that it asks    *)
(* them for (ServerRelay).  Both have a set of WebSocket connections named *)
(* ws in the code: the carriers of sessions keep that name, the control    *)
(* connections to relays are relayWs.                                      *)
(***************************************************************************)
EXTENDS ServerSessions

CONSTANTS
  Members, Responses, Clients, RelayTokens, Tiers   \* of ServerRelay

\* None is no value of any of these, and a token is none of the other things
\* that the answer to a request can be.
ASSUME RelayConstants ==
  /\ \A r \in Responses : r.udp \in BOOLEAN /\ r.native \in BOOLEAN
  /\ None \notin Members \cup Clients \cup RelayTokens \cup Tiers \cup Responses
  /\ RelayTokens \cap {"request", "declined", "nothing"} = {}

VARIABLES
  ctl, relayWs, resp, serial, reg, domain, preferred, pending, upd, cb, closed,
  pub, udpr, tier, shut, call, loop, held, miss, young, report

Relay == INSTANCE ServerRelay WITH ws <- relayWs, Tokens <- RelayTokens

relayVars == <<ctl, relayWs, resp, serial, reg, domain, preferred, pending, upd, cb, closed,
               pub, udpr, tier, shut, call, loop, held, miss, young, report>>

(* The server has been told of the relay that is preferred now and of the  *)
(* associations there are now, once nobody is publishing (relaypool.go).   *)
PublicationCurrent == Relay!PublicationCurrent

(* Keepalives run for the allocations of the tier in use and for no other  *)
(* (udprelay.go).                                                          *)
KeepalivesOwned == Relay!TypeOK /\ Relay!KeepalivesOwned

(* An established allocation ends only for a reason (udprelay.go).         *)
EndsForAReason == Relay!EndsForAReason

(* The tier of a relay whose connection is lost is given up (relaypool.go, *)
(* server.go, EnableUDPRelay).                                             *)
DeadRelayAbandoned == Relay!DeadRelayAbandoned
=============================================================================
