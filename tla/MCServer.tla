------------------------------ MODULE MCServer ------------------------------
(***************************************************************************)
(* The server's tables for TLC: sessions, with the requests that look them *)
(* up, and the UDP-relay allocations of the clients.  A behaviour is one   *)
(* of one part, chosen at the start, while the other stays in its initial  *)
(* state.                                                                  *)
(***************************************************************************)
EXTENDS Server, TLC

CONSTANTS p1, p2, k1, k2    \* Principals, Keys

VARIABLE part

Identities == (p1 :> "ssh key" @@ p2 :> "oidc email")
NoNative == [k \in Keys |-> None]

\* Everybody is known; p1 loses a tunnel and p2 is removed; k2 becomes a
\* native peer with the address the first session gets. For the requests of
\* /v1/wg and /v1/punch one configuration without tunnels is enough.
Wide    == [known |-> {p1, p2}, grants |-> (p1 :> {"a", "b"} @@ p2 :> {"a"}), native |-> NoNative]
Reduced == [Wide EXCEPT !.grants[p1] = {"a"}, !.known = {p1}]
Native  == [Wide EXCEPT !.native[k2] = 2]
Plain   == [Wide EXCEPT !.grants = [p \in Principals |-> {}]]

AllConfigs == {Wide, Reduced, Native, Plain}

\* One relay that has the UDP tier only.
UDPOnly == {[udp |-> TRUE, native |-> FALSE, domain |-> "a"]}

SlotSymmetry ==
  Permutations(Tokens) \cup Permutations(RelayTokens) \cup Permutations(Tiers) \cup Permutations(Clients)

ServerInit ==
  /\ part \in {"logins", "requests", "relay"}
  /\ Init /\ Relay!Init
  /\ (part = "logins") = (cfg /= Plain)

ServerNext ==
  \/ /\ part = "logins" /\ Next /\ disk' /= Plain /\ req' = req
     /\ UNCHANGED <<part, relayVars>>
  \/ /\ part = "requests" /\ Next /\ disk' = Plain
     /\ UNCHANGED <<part, relayVars>>
  \/ /\ part = "relay" /\ Relay!Next
     /\ UNCHANGED <<part, vars>>

ServerSpec == ServerInit /\ [][ServerNext]_<<part, vars, relayVars>>
=============================================================================
