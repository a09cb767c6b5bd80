---------------------------- MODULE ClientSetup -----------------------------
(***************************************************************************)
(* How ConnectWithOptions (pkg/client/client.go) gets from a server's name *)
(* to local listeners: the race between the addresses the name resolves    *)
(* to, the transport chosen from what the server offers and the user asked *)
(* for, and one local listener per tunnel, which softens an address it     *)
(* cannot bind.  The login between the first two is ClientHome's.          *)
(*                                                                         *)
(* Addresses are their family; a local host is "lo" (127.0.0.1), "alias"   *)
(* (another loopback address), "lan" or a host "name"; "any" is every      *)
(* interface, and port 0 is any free port.                                 *)
(***************************************************************************)
EXTENDS Naturals, Sequences, FiniteSets

CONSTANTS
  Resolved,     \* the lists of address families a name may resolve to
  Tunnels,      \* the server's tunnels, in its order
  Wishes,       \* the user's options on listeners: bind, host and port of each tunnel
  Offers,       \* the server's tunnels: host and port suggested, and which are UDP
  Occupied,     \* the sets of local addresses that cannot be bound
  None

VARIABLES
  ip,          \* Options.IPVersion: "any", "4" or "6"
  stage,       \* "resolve", "race", "answer", "network", "listen", "up", ...
  unresolved,  \* the client's own look-up of the name failed
  addrs,       \* the addresses of the name
  dial,        \* what the goroutine of each admitted address is doing
  results,     \* the channel they report to
  heard,       \* reports taken from it
  conn,        \* the address whose connection was returned, or 0
  offer,       \* what the server's answer says of transports
  choice,      \* the transport in use
  wish, suggestion, occupied,
  listening    \* the tunnels that have a listener, and where

setupVars == <<ip, stage, unresolved, addrs, dial, results, heard, conn, offer, choice, wish,
               suggestion, occupied, listening>>

race == <<unresolved, addrs, dial, results, heard, conn>>
transport == <<offer, choice>>
local == <<wish, suggestion, occupied, listening>>
-----------------------------------------------------------------------------
Init ==
  /\ ip \in {"any", "4", "6"} /\ stage = "resolve"
  /\ unresolved = FALSE /\ addrs = <<>> /\ dial = <<>> /\ results = <<>> /\ heard = 0 /\ conn = 0
  /\ offer = None /\ choice = None
  /\ wish = None /\ suggestion = None /\ occupied = {} /\ listening = <<>>

MatchesIPVersion(a) == ip = "any" \/ a = ip

(* raceResolvedDial, raceSOCKSResolvedDial: the admitted addresses, in the *)
(* resolver's order; the first is dialled at once.                         *)
Resolve(names) ==
  LET admitted == {i \in DOMAIN names : MatchesIPVersion(names[i])}
  IN /\ stage = "resolve"
     /\ stage' = IF admitted = {} THEN "failed" ELSE "race"
     /\ addrs' = names
     /\ dial' = [i \in admitted |->
                   IF \A j \in admitted : i <= j THEN "dialling" ELSE "waiting"]
     /\ UNCHANGED <<ip, unresolved, results, heard, conn, transport, local>>

(* The look-up fails.  Without a SOCKS proxy the name itself is dialled,   *)
(* and the dialer looks it up again, with no family left out.              *)
LookupFails(names, i, socks) ==
  /\ stage = "resolve" /\ stage' = IF socks THEN "failed" ELSE "race"
  /\ unresolved' = TRUE /\ addrs' = names
  /\ dial' = IF socks THEN <<>> ELSE [j \in {i} |-> "dialling"]
  /\ UNCHANGED <<ip, results, heard, conn, transport, local>>

(* The 150 ms of an address are over.                                      *)
Dials(i) ==
  /\ stage = "race" /\ dial[i] = "waiting" /\ dial' = [dial EXCEPT ![i] = "dialling"]
  /\ UNCHANGED <<ip, stage, unresolved, addrs, results, heard, conn, transport, local>>

(* A dial ends, be it after the race: the channel has room for everybody.  *)
Reports(i, how) ==
  /\ dial[i] = "dialling" /\ dial' = [dial EXCEPT ![i] = how] /\ results' = Append(results, i)
  /\ UNCHANGED <<ip, stage, unresolved, addrs, heard, conn, transport, local>>

(* The race is over, and with it the child context.                        *)
Cancelled(i) ==
  /\ stage /= "race" /\ dial[i] \in {"waiting", "dialling"}
  /\ dial' = [dial EXCEPT ![i] = "cancelled"] /\ results' = Append(results, i)
  /\ UNCHANGED <<ip, stage, unresolved, addrs, heard, conn, transport, local>>

(* The first report decides                                                *)
MutTakes ==
  /\ stage = "race" /\ heard < Len(results)
  /\ heard' = heard + 1
  /\ LET i == results[heard + 1]
     IN IF dial[i] = "open" THEN conn' = i /\ stage' = "answer"
        ELSE conn' = 0 /\ stage' = "failed"
  /\ UNCHANGED <<ip, unresolved, addrs, dial, results, transport, local>>

(* raceDialAddrs: the first connection is returned, an error once all have *)
(* failed.                                                                 *)
Takes ==
  /\ stage = "race" /\ heard < Len(results)
  /\ heard' = heard + 1
  /\ LET i == results[heard + 1]
     IN IF dial[i] = "open" THEN conn' = i /\ stage' = "answer"
        ELSE conn' = 0 /\ stage' = IF heard + 1 = Cardinality(DOMAIN dial) THEN "failed" ELSE "race"
  /\ UNCHANGED <<ip, unresolved, addrs, dial, results, transport, local>>

(* The request's 15 seconds are over.                                      *)
TimesOut ==
  /\ stage = "race" /\ stage' = "expired"
  /\ UNCHANGED <<ip, race, transport, local>>
-----------------------------------------------------------------------------
(* normalizeTransportPreference: -websocket is a transport of its own.     *)
Preference(o) == IF o.websocket THEN "wss" ELSE o.transport
Conflict(o) == o.websocket /\ o.transport \notin {"auto", "wss"}

(* newConnectionNetwork: an endpoint of an excluded family is none.        *)
UDPEndpoint(o) == IF o.udp /= None /\ MatchesIPVersion(o.udp) THEN o.udp ELSE None

Multipath(o) == o.multipath /\ o.v3

(* selectTransport: the WebSocket is used, or an error                     *)
UsesWebSocket(o) ==
  CASE Preference(o) = "direct-udp" -> FALSE
    [] Preference(o) \in {"wss", "udp-relay"} -> TRUE
    [] OTHER -> o.ws /\ (UDPEndpoint(o) = None \/ Multipath(o))

Unavailable(o) ==
  \/ Conflict(o)
  \/ IF UsesWebSocket(o) THEN ~o.ws ELSE UDPEndpoint(o) = None
  \/ Preference(o) = "udp-relay" /\ ~Multipath(o)

(* The answer arrives; wgnet.New or AddPeer may fail as well.  The race is *)
(* not followed further.                                                   *)
NewConnectionNetwork(o) ==
  /\ stage = "answer" /\ offer' = o
  /\ IF Unavailable(o) THEN stage' = "failed" /\ choice' = None
     ELSE /\ stage' = "network"
          /\ choice' = [ws |-> UsesWebSocket(o), udp |-> UDPEndpoint(o),
                        multipath |-> UsesWebSocket(o) /\ Multipath(o),
                        forced |-> IF UsesWebSocket(o) /\ Multipath(o) THEN Preference(o) ELSE "auto"]
  /\ unresolved' = FALSE /\ addrs' = <<>> /\ dial' = <<>> /\ results' = <<>> /\ heard' = 0 /\ conn' = 0
  /\ UNCHANGED <<ip, local>>

NetworkFails ==
  /\ stage = "answer" /\ stage' = "failed"
  /\ UNCHANGED <<ip, race, transport, local>>
-----------------------------------------------------------------------------
Loopback == {"lo", "alias"}

(* resolveTunnelHost: the user's host for the tunnel, the user's bind      *)
(* address, a loopback suggestion of the server, 127.0.0.1.                *)
ResolveTunnelHost(t) ==
  IF wish.host[t] /= None THEN [host |-> wish.host[t], soft |-> TRUE]
  ELSE IF wish.bind /= None THEN [host |-> wish.bind, soft |-> FALSE]
  ELSE IF suggestion.host[t] \in Loopback THEN [host |-> suggestion.host[t], soft |-> TRUE]
  ELSE [host |-> "lo", soft |-> TRUE]

(* The user's options and the server's suggestions for the tunnels come    *)
(* into play; resolveBindAddress has refused a name as the bind address.   *)
Granted(w, s, taken) ==
  /\ stage = "network" /\ stage' = "listen" /\ w.bind /= "name"
  /\ wish' = w /\ suggestion' = s /\ occupied' = taken
  /\ offer' = None /\ choice' = None
  /\ UNCHANGED <<ip, race, listening>>

LocalPort(t) == IF wish.port[t] /= None THEN wish.port[t] ELSE suggestion.port[t]

(* listenLocalUDP parses the host: a name gives no address, so the socket  *)
(* is on every interface.  A TCP listener looks the name up.               *)
ListensAt(t, host) == IF host = "name" /\ t \in suggestion.udp THEN "any" ELSE host

(* listenLocal, listenLocalUDP: the addresses that are tried, each with    *)
(* its turn                                                                *)
Attempts(t) ==
  LET h == ResolveTunnelHost(t)
      at == ListensAt(t, h.host)
      p == LocalPort(t)
      anyPort == wish.port[t] = None /\ p /= 0
      elsewhere == h.soft /\ h.host /= "lo"
  IN {<<1, <<at, p>>>>}
     \cup (IF anyPort THEN {<<2, <<at, 0>>>>} ELSE {})
     \cup (IF elsewhere THEN {<<3, <<"lo", p>>>>} ELSE {})
     \cup (IF elsewhere /\ anyPort THEN {<<4, <<"lo", 0>>>>} ELSE {})

(* Two sockets of one protocol do not share a port of an interface.        *)
Overlap(a, b) == a[2] = b[2] /\ (a[1] = b[1] \/ "any" \in {a[1], b[1]})

Bindable(t, a) ==
  /\ a \notin occupied
  /\ a[2] /= 0 => \A u \in DOMAIN listening :
                    (t \in suggestion.udp) = (u \in suggestion.udp) => ~Overlap(listening[u], a)

(* The first of the addresses that can be bound                            *)
First(t, a) == Bindable(t, a[2]) /\ \A b \in Attempts(t) : Bindable(t, b[2]) => a[1] <= b[1]

NextTunnel == Tunnels[Cardinality(DOMAIN listening) + 1]

(* One tunnel after the other; the first that finds no address ends the    *)
(* attempt, and Close releases the others.                                 *)
Listen ==
  /\ stage = "listen" /\ Cardinality(DOMAIN listening) < Len(Tunnels)
  /\ \E a \in Attempts(NextTunnel) :
       /\ First(NextTunnel, a)
       /\ listening' = [u \in DOMAIN listening \cup {NextTunnel} |->
                          IF u = NextTunnel THEN a[2] ELSE listening[u]]
  /\ UNCHANGED <<ip, stage, race, transport, wish, suggestion, occupied>>

ListenFails ==
  /\ stage = "listen" /\ Cardinality(DOMAIN listening) < Len(Tunnels)
  /\ \A b \in Attempts(NextTunnel) : ~Bindable(NextTunnel, b[2])
  /\ stage' = "failed" /\ listening' = <<>>
  /\ UNCHANGED <<ip, race, transport, wish, suggestion, occupied>>

Connected ==
  /\ stage = "listen" /\ Cardinality(DOMAIN listening) = Len(Tunnels) /\ stage' = "up"
  /\ UNCHANGED <<ip, race, transport, local>>

(* The status file cannot be written.                                      *)
StatusFails ==
  /\ stage = "listen" /\ Cardinality(DOMAIN listening) = Len(Tunnels)
  /\ stage' = "failed" /\ listening' = <<>>
  /\ UNCHANGED <<ip, race, transport, wish, suggestion, occupied>>

Answers == [udp : {None, "4", "6"}, ws : BOOLEAN, multipath : BOOLEAN, v3 : BOOLEAN,
            websocket : BOOLEAN, transport : {"auto", "wss", "direct-udp", "udp-relay"}]

Next ==
  \/ \E names \in Resolved : Resolve(names)
  \/ \E names \in Resolved : \E i \in DOMAIN names, socks \in BOOLEAN : LookupFails(names, i, socks)
  \/ \E i \in DOMAIN dial : Dials(i) \/ Cancelled(i) \/ \E how \in {"open", "error"} : Reports(i, how)
  \/ Takes \/ TimesOut
  \/ \E o \in Answers : NewConnectionNetwork(o)
  \/ \E w \in Wishes, s \in Offers, taken \in Occupied : Granted(w, s, taken)
  \/ NetworkFails \/ Listen \/ ListenFails \/ Connected \/ StatusFails

Spec == Init /\ [][Next]_setupVars
-----------------------------------------------------------------------------
(* The race gives up without a connection only when it was told to or no   *)
(* address would have answered, and connects to an excluded family only    *)
(* where the look-up failed; the transport in use is one the server offers *)
(* in an admitted address family, the one the user asked for if any was    *)
(* asked for; and no listener is beyond loopback or on another port than   *)
(* the user's unless the user said so, whatever the server suggests and    *)
(* whatever was occupied, but a UDP tunnel given a host name, which is on  *)
(* every interface.  A failed attempt leaves no listener.                  *)
SetupSound ==
  /\ stage = "failed" /\ conn = 0 => \A i \in DOMAIN dial : dial[i] /= "open"
  /\ \A i \in DOMAIN dial : MatchesIPVersion(addrs[i]) \/ unresolved
  /\ choice /= None =>
       /\ IF choice.ws THEN offer.ws ELSE choice.udp /= None
       /\ choice.udp /= None => choice.udp = offer.udp /\ MatchesIPVersion(choice.udp)
       /\ offer.transport = "direct-udp" => ~choice.ws
       /\ offer.websocket \/ offer.transport = "wss" => choice.ws
       /\ offer.transport = "udp-relay" => choice.multipath /\ choice.forced = "udp-relay"
  /\ \A t \in DOMAIN listening :
       /\ \/ listening[t][1] \in Loopback \cup {wish.bind, wish.host[t]}
          \/ listening[t][1] = "any" /\ wish.host[t] = "name" /\ t \in suggestion.udp
       /\ wish.host[t] = None /\ wish.bind /= None => listening[t][1] = wish.bind
       /\ wish.port[t] /= None => listening[t][2] = wish.port[t]
  /\ stage = "failed" => listening = <<>>
=============================================================================
