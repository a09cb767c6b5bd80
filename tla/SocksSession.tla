----------------------------- MODULE SocksSession ----------------------------
(***************************************************************************)
(* One SOCKS session through a tunnel, from the application's request to   *)
(* the sockets it opens: the client's forwarder passes the handshake on    *)
(* (pkg/client forwardSocksUDPAssociateOn), the server's SOCKS proxy       *)
(* decides and opens (pkg/socks and newSocksRuntime of pkg/server), and a  *)
(* UDP association relays datagrams at both ends.  Once a CONNECT or BIND  *)
(* is answered its stream is StreamRelay's.                                *)
(*                                                                         *)
(* An address stands for its class; a filter is the set of addresses each  *)
(* of its lists matches.  The handshake's messages are one step each way.  *)
(***************************************************************************)
EXTENDS Naturals, FiniteSets

CONSTANTS
  Addresses,
  Floor,      \* loopback, link-local and unspecified addresses
  Private,    \* the addresses of localCIDRs
  Hosts,      \* names a request may hold
  Suffixed,   \* the names the domain filters match
  Filters,    \* the tunnel's filters to choose from, see Filter
  NoName, Nowhere

VARIABLES
  filter,    \* Server.filter, of the listener that accepted the session
  policy,    \* what Authorize permits now, {} when the tunnel is gone
  version,   \* 4 or 5
  req,       \* the request, or what became of it
  proxy,     \* the server's session: "hello", "open", "bound", "udp", "done"
  sockets,   \* what the server's session holds open
  answers,   \* destinations with a flow of the association
  client,    \* the forwarder: "dial", "pass", "relay", "udp", "closed"
  local,     \* the forwarder's loopback socket and its way into the tunnel
  told,      \* what the application was told
  reached,   \* history: <<host, address, the policy when asked>> dialled
  changes

socksVars == <<filter, policy, version, req, proxy, sockets, answers, client, local,
               told, reached, changes>>

(* FilterConfig, as what its lists match                                   *)
Filter == [onlyLocal : BOOLEAN, invert : BOOLEAN, allowAll : BOOLEAN, allowLocal : BOOLEAN,
           cidrs : SUBSET Addresses, asns : SUBSET Addresses, domains : BOOLEAN]

Commands == {"connect", "bind", "udp", "other"}

Init ==
  /\ filter \in Filters /\ policy = Addresses /\ version \in {4, 5}
  /\ req = [cmd |-> "none"] /\ proxy = "hello" /\ sockets = {} /\ answers = {}
  /\ client = "dial" /\ local = {} /\ told = "nothing" /\ reached = {} /\ changes = 0
-----------------------------------------------------------------------------
(* NewFilter's hasFilters                                                  *)
HasFilters(f) == f.cidrs \cup f.asns /= {} \/ f.domains \/ f.invert

(* The networks match, and the name where there are domain filters         *)
Matches(f, host, ip) ==
  LET net == ip \in f.cidrs \cup f.asns
  IN  IF f.domains THEN (f.cidrs = {} \/ net) /\ host \in Suffixed ELSE net

(* The floor is one more thing that invert turns around                    *)
MutAllowed(f, host, ip) ==
  LET floor == f.allowLocal \/ ip \notin Floor
  IN  IF f.onlyLocal THEN ip \in Private
      ELSE IF HasFilters(f) THEN (Matches(f, host, ip) /\ floor) /= f.invert
      ELSE f.allowAll /\ floor

(* Filter.Allowed                                                          *)
Allowed(f, host, ip) ==
  /\ f.allowLocal \/ ip \notin Floor
  /\ IF f.onlyLocal THEN ip \in Private
     ELSE IF HasFilters(f) THEN Matches(f, host, ip) /= f.invert
     ELSE f.allowAll

(* filterDestinationProtocol: a name is resolved once and its first        *)
(* address is what is judged, and what is dialled.                         *)
Granted(host, ip) == Allowed(filter, host, ip) /\ ip \in policy

(* What the request's destination resolves to                              *)
Resolves(r, ip) == IF r.host = NoName THEN ip = r.ip ELSE TRUE

Fails(answer) == /\ proxy' = "done" /\ sockets' = {} /\ req' = [req EXCEPT !.answer = answer]

(* The application connects and asks; SOCKS4 knows no names and no UDP.    *)
Request(cmd, host, ip) ==
  /\ client = "dial" /\ req.cmd = "none"
  /\ version = 4 => host = NoName /\ cmd /= "udp"
  /\ host = NoName \/ ip = Nowhere
  /\ host /= NoName \/ ip \in Addresses
  /\ req' = [cmd |-> cmd, host |-> host, ip |-> ip, answer |-> "none"]
  /\ client' = "pass"
  /\ UNCHANGED <<filter, policy, version, proxy, sockets, answers, local, told, reached, changes>>

(* serveSocks4, serveSocks5: CONNECT dials what was judged.                *)
Connect(ip, dials) ==
  /\ proxy = "hello" /\ req.cmd = "connect" /\ Resolves(req, ip)
  /\ IF Granted(req.host, ip) /\ dials
     THEN /\ proxy' = "open" /\ sockets' = {"out"}
          /\ req' = [req EXCEPT !.answer = "granted"]
          /\ reached' = reached \cup {<<req.host, ip, policy>>}
     ELSE Fails("failed") /\ UNCHANGED reached
  /\ UNCHANGED <<filter, policy, version, answers, client, local, told, changes>>

(* BIND when the tunnel allows it: the peer named is judged, a listener    *)
(* opens for one connection and is closed when it came or did not come.    *)
Bind(ip, enabled) ==
  /\ proxy = "hello" /\ req.cmd = "bind" /\ Resolves(req, ip)
  /\ IF enabled /\ Granted(req.host, ip)
     THEN /\ proxy' = "bound" /\ sockets' = {"listener"}
          /\ req' = [req EXCEPT !.answer = "granted"]
     ELSE Fails("failed")
  /\ UNCHANGED <<filter, policy, version, answers, client, local, told, reached, changes>>

AcceptBind(comes) ==
  /\ proxy = "bound"
  /\ IF comes THEN /\ proxy' = "open" /\ sockets' = {"peer"} /\ UNCHANGED req
              ELSE Fails("failed")
  /\ UNCHANGED <<filter, policy, version, answers, client, local, told, reached, changes>>

(* UDP ASSOCIATE: a socket of its own inside the tunnel                    *)
Associate(listens) ==
  /\ proxy = "hello" /\ req.cmd = "udp"
  /\ IF listens
     THEN /\ proxy' = "udp" /\ sockets' = {"udp"}
          /\ req' = [req EXCEPT !.answer = "granted"]
     ELSE Fails("failed")
  /\ UNCHANGED <<filter, policy, version, answers, client, local, told, reached, changes>>

Unsupported ==
  /\ proxy = "hello" /\ req.cmd = "other" /\ Fails("failed")
  /\ UNCHANGED <<filter, policy, version, answers, client, local, told, reached, changes>>

(* Only the flow's first datagram is judged, by its name                   *)
MutDatagram(host, ip) ==
  /\ proxy = "udp" /\ "udp" \in sockets /\ client = "udp" /\ local /= {}
  /\ ip \notin answers /\ Allowed(filter, host, ip)
  /\ answers' = answers \cup {ip}
  /\ reached' = reached \cup {<<host, ip, policy>>}
  /\ UNCHANGED <<filter, policy, version, req, proxy, sockets, client, local, told, changes>>

(* proxySocksUDP: a datagram for a destination without a flow is judged    *)
(* like a CONNECT, and by dialSocksUDP once more for its address.          *)
Datagram(host, ip) ==
  /\ proxy = "udp" /\ "udp" \in sockets /\ client = "udp" /\ local /= {}
  /\ ip \notin answers /\ Granted(host, ip)
  /\ answers' = answers \cup {ip}
  /\ reached' = reached \cup {<<host, ip, policy>>}
  /\ UNCHANGED <<filter, policy, version, req, proxy, sockets, client, local, told, changes>>

(* The flow's goroutine ends with its idle time or its socket.             *)
FlowEnds(ip) ==
  /\ ip \in answers /\ answers' = answers \ {ip}
  /\ UNCHANGED <<filter, policy, version, req, proxy, sockets, client, local, told, reached, changes>>

(* The control connection ends: the association is closed, and with its    *)
(* socket the loop, which closes the flows.                                *)
ProxyEnds ==
  /\ client = "closed" /\ proxy \in {"hello", "open", "udp"}
  /\ proxy' = "done" /\ sockets' = {} /\ answers' = {}
  /\ UNCHANGED <<filter, policy, version, req, client, local, told, reached, changes>>
-----------------------------------------------------------------------------
(* The forwarder passes the answer on; SOCKS4 is not looked at at all.     *)
Passes ==
  /\ client = "pass" /\ req.answer /= "none" /\ ~(version = 5 /\ req.cmd = "udp" /\ req.answer = "granted")
  /\ told' = req.answer /\ client' = "relay"
  /\ UNCHANGED <<filter, policy, version, req, proxy, sockets, answers, local, reached, changes>>

(* The address the server gave is passed on as it is                       *)
MutRelays(opens) ==
  /\ client = "pass" /\ version = 5 /\ req.cmd = "udp" /\ req.answer = "granted"
  /\ told' = "granted" /\ client' = "udp"
  /\ local' = IF opens THEN {"pc", "uc"} ELSE {}
  /\ UNCHANGED <<filter, policy, version, req, proxy, sockets, answers, reached, changes>>

(* A granted association: a loopback socket and one into the tunnel, and   *)
(* only then is the application told, of the former.                       *)
Relays(opens) ==
  /\ client = "pass" /\ version = 5 /\ req.cmd = "udp" /\ req.answer = "granted"
  /\ IF opens THEN /\ told' = "loopback" /\ client' = "udp" /\ local' = {"pc", "uc"}
              ELSE /\ client' = "closed" /\ local' = {} /\ UNCHANGED told
  /\ UNCHANGED <<filter, policy, version, req, proxy, sockets, answers, reached, changes>>

(* The application goes, or the tunnel: both sides of the forwarder close. *)
ClientEnds ==
  /\ client \in {"pass", "relay", "udp"} /\ client' = "closed" /\ local' = {}
  /\ UNCHANGED <<filter, policy, version, req, proxy, sockets, answers, told, reached, changes>>

(* A reload changes or removes the tunnel's policy.                        *)
PolicyChanges(p) ==
  /\ changes = 0 /\ changes' = 1 /\ policy' = p
  /\ UNCHANGED <<filter, version, req, proxy, sockets, answers, client, local, told, reached>>

Next ==
  \/ \E c \in Commands, h \in Hosts \cup {NoName}, a \in Addresses \cup {Nowhere} : Request(c, h, a)
  \/ \E a \in Addresses, b \in BOOLEAN : Connect(a, b) \/ Bind(a, b)
  \/ \E b \in BOOLEAN : AcceptBind(b) \/ Associate(b) \/ Relays(b)
  \/ \E h \in Hosts \cup {NoName}, a \in Addresses : Datagram(h, a)
  \/ \E a \in Addresses : FlowEnds(a)
  \/ Unsupported \/ ProxyEnds \/ Passes \/ ClientEnds
  \/ PolicyChanges({}) \/ PolicyChanges(Private)

Spec == Init /\ [][Next]_socksVars
-----------------------------------------------------------------------------
(* What a session reaches was permitted by the policy of the moment, and   *)
(* is no address of the server's own unless the tunnel says so, however    *)
(* its filters are combined; a tunnel without filters reaches nothing.     *)
Contained ==
  \A r \in reached :
    /\ r[2] \in r[3] /\ (r[2] \in Floor => filter.allowLocal)
    /\ filter.onlyLocal => r[2] \in Private
    /\ filter.cidrs \cup filter.asns /= {} \/ filter.domains \/ filter.invert
         \/ filter.allowAll \/ filter.onlyLocal

(* A session that ended holds no socket at either end, and the application *)
(* is never given an address that only exists inside the tunnel.           *)
SocksReleased ==
  /\ proxy = "done" => sockets = {} /\ answers = {}
  /\ client = "closed" => local = {}
  /\ req.cmd = "udp" /\ told /= "nothing" => told \in {"failed", "loopback"}
  /\ told = "loopback" /\ client = "udp" => local = {"pc", "uc"}

SocksSound == Contained /\ SocksReleased
==============================================================================
