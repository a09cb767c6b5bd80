-------------------------------- MODULE MCData --------------------------------
(***************************************************************************)
(* The data path and starting up for TLC: a behaviour is one of one part,  *)
(* chosen at the start, while the others stay in their initial state.      *)
(***************************************************************************)
EXTENDS DataPath, TLC

VARIABLE part

\* Two tunnels exchange ports, take a new one or the portal's.
MCSettings == [at : {"p1", "p2", "p3"}, to : {"x"}] \cup {[at |-> "p1", to |-> "y"]}

MCUpstreams == <<"u1", "u2">>

\* A tunnel of every kind or none, with the gateway or without, in a plain
\* network, in a relayed one and in one that has a native peer; some of these
\* files do not load.
Section(cidr, relay, peers, upstream) ==
  [cidr |-> cidr, relay |-> relay, peers |-> peers, upstream |-> upstream]

Sections == {Section("A", TRUE, {}, None), Section("B", FALSE, {}, <<"A", 1>>),
             Section("A", FALSE, {[ip |-> <<"A", 2>>, tunnels |-> {"x"}, policy |-> None]}, None)}

OneTunnel == [{"x"} -> [socks : BOOLEAN, policy : {"p", None}] \ {[socks |-> TRUE, policy |-> "p"]}]

MCFiles ==
  {[logins |-> {"keys"}, native |-> n.peers /= {}, peers |-> n.peers, cidr |-> n.cidr,
    upstream |-> n.upstream, relay |-> n.relay, endpoint |-> ~n.relay, direct |-> n.relay,
    force |-> FALSE, multipath |-> TRUE, tunnels |-> ts, policies |-> {"p"}, masque |-> m] :
      n \in Sections, ts \in {<<>>} \cup OneTunnel, m \in {None} \cup [{"d"} -> {"x"}]}

\* A loopback, a private and a public address, a name under the allowed
\* suffix and one that is not; the options that decide nothing are not set,
\* network numbers are not listed beside prefixes or domains, and loopback is
\* allowed only where the lists are not inverted.
MCFilters ==
  {f \in [onlyLocal : BOOLEAN, invert : BOOLEAN, allowAll : BOOLEAN, allowLocal : BOOLEAN,
          cidrs : {{}, {"lo", "pub"}}, asns : {{}, {"pub"}}, domains : BOOLEAN] :
     /\ f.asns = {} \/ (f.cidrs = {} /\ ~f.domains)
     /\ f.allowLocal => ~f.invert
     /\ f.onlyLocal \/ f.allowAll => /\ f.cidrs = {} /\ f.asns = {} /\ ~f.domains /\ ~f.invert
                                    /\ ~(f.onlyLocal /\ f.allowAll)}

\* Two processes of one user against two servers, or one with one more
\* command; a server changes its certificate or its issuer once.
Command(c, k, s) == [cmd |-> c, check |-> k, sso |-> s]
MCCommandLines == {Command("connect", "pin", TRUE), Command("list", "ca", FALSE),
                   Command("list", "insecure", TRUE)}
MCMaxRuns == [team \in Teams |-> IF Cardinality(team) = 1 THEN 3 ELSE 2]

\* Nothing tells the two servers apart, nor two processes of one team.
MCSymmetry == Permutations(Servers) \cup UNION {Permutations(team) : team \in Teams}

\* Up to three addresses of a server; two tunnels whose listener may have to
\* go elsewhere.
MCOrder == <<"x", "y">>
MCResolved == {<<"4">>, <<"6", "4">>, <<"6", "4", "4">>}
EachTunnel(S) == {[t \in Tunnels |-> x] : x \in S}
MCWishes == [bind : {None, "lan"}, host : [Tunnels -> {None, "alias"}] \cup EachTunnel({"lan", "name"}),
             port : EachTunnel({None, 1})]
MCOffers == [host : EachTunnel({None, "alias", "lan"}), port : EachTunnel({0, 1}), udp : {{}, {"x"}}]
MCOccupied == {{}, {<<"lo", 1>>}, {<<"alias", 0>>, <<"alias", 1>>}, {<<"lan", 1>>},
               {<<"name", 0>>, <<"any", 1>>}}
-----------------------------------------------------------------------------
listenersVars == <<conf, data, listening, open, todo, reloads, refresher, stopped, crashed>>
dnsVars == <<grants, config, forwarding, query, slots, leaked, told, known, changes>>
flowsVars == <<side, epoch, accepting, loop, flows, src, since, sock, reader, active>>
confVars == <<running, gateway, session, ids, cert, link, request, streams, loads>>
socksVars == <<filter, policy, version, req, proxy, sockets, answers, client, local, heard,
               reached, edits>>
homeVars == <<presents, advertised, pins, tokenFile, keyring, status, proc, agreed, released,
              forgotten, silent, astray, runs, rotations>>
setupVars == <<ip, stage, unresolved, addrs, dial, results, seen, conn, offer, choice, wish,
               suggestion, occupied, bound>>

DataInit ==
  /\ part \in {"listeners", "dns", "flows", "config", "socks", "home", "setup"}
  /\ Listeners!Init /\ (part /= "listeners" => conf = CHOOSE c \in Listeners!Confs : TRUE)
  /\ Dns!Init /\ (part /= "dns" => ~forwarding /\ grants = [a \in DOMAIN grants |-> {}])
  /\ Flows!Init /\ (part /= "flows" => side = "server")
  /\ Socks!Init /\ (part /= "socks" => version = 5 /\ filter = CHOOSE f \in Filters : TRUE)
  /\ Home!Init
  /\ part /= "home" => /\ tokenFile = [s \in DOMAIN tokenFile |-> None]
                       /\ DOMAIN proc = CHOOSE team \in Teams : TRUE
  /\ Setup!Init /\ (part /= "setup" => ip = "any")
  /\ Conf!Init

DataNext ==
  \/ /\ part = "listeners" /\ Listeners!Next
     /\ UNCHANGED <<part, dnsVars, flowsVars, confVars, socksVars, homeVars, setupVars>>
  \/ /\ part = "dns" /\ Dns!Next
     /\ UNCHANGED <<part, listenersVars, flowsVars, confVars, socksVars, homeVars, setupVars>>
  \/ /\ part = "flows" /\ Flows!Next
     /\ UNCHANGED <<part, listenersVars, dnsVars, confVars, socksVars, homeVars, setupVars>>
  \/ /\ part = "config" /\ Conf!Next
     /\ UNCHANGED <<part, listenersVars, dnsVars, flowsVars, socksVars, homeVars, setupVars>>
  \/ /\ part = "socks" /\ Socks!Next
     /\ UNCHANGED <<part, listenersVars, dnsVars, flowsVars, confVars, homeVars, setupVars>>
  \/ /\ part = "home" /\ Home!Next
     /\ UNCHANGED <<part, listenersVars, dnsVars, flowsVars, confVars, socksVars, setupVars>>
  \/ /\ part = "setup" /\ Setup!Next
     /\ UNCHANGED <<part, listenersVars, dnsVars, flowsVars, confVars, socksVars, homeVars>>

DataSpec ==
  DataInit /\ [][DataNext]_<<part, listenersVars, dnsVars, flowsVars, confVars, socksVars,
                             homeVars, setupVars>>
===============================================================================
