--------------------------- MODULE TunnelListeners ---------------------------
(***************************************************************************)
(* The data plane of ntwire-server as it starts, follows the configuration *)
(* and ends (pkg/server/dataplane.go): the listeners of the tunnels, of    *)
(* in-tunnel DNS and of the web portal inside the WireGuard stack, and the *)
(* goroutine that keeps native WireGuard relays associated.                *)
(*                                                                         *)
(* A tunnel's setting stands for what reloadTunnels compares: a protocol   *)
(* and port, and everything else under "to".  operationMu makes a reload   *)
(* and the step of Close that takes s.data one step each; the listeners    *)
(* are closed and opened one by one.                                       *)
(***************************************************************************)
EXTENDS Naturals, FiniteSets

CONSTANTS
  Tunnels,
  Settings,    \* [at, to]: the socket inside the stack and the rest
  DnsAt,       \* UDP port 53
  PortalAt,
  MaxReloads,
  Absent

VARIABLES
  conf,       \* Server.Config.Tunnels: tunnel -> setting, or Absent
  data,       \* Server.data: "none", "up" or "gone"
  listening,  \* dataPlane.listeners: tunnel -> its setting, or Absent
  open,       \* sockets open in the stack, with the tunnel that has each
  todo,       \* what a start, a reload or Close still has to do
  reloads,
  refresher,  \* the goroutine of EnableNativeWireGuardRelays
  stopped,    \* its stop channel is closed
  crashed     \* it read Server.data after Close took it

tunnelVars == <<conf, data, listening, open, todo, reloads, refresher, stopped, crashed>>

Confs == [Tunnels -> Settings \cup {Absent}]
Configured(c) == {t \in Tunnels : c[t] /= Absent}
Nothing == [close |-> {}, open |-> {}, then |-> "done"]

(* A socket of the stack: what it is for                                   *)
Taken(at) == \E s \in open : s[1] = at

Init ==
  /\ conf \in Confs /\ data = "none"
  /\ listening = [t \in Tunnels |-> Absent] /\ open = {}
  /\ todo = [close |-> {}, open |-> Configured(conf), then |-> "start"]
  /\ reloads = 0 /\ refresher = "off" /\ stopped = FALSE /\ crashed = FALSE
-----------------------------------------------------------------------------
(* listenTunnel: the socket opens unless another has it.                   *)
Listen(t) ==
  IF Taken(conf[t].at)
  THEN UNCHANGED <<open, listening>>
  ELSE /\ open' = open \cup {<<conf[t].at, t>>}
       /\ listening' = [listening EXCEPT ![t] = conf[t]]

(* StartDataPlane: a tunnel that cannot listen ends the start; the DNS     *)
(* server and the portal may fail.                                         *)
StartTunnel(t) ==
  /\ todo.then = "start" /\ t \in todo.open
  /\ data' = "up" /\ Listen(t)
  /\ todo' = IF Taken(conf[t].at) THEN [close |-> {}, open |-> {}, then |-> "close"]
             ELSE [todo EXCEPT !.open = @ \ {t}]
  /\ UNCHANGED <<conf, reloads, refresher, stopped, crashed>>

StartService(at) ==
  open' = IF Taken(at) THEN open ELSE open \cup {<<at, "service">>}

StartDNS ==
  /\ todo.then = "start" /\ todo.open = {}
  /\ StartService(DnsAt)
  /\ data' = "up" /\ todo' = [todo EXCEPT !.then = "portal"]
  /\ UNCHANGED <<conf, listening, reloads, refresher, stopped, crashed>>

StartWebPortal ==
  /\ todo.then = "portal"
  /\ StartService(PortalAt) /\ todo' = Nothing
  /\ UNCHANGED <<conf, data, listening, reloads, refresher, stopped, crashed>>

(* socksConfigChanged and the comparison of reloadTunnels                  *)
Changed(c) == {t \in Configured(listening) : c[t] /= listening[t]}

(* Reload under operationMu, up to the listeners it has to close and open. *)
Reload(c) ==
  /\ data = "up" /\ todo = Nothing /\ reloads < MaxReloads
  /\ reloads' = reloads + 1 /\ conf' = c
  /\ listening' = [t \in Tunnels |-> IF t \in Changed(c) THEN Absent ELSE listening[t]]
  /\ todo' = [close |-> Changed(c), then |-> "reload",
              open |-> {t \in Configured(c) : t \in Changed(c) \/ listening[t] = Absent}]
  /\ UNCHANGED <<data, open, refresher, stopped, crashed>>

(* closeTunnelListener                                                     *)
CloseOne(t) ==
  /\ todo.then = "reload" /\ t \in todo.close
  /\ open' = {s \in open : s[2] /= t}
  /\ todo' = [todo EXCEPT !.close = @ \ {t}]
  /\ UNCHANGED <<conf, data, listening, reloads, refresher, stopped, crashed>>

(* Opening before everything that has to close is closed                   *)
MutOpenOne(t) ==
  /\ todo.then = "reload" /\ t \in todo.open /\ t \notin todo.close
  /\ Listen(t)
  /\ todo' = [todo EXCEPT !.open = @ \ {t}]
  /\ UNCHANGED <<conf, data, reloads, refresher, stopped, crashed>>

(* A listener that cannot open is reported and left out.                   *)
OpenOne(t) ==
  /\ todo.then = "reload" /\ todo.close = {} /\ t \in todo.open
  /\ Listen(t)
  /\ todo' = [todo EXCEPT !.open = @ \ {t}]
  /\ UNCHANGED <<conf, data, reloads, refresher, stopped, crashed>>

Reloaded ==
  /\ todo.then = "reload" /\ todo.close = {} /\ todo.open = {}
  /\ todo' = Nothing
  /\ UNCHANGED <<conf, data, listening, open, reloads, refresher, stopped, crashed>>

(* Close: s.data goes first, under the locks of reload ...                 *)
Close ==
  /\ data = "up" /\ todo \in {Nothing, [close |-> {}, open |-> {}, then |-> "close"]}
  /\ data' = "gone" /\ todo' = [close |-> {}, open |-> {}, then |-> "stop"]
  /\ UNCHANGED <<conf, listening, open, reloads, refresher, stopped, crashed>>

(* ... then the goroutines are told, the listeners and the stack closed.   *)
CloseStops ==
  /\ todo.then = "stop" /\ stopped' = TRUE
  /\ open' = {s \in open : s[2] \in Tunnels /\ listening[s[2]] = Absent}
  /\ todo' = Nothing
  /\ UNCHANGED <<conf, data, listening, reloads, refresher, crashed>>
-----------------------------------------------------------------------------
(* EnableNativeWireGuardRelays while the data plane is up: a goroutine     *)
(* that refreshes the associations until it is told to stop.               *)
EnableRelays ==
  /\ data = "up" /\ refresher = "off" /\ ~stopped
  /\ refresher' = "wait"
  /\ UNCHANGED <<conf, data, listening, open, todo, reloads, stopped, crashed>>

(* send: s.data is read, and read again for the multipath bind.            *)
Refresh ==
  /\ refresher = "wait" /\ ~stopped
  /\ refresher' = IF data = "up" THEN "reserve" ELSE "wait"
  /\ UNCHANGED <<conf, data, listening, open, todo, reloads, stopped, crashed>>

ReserveSources ==
  /\ refresher = "reserve" /\ refresher' = "wait"
  /\ crashed' = (crashed \/ data /= "up")
  /\ UNCHANGED <<conf, data, listening, open, todo, reloads, stopped>>

RefresherEnds ==
  /\ refresher = "wait" /\ stopped /\ refresher' = "ended"
  /\ UNCHANGED <<conf, data, listening, open, todo, reloads, stopped, crashed>>

Next ==
  \/ \E t \in Tunnels : StartTunnel(t) \/ CloseOne(t) \/ OpenOne(t)
  \/ StartDNS \/ StartWebPortal \/ Reloaded \/ Close \/ CloseStops
  \/ \E c \in Confs : Reload(c)
  \/ EnableRelays \/ Refresh \/ ReserveSources \/ RefresherEnds

Spec == Init /\ [][Next]_tunnelVars
-----------------------------------------------------------------------------
(* Tunnels whose socket nobody else can have: no other configured tunnel,  *)
(* not the DNS server, not the portal.                                     *)
Undisputed ==
  {t \in Configured(conf) :
     /\ conf[t].at \notin {DnsAt, PortalAt}
     /\ \A u \in Configured(conf) \ {t} : conf[u].at /= conf[t].at}

(* When nothing is under way, a tunnel listens with its own setting or not *)
(* at all, it does listen when its socket is undisputed however the        *)
(* tunnels exchanged their ports, no socket is left of a tunnel that does  *)
(* not listen, and a closed data plane has none.  Only Close trips the     *)
(* refresher up: no reload takes the data plane away.                      *)
ListenersFollowConfig ==
  /\ todo = Nothing /\ data = "up" =>
       /\ \A t \in Tunnels : listening[t] \in {conf[t], Absent}
       /\ \A t \in Undisputed : listening[t] = conf[t]
       /\ \A s \in open : s[2] \in Tunnels => listening[s[2]] /= Absent /\ listening[s[2]].at = s[1]
  /\ todo = Nothing /\ data = "gone" => open = {}
  /\ crashed => data = "gone"
==============================================================================
