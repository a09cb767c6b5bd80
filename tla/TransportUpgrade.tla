--------------------------- MODULE TransportUpgrade ---------------------------
(***************************************************************************)
(* The upgrade loop of one client network (pkg/client/directupgrade.go):    *)
(* from the WebSocket to UDP through the relay, from there or straight from *)
(* the WebSocket to direct UDP, and back one rung when a path dies. Without *)
(* multipath the loop moves the endpoint of the WireGuard peer, which every *)
(* authenticated packet moves as well; with multipath it registers paths    *)
(* and looks at their health.                                               *)
(*                                                                         *)
(* What a request, a probe or a wait in between takes is a step of its own, *)
(* so paths die, packets roam the peer and Close comes in the middle of an  *)
(* attempt.                                                                 *)
(***************************************************************************)
VARIABLES
  multipath,        \* c.multipath is not nil
  tier,             \* the relay offers UDP forwarding (external)
  works,            \* the UDP paths that carry packets both ways (external)
  wss,              \* the WebSocket is connected (external)
  endpoint,         \* the WireGuard peer's endpoint, without multipath
  registered,       \* the UDP paths that were seeded, or registered with the scheduler
  healthy,          \* those of them that it takes for healthy (external)
  closed,           \* c.closed, dataStop or c.stop
  at,               \* where the loop is
  state,            \* its rung
  relayCandidate, directCandidate,  \* set
  relayStop,        \* not nil: the loop can stop the keepalive it started
  stray             \* a keepalive runs that nobody can stop

envVars == <<multipath, tier, works, wss>>
netVars == <<endpoint, registered, healthy>>
candVars == <<relayCandidate, directCandidate>>
loopVars == <<at, state, candVars, relayStop, stray>>
vars == <<envVars, netVars, closed, loopVars>>

UDPPaths == {"relay", "direct"}
Steps == {"wait", "tick", "relay", "relayProbe", "direct", "directSeed", "directProbe", "done"}

TypeOK ==
  /\ {multipath, tier, wss, closed, relayCandidate, directCandidate, relayStop, stray} \subseteq BOOLEAN
  /\ works \subseteq UDPPaths
  /\ endpoint \in UDPPaths \cup {"wss"}
  /\ healthy \subseteq registered /\ registered \subseteq UDPPaths
  /\ at \in Steps
  /\ state \in {"WSSRelay", "UDPRelay", "Direct"}

MutNextState(current, event, relayAvailable) ==
  CASE event = "relayEstablished" /\ current = "WSSRelay" -> "UDPRelay"
    [] event = "directEstablished" /\ current \in {"WSSRelay", "UDPRelay"} -> "Direct"
    [] event = "relayLost" /\ current = "UDPRelay" -> "WSSFallback"
    [] event = "directLost" /\ current = "Direct" -> IF relayAvailable THEN "UDPRelay" ELSE "WSSFallback"
    [] OTHER -> current

\* nextTransportState, for the events of this loop.
NextState(current, event, relayAvailable) ==
  CASE event = "relayEstablished" /\ current = "WSSRelay" -> "UDPRelay"
    [] event = "directEstablished" /\ current \in {"WSSRelay", "UDPRelay"} -> "Direct"
    [] event = "relayLost" /\ current = "UDPRelay" -> "WSSRelay"
    [] event = "directLost" /\ current = "Direct" -> IF relayAvailable THEN "UDPRelay" ELSE "WSSRelay"
    [] OTHER -> current

\* A packet to this endpoint reaches the server.
Live(e) == IF e = "wss" THEN wss ELSE e \in works

\* stack.UpdateEndpoint: the WebSocket must be connected; a UDP address is
\* always accepted.
Updates(e) == endpoint' = IF e = "wss" /\ ~wss THEN endpoint ELSE e

Goto(step) == at' = step

-----------------------------------------------------------------------------
\* The timer of the loop, or a stop channel. The generation is looked at
\* again under transportMu, so Close always wins.
Tick ==
  /\ at = "wait"
  /\ IF closed THEN Goto("done") /\ relayStop' = FALSE
               ELSE Goto("tick") /\ UNCHANGED relayStop
  /\ UNCHANGED <<envVars, netVars, closed, state, candVars, stray>>

-----------------------------------------------------------------------------
(* On the WebSocket: tryUDPRelayUpgrade.                                   *)

NoRelay == relayCandidate' = FALSE /\ UNCHANGED <<directCandidate, relayStop, stray, state>>

\* postUDPRelay and the bind of the client's leg.
RequestRelay ==
  /\ at = "tick" /\ state = "WSSRelay"
  /\ tier
  /\ Goto("relay")
  /\ UNCHANGED <<envVars, netVars, closed, state, candVars, relayStop, stray>>

\* The relay has no such tier at all: the direct path is tried on this tick.
RelayUnavailable ==
  /\ at = "tick" /\ state = "WSSRelay"
  /\ ~tier
  /\ Goto("direct") /\ NoRelay
  /\ UNCHANGED <<envVars, netVars, closed>>

\* The request or the bind fails, or the connection is closed by now.
RelayRefused ==
  /\ \/ at = "tick" /\ state = "WSSRelay"
     \/ at = "relay"
  /\ Goto("wait") /\ NoRelay
  /\ UNCHANGED <<envVars, netVars, closed>>

SeedRelay ==
  /\ at = "relay"
  /\ ~closed
  /\ Goto("relayProbe")
  /\ registered' = registered \cup {"relay"}
  /\ IF multipath THEN UNCHANGED endpoint ELSE Updates("relay")
  /\ UNCHANGED <<envVars, healthy, closed, state, candVars, relayStop, stray>>

\* The path has answered, and without multipath no packet roamed the peer.
Answers(p) == IF multipath THEN p \in healthy ELSE endpoint = p /\ Live(p)

RelayEstablished ==
  /\ at = "relayProbe"
  /\ Answers("relay")
  /\ Goto("wait")
  /\ state' = NextState(state, "relayEstablished", FALSE)
  /\ relayCandidate' = TRUE
  /\ stray' = (stray \/ relayStop)
  /\ relayStop' = TRUE
  /\ UNCHANGED <<envVars, netVars, closed, directCandidate>>

\* The WebSocket is put back; that this fails is ignored.
RelayFails ==
  /\ at = "relayProbe"
  /\ ~Answers("relay") \/ closed
  /\ Goto("wait") /\ NoRelay
  /\ IF multipath THEN UNCHANGED endpoint ELSE Updates("wss")
  /\ UNCHANGED <<envVars, registered, healthy, closed>>

-----------------------------------------------------------------------------
(* tryDirectUpgrade, from the WebSocket or from the relay.                 *)

\* Both rounds of postPunch and the reflection.
RequestDirect ==
  /\ at = "direct"
  /\ Goto("directSeed")
  /\ UNCHANGED <<envVars, netVars, closed, state, candVars, relayStop, stray>>

\* The server does not offer it, a request or the reflection fails, or the
\* connection is closed by now.
DirectRefused ==
  /\ at \in {"direct", "directSeed"}
  /\ Goto("wait")
  /\ directCandidate' = FALSE
  /\ UNCHANGED <<envVars, netVars, closed, state, relayCandidate, relayStop, stray>>

SeedDirect ==
  /\ at = "directSeed"
  /\ ~closed
  /\ Goto("directProbe")
  /\ registered' = registered \cup {"direct"}
  /\ IF multipath THEN UNCHANGED endpoint ELSE Updates("direct")
  /\ UNCHANGED <<envVars, healthy, closed, state, candVars, relayStop, stray>>

DirectEstablished ==
  /\ at = "directProbe"
  /\ Answers("direct")
  /\ Goto("wait")
  /\ state' = NextState(state, "directEstablished", TRUE)
  /\ directCandidate' = TRUE
  /\ UNCHANGED <<envVars, netVars, closed, relayCandidate, relayStop, stray>>

\* The endpoint goes back to the rung the attempt came from.
DirectFails ==
  /\ at = "directProbe"
  /\ ~Answers("direct") \/ closed
  /\ Goto("wait")
  /\ directCandidate' = FALSE
  /\ IF multipath THEN UNCHANGED endpoint
                  ELSE Updates(IF state = "UDPRelay" THEN "relay" ELSE "wss")
  /\ UNCHANGED <<envVars, registered, healthy, closed, state, relayCandidate, relayStop, stray>>

-----------------------------------------------------------------------------
(* On the relay or on the direct path: pathHealthy.                        *)

MutHealthy(p) == IF multipath THEN healthy # {} ELSE ~closed /\ Live(endpoint)
Healthy(p) == IF multipath THEN p \in healthy ELSE ~closed /\ endpoint = p /\ Live(p)

MutRelayHealthy ==
  /\ at = "tick" /\ state = "UDPRelay"
  /\ Healthy("relay")
  /\ Goto("wait")
  /\ UNCHANGED <<envVars, netVars, closed, state, candVars, relayStop, stray>>

RelayHealthy ==
  /\ at = "tick" /\ state = "UDPRelay"
  /\ Healthy("relay")
  /\ \/ Goto("wait")      \* nextDirectAttempt is still to come
     \/ Goto("direct")
  /\ UNCHANGED <<envVars, netVars, closed, state, candVars, relayStop, stray>>

\* setEndpoint, which takes a closed connection for done. When it fails, the
\* loop stays on its rung and tries again.
Reverts(e) == closed \/ e # "wss" \/ wss

MutRelayLost ==
  /\ at = "tick" /\ state = "UDPRelay"
  /\ ~Healthy("relay")
  /\ multipath \/ Reverts("wss")
  /\ Goto("wait")
  /\ state' = NextState(state, "relayLost", FALSE)
  /\ relayStop' = FALSE
  /\ IF multipath \/ closed THEN UNCHANGED endpoint ELSE Updates("wss")
  /\ UNCHANGED <<envVars, registered, healthy, closed, candVars, stray>>

RelayLost ==
  /\ at = "tick" /\ state = "UDPRelay"
  /\ ~Healthy("relay")
  /\ multipath \/ Reverts("wss")
  /\ Goto("wait")
  /\ state' = NextState(state, "relayLost", FALSE)
  /\ relayStop' = FALSE
  /\ relayCandidate' = FALSE
  /\ IF multipath \/ closed THEN UNCHANGED endpoint ELSE Updates("wss")
  /\ UNCHANGED <<envVars, registered, healthy, closed, directCandidate, stray>>

DirectHealthy ==
  /\ at = "tick" /\ state = "Direct"
  /\ Healthy("direct")
  /\ Goto("wait")
  /\ UNCHANGED <<envVars, netVars, closed, state, candVars, relayStop, stray>>

\* With multipath the relay counts only if it is healthy now; without, if it
\* was when the direct path took over.
RelayAvailable == relayCandidate /\ (multipath => "relay" \in healthy)
Fallback == IF RelayAvailable THEN "relay" ELSE "wss"

DirectLost ==
  /\ at = "tick" /\ state = "Direct"
  /\ ~Healthy("direct")
  /\ multipath \/ Reverts(Fallback)
  /\ Goto("wait")
  /\ state' = NextState(state, "directLost", RelayAvailable)
  /\ directCandidate' = FALSE
  /\ IF multipath \/ closed THEN UNCHANGED endpoint ELSE Updates(Fallback)
  /\ UNCHANGED <<envVars, registered, healthy, closed, relayCandidate, relayStop, stray>>

RevertFails ==
  /\ at = "tick"
  /\ ~multipath
  /\ \/ state = "UDPRelay" /\ ~Healthy("relay") /\ ~Reverts("wss")
     \/ state = "Direct" /\ ~Healthy("direct") /\ ~Reverts(Fallback)
  /\ Goto("wait")
  /\ UNCHANGED <<envVars, netVars, closed, state, candVars, relayStop, stray>>

-----------------------------------------------------------------------------
(* Around the loop.                                                        *)

Close ==
  /\ ~closed
  /\ closed' = TRUE
  /\ UNCHANGED <<envVars, netVars, loopVars>>

PathChanges(p) ==
  /\ works' = IF p \in works THEN works \ {p} ELSE works \cup {p}
  /\ UNCHANGED <<multipath, tier, wss, netVars, closed, loopVars>>

WebSocketChanges ==
  /\ wss' = ~wss
  /\ UNCHANGED <<multipath, tier, works, netVars, closed, loopVars>>

\* The server comes to offer the UDP tier, or loses it.
TierChanges ==
  /\ tier' = ~tier
  /\ UNCHANGED <<multipath, works, wss, netVars, closed, loopVars>>

\* An authenticated packet of the server arrives over a transport it knows.
Roam(e) ==
  /\ ~multipath
  /\ e \in registered \cup {"wss"}
  /\ Live(e)
  /\ endpoint # e
  /\ endpoint' = e
  /\ UNCHANGED <<envVars, registered, healthy, closed, loopVars>>

\* The scheduler's probes find out what works.
Probed ==
  /\ multipath
  /\ healthy # registered \cap works
  /\ healthy' = registered \cap works
  /\ UNCHANGED <<envVars, endpoint, registered, closed, loopVars>>

Init ==
  /\ multipath \in BOOLEAN
  /\ tier \in BOOLEAN
  /\ works \in SUBSET UDPPaths
  /\ wss = TRUE
  /\ endpoint = "wss"
  /\ registered = {} /\ healthy = {}
  /\ closed = FALSE
  /\ at = "wait"
  /\ state = "WSSRelay"
  /\ relayCandidate = FALSE /\ directCandidate = FALSE
  /\ relayStop = FALSE /\ stray = FALSE

Loop ==
  \/ Tick
  \/ RequestRelay \/ RelayUnavailable \/ RelayRefused \/ SeedRelay \/ RelayEstablished \/ RelayFails
  \/ RequestDirect \/ DirectRefused \/ SeedDirect \/ DirectEstablished \/ DirectFails
  \/ RelayHealthy \/ RelayLost \/ DirectHealthy \/ DirectLost \/ RevertFails

Next ==
  \/ Loop
  \/ Close
  \/ \E p \in UDPPaths : PathChanges(p)
  \/ WebSocketChanges
  \/ TierChanges
  \/ \E e \in UDPPaths \cup {"wss"} : Roam(e)
  \/ Probed

\* The loop never waits without a bound, it tries the direct path again and
\* again while it is on the relay, and the scheduler keeps probing.
Fairness ==
  /\ WF_vars(Loop)
  /\ SF_vars(RelayHealthy /\ at' = "direct")
  /\ WF_vars(Probed)

Spec == Init /\ [][Next]_vars /\ Fairness

-----------------------------------------------------------------------------
(* Properties.                                                             *)

\* Between ticks, the rung has what it stands on: the keepalive of the relay
\* leg runs for as long as the loop may ride it or fall back to it, and the
\* direct rung has its candidate. Without multipath no revert, retry or Close
\* leaves a keepalive behind that the loop cannot stop; with multipath one
\* does, when the direct and the relay path are lost together.
RungBacked ==
  /\ at = "wait" =>
       /\ state = "UDPRelay" => relayCandidate
       /\ state = "Direct" => directCandidate
       /\ relayCandidate => relayStop
  /\ at = "done" => ~relayStop
  /\ ~multipath => ~stray

\* From some time on, no path and no WebSocket comes or goes.
Calm == <>[][~(WebSocketChanges \/ \E p \in UDPPaths : PathChanges(p))]_vars

\* A rung whose path is dead is left, however the revert fails at first and
\* whatever other path is healthy, once the WebSocket is there to go back to.
DeadRungLeft ==
  Calm => /\ <>[](~closed /\ wss /\ "direct" \notin works) => <>[](state # "Direct")
          /\ <>[](~closed /\ wss /\ "relay" \notin works) => <>[](state # "UDPRelay")

\* Behind a relay without the UDP tier, and on top of one with it, the direct
\* path is reached once it works, requests succeed and nothing roams the peer.
DirectReached ==
  (Calm /\ <>[][~(RelayRefused \/ DirectRefused \/ \E e \in UDPPaths \cup {"wss"} : Roam(e))]_vars)
    => (<>[](~closed /\ wss /\ works = UDPPaths) => <>[](state = "Direct"))
=============================================================================
