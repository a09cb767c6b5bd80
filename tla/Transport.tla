------------------------------ MODULE Transport ------------------------------
(***************************************************************************)
(* What carries the traffic of a client session: the schedulers of both    *)
(* sides (Multipath), the bind under their WebSocket path (WebSocketBind), *)
(* the upgrade loop that adds the datagram paths (TransportUpgrade), and   *)
(* the streams through the tunnel (StreamRelay).  Multipath sees of the    *)
(* bind only the callbacks, and of the loop only what it registers, each   *)
(* at any moment; so a part is checked and proved on its own.              *)
(***************************************************************************)
EXTENDS Multipath

CONSTANTS
  Conns, MaxFaults, Depth, Threshold,   \* of WebSocketBind
  MaxSent, Window                       \* of StreamRelay

\* 0 stands for no connection.
ASSUME BindConstants == 0 \notin Conns /\ {MaxFaults, Depth, Threshold} \subseteq Nat

VARIABLES
  life, table, view, pc, redial, sock, wire, out, overflow, spilled, session, waiting, faults,
  multipath, tier, works, wss, endpoint, seeded, sound, closed,
  at, state, relayCandidate, directCandidate, relayStop, stray,
  kind, sent, got, flying, shut, shutDown, pump, active, gone,
  part

Bind == INSTANCE WebSocketBind WITH link <- wire
Upgrade == INSTANCE TransportUpgrade WITH registered <- seeded, healthy <- sound
Stream == INSTANCE StreamRelay WITH closed <- shutDown

bindVars == <<life, table, view, pc, redial, sock, wire, out, overflow, spilled,
              session, waiting, faults>>
upgradeVars == <<multipath, tier, works, wss, endpoint, seeded, sound, closed,
                 at, state, relayCandidate, directCandidate, relayStop, stray>>
streamVars == <<kind, sent, got, flying, shut, shutDown, pump, active, gone>>

-----------------------------------------------------------------------------
(* A behaviour is one of one part, chosen at the start, while the others   *)
(* stay where nothing that is fair for them is possible (Multipath has a   *)
(* specification of its own).                                              *)

\* An upgrade loop that has ended.
UpgradeOver ==
  /\ multipath = TRUE /\ tier = FALSE /\ works = {} /\ wss = TRUE /\ endpoint = "wss"
  /\ seeded = {} /\ sound = {} /\ closed = TRUE /\ at = "done" /\ state = "WSSRelay"
  /\ relayCandidate = FALSE /\ directCandidate = FALSE /\ relayStop = FALSE /\ stray = FALSE

LinksInit ==
  /\ part \in {"bind", "upgrade", "stream"}
  /\ Init /\ Bind!Init /\ Stream!Init
  /\ IF part = "upgrade" THEN Upgrade!Init ELSE UpgradeOver
  /\ part /= "stream" => kind = CHOOSE k \in Stream!Chains : TRUE

LinksNext ==
  \/ part = "bind" /\ Bind!Next /\ UNCHANGED <<part, vars, upgradeVars, streamVars>>
  \/ part = "upgrade" /\ Upgrade!Next /\ UNCHANGED <<part, vars, bindVars, streamVars>>
  \/ part = "stream" /\ Stream!Next /\ UNCHANGED <<part, vars, bindVars, upgradeVars>>

LinksSpec ==
  /\ LinksInit /\ [][LinksNext]_<<part, vars, bindVars, upgradeVars, streamVars>>
  /\ Bind!Fairness /\ Upgrade!Fairness /\ Stream!Fairness
-----------------------------------------------------------------------------
(* What the layers above were told of a carrier is what the bind's table   *)
(* says, and no connection is left behind (bind.go).                       *)
BindSound == Bind!BindSound

(* Between two ticks the upgrade loop has what its rung stands on          *)
(* (directupgrade.go).                                                     *)
RungBacked == Upgrade!TypeOK /\ Upgrade!RungBacked

(* A rung that stopped working is left, and direct UDP is reached when it  *)
(* works (directupgrade.go).                                               *)
LadderClimbed == Upgrade!DeadRungLeft /\ Upgrade!DirectReached

(* A stream's answer never cuts off its question, and is delivered whole   *)
(* (client.go, dataplane.go).                                              *)
StreamSound == Stream!StreamSound

(* A bind without a carrier gets one again, and both ends of a stream that *)
(* is over are given back (bind.go, client.go, dataplane.go).              *)
LinksRecover == Bind!CarrierRecovers /\ Stream!StreamReleased
=============================================================================
