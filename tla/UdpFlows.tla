------------------------------ MODULE UdpFlows -------------------------------
(***************************************************************************)
(* Datagram tunnels: the loop that reads a tunnel's UDP listener and the   *)
(* flows it opens, one socket per source with a goroutine that carries the *)
(* answers back.  The server's proxyUDP and the client's forwardUDP have   *)
(* the same shape and differ where it matters: the client replaces a flow  *)
(* whose stack or target is no longer the current one and its goroutine    *)
(* removes only its own entry; the server's removes the source's entry.    *)
(*                                                                         *)
(* epoch is the client's data plane, or at the server the session that has *)
(* the source's tunnel address.                                            *)
(***************************************************************************)
EXTENDS Naturals, FiniteSets

CONSTANTS
  Sources,     \* addresses datagrams come from
  MaxFlows,    \* flows ever opened
  MaxEpochs

VARIABLES
  side,      \* "client" or "server"
  epoch,     \* the current one
  listening, \* the listener is open
  loop,      \* what the reading loop is about to do
  flows,     \* source -> its flow in the map, 0 for none
  src,       \* flow -> its source, in the order the flows were opened
  since,     \* flow -> the epoch it was opened in
  sock,      \* flows whose socket is open
  reader,    \* flow -> "none", "read", "remove", "close" or "done"
  active     \* the tunnel's counter of active flows

flowVars == <<side, epoch, listening, loop, flows, src, since, sock, reader, active>>

Ids == 1 .. MaxFlows
Opened == {f \in Ids : reader[f] /= "none"}
Idle == [at |-> "read"]

Init ==
  /\ side \in {"client", "server"} /\ epoch = 1 /\ listening = TRUE /\ loop = Idle
  /\ flows = [s \in Sources |-> 0]
  /\ src = [f \in Ids |-> CHOOSE s \in Sources : TRUE] /\ since = [f \in Ids |-> 0]
  /\ sock = {} /\ reader = [f \in Ids |-> "none"] /\ active = 0
-----------------------------------------------------------------------------
(* The loop reads a datagram and looks its source up.  The client closes   *)
(* and drops a flow of an older data plane.                                *)
Datagram(s) ==
  LET f == flows[s]
      old == side = "client" /\ f /= 0 /\ since[f] /= epoch
  IN  /\ listening /\ loop = Idle
      /\ IF f = 0 \/ old THEN loop' = [at |-> "dial", for |-> s, in |-> epoch]
                         ELSE loop' = [at |-> "write", to |-> f]
      /\ IF old THEN /\ flows' = [flows EXCEPT ![s] = 0] /\ sock' = sock \ {f}
                ELSE UNCHANGED <<flows, sock>>
      /\ UNCHANGED <<side, epoch, listening, src, since, reader, active>>

(* The flow's socket opens and its goroutine starts ...                    *)
Dial ==
  /\ loop.at = "dial" /\ Opened /= Ids
  /\ side = "client" => loop.in = epoch
  /\ LET f == Cardinality(Opened) + 1
     IN  /\ flows' = [flows EXCEPT ![loop.for] = f]
         /\ src' = [src EXCEPT ![f] = loop.for]
         /\ since' = [since EXCEPT ![f] = loop.in]
         /\ sock' = sock \cup {f} /\ reader' = [reader EXCEPT ![f] = "read"]
         /\ loop' = [at |-> "write", to |-> f]
  /\ active' = active + 1
  /\ UNCHANGED <<side, epoch, listening>>

(* ... or not: nothing permitted, or the stack is closed.                  *)
DialFails ==
  /\ loop.at = "dial" /\ loop' = Idle
  /\ UNCHANGED <<side, epoch, listening, flows, src, since, sock, reader, active>>

(* Writing to a socket its goroutine has closed loses the datagram.        *)
Write ==
  /\ loop.at = "write" /\ loop' = Idle
  /\ UNCHANGED <<side, epoch, listening, flows, src, since, sock, reader, active>>

(* ReadFrom fails on the closed listener: the deferred function closes     *)
(* what the map holds.                                                     *)
LoopEnds ==
  /\ ~listening /\ loop = Idle /\ loop' = [at |-> "ended"]
  /\ sock' = sock \ {flows[s] : s \in Sources}
  /\ UNCHANGED <<side, epoch, listening, flows, src, since, reader, active>>
-----------------------------------------------------------------------------
(* An answer is written to the flow's source, whoever has it by now.       *)
Answer(f) ==
  /\ reader[f] = "read" /\ f \in sock
  /\ IF listening
     THEN UNCHANGED reader
     ELSE reader' = [reader EXCEPT ![f] = "remove"]
  /\ UNCHANGED <<side, epoch, listening, loop, flows, src, since, sock, active>>

(* Reading fails: the socket is closed or the idle time is over.           *)
ReadFails(f) ==
  /\ reader[f] = "read" /\ reader' = [reader EXCEPT ![f] = "remove"]
  /\ UNCHANGED <<side, epoch, listening, loop, flows, src, since, sock, active>>

(* The goroutine takes its source out of the map without looking           *)
MutRemove(f) ==
  /\ reader[f] = "remove" /\ reader' = [reader EXCEPT ![f] = "close"]
  /\ flows' = [flows EXCEPT ![src[f]] = 0] /\ sock' = sock \ {f}
  /\ UNCHANGED <<side, epoch, listening, loop, src, since, active>>

(* The deferred calls of the goroutine, in their order                     *)
Remove(f) ==
  /\ reader[f] = "remove" /\ reader' = [reader EXCEPT ![f] = "close"]
  /\ LET mine == side = "server" \/ flows[src[f]] = f
         held == IF side = "server" THEN flows[src[f]] ELSE f
     IN  /\ flows' = IF mine THEN [flows EXCEPT ![src[f]] = 0] ELSE flows
         /\ sock' = sock \ {held}
  /\ UNCHANGED <<side, epoch, listening, loop, src, since, active>>

Leave(f) ==
  /\ reader[f] = "close" /\ reader' = [reader EXCEPT ![f] = "done"]
  /\ active' = active - 1
  /\ UNCHANGED <<side, epoch, listening, loop, flows, src, since, sock>>
-----------------------------------------------------------------------------
(* A reload or the end closes the listener.                                *)
CloseListener ==
  /\ listening /\ listening' = FALSE
  /\ UNCHANGED <<side, epoch, loop, flows, src, since, sock, reader, active>>

(* The client connects anew, which closes the sockets of the older stack;  *)
(* at the server the source's address goes to another session.             *)
NewEpoch ==
  /\ epoch < MaxEpochs /\ epoch' = epoch + 1
  /\ sock' = IF side = "client" THEN {} ELSE sock
  /\ UNCHANGED <<side, listening, loop, flows, src, since, reader, active>>

Ends(f) == ReadFails(f) \/ Remove(f) \/ Leave(f)
LoopSteps == Dial \/ DialFails \/ Write \/ LoopEnds

Next ==
  \/ \E s \in Sources : Datagram(s)
  \/ \E f \in Ids : Answer(f) \/ Ends(f)
  \/ LoopSteps \/ CloseListener \/ NewEpoch

Spec == Init /\ [][Next]_flowVars
-----------------------------------------------------------------------------
(* A source in the map has a goroutine that will take it out again, a flow *)
(* that is served is in the map or its socket is closed, and the counter   *)
(* is that of the goroutines.                                              *)
FlowsSound ==
  /\ \A s \in Sources : flows[s] /= 0 => reader[flows[s]] \in {"read", "remove"}
  /\ \A f \in sock : reader[f] \in {"read", "remove"} /\ flows[src[f]] = f
  /\ active = Cardinality({f \in Ids : reader[f] \in {"read", "remove", "close"}})
==============================================================================
