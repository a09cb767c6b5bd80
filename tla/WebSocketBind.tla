---------------------------- MODULE WebSocketBind ---------------------------
(***************************************************************************)
(* The two binds that carry one session's WireGuard datagrams over a       *)
(* WebSocket (pkg/wstransport/bind.go): the client dials and redials, the  *)
(* server accepts and replaces, both queue what they send, and both tell   *)
(* the layer above when a carrier comes and goes.                          *)
(*                                                                         *)
(* A connection has two ends and a link, which can die without either end  *)
(* noticing; its number is used again once both ends are done with it.     *)
(* A step is one critical section of Bind.mu; callbacksMu keeps a change   *)
(* of the table and its callback together, so that they are one step too.  *)
(* The WireGuard device opens and closes a bind once.                      *)
(***************************************************************************)
EXTENDS Naturals, FiniteSets

CONSTANTS
  Conns,       \* connections at a time, numbers from 1
  MaxFaults,   \* bound on failures of the network and of queues
  Depth,       \* peerQueueDepth, 256 in the code
  Threshold    \* overflowFailureThreshold, 64 in the code

VARIABLES
  life,      \* Bind.open of both ends: "new", "open" or "closed"
  table,     \* Bind.peers: the carrier of the session, 0 for none
  view,      \* what the callbacks told the layer above: the carrier works
  pc,        \* the goroutine that reads a connection, at both ends
  redial,    \* the redial loop runs
  sock,      \* connections whose end is open
  link,      \* connections whose packets arrive
  out,       \* peer.out: batches queued
  overflow,  \* peer.overflow
  spilled,   \* overflows whose goroutine has not run
  session,   \* the server has the session
  waiting,   \* the connection whose handler closes the one it replaces, or 0
  faults

vars == <<life, table, view, pc, redial, sock, link, out, overflow, spilled,
          session, waiting, faults>>

netVars == <<sock, link>>
queueVars == <<out, overflow, spilled>>
srvVars == <<session, waiting>>
-----------------------------------------------------------------------------
Ends == {"client", "server"}
Other(e) == CHOOSE f \in Ends : f /= e
Open(e) == life[e] = "open"

(* Bind.mu of the server is held while a replaced carrier is closed.       *)
Free(e) == e = "server" => waiting = 0

Alive(k) == k \in link /\ \A e \in Ends : k \in sock[e]

Zero == [e \in Ends |-> [k \in Conns |-> 0]]

Init ==
  /\ life = [e \in Ends |-> IF e = "client" THEN "new" ELSE "open"]
  /\ table = [e \in Ends |-> 0] /\ view = [e \in Ends |-> FALSE]
  /\ pc = [e \in Ends |-> [k \in Conns |-> "none"]] /\ redial = FALSE
  /\ sock = [e \in Ends |-> {}] /\ link = {}
  /\ out = Zero /\ overflow = Zero /\ spilled = [e \in Ends |-> {}]
  /\ session = TRUE /\ waiting = 0 /\ faults = 0

(* A dial the server's handler accepts: it has looked up the session and   *)
(* found its bind open, and has still to register the connection.          *)
Dialled(k, at) ==
  /\ pc["client"][k] = "none" /\ \A j \in Conns : j < k => pc["client"][j] /= "none"
  /\ session /\ Open("server")
  /\ pc' = [pc EXCEPT !["client"][k] = at, !["server"][k] = "accepted"]
  /\ sock' = [e \in Ends |-> sock[e] \cup {k}]
  /\ link' = link \cup {k}

(* Open: the dial is made with the mutex held; a failed one leaves the     *)
(* bind closed.                                                            *)
OpenClient(k) ==
  /\ life["client"] = "new"
  /\ Dialled(k, "reading")
  /\ life' = [life EXCEPT !["client"] = "open"]
  /\ table' = [table EXCEPT !["client"] = k]
  /\ view' = [view EXCEPT !["client"] = TRUE]
  /\ UNCHANGED <<redial, faults>> /\ UNCHANGED queueVars /\ UNCHANGED srvVars

(* The goroutines of one end are done with a connection: its socket is     *)
(* closed, its queue is gone.                                              *)
Finish(e, k) ==
  LET both == pc[Other(e)][k] = "gone" IN
  /\ pc' = IF both THEN [f \in Ends |-> [pc[f] EXCEPT ![k] = "none"]]
                   ELSE [pc EXCEPT ![e][k] = "gone"]
  /\ sock' = [sock EXCEPT ![e] = @ \ {k}]
  /\ link' = IF both THEN link \ {k} ELSE link
  /\ out' = [out EXCEPT ![e][k] = 0]
  /\ overflow' = [overflow EXCEPT ![e][k] = 0]
  /\ spilled' = [spilled EXCEPT ![e] = @ \ {k}]

Shut(e, k) == sock' = [sock EXCEPT ![e] = @ \ {k}]

Register(e, k) ==
  /\ table' = [table EXCEPT ![e] = k]
  /\ view' = [view EXCEPT ![e] = e = "server" => session]
  /\ pc' = [pc EXCEPT ![e][k] = "reading"]

(* ServeHTTP after the upgrade: a bind closed meanwhile refuses, a carrier *)
(* of the session is closed first, and Close waits for its handshake.      *)
Serve(k) ==
  LET old == table["server"] IN
  /\ pc["server"][k] = "accepted" /\ waiting = 0
  /\ \/ /\ ~Open("server")
        /\ Finish("server", k)
        /\ UNCHANGED <<table, view, waiting>>
     \/ /\ Open("server") /\ old = 0
        /\ Register("server", k)
        /\ UNCHANGED waiting /\ UNCHANGED netVars /\ UNCHANGED queueVars
     \/ /\ Open("server") /\ old /= 0
        /\ Shut("server", old)
        /\ waiting' = k
        /\ UNCHANGED <<table, view, pc, link>> /\ UNCHANGED queueVars
  /\ UNCHANGED <<life, redial, session, faults>>

(* The handshake is answered or given up.                                  *)
ServeReplaces(k) ==
  /\ waiting = k
  /\ Register("server", k)
  /\ waiting' = 0
  /\ UNCHANGED <<life, redial, session, faults>> /\ UNCHANGED netVars /\ UNCHANGED queueVars
-----------------------------------------------------------------------------
Ended(e, k) == k \notin sock[e] \/ (k \in link /\ k \notin sock[Other(e)])

(* read comes to its deferred call: only the carrier that is still in the  *)
(* table is removed, reported and redialled.                               *)
ReadEnds(e, k) ==
  LET current == table[e] = k IN
  /\ pc[e][k] = "reading" /\ Ended(e, k) /\ Free(e)
  /\ table' = [table EXCEPT ![e] = IF current THEN 0 ELSE @]
  /\ view' = [view EXCEPT ![e] = IF current THEN FALSE ELSE @]
  /\ redial' = (redial \/ (e = "client" /\ current))
  /\ Finish(e, k)
  /\ UNCHANGED <<life, faults>> /\ UNCHANGED srvVars

MutPing(k) ==
  /\ pc["client"][k] = "reading" /\ k \in sock["client"] \cap link
  /\ k \notin sock["server"]
  /\ Shut("client", k)
  /\ UNCHANGED <<life, table, view, pc, redial, link, faults>>
  /\ UNCHANGED queueVars /\ UNCHANGED srvVars

(* keepalive: the client pings, and a ping without an answer closes.       *)
Ping(k) ==
  /\ pc["client"][k] = "reading" /\ k \in sock["client"] /\ k \notin link
  /\ Shut("client", k)
  /\ UNCHANGED <<life, table, view, pc, redial, link, faults>>
  /\ UNCHANGED queueVars /\ UNCHANGED srvVars

(* redial: a dial that fails is repeated after a pause, until Close.       *)
RedialEnds ==
  /\ redial /\ ~Open("client")
  /\ redial' = FALSE
  /\ UNCHANGED <<life, table, view, pc, faults>>
  /\ UNCHANGED netVars /\ UNCHANGED queueVars /\ UNCHANGED srvVars

Redial(k) ==
  /\ redial
  /\ Dialled(k, "dialled")
  /\ redial' = FALSE
  /\ UNCHANGED <<life, table, view, faults>> /\ UNCHANGED queueVars /\ UNCHANGED srvVars

MutRedialRegisters(k) ==
  /\ pc["client"][k] = "dialled"
  /\ Register("client", k)
  /\ UNCHANGED <<life, redial, faults>>
  /\ UNCHANGED netVars /\ UNCHANGED queueVars /\ UNCHANGED srvVars

(* The bind may have been closed while the loop dialled.                   *)
RedialRegisters(k) ==
  /\ pc["client"][k] = "dialled"
  /\ \/ /\ Open("client")
        /\ Register("client", k)
        /\ UNCHANGED netVars /\ UNCHANGED queueVars
     \/ /\ ~Open("client")
        /\ Finish("client", k)
        /\ UNCHANGED <<table, view>>
  /\ UNCHANGED <<life, redial, faults>> /\ UNCHANGED srvVars
-----------------------------------------------------------------------------
(* Send: a full queue drops the batch; Threshold drops in a row give the   *)
(* carrier up in a goroutine of their own.                                 *)
Send(e) ==
  LET k == table[e] IN
  /\ k /= 0 /\ Free(e) /\ faults < MaxFaults
  /\ \/ /\ out[e][k] < Depth
        /\ out' = [out EXCEPT ![e][k] = @ + 1]
        /\ overflow' = [overflow EXCEPT ![e][k] = 0]
        /\ UNCHANGED <<spilled, faults>>
     \/ /\ out[e][k] = Depth /\ overflow[e][k] < Threshold
        /\ overflow' = [overflow EXCEPT ![e][k] = @ + 1]
        /\ LET full == overflow'[e][k] = Threshold IN
             /\ spilled' = [spilled EXCEPT ![e] = IF full THEN @ \cup {k} ELSE @]
             /\ faults' = IF full THEN faults + 1 ELSE faults
        /\ UNCHANGED out
  /\ UNCHANGED <<life, table, view, pc, redial>> /\ UNCHANGED netVars /\ UNCHANGED srvVars

(* reportWriteFailure: only the carrier in the table counts.               *)
Fail(e, k) ==
  /\ view' = IF table[e] = k THEN [view EXCEPT ![e] = FALSE] ELSE view
  /\ Shut(e, k)

Spill(e, k) ==
  /\ k \in spilled[e] /\ Free(e)
  /\ spilled' = [spilled EXCEPT ![e] = @ \ {k}]
  /\ Fail(e, k)
  /\ UNCHANGED <<life, table, pc, redial, link, out, overflow, faults>> /\ UNCHANGED srvVars

(* writeLoop: what is written may still fit into buffers of a dead link.   *)
Write(e, k) ==
  /\ pc[e][k] = "reading" /\ k \in sock[e] /\ out[e][k] > 0
  /\ out' = [out EXCEPT ![e][k] = @ - 1]
  /\ \/ UNCHANGED <<view, sock>>
     \/ ~Alive(k) /\ Free(e) /\ Fail(e, k)
  /\ UNCHANGED <<life, table, pc, redial, link, overflow, spilled, faults>> /\ UNCHANGED srvVars

(* CloseSession: the end of a session; its paths go with it.               *)
CloseSession ==
  LET k == table["server"] IN
  /\ session /\ waiting = 0
  /\ session' = FALSE
  /\ table' = [table EXCEPT !["server"] = 0]
  /\ view' = [view EXCEPT !["server"] = FALSE]
  /\ Shut("server", k)
  /\ UNCHANGED <<life, pc, redial, link, waiting, faults>> /\ UNCHANGED queueVars

Close(e) ==
  /\ Open(e) /\ Free(e)
  /\ life' = [life EXCEPT ![e] = "closed"]
  /\ table' = [table EXCEPT ![e] = 0]
  /\ Shut(e, table[e])
  /\ UNCHANGED <<view, pc, redial, link, faults>> /\ UNCHANGED queueVars /\ UNCHANGED srvVars

(* The network: a connection is reset, or its packets stop arriving.       *)
Fault == faults < MaxFaults /\ faults' = faults + 1

Reset(k) ==
  /\ Alive(k) /\ Fault
  /\ sock' = [e \in Ends |-> sock[e] \ {k}]
  /\ UNCHANGED <<life, table, view, pc, redial, link>>
  /\ UNCHANGED queueVars /\ UNCHANGED srvVars

Silence(k) ==
  /\ Alive(k) /\ Fault
  /\ link' = link \ {k}
  /\ UNCHANGED <<life, table, view, pc, redial, sock>>
  /\ UNCHANGED queueVars /\ UNCHANGED srvVars
-----------------------------------------------------------------------------
Goroutine(k) ==
  \/ Serve(k) \/ ServeReplaces(k) \/ Ping(k) \/ Redial(k) \/ RedialRegisters(k)
  \/ \E e \in Ends : ReadEnds(e, k) \/ Spill(e, k) \/ Write(e, k)

Next ==
  \/ \E k \in Conns : Goroutine(k) \/ OpenClient(k) \/ Reset(k) \/ Silence(k)
  \/ \E e \in Ends : Send(e) \/ Close(e)
  \/ RedialEnds \/ CloseSession

(* Goroutines run, and a dial that is repeated succeeds at last.           *)
Fairness ==
  /\ WF_vars(\E k \in Conns : Redial(k))
  /\ \A k \in Conns :
       /\ WF_vars(Serve(k)) /\ WF_vars(ServeReplaces(k)) /\ WF_vars(Ping(k))
       /\ WF_vars(RedialRegisters(k))
       /\ \A e \in Ends : WF_vars(ReadEnds(e, k)) /\ WF_vars(Spill(e, k))

Spec == Init /\ [][Next]_vars /\ Fairness
-----------------------------------------------------------------------------
(* What the layer above was told is what the table says: a carrier it      *)
(* believes in is there, and one that is there and has not failed is       *)
(* believed in, whatever connection ended late.                            *)
ViewFollowsTable ==
  \A e \in Ends : Open(e) /\ (e = "server" => session) =>
    /\ view[e] => table[e] /= 0
    /\ (table[e] /= 0 /\ table[e] \in sock[e]) => view[e]

(* No connection is left behind: one that is open at the client is in its  *)
(* table or has a goroutine that will register or close it, and none but   *)
(* the one being dialled outlives Close.                                   *)
NothingLeftBehind ==
  \A k \in sock["client"] :
    \/ pc["client"][k] = "dialled"
    \/ Open("client") /\ table["client"] = k

(* The binds' bookkeeping, together.                                       *)
BindSound == ViewFollowsTable /\ NothingLeftBehind

(* A client whose bind stays open is carried again after any failure,      *)
(* silent ones included, while the server keeps its session.               *)
Carried == \E k \in Conns : Alive(k) /\ table = [e \in Ends |-> k]

CarrierRecovers ==
  <>[](Open("client") /\ Open("server") /\ session) => <>[]Carried
=============================================================================
