--------------------------- MODULE ClientConnection ---------------------------
(***************************************************************************)
(* One client Connection (pkg/client) after ConnectWithOptions: the loop    *)
(* that renews the session and reconnects, the replacement of a listener    *)
(* or of the transport choice by the user, the forwarding of local          *)
(* connections, the transport workers, and Close, which takes none of the   *)
(* long-held locks and may come at any moment.                              *)
(*                                                                         *)
(* A network is one generation of the data plane: its WireGuard stack, its  *)
(* dataStop channel, its WebSocket carrier and the server address that the  *)
(* targets of the tunnels have. Networks have the names of their roles:     *)
(* "now" is the connection's, "next" the one a reconnect prepares, "old"    *)
(* any before. A listener is "now" a tunnel's own, "next" prepared by a     *)
(* reconnect, "old" of a dropped tunnel, or the "spare" one that a          *)
(* replacement has bound or still has to close.                             *)
(*                                                                         *)
(* c.mu is held within one step; networkMu and transportMu are held across  *)
(* steps, and whether they are follows from where their holders are.        *)
(***************************************************************************)

CONSTANTS
  Names,      \* tunnels the server may grant
  Conns,      \* local connections
  Choices,    \* transports that SetTransport may force
  Preferred,  \* Options.Transport: a member of Choices, or None
  None

ASSUME PreferredAssumption == Preferred \in Choices \cup {None}

VARIABLES
  closed,   \* c.closed; c.Stack is nil exactly when it is set
  tunnels,  \* the names in c.tunnels
  target,   \* of each tunnel the network its target belongs to
  open,     \* the open local listeners
  stacks,   \* the networks whose stack is not closed
  multipath, \* the network has a scheduler (c.multipath)
  forced,   \* the transport that it is forced to
  choice,   \* what SetTransport was last asked for, or Preferred when it was
            \* not or a network without multipath has come since (history)
  session,  \* the server has a session for this client (external)
  holders,  \* who has the token of that session: the connection (c.token),
            \* the carrier's redial header, the request under way, or Close
  renew,    \* renewLoop, and the renewal or the reconnect it is in
  replace,  \* ReplaceListener
  close,    \* Close
  worker,   \* the transport workers of the networks
  conn      \* the goroutine of each local connection

pathVars == <<multipath, forced, choice>>
connVars == <<closed, tunnels, target, open, stacks, pathVars>>
servVars == <<session, holders>>
vars == <<connVars, servVars, renew, replace, close, worker, conn>>

Networks == {"now", "old"}
Listeners == {"now", "next", "old", "spare"} \X Names

NoAttempt == [at |-> "wait", fits |-> TRUE, multi |-> FALSE, tunnels |-> {}, made |-> {},
              drop |-> [n \in Names |-> None]]
NoReplace == [at |-> "idle", name |-> None]
NoConn == [at |-> "idle", name |-> None, lt |-> None, stack |-> None, target |-> None]

TypeOK ==
  /\ {closed, session, multipath} \subseteq BOOLEAN
  /\ tunnels \subseteq Names
  /\ target \in [Names -> Networks]
  /\ open \subseteq Listeners
  /\ stacks \subseteq {"now", "next", "old"}
  /\ {forced, choice} \subseteq Choices \cup {None}
  /\ holders \subseteq {"connection", "carrier", "request", "close"}
  /\ renew \in [at : {"wait", "sent", "renewed", "header", "reconnect", "auth", "lock",
                      "commit", "clean", "done"},
                fits : BOOLEAN, multi : BOOLEAN, tunnels : SUBSET Names, made : SUBSET Names,
                drop : [Names -> Networks \cup {None}]]
  /\ replace \in [at : {"idle", "locked", "bound", "swapped"}, name : Names \cup {None}]
  /\ close \in [at : {"idle", "disconnect", "release", "done"}, tunnels : SUBSET Names]
  /\ worker \in [Networks -> {"none", "idle", "busy"}]
  /\ conn \in [Conns -> [at : {"idle", "in", "dial", "open"}, name : Names \cup {None},
                         lt : {"kept", "dropped", None},
                         stack : Networks \cup {None}, target : Networks \cup {None}]]

-----------------------------------------------------------------------------
(* Locks and tokens.                                                       *)

NetworkLocked ==
  renew.at \in {"auth", "lock", "commit", "clean"} \/ replace.at # "idle"

\* A writer that waits for transportMu keeps new readers out.
TransportReadable == renew.at \notin {"lock", "commit", "clean"}

\* The members of S get the token that h has.
HandOver(h, S) == holders' = (holders \ S) \cup (IF h \in holders THEN S ELSE {})

\* The server answers with a new token, and every other is void from now on;
\* the answer may be lost.
Grant(lost) == session' = TRUE /\ holders' = IF lost THEN {} ELSE {"request"}

Goto(step) == renew' = [renew EXCEPT !.at = step]
GiveUp == renew' = NoAttempt

-----------------------------------------------------------------------------
(* renewLoop and renew.                                                    *)

\* The timer of the next renewal or of the next attempt, or c.stop.
RenewTimer ==
  /\ renew.at = "wait"
  /\ IF closed THEN Goto("done") /\ UNCHANGED holders
               ELSE Goto("sent") /\ HandOver("connection", {"request"})
  /\ UNCHANGED <<connVars, session, replace, close, worker, conn>>

RenewServed(lost) ==
  /\ renew.at = "sent"
  /\ "request" \in holders
  /\ Grant(lost)
  /\ IF lost THEN Goto("reconnect") ELSE Goto("renewed")
  /\ UNCHANGED <<connVars, replace, close, worker, conn>>

MutRenewFails ==
  /\ renew.at = "sent"
  /\ GiveUp
  /\ UNCHANGED <<connVars, servVars, replace, close, worker, conn>>

RenewFails ==
  /\ renew.at = "sent"
  /\ Goto("reconnect")
  /\ UNCHANGED <<connVars, servVars, replace, close, worker, conn>>

\* The answer is applied under c.mu, unless Close was first; SetHeader
\* follows without c.mu.
RenewApplies ==
  /\ renew.at = "renewed"
  /\ IF closed THEN Goto("reconnect") /\ UNCHANGED holders
               ELSE Goto("header") /\ HandOver("request", {"connection"})
  /\ UNCHANGED <<connVars, session, replace, close, worker, conn>>

MutRenewSetsHeader ==
  /\ renew.at = "header"
  /\ GiveUp
  /\ UNCHANGED <<connVars, servVars, replace, close, worker, conn>>

RenewSetsHeader ==
  /\ renew.at = "header"
  /\ HandOver("request", {"carrier"})
  /\ GiveUp
  /\ UNCHANGED <<connVars, session, replace, close, worker, conn>>

-----------------------------------------------------------------------------
(* reconnect and applyReconnectedSession.                                  *)

Reconnect ==
  /\ renew.at = "reconnect"
  /\ ~NetworkLocked
  /\ IF closed THEN GiveUp ELSE Goto("auth")
  /\ UNCHANGED <<connVars, servVars, replace, close, worker, conn>>

\* The server drops the session of this WireGuard key and makes a new one.
AuthServed(lost) ==
  /\ renew.at = "auth"
  /\ Grant(lost)
  /\ IF lost THEN GiveUp ELSE Goto("lock")
  /\ UNCHANGED <<connVars, replace, close, worker, conn>>

AuthFails ==
  /\ renew.at = "auth"
  /\ GiveUp
  /\ UNCHANGED <<connVars, servVars, replace, close, worker, conn>>

\* With transportMu, a network that does not serve the new session is built
\* anew, with a scheduler or without (multi). A granted tunnel that is there
\* keeps its listener unless its protocol changed; the others are made next.
Prepare(fits, multi, granted, changed) ==
  /\ renew.at = "lock"
  /\ worker["now"] # "busy"
  /\ ~closed
  /\ fits => multi = multipath
  /\ renew' = [renew EXCEPT !.at = "commit", !.fits = fits, !.multi = multi,
                            !.tunnels = granted, !.made = granted \ (tunnels \ changed)]
  /\ stacks' = IF fits THEN stacks ELSE stacks \cup {"next"}
  /\ UNCHANGED <<closed, tunnels, target, open, pathVars, servVars, replace, close, worker, conn>>

\* The connection is closed, or the network cannot be built.
PrepareFails ==
  /\ renew.at = "lock"
  /\ worker["now"] # "busy"
  /\ GiveUp
  /\ UNCHANGED <<connVars, servVars, replace, close, worker, conn>>

\* One by one, without c.mu.
OpenReconnectedTunnel(n) ==
  /\ renew.at = "commit"
  /\ n \in renew.made
  /\ <<"next", n>> \notin open
  /\ open' = open \cup {<<"next", n>>}
  /\ UNCHANGED <<closed, tunnels, target, stacks, pathVars, servVars, renew, replace, close,
                 worker, conn>>

Opened == {"next"} \X renew.made \subseteq open

MutRollBack ==
  /\ renew.at = "commit"
  /\ closed \/ ~Opened
  /\ stacks' = stacks \ {"next"}
  /\ GiveUp
  /\ UNCHANGED <<closed, tunnels, target, open, pathVars, servVars, replace, close, worker, conn>>

\* A listener cannot be opened, or Close came while all were: what was opened
\* for the new session is closed again.
RollBack ==
  /\ renew.at = "commit"
  /\ closed \/ ~Opened
  /\ open' = open \ ({"next"} \X Names)
  /\ stacks' = stacks \ {"next"}
  /\ GiveUp
  /\ UNCHANGED <<closed, tunnels, target, pathVars, servVars, replace, close, worker, conn>>

\* What the name of a network becomes when another one takes its place.
Aged(g) == IF renew.fits \/ g = None THEN g ELSE "old"

Dropped == {n \in tunnels : n \notin renew.tunnels \/ n \in renew.made}

\* The tunnels a connection accepted for may be dropped under it.
AgedConn(c) ==
  LET gone == c.lt = "kept" /\ c.name \in Dropped
  IN  [c EXCEPT !.lt = IF gone THEN "dropped" ELSE @,
                !.stack = Aged(@),
                !.target = IF gone /\ c.at = "in" THEN Aged(target[c.name]) ELSE Aged(@)]

MutTargetOf(n) == IF n \in renew.made THEN "now" ELSE Aged(target[n])

\* Every tunnel of the new session gets a target on its network.
TargetOf(n) == IF n \in renew.tunnels THEN "now" ELSE Aged(target[n])

MutForcedNext ==
  IF renew.fits THEN forced ELSE IF renew.multi THEN Preferred ELSE None

\* A new scheduler is made with Options.Transport, and gets the transport that
\* the one before was forced to, if there was one and it was forced.
ForcedNext ==
  IF renew.fits THEN forced
  ELSE IF ~renew.multi THEN None
  ELSE IF forced # None THEN forced ELSE Preferred

\* Under c.mu: the network, the tunnels, their targets and the token. The
\* carrier of a new network was built with that token.
Commit ==
  /\ renew.at = "commit"
  /\ ~closed
  /\ Opened
  /\ tunnels' = renew.tunnels
  /\ target' = [n \in Names |-> TargetOf(n)]
  /\ open' = (open \ ({"next"} \X Names \cup {"now"} \X Dropped))
               \cup ({"old"} \X Dropped) \cup ({"now"} \X renew.made)
  /\ stacks' = IF renew.fits THEN stacks ELSE {"now", "old"}
  /\ multipath' = IF renew.fits THEN multipath ELSE renew.multi
  /\ forced' = ForcedNext
  /\ choice' = IF multipath' THEN choice ELSE Preferred
  /\ HandOver("request", {"connection"} \cup (IF renew.fits THEN {} ELSE {"carrier"}))
  /\ worker' = IF renew.fits \/ worker["now"] = "none" THEN worker
               ELSE [now |-> "none", old |-> worker["now"]]
  /\ conn' = [c \in Conns |-> AgedConn(conn[c])]
  /\ renew' = [renew EXCEPT !.at = "clean",
                 !.drop = [n \in Names |-> IF n \in Dropped THEN Aged(target[n]) ELSE None]]
  /\ UNCHANGED <<closed, session, replace, close>>

\* The rest without c.mu: the redial header, the dropped listeners, the old
\* stack, and the goroutines of the new listeners and of a new network.
CleanUp ==
  /\ renew.at = "clean"
  /\ HandOver("request", {"carrier"})
  /\ open' = open \ ({"old"} \X Names)
  /\ stacks' = stacks \ {"old"}
  /\ worker' = IF renew.fits THEN worker ELSE [worker EXCEPT !["now"] = "idle"]
  /\ GiveUp
  /\ UNCHANGED <<closed, tunnels, target, pathVars, session, replace, close, conn>>

-----------------------------------------------------------------------------
(* ReplaceListener and SetTransport, which networkMu keeps out of a         *)
(* reconnect.                                                               *)

ReplaceLocks(n) ==
  /\ ~NetworkLocked
  /\ n \in tunnels
  /\ replace' = [at |-> "locked", name |-> n]
  /\ UNCHANGED <<connVars, servVars, renew, close, worker, conn>>

\* The new address is bound without c.mu.
ReplaceBinds ==
  /\ replace.at = "locked"
  /\ open' = open \cup {<<"spare", replace.name>>}
  /\ replace' = [replace EXCEPT !.at = "bound"]
  /\ UNCHANGED <<closed, tunnels, target, stacks, pathVars, servVars, renew, close, worker, conn>>

\* It is the one in use already, or it is taken.
ReplaceReturns ==
  /\ replace.at = "locked"
  /\ replace' = NoReplace
  /\ UNCHANGED <<connVars, servVars, renew, close, worker, conn>>

MutReplaceSwaps ==
  /\ replace.at = "bound"
  /\ LET n == replace.name
     IN  open' = (open \ {<<"now", n>>, <<"spare", n>>}) \cup {<<"now", n>>}
                   \cup (IF <<"now", n>> \in open THEN {<<"spare", n>>} ELSE {})
  /\ replace' = [replace EXCEPT !.at = "swapped"]
  /\ UNCHANGED <<closed, tunnels, target, stacks, pathVars, servVars, renew, close, worker, conn>>

\* Under c.mu again: from now on the old listener is the spare one.
ReplaceSwaps ==
  /\ replace.at = "bound"
  /\ ~closed
  /\ replace' = [replace EXCEPT !.at = "swapped"]
  /\ UNCHANGED <<connVars, servVars, renew, close, worker, conn>>

\* The spare listener is closed: the new one of a connection that was closed
\* meanwhile, or the old one.
ReplaceDone ==
  /\ replace.at = "swapped" \/ (replace.at = "bound" /\ closed)
  /\ open' = open \ {<<"spare", replace.name>>}
  /\ replace' = NoReplace
  /\ UNCHANGED <<closed, tunnels, target, stacks, pathVars, servVars, renew, close, worker, conn>>

\* Without a scheduler it is an error.
SetTransport(t) ==
  /\ ~NetworkLocked
  /\ multipath
  /\ forced' = t
  /\ choice' = t
  /\ UNCHANGED <<closed, tunnels, target, open, stacks, multipath, servVars, renew, replace, close, worker, conn>>

-----------------------------------------------------------------------------
(* Close.                                                                  *)

CloseMarks ==
  /\ close.at = "idle"
  /\ closed' = TRUE
  /\ close' = [at |-> "disconnect", tunnels |-> tunnels]
  /\ tunnels' = {}
  /\ HandOver("connection", {"close"})
  /\ UNCHANGED <<target, open, stacks, pathVars, session, renew, replace, worker, conn>>

\* The disconnect request, which closeDisconnectTimeout bounds.
CloseDisconnects(lost) ==
  /\ close.at = "disconnect"
  /\ IF "close" \in holders /\ ~lost THEN session' = FALSE /\ holders' = {}
                                     ELSE UNCHANGED servVars
  /\ close' = [close EXCEPT !.at = "release"]
  /\ UNCHANGED <<connVars, renew, replace, worker, conn>>

\* The listeners that its tunnels have by now, and the stack.
CloseReleases ==
  /\ close.at = "release"
  /\ open' = open \ ({"now"} \X close.tunnels)
  /\ stacks' = stacks \ {"now"}
  /\ close' = [at |-> "done", tunnels |-> {}]
  /\ UNCHANGED <<closed, tunnels, target, pathVars, servVars, renew, replace, worker, conn>>

-----------------------------------------------------------------------------
(* Transport workers: the upgrade loop and the bootstrap of a direct path.  *)

\* With transportMu: only for the network in use, and not after Close.
WorkerTick(g) ==
  /\ worker[g] = "idle"
  /\ TransportReadable
  /\ worker' = [worker EXCEPT ![g] = IF closed \/ g # "now" THEN "none" ELSE "busy"]
  /\ UNCHANGED <<connVars, servVars, renew, replace, close, conn>>

\* dataStop or c.stop, which end the loop without the lock.
WorkerStops(g) ==
  /\ worker[g] = "idle"
  /\ closed \/ g # "now"
  /\ worker' = [worker EXCEPT ![g] = "none"]
  /\ UNCHANGED <<connVars, servVars, renew, replace, close, conn>>

WorkerDone(g) ==
  /\ worker[g] = "busy"
  /\ worker' = [worker EXCEPT ![g] = "idle"]
  /\ UNCHANGED <<connVars, servVars, renew, replace, close, conn>>

-----------------------------------------------------------------------------
(* forward.                                                                *)

\* A dropped tunnel accepts until its listener is closed, a new one from when
\* its goroutine is started.
Accept(c, n) ==
  /\ conn[c].at = "idle"
  /\ \/ /\ <<"now", n>> \in open
        /\ ~(renew.at = "clean" /\ n \in renew.made)
        /\ conn' = [conn EXCEPT ![c] = [NoConn EXCEPT !.at = "in", !.name = n, !.lt = "kept"]]
     \/ /\ <<"old", n>> \in open
        /\ conn' = [conn EXCEPT ![c] = [NoConn EXCEPT !.at = "in", !.name = n, !.lt = "dropped",
                                                      !.target = renew.drop[n]]]
  /\ UNCHANGED <<connVars, servVars, renew, replace, close, worker>>

\* The stack, its stop channel and the target, under one hold of c.mu.
Snapshot(c) ==
  /\ conn[c].at = "in"
  /\ conn' = [conn EXCEPT ![c] =
       IF closed THEN NoConn
       ELSE [conn[c] EXCEPT !.at = "dial", !.stack = "now",
                            !.target = IF conn[c].lt = "kept" THEN target[conn[c].name] ELSE @]]
  /\ UNCHANGED <<connVars, servVars, renew, replace, close, worker>>

Dial(c) ==
  /\ conn[c].at = "dial"
  /\ conn[c].stack \in stacks
  /\ conn' = [conn EXCEPT ![c].at = "open"]
  /\ UNCHANGED <<connVars, servVars, renew, replace, close, worker>>

\* The dial fails, as it must on a closed stack, or either side is done.
Finish(c) ==
  /\ conn[c].at \in {"dial", "open"}
  /\ conn' = [conn EXCEPT ![c] = NoConn]
  /\ UNCHANGED <<connVars, servVars, renew, replace, close, worker>>

\* watchForward: the stop channel that the snapshot saw, or c.stop.
WatchForward(c) ==
  /\ conn[c].at = "open"
  /\ closed \/ conn[c].stack # "now"
  /\ conn' = [conn EXCEPT ![c] = NoConn]
  /\ UNCHANGED <<connVars, servVars, renew, replace, close, worker>>

-----------------------------------------------------------------------------
\* The session expires or is revoked at the server.
SessionEnds ==
  /\ session
  /\ session' = FALSE
  /\ holders' = {}
  /\ UNCHANGED <<connVars, renew, replace, close, worker, conn>>

Init ==
  /\ closed = FALSE
  /\ tunnels = Names
  /\ target = [n \in Names |-> "now"]
  /\ open = {"now"} \X Names
  /\ stacks = {"now"}
  /\ multipath \in BOOLEAN
  /\ forced = IF multipath THEN Preferred ELSE None
  /\ choice = Preferred
  /\ session = TRUE
  /\ holders = {"connection", "carrier"}
  /\ renew = NoAttempt
  /\ replace = NoReplace
  /\ close = [at |-> "idle", tunnels |-> {}]
  /\ worker = [now |-> "idle", old |-> "none"]
  /\ conn = [c \in Conns |-> NoConn]

RenewLoop ==
  \/ RenewTimer \/ RenewFails \/ RenewApplies \/ RenewSetsHeader
  \/ Reconnect \/ AuthFails \/ PrepareFails \/ RollBack \/ Commit \/ CleanUp
  \/ \E lost \in BOOLEAN : RenewServed(lost) \/ AuthServed(lost)
  \/ \E fits, multi \in BOOLEAN, granted \in SUBSET Names : \E changed \in SUBSET granted :
       Prepare(fits, multi, granted, changed)
  \/ \E n \in Names : OpenReconnectedTunnel(n)

Replacing == ReplaceBinds \/ ReplaceReturns \/ ReplaceSwaps \/ ReplaceDone

Closing == (\E lost \in BOOLEAN : CloseDisconnects(lost)) \/ CloseReleases

Worker(g) == WorkerTick(g) \/ WorkerStops(g) \/ WorkerDone(g)

Next ==
  \/ RenewLoop
  \/ \E n \in Names : ReplaceLocks(n)
  \/ Replacing
  \/ \E t \in Choices \cup {None} : SetTransport(t)
  \/ CloseMarks
  \/ Closing
  \/ \E g \in Networks : Worker(g)
  \/ \E c \in Conns, n \in Names : Accept(c, n)
  \/ \E c \in Conns : Snapshot(c) \/ Dial(c) \/ Finish(c) \/ WatchForward(c)
  \/ SessionEnds

\* Requests are bounded by a timeout, and the mutex serves whoever waits. The
\* user need not do anything, and a connection may stay for ever.
Fairness ==
  /\ WF_vars(RenewLoop)
  /\ SF_vars(Reconnect)
  /\ WF_vars(Replacing)
  /\ WF_vars(Closing)
  /\ \A g \in Networks : WF_vars(Worker(g))
  /\ \A c \in Conns : WF_vars(Snapshot(c) \/ Dial(c) \/ (Finish(c) /\ conn[c].at = "dial") \/ WatchForward(c))

Spec == Init /\ [][Next]_vars /\ Fairness

-----------------------------------------------------------------------------
(* Properties.                                                             *)

\* Types, and ownership: every open listener and stack belongs to the connection, or to an
\* operation that will install or close it, and nobody closes what the
\* connection still uses: neither the roll-back of a reconnect, nor its
\* clean-up, nor a replacement, nor Close in the middle of these.
EverythingOwned ==
  /\ TypeOK
  /\ \A n \in Names :
       /\ <<"now", n>> \in open <=> n \in tunnels \cup close.tunnels
       /\ <<"next", n>> \in open => renew.at = "commit"
       /\ <<"old", n>> \in open => renew.at = "clean"
       /\ <<"spare", n>> \in open => replace.at # "idle" /\ replace.name = n
  /\ "now" \in stacks <=> close.at # "done"
  /\ "next" \in stacks => renew.at = "commit"
  /\ "old" \in stacks => renew.at = "clean"

\* A connection is dialled on the network that its target belongs to; the one
\* exception is a connection whose tunnel was dropped before its goroutine
\* looked. A worker that is at work is at work on the network in use.
OneGeneration ==
  /\ \A c \in Conns : conn[c].at \in {"dial", "open"} /\ conn[c].lt = "kept" =>
       conn[c].target = conn[c].stack
  /\ worker["old"] # "busy"

\* Whenever the connection has the token of the live session, so has the
\* carrier that may have to redial, but for the moments in between.
HeaderFollowsToken ==
  "connection" \in holders => \/ "carrier" \in holders
                             \/ renew.at \in {"header", "clean"}

\* As long as every network has multipath, the transport that the user asked
\* for stays forced through every reconnect. Two things do not last: a return
\* to automatic selection, because a new network is forced to Options.Transport
\* again, and a choice before a network without multipath: the network after
\* that starts from Options.Transport too.
ChoiceKept ==
  closed \/ IF multipath THEN forced = choice \/ (choice = None /\ forced = Preferred)
            ELSE forced = None /\ choice = Preferred

\* Together: after any renewal or reconnection the parts of the connection are
\* of one session: networks, header and transport choice.
OneSession == OneGeneration /\ HeaderFollowsToken /\ ChoiceKept

\* After Close, whatever was under way, no listener, stack, worker or
\* connection is left.
CloseReleasesAll ==
  closed ~> [](/\ open = {} /\ stacks = {}
               /\ \A g \in Networks : worker[g] = "none"
               /\ \A c \in Conns : conn[c] = NoConn)

Trouble ==
  \/ SessionEnds
  \/ RenewServed(TRUE) \/ AuthServed(TRUE) \/ AuthFails \/ PrepareFails
  \/ (RollBack /\ ~closed) \/ (RenewFails /\ "request" \in holders)

\* Once the server and the network behave, the connection has the token of a
\* live session again and again: a lost answer, an expired or a revoked
\* session is recovered from.
SessionRecovers ==
  <>[][~Trouble]_vars => []<>(closed \/ "connection" \in holders)
=============================================================================
