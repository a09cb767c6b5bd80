----------------------- MODULE ClientConnection_proofs -----------------------
(***************************************************************************)
(* Proofs about ClientConnection, for any tunnels, local connections and   *)
(* transports: whatever Close, a replacement, a renewal and a reconnect do *)
(* to each other, every listener and stack has its owner, and the parts of *)
(* a connection are of one session.                                        *)
(***************************************************************************)
EXTENDS ClientConnection, TLAPS

(***************************************************************************)
(* What the promises rest on.                                              *)
(***************************************************************************)

\* The records of TypeOK.
RenewRecords ==
  [at : {"wait", "sent", "renewed", "header", "reconnect", "auth", "lock", "commit", "clean", "done"},
   fits : BOOLEAN, multi : BOOLEAN, tunnels : SUBSET Names, made : SUBSET Names,
   drop : [Names -> Networks \cup {None}]]
ConnRecords ==
  [at : {"idle", "in", "dial", "open"}, name : Names \cup {None}, lt : {"kept", "dropped", None},
   stack : Networks \cup {None}, target : Networks \cup {None}]

\* Close takes the tunnels over from the connection, and has none at the end.
CloseTakesOver ==
  /\ closed <=> close.at # "idle"
  /\ closed => tunnels = {}
  /\ close.at \notin {"disconnect", "release"} => close.tunnels = {}

\* Ownership, with what the step that gives a thing up relies on: nothing is
\* spare until it is bound, and only a new network is prepared.
ListenersOwned ==
  \A n \in Names :
    /\ <<"now", n>> \in open <=> n \in tunnels \cup close.tunnels
    /\ <<"next", n>> \in open => renew.at = "commit"
    /\ <<"old", n>> \in open => renew.at = "clean"
    /\ <<"spare", n>> \in open => replace.at \in {"bound", "swapped"} /\ replace.name = n

\* A replacement under way is of a tunnel.
Named == replace.at # "idle" => replace.name \in Names

StacksOwned ==
  /\ "now" \in stacks <=> close.at # "done"
  /\ "next" \in stacks => renew.at = "commit" /\ ~renew.fits
  /\ "old" \in stacks => renew.at = "clean"

\* What Prepare looked at is still so when Commit takes c.mu, unless closed.
Prepared ==
  renew.at = "commit" /\ ~closed =>
    renew.made \subseteq renew.tunnels /\ renew.tunnels \ tunnels \subseteq renew.made

TargetsCurrent == ~closed => \A n \in tunnels : target[n] = "now"

\* A connection that was accepted for a tunnel which is still there will take
\* its target from it, and one that has dialled keeps the two together.
Forwarded ==
  \A c \in Conns :
    /\ conn[c].at # "idle" => conn[c].name \in Names
    /\ conn[c].at = "in" /\ conn[c].lt = "kept" /\ ~closed => conn[c].name \in tunnels
    /\ conn[c].at \in {"dial", "open"} /\ conn[c].lt = "kept" => conn[c].target = conn[c].stack

\* The writer of transportMu that is in keeps the workers out.
WorkersOut ==
  /\ worker["old"] # "busy"
  /\ renew.at \in {"commit", "clean"} => worker["now"] # "busy"

\* Until the carrier has it, the token is in the answer too.
TokenAtHand ==
  /\ HeaderFollowsToken
  /\ renew.at \in {"header", "clean"} /\ "connection" \in holders => "request" \in holders

IInv ==
  /\ TypeOK /\ CloseTakesOver /\ ListenersOwned /\ StacksOwned /\ Prepared
  /\ Named /\ TargetsCurrent /\ Forwarded /\ WorkersOut /\ TokenAtHand /\ ChoiceKept

USE DEF pathVars

LEMMA InitInv == Init => IInv
<1> SUFFICES ASSUME Init PROVE IInv
  OBVIOUS
<1>1. TypeOK
  <2>1. worker \in [Networks -> {"none", "idle", "busy"}]
    BY DEF Init, Networks
  <2>2. conn \in [Conns -> ConnRecords]
    BY DEF Init, NoConn, ConnRecords
  <2>3. renew \in RenewRecords
    BY DEF Init, NoAttempt, RenewRecords
  <2>4. open \subseteq Listeners /\ {forced, choice} \subseteq Choices \cup {None}
    BY PreferredAssumption DEF Init, Listeners
  <2> QED BY <2>1, <2>2, <2>3, <2>4
       DEF Init, TypeOK, NoReplace, ConnRecords, RenewRecords, Networks
<1>2. CloseTakesOver /\ ListenersOwned /\ StacksOwned /\ Prepared /\ Named
  BY DEF Init, CloseTakesOver, ListenersOwned, StacksOwned, Prepared, Named, NoAttempt, NoReplace
<1>3. TargetsCurrent /\ Forwarded /\ WorkersOut /\ TokenAtHand /\ ChoiceKept
  BY DEF Init, TargetsCurrent, Forwarded, WorkersOut, TokenAtHand, ChoiceKept, NoAttempt, NoConn,
     HeaderFollowsToken
<1> QED BY <1>1, <1>2, <1>3 DEF IInv

(***************************************************************************)
(* Steps of the renewal loop that touch neither listeners nor networks.    *)
(***************************************************************************)

\* The step goes on with the request, or gives the attempt up.
LEMMA AskingStep ==
  ASSUME IInv, UNCHANGED <<connVars, replace, close, worker, conn>>,
         renew' = NoAttempt \/ \E l \in {"sent", "renewed", "header", "reconnect", "auth", "lock", "done"} :
                                 renew' = [renew EXCEPT !.at = l],
         renew.at \notin {"commit", "clean"}, session' \in BOOLEAN,
         holders' \subseteq {"connection", "carrier", "request", "close"}, TokenAtHand'
  PROVE  IInv'
<1>1. UNCHANGED <<closed, tunnels, target, open, stacks, pathVars>>
  BY DEF connVars
<1>2. renew.fits \in BOOLEAN /\ renew'.at \notin {"commit", "clean"}
  BY DEF IInv, TypeOK, NoAttempt
<1>3. TypeOK'
  <2>1. renew \in RenewRecords
    BY DEF IInv, TypeOK, RenewRecords
  <2>2. NoAttempt \in RenewRecords
    BY DEF NoAttempt, RenewRecords
  <2>3. renew' \in RenewRecords
    BY <2>1, <2>2 DEF RenewRecords
  <2> QED BY <1>1, <2>3 DEF IInv, TypeOK, RenewRecords
<1>4. ListenersOwned' /\ StacksOwned' /\ Prepared' /\ WorkersOut'
  BY <1>1, <1>2 DEF IInv, ListenersOwned, StacksOwned, Prepared, WorkersOut
<1>5. CloseTakesOver' /\ Named' /\ TargetsCurrent' /\ Forwarded' /\ ChoiceKept'
  BY <1>1 DEF IInv, CloseTakesOver, Named, TargetsCurrent, Forwarded, ChoiceKept
<1> QED BY <1>3, <1>4, <1>5 DEF IInv

LEMMA RenewInv ==
  ASSUME IInv,
         \/ RenewTimer \/ RenewFails \/ RenewApplies \/ RenewSetsHeader
         \/ Reconnect \/ AuthFails \/ PrepareFails
         \/ \E lost \in BOOLEAN : RenewServed(lost) \/ AuthServed(lost)
  PROVE  IInv'
<1> USE DEF Goto, GiveUp, Grant
<1>1. /\ UNCHANGED <<connVars, replace, close, worker, conn>>
      /\ renew.at \notin {"commit", "clean"}
      /\ \/ renew' = NoAttempt
         \/ \E l \in {"sent", "renewed", "header", "reconnect", "auth", "lock", "done"} :
              renew' = [renew EXCEPT !.at = l]
  BY DEF RenewTimer, RenewFails, RenewApplies, RenewSetsHeader, Reconnect, AuthFails, PrepareFails,
     RenewServed, AuthServed
<1>2. session \in BOOLEAN /\ holders \subseteq {"connection", "carrier", "request", "close"}
  BY DEF IInv, TypeOK
<1>3. session' \in BOOLEAN /\ holders' \subseteq {"connection", "carrier", "request", "close"}
  BY <1>2 DEF RenewTimer, RenewFails, RenewApplies, RenewSetsHeader, Reconnect, AuthFails,
     PrepareFails, RenewServed, AuthServed, HandOver, servVars
<1>4. TokenAtHand'
  <2> USE DEF TokenAtHand, HeaderFollowsToken
  <2>1. CASE \/ RenewTimer \/ RenewFails \/ Reconnect \/ AuthFails \/ PrepareFails
    <3>1. renew.at \notin {"header", "clean"} /\ renew'.at \notin {"header", "clean"}
      BY <2>1 DEF RenewTimer, RenewFails, Reconnect, AuthFails, PrepareFails, IInv, TypeOK, NoAttempt
    <3>2. \A h \in {"connection", "carrier"} : h \in holders' <=> h \in holders
      BY <2>1 DEF RenewTimer, RenewFails, Reconnect, AuthFails, PrepareFails, HandOver, servVars
    <3> QED BY <3>1, <3>2 DEF IInv
  <2>2. CASE \E lost \in BOOLEAN : RenewServed(lost) \/ AuthServed(lost)
    <3>1. "connection" \notin holders'
      BY <2>2 DEF RenewServed, AuthServed
    <3> QED BY <3>1
  <2>3. CASE RenewApplies
    <3>1. CASE closed
      <4>1. renew' = [renew EXCEPT !.at = "reconnect"] /\ holders' = holders /\ renew.at = "renewed"
        BY <2>3, <3>1 DEF RenewApplies
      <4>2. renew'.at = "reconnect"
        BY <4>1 DEF IInv, TypeOK
      <4> QED BY <4>1, <4>2 DEF IInv
    <3>2. CASE ~closed
      <4>1. renew'.at = "header"
        BY <2>3, <3>2 DEF RenewApplies, IInv, TypeOK
      <4>2. "connection" \in holders' => "request" \in holders'
        BY <2>3, <3>2 DEF RenewApplies, HandOver
      <4> QED BY <4>1, <4>2
    <3> QED BY <3>1, <3>2
  <2>4. CASE RenewSetsHeader
    <3>1. renew'.at = "wait" /\ renew.at = "header"
      BY <2>4 DEF RenewSetsHeader, NoAttempt
    <3>2. "connection" \in holders' => "carrier" \in holders'
      BY <2>4, <3>1 DEF RenewSetsHeader, HandOver, IInv
    <3> QED BY <3>1, <3>2
  <2> QED BY <2>1, <2>2, <2>3, <2>4
<1> QED BY <1>1, <1>3, <1>4, AskingStep

(***************************************************************************)
(* The reconnect.                                                          *)
(***************************************************************************)

LEMMA PrepareInv ==
  ASSUME IInv, NEW fits \in BOOLEAN, NEW multi \in BOOLEAN, NEW granted \in SUBSET Names,
         NEW changed \in SUBSET granted, Prepare(fits, multi, granted, changed)
  PROVE  IInv'
<1> DEFINE made == granted \ (tunnels \ changed)
<1>1. /\ renew.at = "lock" /\ worker["now"] # "busy" /\ ~closed
      /\ renew' = [renew EXCEPT !.at = "commit", !.fits = fits, !.multi = multi,
                                !.tunnels = granted, !.made = made]
      /\ stacks' = IF fits THEN stacks ELSE stacks \cup {"next"}
      /\ UNCHANGED <<closed, tunnels, target, open, pathVars, session, holders, replace, close,
                     worker, conn>>
  BY DEF Prepare, servVars
<1>2. made \in SUBSET Names
  OBVIOUS
<1> HIDE DEF made
<1>3. /\ renew' \in RenewRecords /\ renew'.at = "commit" /\ renew'.fits = fits
      /\ renew'.tunnels = granted /\ renew'.made = made
  <2>1. renew \in RenewRecords
    BY DEF IInv, TypeOK, RenewRecords
  <2>2. renew' = [at |-> "commit", fits |-> fits, multi |-> multi, tunnels |-> granted,
                  made |-> made, drop |-> renew.drop]
    BY <1>1, <2>1 DEF RenewRecords
  <2> QED BY <1>2, <2>1, <2>2 DEF RenewRecords
<1>4. TypeOK'
  BY <1>1, <1>3 DEF IInv, TypeOK, RenewRecords
<1>5. ListenersOwned'
  BY <1>1, <1>3 DEF IInv, ListenersOwned
<1>6. StacksOwned'
  BY <1>1, <1>3 DEF IInv, StacksOwned
<1>7. Prepared'
  BY <1>1, <1>3 DEF Prepared, made
<1>8. CloseTakesOver' /\ Named' /\ TargetsCurrent' /\ Forwarded' /\ ChoiceKept'
  BY <1>1 DEF IInv, CloseTakesOver, Named, TargetsCurrent, Forwarded, ChoiceKept
<1>9. WorkersOut' /\ TokenAtHand'
  BY <1>1, <1>3 DEF IInv, WorkersOut, TokenAtHand, HeaderFollowsToken
<1> QED BY <1>4, <1>5, <1>6, <1>7, <1>8, <1>9 DEF IInv

LEMMA OpenReconnectedInv ==
  ASSUME IInv, NEW n \in Names, OpenReconnectedTunnel(n) PROVE IInv'
<1>1. /\ renew.at = "commit" /\ open' = open \cup {<<"next", n>>}
      /\ UNCHANGED <<closed, tunnels, target, stacks, pathVars, session, holders, renew, replace,
                     close, worker, conn>>
  BY DEF OpenReconnectedTunnel, servVars
<1>2. /\ open' \subseteq Listeners
      /\ \A m \in Names : \A k \in {"now", "old", "spare"} : <<k, m>> \in open' <=> <<k, m>> \in open
  BY <1>1 DEF IInv, TypeOK, Listeners
<1>3. TypeOK'
  BY <1>1, <1>2 DEF IInv, TypeOK
<1>4. ListenersOwned'
  BY <1>1, <1>2 DEF IInv, ListenersOwned
<1>5. CloseTakesOver' /\ StacksOwned' /\ Prepared' /\ Named'
  BY <1>1 DEF IInv, CloseTakesOver, StacksOwned, Prepared, Named
<1>6. TargetsCurrent' /\ Forwarded' /\ WorkersOut' /\ TokenAtHand' /\ ChoiceKept'
  BY <1>1 DEF IInv, TargetsCurrent, Forwarded, WorkersOut, TokenAtHand, HeaderFollowsToken,
     ChoiceKept
<1> QED BY <1>3, <1>4, <1>5, <1>6 DEF IInv

\* The attempt is over: nothing of it is left.
LEMMA AttemptOver ==
  ASSUME renew' = NoAttempt
  PROVE  renew' \in RenewRecords /\ renew'.at = "wait"
BY DEF NoAttempt, RenewRecords

LEMMA RollBackInv == ASSUME IInv, RollBack PROVE IInv'
<1>1. /\ renew.at = "commit" /\ renew' = NoAttempt
      /\ open' = open \ ({"next"} \X Names) /\ stacks' = stacks \ {"next"}
      /\ UNCHANGED <<closed, tunnels, target, pathVars, session, holders, replace, close,
                     worker, conn>>
  BY DEF RollBack, GiveUp, servVars
<1>2. renew' \in RenewRecords /\ renew'.at = "wait"
  BY <1>1, AttemptOver
<1>3. TypeOK'
  BY <1>1, <1>2 DEF IInv, TypeOK, RenewRecords
<1>4. ListenersOwned'
  BY <1>1, <1>2 DEF IInv, ListenersOwned
<1>5. StacksOwned' /\ Prepared'
  BY <1>1, <1>2 DEF IInv, StacksOwned, Prepared
<1>6. CloseTakesOver' /\ Named' /\ TargetsCurrent' /\ Forwarded' /\ ChoiceKept'
  BY <1>1 DEF IInv, CloseTakesOver, Named, TargetsCurrent, Forwarded, ChoiceKept
<1>7. WorkersOut' /\ TokenAtHand'
  BY <1>1, <1>2 DEF IInv, WorkersOut, TokenAtHand, HeaderFollowsToken
<1> QED BY <1>3, <1>4, <1>5, <1>6, <1>7 DEF IInv

LEMMA CleanUpInv == ASSUME IInv, CleanUp PROVE IInv'
<1>1. /\ renew.at = "clean" /\ renew' = NoAttempt /\ HandOver("request", {"carrier"})
      /\ open' = open \ ({"old"} \X Names) /\ stacks' = stacks \ {"old"}
      /\ worker' = IF renew.fits THEN worker ELSE [worker EXCEPT !["now"] = "idle"]
      /\ UNCHANGED <<closed, tunnels, target, pathVars, session, replace, close, conn>>
  BY DEF CleanUp, GiveUp
<1>2. renew' \in RenewRecords /\ renew'.at = "wait"
  BY <1>1, AttemptOver
<1>3. /\ worker' \in [Networks -> {"none", "idle", "busy"}] /\ worker'["old"] = worker["old"]
  BY <1>1 DEF IInv, TypeOK, Networks
<1>4. /\ holders' \subseteq {"connection", "carrier", "request", "close"}
      /\ "connection" \in holders' => "carrier" \in holders'
  BY <1>1 DEF IInv, TypeOK, HandOver, TokenAtHand
<1>5. TypeOK'
  BY <1>1, <1>2, <1>3, <1>4 DEF IInv, TypeOK, RenewRecords
<1>6. ListenersOwned'
  BY <1>1, <1>2 DEF IInv, ListenersOwned
<1>7. StacksOwned' /\ Prepared'
  BY <1>1, <1>2 DEF IInv, StacksOwned, Prepared
<1>8. CloseTakesOver' /\ Named' /\ TargetsCurrent' /\ Forwarded' /\ ChoiceKept'
  BY <1>1 DEF IInv, CloseTakesOver, Named, TargetsCurrent, Forwarded, ChoiceKept
<1>9. WorkersOut' /\ TokenAtHand'
  BY <1>2, <1>3, <1>4 DEF IInv, WorkersOut, TokenAtHand, HeaderFollowsToken
<1> QED BY <1>5, <1>6, <1>7, <1>8, <1>9 DEF IInv

LEMMA ConnExcept ==
  ASSUME NEW b \in ConnRecords, NEW x, NEW y, NEW z
  PROVE  [b EXCEPT !.lt = x, !.stack = y, !.target = z] =
           [at |-> b.at, name |-> b.name, lt |-> x, stack |-> y, target |-> z]
<1> DEFINE fields == {"at", "name", "lt", "stack", "target"}
           r == [b EXCEPT !.lt = x, !.stack = y, !.target = z]
           q == [at |-> b.at, name |-> b.name, lt |-> x, stack |-> y, target |-> z]
<1>1. b = [i \in fields |-> b[i]]
  BY DEF ConnRecords
<1>2. r = [i \in fields |-> IF i = "lt" THEN x ELSE IF i = "stack" THEN y
                            ELSE IF i = "target" THEN z ELSE b[i]]
  BY <1>1
<1>3. q = [i \in fields |-> IF i = "lt" THEN x ELSE IF i = "stack" THEN y
                            ELSE IF i = "target" THEN z ELSE b[i]]
  OBVIOUS
<1> QED BY <1>2, <1>3

\* What aging does to a connection.
LEMMA Aging ==
  ASSUME IInv, NEW c \in Conns
  PROVE  LET d == AgedConn(conn[c]) IN
         /\ d \in ConnRecords /\ d.at = conn[c].at /\ d.name = conn[c].name
         /\ d.lt = "kept" => /\ conn[c].lt = "kept" /\ conn[c].name \notin Dropped
                             /\ d.stack = Aged(conn[c].stack) /\ d.target = Aged(conn[c].target)
<1> DEFINE b == conn[c]
           gone == b.lt = "kept" /\ b.name \in Dropped
           lt == IF gone THEN "dropped" ELSE b.lt
           to == IF gone /\ b.at = "in" THEN Aged(target[b.name]) ELSE Aged(b.target)
<1>1. b \in ConnRecords /\ target \in [Names -> Networks]
  BY DEF IInv, TypeOK, ConnRecords
<1>2. \A g \in Networks \cup {None} : Aged(g) \in Networks \cup {None}
  BY DEF Aged, Networks
<1>3. Dropped \subseteq Names
  BY DEF Dropped, IInv, TypeOK
<1>4. AgedConn(b) = [at |-> b.at, name |-> b.name, lt |-> lt, stack |-> Aged(b.stack), target |-> to]
  <2>1. AgedConn(b) = [b EXCEPT !.lt = lt, !.stack = Aged(b.stack), !.target = to]
    BY Zenon DEF AgedConn
  <2> HIDE DEF b, lt, to
  <2> QED BY <1>1, <2>1, ConnExcept, Zenon
<1>5. /\ b.at \in {"idle", "in", "dial", "open"} /\ b.name \in Names \cup {None}
      /\ lt \in {"kept", "dropped", None}
      /\ Aged(b.stack) \in Networks \cup {None} /\ to \in Networks \cup {None}
  BY <1>1, <1>2, <1>3 DEF ConnRecords
<1>6. lt = "kept" => /\ b.lt = "kept" /\ b.name \notin Dropped
                     /\ to = Aged(b.target)
  OBVIOUS
<1> HIDE DEF lt, to
<1>7. AgedConn(b) \in ConnRecords
  BY <1>4, <1>5 DEF ConnRecords
<1> QED BY <1>4, <1>6, <1>7

LEMMA CommitInv == ASSUME IInv, Commit PROVE IInv'
<1>1. /\ renew.at = "commit" /\ ~closed /\ tunnels' = renew.tunnels
      /\ target' = [n \in Names |-> TargetOf(n)]
      /\ open' = (open \ ({"next"} \X Names \cup {"now"} \X Dropped))
                   \cup ({"old"} \X Dropped) \cup ({"now"} \X renew.made)
      /\ stacks' = IF renew.fits THEN stacks ELSE {"now", "old"}
      /\ multipath' = IF renew.fits THEN multipath ELSE renew.multi
      /\ forced' = ForcedNext
      /\ choice' = IF multipath' THEN choice ELSE Preferred
      /\ HandOver("request", {"connection"} \cup (IF renew.fits THEN {} ELSE {"carrier"}))
      /\ worker' = IF renew.fits \/ worker["now"] = "none" THEN worker
                   ELSE [now |-> "none", old |-> worker["now"]]
      /\ conn' = [c \in Conns |-> AgedConn(conn[c])]
      /\ renew' = [renew EXCEPT !.at = "clean",
                     !.drop = [n \in Names |-> IF n \in Dropped THEN Aged(target[n]) ELSE None]]
      /\ UNCHANGED <<closed, session, replace, close>>
  BY DEF Commit
<1>2. /\ renew \in RenewRecords /\ target \in [Names -> Networks] /\ tunnels \subseteq Names
      /\ worker \in [Networks -> {"none", "idle", "busy"}]
  BY DEF IInv, TypeOK, RenewRecords
<1>3. Dropped \subseteq Names /\ Dropped \subseteq tunnels
  BY <1>2 DEF Dropped
<1>4. renew' \in RenewRecords /\ renew'.at = "clean" /\ renew'.fits = renew.fits
  <2> DEFINE drop == [n \in Names |-> IF n \in Dropped THEN Aged(target[n]) ELSE None]
  <2>1. drop \in [Names -> Networks \cup {None}]
    BY <1>2 DEF Aged, Networks
  <2> HIDE DEF drop
  <2>2. renew' = [renew EXCEPT !.at = "clean", !.drop = drop]
    BY <1>1 DEF drop
  <2>3. renew' = [at |-> "clean", fits |-> renew.fits, multi |-> renew.multi,
                  tunnels |-> renew.tunnels, made |-> renew.made, drop |-> drop]
    BY <1>2, <2>2 DEF RenewRecords
  <2> QED BY <1>2, <2>1, <2>3 DEF RenewRecords
<1>5. target' \in [Names -> Networks] /\ \A n \in renew.tunnels : target'[n] = "now"
  BY <1>1, <1>2 DEF TargetOf, Aged, Networks, RenewRecords
<1>6. /\ worker' \in [Networks -> {"none", "idle", "busy"}]
      /\ worker'["now"] # "busy" /\ worker'["old"] # "busy"
  <2>1. worker["now"] # "busy" /\ worker["old"] # "busy"
    BY <1>1 DEF IInv, WorkersOut
  <2>2. CASE worker' = worker
    BY <1>2, <2>1, <2>2
  <2>3. CASE worker' = [now |-> "none", old |-> worker["now"]]
    BY <1>2, <2>1, <2>3 DEF Networks
  <2> QED BY <1>1, <2>2, <2>3
<1>7. conn' \in [Conns -> ConnRecords]
  BY <1>1, Aging
<1>8. open' \subseteq Listeners
  BY <1>1, <1>2, <1>3 DEF IInv, TypeOK, Listeners, RenewRecords
<1>9. holders' \subseteq {"connection", "carrier", "request", "close"} /\ TokenAtHand'
  BY <1>1, <1>4 DEF IInv, TypeOK, HandOver, TokenAtHand, HeaderFollowsToken
<1>10. TypeOK'
  <2>1. tunnels' \subseteq Names /\ stacks' \subseteq {"now", "next", "old"}
    BY <1>1, <1>2 DEF RenewRecords, IInv, TypeOK
  <2>2. /\ {forced', choice'} \subseteq Choices \cup {None}
        /\ {closed', session', multipath'} \subseteq BOOLEAN
    BY <1>1, <1>2, PreferredAssumption DEF IInv, TypeOK, ForcedNext, RenewRecords
  <2>3. /\ replace' \in [at : {"idle", "locked", "bound", "swapped"}, name : Names \cup {None}]
        /\ close' \in [at : {"idle", "disconnect", "release", "done"}, tunnels : SUBSET Names]
    BY <1>1 DEF IInv, TypeOK
  <2> QED BY <1>4, <1>5, <1>6, <1>7, <1>8, <1>9, <2>1, <2>2, <2>3
       DEF TypeOK, RenewRecords, ConnRecords
<1>11. CloseTakesOver' /\ Named'
  BY <1>1 DEF IInv, CloseTakesOver, Named
<1>12. ListenersOwned'
  <2> SUFFICES ASSUME NEW n \in Names
               PROVE  /\ <<"now", n>> \in open' <=> n \in tunnels' \cup close'.tunnels
                      /\ <<"next", n>> \notin open'
                      /\ <<"spare", n>> \in open' => <<"spare", n>> \in open
    BY <1>1, <1>4 DEF IInv, ListenersOwned
  <2>1. close.tunnels = {} /\ (<<"now", n>> \in open <=> n \in tunnels)
    BY <1>1 DEF IInv, CloseTakesOver, ListenersOwned
  <2>2. renew.made \subseteq renew.tunnels /\ renew.tunnels \ tunnels \subseteq renew.made
    BY <1>1 DEF IInv, Prepared
  <2>3. <<"now", n>> \in open' <=> (n \in tunnels /\ n \notin Dropped) \/ n \in renew.made
    BY <1>1, <2>1
  <2>4. <<"now", n>> \in open' <=> n \in renew.tunnels
    BY <2>2, <2>3 DEF Dropped
  <2> QED BY <1>1, <2>1, <2>4
<1>13. StacksOwned'
  BY <1>1, <1>4 DEF IInv, StacksOwned, CloseTakesOver
<1>14. Prepared' /\ TargetsCurrent' /\ WorkersOut'
  BY <1>1, <1>4, <1>5, <1>6 DEF Prepared, TargetsCurrent, WorkersOut
<1>15. Forwarded'
  <2> SUFFICES ASSUME NEW c \in Conns
               PROVE  /\ conn'[c].at # "idle" => conn'[c].name \in Names
                      /\ conn'[c].at = "in" /\ conn'[c].lt = "kept" => conn'[c].name \in renew.tunnels
                      /\ conn'[c].at \in {"dial", "open"} /\ conn'[c].lt = "kept" =>
                           conn'[c].target = conn'[c].stack
    BY <1>1 DEF Forwarded
  <2>1. conn'[c] = AgedConn(conn[c])
    BY <1>1
  <2>2. /\ conn'[c].at = conn[c].at /\ conn'[c].name = conn[c].name
        /\ conn'[c].lt = "kept" => /\ conn[c].lt = "kept" /\ conn[c].name \notin Dropped
                                   /\ conn'[c].stack = Aged(conn[c].stack)
                                   /\ conn'[c].target = Aged(conn[c].target)
    BY <2>1, Aging
  <2> QED BY <1>1, <2>2 DEF IInv, Forwarded, Dropped
<1>16. ChoiceKept'
  BY <1>1 DEF IInv, ChoiceKept, ForcedNext
<1> QED BY <1>9, <1>10, <1>11, <1>12, <1>13, <1>14, <1>15, <1>16 DEF IInv

(***************************************************************************)
(* The user: a listener is replaced, a transport chosen.                   *)
(***************************************************************************)

LEMMA ReplaceInv ==
  ASSUME IInv,
         \/ \E n \in Names : ReplaceLocks(n)
         \/ ReplaceBinds \/ ReplaceReturns \/ ReplaceSwaps \/ ReplaceDone
  PROVE  IInv'
<1> USE DEF NoReplace
<1>1. UNCHANGED <<closed, tunnels, target, stacks, pathVars, session, holders, renew, close,
                  worker, conn>>
  BY DEF ReplaceLocks, ReplaceBinds, ReplaceReturns, ReplaceSwaps, ReplaceDone, connVars, servVars
<1>2. /\ replace \in [at : {"idle", "locked", "bound", "swapped"}, name : Names \cup {None}]
      /\ open \subseteq Listeners
  BY DEF IInv, TypeOK
<1>3. /\ replace' \in [at : {"idle", "locked", "bound", "swapped"}, name : Names \cup {None}]
      /\ \A n \in Names : /\ \A k \in {"now", "next", "old"} : <<k, n>> \in open' <=> <<k, n>> \in open
                          /\ <<"spare", n>> \in open' =>
                               replace'.at \in {"bound", "swapped"} /\ replace'.name = n
  <2>1. CASE \/ \E n \in Names : ReplaceLocks(n)
             \/ ReplaceReturns
    <3>1. replace.at \in {"idle", "locked"} /\ open' = open
      BY <2>1 DEF ReplaceLocks, ReplaceReturns, NetworkLocked, connVars
    <3>2. \A n \in Names : <<"spare", n>> \notin open
      BY <3>1 DEF IInv, ListenersOwned
    <3> QED BY <2>1, <3>1, <3>2 DEF ReplaceLocks, ReplaceReturns
  <2>2. CASE ReplaceBinds
    <3>1. /\ replace'.at = "bound" /\ replace'.name = replace.name
          /\ replace' \in [at : {"idle", "locked", "bound", "swapped"}, name : Names \cup {None}]
      BY <1>2, <2>2 DEF ReplaceBinds
    <3>2. \A n \in Names : <<"spare", n>> \notin open
      BY <2>2 DEF ReplaceBinds, IInv, ListenersOwned
    <3> QED BY <2>2, <3>1, <3>2 DEF ReplaceBinds
  <2>3. CASE ReplaceSwaps
    BY <1>2, <2>3 DEF ReplaceSwaps, connVars, IInv, ListenersOwned
  <2>4. CASE ReplaceDone
    BY <2>4 DEF ReplaceDone, IInv, ListenersOwned
  <2> QED BY <2>1, <2>2, <2>3, <2>4
<1>4. open' \subseteq Listeners
  <2>1. CASE ReplaceBinds
    <3>1. replace.name \in Names
      BY <2>1 DEF ReplaceBinds, IInv, Named
    <3> QED BY <1>2, <2>1, <3>1 DEF ReplaceBinds, Listeners
  <2> QED BY <1>2, <2>1 DEF ReplaceLocks, ReplaceReturns, ReplaceSwaps, ReplaceDone, connVars
<1>5. TypeOK'
  BY <1>1, <1>3, <1>4 DEF IInv, TypeOK
<1>6. ListenersOwned'
  BY <1>1, <1>3 DEF IInv, ListenersOwned
<1>7. Named'
  <2>1. CASE \E n \in Names : ReplaceLocks(n)
    BY <2>1 DEF ReplaceLocks, Named
  <2>2. CASE ReplaceBinds \/ ReplaceSwaps
    BY <1>2, <2>2 DEF ReplaceBinds, ReplaceSwaps, Named, IInv
  <2>3. CASE ReplaceReturns \/ ReplaceDone
    BY <2>3 DEF ReplaceReturns, ReplaceDone, Named
  <2> QED BY <2>1, <2>2, <2>3
<1>8. CloseTakesOver' /\ StacksOwned' /\ Prepared' /\ TargetsCurrent'
  BY <1>1 DEF IInv, CloseTakesOver, StacksOwned, Prepared, TargetsCurrent
<1>9. Forwarded' /\ WorkersOut' /\ TokenAtHand' /\ ChoiceKept'
  BY <1>1 DEF IInv, Forwarded, WorkersOut, TokenAtHand, HeaderFollowsToken, ChoiceKept
<1> QED BY <1>5, <1>6, <1>7, <1>8, <1>9 DEF IInv

LEMMA SetTransportInv ==
  ASSUME IInv, NEW t \in Choices \cup {None}, SetTransport(t)
  PROVE  IInv'
<1>1. /\ multipath /\ forced' = t /\ choice' = t
      /\ UNCHANGED <<closed, tunnels, target, open, stacks, multipath, session, holders, renew, replace, close,
                     worker, conn>>
  BY DEF SetTransport, servVars
<1>2. TypeOK'
  BY <1>1 DEF IInv, TypeOK
<1>3. CloseTakesOver' /\ ListenersOwned' /\ StacksOwned' /\ Prepared' /\ TargetsCurrent' /\ Named'
  BY <1>1 DEF IInv, CloseTakesOver, ListenersOwned, StacksOwned, Prepared, TargetsCurrent, Named
<1>4. Forwarded' /\ WorkersOut' /\ TokenAtHand' /\ ChoiceKept'
  BY <1>1 DEF IInv, Forwarded, WorkersOut, TokenAtHand, HeaderFollowsToken, ChoiceKept
<1> QED BY <1>2, <1>3, <1>4 DEF IInv

(***************************************************************************)
(* Close, at any moment.                                                   *)
(***************************************************************************)

LEMMA CloseMarksInv == ASSUME IInv, CloseMarks PROVE IInv'
<1>1. /\ close.at = "idle" /\ closed' = TRUE /\ tunnels' = {}
      /\ close' = [at |-> "disconnect", tunnels |-> tunnels]
      /\ HandOver("connection", {"close"})
      /\ UNCHANGED <<target, open, stacks, pathVars, session, renew, replace, worker, conn>>
  BY DEF CloseMarks
<1>2. /\ holders' \subseteq {"connection", "carrier", "request", "close"}
      /\ \A h \in {"connection", "carrier", "request"} : h \in holders' <=> h \in holders
  BY <1>1 DEF IInv, TypeOK, HandOver
<1>3. TypeOK'
  BY <1>1, <1>2 DEF IInv, TypeOK
<1>4. ListenersOwned'
  <2>1. close.tunnels = {}
    BY <1>1 DEF IInv, CloseTakesOver
  <2> QED BY <1>1, <2>1 DEF IInv, ListenersOwned
<1>5. CloseTakesOver' /\ StacksOwned' /\ Prepared' /\ TargetsCurrent' /\ Named'
  BY <1>1 DEF IInv, CloseTakesOver, StacksOwned, Prepared, TargetsCurrent, Named
<1>6. Forwarded' /\ WorkersOut' /\ TokenAtHand' /\ ChoiceKept'
  BY <1>1, <1>2 DEF IInv, Forwarded, WorkersOut, TokenAtHand, HeaderFollowsToken, ChoiceKept
<1> QED BY <1>3, <1>4, <1>5, <1>6 DEF IInv

LEMMA CloseReleasesInv == ASSUME IInv, CloseReleases PROVE IInv'
<1>1. /\ close.at = "release" /\ open' = open \ ({"now"} \X close.tunnels)
      /\ stacks' = stacks \ {"now"} /\ close' = [at |-> "done", tunnels |-> {}]
      /\ UNCHANGED <<closed, tunnels, target, pathVars, session, holders, renew, replace,
                     worker, conn>>
  BY DEF CloseReleases, servVars
<1>2. closed /\ tunnels = {}
  BY <1>1 DEF IInv, CloseTakesOver
<1>3. TypeOK'
  BY <1>1 DEF IInv, TypeOK
<1>4. ListenersOwned'
  BY <1>1, <1>2 DEF IInv, ListenersOwned
<1>5. CloseTakesOver' /\ StacksOwned' /\ Prepared' /\ TargetsCurrent' /\ Named'
  BY <1>1, <1>2 DEF IInv, CloseTakesOver, StacksOwned, Prepared, TargetsCurrent, Named
<1>6. Forwarded' /\ WorkersOut' /\ TokenAtHand' /\ ChoiceKept'
  BY <1>1 DEF IInv, Forwarded, WorkersOut, TokenAtHand, HeaderFollowsToken, ChoiceKept
<1> QED BY <1>3, <1>4, <1>5, <1>6 DEF IInv

\* The session ends at the server, or Close goes on without it.
LEMMA SessionEndsInv ==
  ASSUME IInv, SessionEnds \/ \E lost \in BOOLEAN : CloseDisconnects(lost)
  PROVE  IInv'
<1>1. UNCHANGED <<closed, tunnels, target, open, stacks, pathVars, renew, replace, worker, conn>>
  BY DEF SessionEnds, CloseDisconnects, connVars
<1>2. /\ session' \in BOOLEAN
      /\ holders' \subseteq {"connection", "carrier", "request", "close"} /\ TokenAtHand'
  BY <1>1 DEF SessionEnds, CloseDisconnects, servVars, IInv, TypeOK, TokenAtHand, HeaderFollowsToken
<1>3. /\ close' \in [at : {"idle", "disconnect", "release", "done"}, tunnels : SUBSET Names]
      /\ close'.tunnels = close.tunnels
      /\ close'.at = close.at \/ (close.at = "disconnect" /\ close'.at = "release")
  <2>1. close \in [at : {"idle", "disconnect", "release", "done"}, tunnels : SUBSET Names]
    BY DEF IInv, TypeOK
  <2>2. \/ close' = close
        \/ close.at = "disconnect" /\ close' = [close EXCEPT !.at = "release"]
    BY DEF SessionEnds, CloseDisconnects
  <2> QED BY <2>1, <2>2
<1>4. TypeOK'
  BY <1>1, <1>2, <1>3 DEF IInv, TypeOK
<1>5. CloseTakesOver' /\ ListenersOwned' /\ StacksOwned' /\ Prepared' /\ TargetsCurrent' /\ Named'
  BY <1>1, <1>3 DEF IInv, CloseTakesOver, ListenersOwned, StacksOwned, Prepared, TargetsCurrent, Named
<1>6. Forwarded' /\ WorkersOut' /\ ChoiceKept'
  BY <1>1 DEF IInv, Forwarded, WorkersOut, ChoiceKept
<1> QED BY <1>2, <1>4, <1>5, <1>6 DEF IInv

(***************************************************************************)
(* Workers and local connections.                                          *)
(***************************************************************************)

LEMMA WorkerInv == ASSUME IInv, NEW g \in Networks, Worker(g) PROVE IInv'
<1>1. UNCHANGED <<closed, tunnels, target, open, stacks, pathVars, session, holders, renew,
                  replace, close, conn>>
  BY DEF Worker, WorkerTick, WorkerStops, WorkerDone, connVars, servVars
<1>2. worker' \in [Networks -> {"none", "idle", "busy"}]
  BY DEF Worker, WorkerTick, WorkerStops, WorkerDone, IInv, TypeOK
<1>3. WorkersOut'
  <2>1. worker \in [Networks -> {"none", "idle", "busy"}] /\ WorkersOut
    BY DEF IInv, TypeOK
  <2>2. CASE WorkerTick(g)
    <3>1. \/ g = "now" /\ renew.at \notin {"commit", "clean"} /\ worker'["old"] = worker["old"]
          \/ worker' = [worker EXCEPT ![g] = "none"]
      BY <2>1, <2>2 DEF WorkerTick, TransportReadable, Networks
    <3> QED BY <1>1, <2>1, <3>1 DEF WorkersOut, Networks
  <2>3. CASE WorkerStops(g) \/ WorkerDone(g)
    <3>1. \E v \in {"none", "idle"} : worker' = [worker EXCEPT ![g] = v]
      BY <2>3 DEF WorkerStops, WorkerDone
    <3> QED BY <1>1, <2>1, <3>1 DEF WorkersOut, Networks
  <2> QED BY <2>2, <2>3 DEF Worker
<1>4. TypeOK'
  BY <1>1, <1>2 DEF IInv, TypeOK
<1>5. CloseTakesOver' /\ ListenersOwned' /\ StacksOwned' /\ Prepared' /\ TargetsCurrent' /\ Named'
  BY <1>1 DEF IInv, CloseTakesOver, ListenersOwned, StacksOwned, Prepared, TargetsCurrent, Named
<1>6. Forwarded' /\ TokenAtHand' /\ ChoiceKept'
  BY <1>1 DEF IInv, Forwarded, TokenAtHand, HeaderFollowsToken, ChoiceKept
<1> QED BY <1>3, <1>4, <1>5, <1>6 DEF IInv

\* One local connection changes, to a record that keeps the promise.
LEMMA ConnStep ==
  ASSUME IInv, UNCHANGED <<connVars, servVars, renew, replace, close, worker>>,
         NEW c \in Conns, NEW d \in ConnRecords, conn' = [conn EXCEPT ![c] = d],
         d.at # "idle" => d.name \in Names,
         d.at = "in" /\ d.lt = "kept" /\ ~closed => d.name \in tunnels,
         d.at \in {"dial", "open"} /\ d.lt = "kept" => d.target = d.stack
  PROVE  IInv'
<1>1. UNCHANGED <<closed, tunnels, target, open, stacks, pathVars, session, holders, renew,
                  replace, close, worker>>
  BY DEF connVars, servVars
<1>2. conn \in [Conns -> ConnRecords]
  BY DEF IInv, TypeOK, ConnRecords
<1>3. conn' \in [Conns -> ConnRecords] /\ conn'[c] = d /\ \A b \in Conns \ {c} : conn'[b] = conn[b]
  BY <1>2
<1>4. TypeOK'
  BY <1>1, <1>3 DEF IInv, TypeOK, ConnRecords
<1>5. CloseTakesOver' /\ ListenersOwned' /\ StacksOwned' /\ Prepared' /\ TargetsCurrent' /\ Named'
  BY <1>1 DEF IInv, CloseTakesOver, ListenersOwned, StacksOwned, Prepared, TargetsCurrent, Named
<1>6. WorkersOut' /\ TokenAtHand' /\ ChoiceKept'
  BY <1>1 DEF IInv, WorkersOut, TokenAtHand, HeaderFollowsToken, ChoiceKept
<1>7. Forwarded'
  BY <1>1, <1>3 DEF IInv, Forwarded
<1> QED BY <1>4, <1>5, <1>6, <1>7 DEF IInv

LEMMA ConnInv ==
  ASSUME IInv, NEW c \in Conns,
         (\E n \in Names : Accept(c, n)) \/ Snapshot(c) \/ Dial(c) \/ Finish(c) \/ WatchForward(c)
  PROVE  IInv'
<1> DEFINE b == conn[c]
<1>1. /\ b \in ConnRecords /\ renew \in RenewRecords /\ conn \in [Conns -> ConnRecords]
      /\ target \in [Names -> Networks]
  BY DEF IInv, TypeOK, ConnRecords, RenewRecords
<1>2. UNCHANGED <<connVars, servVars, renew, replace, close, worker>>
  BY DEF Accept, Snapshot, Dial, Finish, WatchForward
<1>3. NoConn \in ConnRecords /\ NoConn.at = "idle"
  BY DEF NoConn, ConnRecords
<1>4. CASE conn' = [conn EXCEPT ![c] = NoConn]
  BY <1>2, <1>3, <1>4, ConnStep
<1>5. ASSUME NEW n \in Names, Accept(c, n)
      PROVE  IInv'
  <2>1. CASE /\ <<"now", n>> \in open
             /\ conn' = [conn EXCEPT ![c] = [NoConn EXCEPT !.at = "in", !.name = n, !.lt = "kept"]]
    <3> DEFINE d == [NoConn EXCEPT !.at = "in", !.name = n, !.lt = "kept"]
    <3>1. d \in ConnRecords /\ d.at = "in" /\ d.name = n
      BY <1>3 DEF ConnRecords
    <3>2. conn' = [conn EXCEPT ![c] = d]
      BY <2>1
    <3>3. ~closed => n \in tunnels
      BY <2>1 DEF IInv, ListenersOwned, CloseTakesOver
    <3> HIDE DEF d
    <3> QED BY <1>2, <3>1, <3>2, <3>3, ConnStep
  <2>2. CASE conn' = [conn EXCEPT ![c] = [NoConn EXCEPT !.at = "in", !.name = n, !.lt = "dropped",
                                                        !.target = renew.drop[n]]]
    <3> DEFINE d == [NoConn EXCEPT !.at = "in", !.name = n, !.lt = "dropped",
                                   !.target = renew.drop[n]]
    <3>1. renew.drop[n] \in Networks \cup {None}
      BY <1>1 DEF RenewRecords
    <3>2. d \in ConnRecords /\ d.at = "in" /\ d.name = n /\ d.lt = "dropped"
      BY <1>3, <3>1 DEF ConnRecords
    <3>3. conn' = [conn EXCEPT ![c] = d]
      BY <2>2
    <3> HIDE DEF d
    <3> QED BY <1>2, <3>2, <3>3, ConnStep
  <2> QED BY <1>5, <2>1, <2>2 DEF Accept
<1>6. CASE Snapshot(c)
  <2>1. CASE closed
    BY <1>4, <1>6, <2>1 DEF Snapshot
  <2>2. CASE ~closed
    <3> DEFINE to == IF b.lt = "kept" THEN target[b.name] ELSE b.target
               d == [b EXCEPT !.at = "dial", !.stack = "now", !.target = to]
    <3>1. b.at = "in" /\ b.name \in Names
      BY <1>6 DEF Snapshot, IInv, Forwarded
    <3>2. b.lt = "kept" => to = "now"
      BY <2>2, <3>1 DEF IInv, Forwarded, TargetsCurrent
    <3>3. to \in Networks \cup {None}
      BY <1>1, <3>1 DEF ConnRecords
    <3>4. conn' = [conn EXCEPT ![c] = d]
      BY <1>6, <2>2 DEF Snapshot
    <3> HIDE DEF to
    <3>5. /\ d \in ConnRecords /\ d.at = "dial" /\ d.name = b.name /\ d.lt = b.lt
          /\ d.stack = "now" /\ d.target = to
      BY <1>1, <3>3 DEF ConnRecords, Networks
    <3> HIDE DEF d
    <3> QED BY <1>2, <3>1, <3>2, <3>4, <3>5, ConnStep
  <2> QED BY <2>1, <2>2
<1>7. CASE Dial(c)
  <2> DEFINE d == [at |-> "open", name |-> b.name, lt |-> b.lt, stack |-> b.stack, target |-> b.target]
  <2>1. b.at = "dial" /\ b.name \in Names /\ (b.lt = "kept" => b.target = b.stack)
    BY <1>7 DEF Dial, IInv, Forwarded
  <2>2. conn' = [conn EXCEPT ![c] = d]
    <3>1. conn' = [conn EXCEPT ![c] = [b EXCEPT !.at = "open"]]
      BY <1>7 DEF Dial
    <3>2. [b EXCEPT !.at = "open"] = d
      BY <1>1 DEF ConnRecords
    <3> QED BY <3>1, <3>2
  <2>3. /\ d \in ConnRecords /\ d.at = "open" /\ d.name = b.name /\ d.lt = b.lt
        /\ d.stack = b.stack /\ d.target = b.target
    BY <1>1 DEF ConnRecords
  <2> HIDE DEF d
  <2> QED BY <1>2, <2>1, <2>2, <2>3, ConnStep
<1>8. CASE Finish(c) \/ WatchForward(c)
  BY <1>4, <1>8 DEF Finish, WatchForward
<1> QED BY <1>5, <1>6, <1>7, <1>8

LEMMA StutterInv == ASSUME IInv, UNCHANGED vars PROVE IInv'
<1>1. UNCHANGED <<closed, tunnels, target, open, stacks, pathVars, session, holders, renew,
                  replace, close, worker, conn>>
  BY DEF vars, connVars, servVars
<1>2. TypeOK' /\ CloseTakesOver' /\ ListenersOwned' /\ StacksOwned' /\ Prepared' /\ Named'
  BY <1>1 DEF IInv, TypeOK, CloseTakesOver, ListenersOwned, StacksOwned, Prepared, Named
<1>3. TargetsCurrent' /\ Forwarded' /\ WorkersOut' /\ TokenAtHand' /\ ChoiceKept'
  BY <1>1 DEF IInv, TargetsCurrent, Forwarded, WorkersOut, TokenAtHand, HeaderFollowsToken,
     ChoiceKept
<1> QED BY <1>2, <1>3 DEF IInv

LEMMA NextInv == IInv /\ [Next]_vars => IInv'
<1> SUFFICES ASSUME IInv, [Next]_vars PROVE IInv'
  OBVIOUS
<1>1. CASE RenewLoop
  BY <1>1, RenewInv, PrepareInv, OpenReconnectedInv, RollBackInv, CommitInv, CleanUpInv DEF RenewLoop
<1>2. CASE (\E n \in Names : ReplaceLocks(n)) \/ Replacing
  BY <1>2, ReplaceInv DEF Replacing
<1>3. CASE \E t \in Choices \cup {None} : SetTransport(t)
  BY <1>3, SetTransportInv
<1>4. CASE CloseMarks
  BY <1>4, CloseMarksInv
<1>5. CASE Closing
  BY <1>5, SessionEndsInv, CloseReleasesInv DEF Closing
<1>6. CASE \E g \in Networks : Worker(g)
  BY <1>6, WorkerInv
<1>7. CASE \E c \in Conns, n \in Names : Accept(c, n)
  BY <1>7, ConnInv
<1>8. CASE \E c \in Conns : Snapshot(c) \/ Dial(c) \/ Finish(c) \/ WatchForward(c)
  BY <1>8, ConnInv
<1>9. CASE SessionEnds
  BY <1>9, SessionEndsInv
<1>10. CASE UNCHANGED vars
  BY <1>10, StutterInv
<1> QED BY <1>1, <1>2, <1>3, <1>4, <1>5, <1>6, <1>7, <1>8, <1>9, <1>10 DEF Next

(***************************************************************************)
(* The results.                                                            *)
(***************************************************************************)

\* The inductive invariant holds throughout: what a renewal or a reconnect
\* looked at before it let c.mu go is still so, unless Close came between,
\* when it next takes it.
THEOREM ConnectionInvariant == Spec => []IInv
BY InitInv, NextInv, PTL DEF Spec

\* Whatever Close, ReplaceListener and reconnect do to each other, every open
\* listener and every stack belongs to the connection or to the operation
\* that will install or close it, and what the connection uses is open.
THEOREM EverythingIsOwned == Spec => []EverythingOwned
<1>1. IInv => EverythingOwned
  BY DEF IInv, EverythingOwned, ListenersOwned, StacksOwned
<1> QED BY <1>1, ConnectionInvariant, PTL

\* forward dials each connection on the network its target belongs to, no
\* transport worker works for a network that was replaced, the carrier's
\* redial header follows the token, and the transport the user asked for
\* outlives every reconnect to a network that has multipath.
THEOREM OneSessionThroughout == Spec => []OneSession
<1>1. IInv => OneSession
  BY DEF IInv, OneSession, OneGeneration, Forwarded, WorkersOut, TokenAtHand
<1> QED BY <1>1, ConnectionInvariant, PTL
=============================================================================
