---------------------------- MODULE ServerRelay ----------------------------
(***************************************************************************)
(* A server behind relays: the pool that keeps it registered with every    *)
(* relay and publishes the preferred one (relaypool.go), the control       *)
(* connection of each member (relay.go), and the UDP-relay tier whose      *)
(* allocations come over that connection (udprelay.go).                    *)
(*                                                                         *)
(* Concurrent: a Run goroutine per member, which also runs the pool's      *)
(* update; the /v1/udp-relay request that holds operationMu; the control   *)
(* reader; the keepalive loop of every allocation; the relays.             *)
(*                                                                         *)
(* Left out: the score of a member is a ratio of lifetime counters, so     *)
(* any registered member may be chosen; counters and hop telemetry.        *)
(***************************************************************************)
EXTENDS Integers, FiniteSets

CONSTANTS
  Members,    \* relay.endpoints
  Responses,  \* registrations a relay may answer: [udp, native, domain]
  Clients,    \* WireGuard keys of clients
  Tokens,     \* slots for allocation tokens
  Tiers,      \* slots for udpRelay objects
  None

VARIABLES
  ctl,        \* Run of a member: "down", "joining", "up", "dropped" or "leaving"
  ws,         \* RelayAgent.ws: members whose control connection is published
  resp,       \* relayPoolMember.response
  serial,     \* parity of the native token of the member's last registration
  reg,        \* relayPoolMember.registered
  domain,     \* RelayPool.domain
  preferred,  \* RelayPool.preferred
  pending,    \* preferredPending and nativeSetPending, as a set of names
  upd,        \* update of a member, between its two critical sections
  cb,         \* the member whose update holds callbacksMu
  closed,     \* RelayPool.closed
  pub,        \* what the callbacks were last told: [agent, udp, set]
  udpr,       \* Server.udpr
  tier,       \* slot -> the udpRelay object
  shut,       \* Server.Close was called
  call,       \* sessionFor, which operationMu allows one of
  loop,       \* keepaliveLoop of a token: "none", "run" or "stop"
  held,       \* member -> the tokens its relay has allocated
  miss,       \* tokens missing from the last report
  young,      \* tokens allocated less than 90 seconds ago
  report      \* a statistics report on its way

poolVars == <<resp, serial, reg, domain, preferred, pending, upd, cb, closed, pub>>
ctlVars  == <<ctl, ws>>
tierVars == <<udpr, tier, shut>>
tokVars  == <<loop, held, miss, young, report>>
vars == <<ctlVars, poolVars, tierVars, call, tokVars>>

NoResponse == [udp |-> FALSE, native |-> FALSE, domain |-> None]
NoTier     == [agent |-> None, open |-> FALSE, sess |-> [k \in Clients |-> None]]
Idle       == [at |-> "idle"]
Nothing    == [agent |-> None, udp |-> FALSE, set |-> {}]

Init ==
  /\ ctl = [m \in Members |-> "down"] /\ ws = {}
  /\ resp = [m \in Members |-> NoResponse]
  /\ serial = [m \in Members |-> 0]
  /\ reg = {} /\ domain = None /\ preferred = None /\ pending = {}
  /\ upd = [m \in Members |-> Idle] /\ cb = None /\ closed = FALSE
  /\ pub = Nothing
  /\ udpr = None /\ tier = [g \in Tiers |-> NoTier] /\ shut = FALSE
  /\ call = Idle
  /\ loop = [t \in Tokens |-> "none"]
  /\ held = [m \in Members |-> {}]
  /\ miss = {} /\ young = {} /\ report = None

-----------------------------------------------------------------------------
(* RelayPool.update: a snapshot under mu, its publication under callbacksMu. *)

\* nativeSet: the association of every registered member.
NativeSet(rs, pr, sn) == {<<m, sn[m]>> : m \in {n \in rs : pr[n].native}}

\* choosePreferred keeps a preferred member that is registered.
ChoosePreferred(rs) ==
  IF preferred \in rs THEN {preferred} ELSE IF rs = {} THEN {None} ELSE rs

\* The facilities of a new registration; its native token is always a new one.
Differs(old, new) == old.udp # new.udp \/ old.native # new.native \/ new.native

\* The flags the latest snapshot leaves for whoever publishes it.
MutFlags(changed) == changed
Flags(changed) == pending \cup changed

\* The first critical section. A snapshot that changed something makes the
\* snapshots of the other members stale: the revision has moved on.
Update(m, registered, r) ==
  IF closed
    THEN /\ upd' = [upd EXCEPT ![m] = [at |-> "done"]]
         /\ UNCHANGED <<resp, serial, reg, domain, preferred, pending, cb, closed, pub>>
    ELSE LET ok     == registered /\ (None \in {r.domain, domain} \/ r.domain = domain)
             sn     == [serial EXCEPT ![m] = IF registered THEN 1 - @ ELSE @]
             rs     == IF ok THEN reg \cup {m} ELSE reg \ {m}
             pr     == [resp EXCEPT ![m] = r]
             newSet == NativeSet(rs, pr, sn)
         IN  \E best \in ChoosePreferred(rs) :
               LET changed ==
                     (IF best # preferred \/ (best = m /\ ok /\ Differs(resp[m], r))
                        THEN {"preferred"} ELSE {})
                     \cup (IF newSet # NativeSet(reg, resp, serial) THEN {"set"} ELSE {})
                   snap == [agent |-> best, udp |-> best # None /\ pr[best].udp, set |-> newSet]
               IN  /\ resp' = pr /\ serial' = sn /\ reg' = rs
                   /\ domain' = IF ok /\ domain = None THEN r.domain ELSE domain
                   /\ preferred' = best
                   /\ pending' = Flags(changed)
                   /\ upd' = IF changed = {} THEN [upd EXCEPT ![m] = [at |-> "done"]]
                               ELSE [n \in Members |->
                                       IF n = m THEN [at |-> "snapped", latest |-> TRUE, snap |-> snap]
                                       ELSE IF upd[n].at = "snapped" THEN [upd[n] EXCEPT !.latest = FALSE]
                                       ELSE upd[n]]
                   /\ UNCHANGED <<cb, closed, pub>>

\* The second one: callbacksMu is taken, and a stale snapshot is left to the
\* later one, which publishes its changes too.
Acquire(m) ==
  /\ cb = None /\ upd[m].at = "snapped"
  /\ IF ~closed /\ upd[m].latest
       THEN /\ cb' = m
            /\ upd' = [upd EXCEPT ![m] = [at |-> "publish", flags |-> pending, snap |-> upd[m].snap]]
            /\ pending' = {}
       ELSE /\ upd' = [upd EXCEPT ![m] = [at |-> "done"]]
            /\ UNCHANGED <<cb, pending>>
  /\ UNCHANGED <<ctlVars, resp, serial, reg, domain, preferred, closed, pub, tierVars, call, tokVars>>

-----------------------------------------------------------------------------
(* The UDP-relay tier of the server.                                       *)

TokensOf(g) == {tier[g].sess[k] : k \in Clients} \ {None}

\* EnableUDPRelay: stopAll on the tier there is, then a new one if the agent
\* has an address for it and the data plane is up. A request under way in
\* the old tier finds its context cancelled.
EnableUDPRelay(agent, udp) ==
  LET old     == IF udpr = None THEN {} ELSE {udpr}
      stopped == UNION {TokensOf(g) : g \in old}
      left    == [g \in Tiers |-> IF g \in old THEN NoTier ELSE tier[g]]
  IN  /\ loop' = [t \in Tokens |-> IF t \in stopped THEN "stop" ELSE loop[t]]
      /\ call' = IF call # Idle /\ call.tier \in old THEN [call EXCEPT !.cancelled = TRUE] ELSE call
      /\ IF udp /\ ~shut
           THEN \E g \in Tiers :
                  /\ g \notin old /\ (call # Idle => call.tier # g)
                  /\ udpr' = g
                  /\ tier' = [left EXCEPT ![g] = [NoTier EXCEPT !.agent = agent, !.open = TRUE]]
           ELSE udpr' = None /\ tier' = left

\* The callbacks of the pool, with callbacksMu held.
Deliver(m) ==
  /\ cb = m /\ upd[m].at = "publish"
  /\ LET new == upd[m].snap
     IN  /\ pub' = [agent |-> IF "preferred" \in upd[m].flags THEN new.agent ELSE pub.agent,
                    udp   |-> IF "preferred" \in upd[m].flags THEN new.udp ELSE pub.udp,
                    set   |-> IF "set" \in upd[m].flags THEN new.set ELSE pub.set]
         /\ IF "preferred" \in upd[m].flags THEN EnableUDPRelay(new.agent, new.udp)
              ELSE UNCHANGED <<udpr, tier, call, loop>>
  /\ cb' = None
  /\ upd' = [upd EXCEPT ![m] = [at |-> "done"]]
  /\ UNCHANGED <<ctlVars, resp, serial, reg, domain, preferred, pending, closed,
                 shut, held, miss, young, report>>

PoolClose ==
  /\ cb = None /\ ~closed
  /\ closed' = TRUE /\ preferred' = None /\ reg' = {}
  /\ pub' = Nothing
  /\ EnableUDPRelay(None, FALSE)
  /\ UNCHANGED <<ctlVars, resp, serial, domain, pending, upd, cb, shut, held, miss, young, report>>

ServerClose ==
  /\ ~shut
  /\ shut' = TRUE
  /\ EnableUDPRelay(None, FALSE)
  /\ UNCHANGED <<ctlVars, poolVars, held, miss, young, report>>

-----------------------------------------------------------------------------
(* Run and runOnce of a member.                                            *)

\* The control connection is published before the registration is, ...
Register(m, r) ==
  /\ ctl[m] = "down"
  /\ ctl' = [ctl EXCEPT ![m] = "joining"]
  /\ ws' = ws \cup {m}
  /\ Update(m, TRUE, r)
  /\ UNCHANGED <<tierVars, call, tokVars>>

Joined(m) ==
  /\ ctl[m] = "joining" /\ upd[m].at = "done"
  /\ ctl' = [ctl EXCEPT ![m] = "up"]
  /\ ws' = ws \cup {m}
  /\ upd' = [upd EXCEPT ![m] = Idle]
  /\ UNCHANGED <<resp, serial, reg, domain, preferred, pending, cb, closed, pub,
                 tierVars, call, tokVars>>

\* ... and withdrawn before the disconnection is.
Drop(m) ==
  /\ ctl[m] = "up"
  /\ ctl' = [ctl EXCEPT ![m] = "dropped"]
  /\ ws' = ws \ {m}
  /\ UNCHANGED <<poolVars, tierVars, call, tokVars>>

Asking(m) == call # Idle /\ call.tier # None /\ call.agent = m

\* failPendingAllocs closes the channels of those who wait.
FailPendingAllocs(m) ==
  call' = IF ~Asking(m) THEN call
            ELSE IF call.at = "wait" /\ call.ch = None
                   THEN [call EXCEPT !.live = FALSE, !.ch = "nothing"]
                   ELSE [call EXCEPT !.live = FALSE]

MutLeave(m) ==
  /\ ctl[m] = "dropped"
  /\ ctl' = [ctl EXCEPT ![m] = "leaving"]
  /\ FailPendingAllocs(m)
  /\ upd' = [upd EXCEPT ![m] = [at |-> "done"]]
  /\ UNCHANGED <<ws, resp, serial, reg, domain, preferred, pending, cb, closed, pub, tierVars, tokVars>>

Leave(m) ==
  /\ ctl[m] = "dropped"
  /\ ctl' = [ctl EXCEPT ![m] = "leaving"]
  /\ FailPendingAllocs(m)
  /\ Update(m, FALSE, NoResponse)
  /\ UNCHANGED <<ws, tierVars, tokVars>>

Left(m) ==
  /\ ctl[m] = "leaving" /\ upd[m].at = "done"
  /\ ctl' = [ctl EXCEPT ![m] = "down"]
  /\ upd' = [upd EXCEPT ![m] = Idle]
  /\ UNCHANGED <<ws, resp, serial, reg, domain, preferred, pending, cb, closed, pub,
                 tierVars, call, tokVars>>

-----------------------------------------------------------------------------
(* /v1/udp-relay: sessionFor and AllocateUDPSession.                       *)

Request(k) ==
  /\ call = Idle
  /\ udpr # None
  /\ call' = [at |-> "loaded", client |-> k, tier |-> udpr, agent |-> tier[udpr].agent,
              cancelled |-> FALSE, live |-> FALSE, wire |-> None, ch |-> None, tok |-> None]
  /\ UNCHANGED <<ctlVars, poolVars, tierVars, tokVars>>

\* An allocation there is is returned as it is; a stopped tier has none.
Enter ==
  /\ call.at = "loaded"
  /\ call' = IF tier[call.tier].open /\ ~call.cancelled /\ tier[call.tier].sess[call.client] = None
               THEN [call EXCEPT !.at = "read"] ELSE Idle
  /\ UNCHANGED <<ctlVars, poolVars, tierVars, tokVars>>

Answer(t) == [call EXCEPT !.at = "answer", !.tok = t]

ReadConnection ==
  /\ call.at = "read"
  /\ call' = IF call.agent \in ws THEN [call EXCEPT !.at = "ask", !.live = TRUE] ELSE Answer(None)
  /\ UNCHANGED <<ctlVars, poolVars, tierVars, tokVars>>

\* The channel is registered and the request written, to a connection that
\* may be gone by now: the write fails, or nobody reads it.
Ask ==
  /\ call.at = "ask"
  /\ call' \in {Answer(None),
                [call EXCEPT !.at = "wait", !.wire = IF call.live THEN "request" ELSE None]}
  /\ UNCHANGED <<ctlVars, poolVars, tierVars, tokVars>>

\* A token nobody knows any more, or not yet.
Unused(t) ==
  /\ \A m \in Members : t \notin held[m]
  /\ loop[t] = "none"
  /\ \A g \in Tiers : t \notin TokensOf(g)
  /\ report # None => t \notin report.toks

\* The relay answers over the control connection, if that is still there.
RelayAnswers ==
  /\ call.at = "wait" /\ call.wire = "request"
  /\ \/ \E t \in {u \in Tokens : Unused(u)} :
          /\ held' = [held EXCEPT ![call.agent] = @ \cup {t}]
          /\ call' = [call EXCEPT !.wire = t]
     \/ call' = [call EXCEPT !.wire = "declined"] /\ UNCHANGED held
  /\ UNCHANGED <<ctlVars, poolVars, tierVars, loop, miss, young, report>>

\* handleControlMessage: the entry goes under the lock, then the answer is sent.
HandleReply ==
  /\ call.at = "wait" /\ call.ch = None /\ call.live
  /\ call.wire \in Tokens \cup {"declined"}
  /\ call' = [call EXCEPT !.wire = None, !.ch = IF call.wire \in Tokens THEN call.wire ELSE "nothing"]
  /\ UNCHANGED <<ctlVars, poolVars, tierVars, tokVars>>

MutTakeReply ==
  /\ call.at = "wait" /\ call.ch # None
  /\ call' = Answer(call.ch)
  /\ UNCHANGED <<ctlVars, poolVars, tierVars, tokVars>>

TakeReply ==
  /\ call.at = "wait" /\ call.ch # None
  /\ call' = Answer(IF call.ch \in Tokens THEN call.ch ELSE None)
  /\ UNCHANGED <<ctlVars, poolVars, tierVars, tokVars>>

\* The deadline, the client's own context, or stopAll.
GiveUp ==
  /\ call.at = "wait"
  /\ call' = Answer(None)
  /\ UNCHANGED <<ctlVars, poolVars, tierVars, tokVars>>

\* ReleaseUDPSession is a hint that needs a connection and may be lost.
ReleaseUDPSession(m, t) ==
  \/ m \in ws /\ held' = [held EXCEPT ![m] = @ \ {t}]
  \/ UNCHANGED held

\* A request that came too late publishes nothing and gives its token back.
Refuse ==
  /\ call.at = "answer"
  /\ IF call.tok = None THEN UNCHANGED held ELSE ReleaseUDPSession(call.agent, call.tok)
  /\ call' = Idle
  /\ UNCHANGED <<ctlVars, poolVars, tierVars, loop, miss, young, report>>

MutPublish ==
  /\ call.at = "answer" /\ call.tok # None
  /\ tier' = [tier EXCEPT ![call.tier].sess[call.client] = call.tok]
  /\ loop' = [loop EXCEPT ![call.tok] = "run"]
  /\ young' = young \cup {call.tok}
  /\ miss' = miss \ {call.tok}
  /\ call' = Idle
  /\ UNCHANGED <<ctlVars, poolVars, udpr, shut, held, report>>

Publish ==
  /\ call.at = "answer" /\ call.tok # None
  /\ ~call.cancelled /\ tier[call.tier].open
  /\ tier' = [tier EXCEPT ![call.tier].sess[call.client] = call.tok]
  /\ loop' = [loop EXCEPT ![call.tok] = "run"]
  /\ young' = young \cup {call.tok}
  /\ miss' = miss \ {call.tok}
  /\ call' = Idle
  /\ UNCHANGED <<ctlVars, poolVars, udpr, shut, held, report>>

-----------------------------------------------------------------------------
(* The end of an allocation.                                               *)

\* release, from dropSession and so under operationMu.
Release(k) ==
  /\ call = Idle
  /\ udpr # None /\ tier[udpr].sess[k] # None
  /\ LET t == tier[udpr].sess[k]
     IN  /\ loop' = [loop EXCEPT ![t] = "stop"]
         /\ ReleaseUDPSession(tier[udpr].agent, t)
  /\ tier' = [tier EXCEPT ![udpr].sess[k] = None]
  /\ UNCHANGED <<ctlVars, poolVars, udpr, shut, call, miss, young, report>>

SendReport(m) ==
  /\ report = None
  /\ ctl[m] = "up"
  /\ report' = [from |-> m, toks |-> held[m]]
  /\ UNCHANGED <<ctlVars, poolVars, tierVars, call, loop, held, miss, young>>

Overdue(t) == t \notin report.toks /\ t \notin young

MutRecordStats ==
  /\ report # None
  /\ report' = None
  /\ IF udpr # None /\ tier[udpr].agent = report.from
       THEN LET gone == TokensOf(udpr) \ report.toks
            IN  /\ tier' = [tier EXCEPT ![udpr].sess =
                              [k \in Clients |-> IF @[k] \in gone THEN None ELSE @[k]]]
                /\ loop' = [t \in Tokens |-> IF t \in gone THEN "stop" ELSE loop[t]]
       ELSE UNCHANGED <<tier, loop>>
  /\ UNCHANGED <<ctlVars, poolVars, udpr, shut, call, held, miss, young>>

\* recordStats: two complete reports in a row without an allocation that is
\* old enough, and it is forgotten.
RecordStats ==
  /\ report # None
  /\ report' = None
  /\ IF udpr # None /\ tier[udpr].agent = report.from
       THEN LET absent == {t \in TokensOf(udpr) : Overdue(t)}
                gone   == absent \cap miss
            IN  /\ miss' = ((miss \ report.toks) \cup absent) \ gone
                /\ tier' = [tier EXCEPT ![udpr].sess =
                              [k \in Clients |-> IF @[k] \in gone THEN None ELSE @[k]]]
                /\ loop' = [t \in Tokens |-> IF t \in gone THEN "stop" ELSE loop[t]]
       ELSE UNCHANGED <<miss, tier, loop>>
  /\ UNCHANGED <<ctlVars, poolVars, udpr, shut, call, held, young>>

\* 90 seconds: no report is on its way for so long.
Age(t) ==
  /\ t \in young
  /\ report = None
  /\ young' = young \ {t}
  /\ UNCHANGED <<ctlVars, poolVars, tierVars, call, loop, held, miss, report>>

\* The relay's idle sweep or its restart.
RelayForgets(m, t) ==
  /\ t \in held[m]
  /\ held' = [held EXCEPT ![m] = @ \ {t}]
  /\ UNCHANGED <<ctlVars, poolVars, tierVars, call, loop, miss, young, report>>

KeepaliveExit(t) ==
  /\ loop[t] = "stop"
  /\ loop' = [loop EXCEPT ![t] = "none"]
  /\ UNCHANGED <<ctlVars, poolVars, tierVars, call, held, miss, young, report>>

-----------------------------------------------------------------------------
RunStep(m) == Acquire(m) \/ Deliver(m) \/ Joined(m) \/ Leave(m) \/ Left(m)

CallStep ==
  \/ Enter \/ ReadConnection \/ Ask \/ HandleReply \/ TakeReply \/ GiveUp
  \/ Refuse \/ Publish

Next ==
  \/ \E m \in Members : RunStep(m) \/ Drop(m) \/ SendReport(m)
  \/ \E m \in Members, r \in Responses : Register(m, r)
  \/ PoolClose \/ ServerClose
  \/ \E k \in Clients : Request(k) \/ Release(k)
  \/ CallStep \/ RelayAnswers \/ RecordStats
  \/ \E t \in Tokens : Age(t) \/ KeepaliveExit(t) \/ \E m \in Members : RelayForgets(m, t)

\* The goroutines run. Go's mutexes hand themselves to a waiter that starves,
\* and every call has a deadline.
Fairness ==
  /\ \A m \in Members : WF_vars(RunStep(m)) /\ SF_vars(Acquire(m))
  /\ WF_vars(CallStep)

Spec == Init /\ [][Next]_vars /\ Fairness

-----------------------------------------------------------------------------
(* Properties.                                                             *)

TypeOK ==
  /\ ctl \in [Members -> {"down", "joining", "up", "dropped", "leaving"}]
  /\ ws \subseteq Members /\ reg \subseteq Members
  /\ resp \in [Members -> Responses \cup {NoResponse}] /\ serial \in [Members -> 0 .. 1]
  /\ preferred \in Members \cup {None} /\ cb \in Members \cup {None}
  /\ pending \subseteq {"preferred", "set"}
  /\ \A m \in Members : upd[m].at \in {"idle", "snapped", "publish", "done"}
  /\ pub.agent \in Members \cup {None} /\ pub.set \subseteq Members \X (0 .. 1)
  /\ udpr \in Tiers \cup {None} /\ closed \in BOOLEAN /\ shut \in BOOLEAN
  /\ \A g \in Tiers : TokensOf(g) \subseteq Tokens
  /\ loop \in [Tokens -> {"none", "run", "stop"}]
  /\ held \in [Members -> SUBSET Tokens]

Quiet == cb = None /\ \A m \in Members : upd[m].at \in {"idle", "done"}

\* However the updates of several members overtake each other on their way to
\* callbacksMu, once nobody is publishing the server has been told of the
\* member that is preferred now and of the associations there are now. After
\* Close no update that was under way brings a relay back.
PublicationCurrent ==
  /\ Quiet /\ ~closed =>
       /\ pub.agent = preferred
       /\ pub.udp = (preferred # None /\ resp[preferred].udp)
       /\ pub.set = NativeSet(reg, resp, serial)
  /\ closed /\ cb = None => pub = Nothing /\ udpr = None

\* A keepalive runs for an allocation of the tier in use and for no other:
\* no reconnect, late answer or release leaves one behind. Conversely an
\* allocation is nobody else's and has its keepalive.
KeepalivesOwned ==
  /\ \A t \in Tokens : loop[t] = "run" => udpr # None /\ t \in TokensOf(udpr)
  /\ \A g \in Tiers : \A k \in Clients :
       tier[g].sess[k] # None =>
         /\ loop[tier[g].sess[k]] = "run"
         /\ \A h \in Tiers, j \in Clients :
              tier[h].sess[j] = tier[g].sess[k] => <<h, j>> = <<g, k>>

\* An established allocation ends because its session was dropped, because
\* the relay no longer has it, because a change of the preferred relay is
\* published or because everything is closing.
EndsForAReason ==
  [][\A k \in Clients :
       udpr # None /\ tier[udpr].sess[k] # None /\ tier'[udpr].sess[k] # tier[udpr].sess[k] =>
         \/ Release(k)
         \/ tier[udpr].sess[k] \notin held[tier[udpr].agent]
         \/ cb # None /\ "preferred" \in upd[cb].flags
         \/ closed' \/ shut']_vars

\* The tier of a relay whose connection is lost is given up, even when the
\* relay is back before anybody has published that it was gone. Members that
\* reconnect for ever at just the wrong moment could supersede each other's
\* snapshots for ever; the backoff of Run makes them stop.
DeadRelayAbandoned ==
  <>[][\A m \in Members, r \in Responses : ~Register(m, r)]_vars =>
    \A m \in Members, g \in Tiers :
      (ctl[m] = "dropped" /\ udpr = g /\ tier[g].agent = m) ~> udpr # g
=============================================================================
