---------------------------- MODULE RelayAgents ----------------------------
(***************************************************************************)
(* The life cycle of an agent's control connection on the relay:           *)
(* handleControl of pkg/relay/agent.go, with the registry's agent table,   *)
(* the PAC target table, the native WireGuard token of each tenant and a   *)
(* configuration reload (ReplaceRegistrations).                            *)
(*                                                                         *)
(* Each control connection is one HTTP handler goroutine. What it acquires *)
(* step by step (a pending slot, the tenant's agent, PAC targets, a token) *)
(* its deferred functions give back in the reverse order, while the        *)
(* handler of a reconnecting server does the same for the same tenant.     *)
(*                                                                         *)
(* Signatures, clocks, nonces and the rate limiter decide which            *)
(* registrations fail; here any may.                                       *)
(***************************************************************************)
EXTENDS Integers, FiniteSets

CONSTANTS
  Handlers,        \* slots for control connections; a slot is also its *Agent
  Names,           \* tenant names
  Keys,            \* fingerprints of server keys
  None,
  MaxPendingRegs   \* limits.max_pending_registrations

ASSUME Distinct == None \notin Handlers \cup Names \cup Keys
ASSUME SomeSlots == MaxPendingRegs \in Nat \ {0} /\ IsFiniteSet(Handlers)

VARIABLES
  fpByName,      \* configuration: tenant -> fingerprint of its key
  byFingerprint, \* Registry.byFingerprint: key -> the tenant it registers
  evicting,      \* agents a reload has unlinked and has yet to close
  pendingRegs,   \* agentServer.pending
  pc,            \* control point of each handler
  name, key,     \* what Register answered to each handler
  old,           \* the agent a handler replaced and has yet to close
  closed,        \* handlers whose WebSocket is closed
  agent,         \* tenantState.agent
  socksOwner,    \* agentServer.socksOwners
  token,         \* tenant -> whose native WireGuard token is current
  assoc          \* tenant -> whose UDP address is the native association

configVars == <<fpByName, byFingerprint, evicting>>
ownerVars  == <<agent, socksOwner, token, assoc>>
vars == <<configVars, pendingRegs, pc, name, key, old, closed, ownerVars>>

Points == {"idle", "refused", "admitted", "failed", "verified", "replacing",
           "bound", "unslotted", "claimed", "serving",
           "undoNative", "undoSocks", "undoAgent", "undoWS"}

\* A configuration names each tenant once; a key listed for two tenants
\* registers the last of them.
Configured(fp, by) ==
  /\ fp \in [Names -> Keys \cup {None}]
  /\ by \in [Keys -> Names \cup {None}]
  /\ \A k \in Keys : IF \E n \in Names : fp[n] = k
                       THEN by[k] # None /\ fp[by[k]] = k ELSE by[k] = None

Init ==
  /\ fpByName \in [Names -> Keys \cup {None}]
  /\ byFingerprint \in [Keys -> Names \cup {None}]
  /\ Configured(fpByName, byFingerprint)
  /\ evicting = {}
  /\ pendingRegs = 0
  /\ pc = [h \in Handlers |-> "idle"]
  /\ name = [h \in Handlers |-> None]
  /\ key = [h \in Handlers |-> None]
  /\ old = [h \in Handlers |-> None]
  /\ closed = {}
  /\ agent = [n \in Names |-> None]
  /\ socksOwner = [n \in Names |-> None]
  /\ token = [n \in Names |-> None]
  /\ assoc = [n \in Names |-> None]

Goto(h, from, to) ==
  /\ pc[h] = from
  /\ pc' = [pc EXCEPT ![h] = to]

-----------------------------------------------------------------------------
(* Registering.                                                            *)

\* The pending counter is taken first and looked at afterwards.
MutAdmit(h) ==
  /\ h \notin evicting
  /\ \A g \in Handlers : old[g] # h
  /\ pendingRegs' = pendingRegs + 1
  /\ Goto(h, "idle", IF pendingRegs > MaxPendingRegs THEN "refused" ELSE "admitted")
  /\ UNCHANGED <<configVars, name, key, old, closed, ownerVars>>

Admit(h) ==
  /\ h \notin evicting
  /\ \A g \in Handlers : old[g] # h
  /\ pendingRegs' = pendingRegs + 1
  /\ Goto(h, "idle", IF pendingRegs' > MaxPendingRegs THEN "refused" ELSE "admitted")
  /\ UNCHANGED <<configVars, name, key, old, closed, ownerVars>>

\* Both the refusal and the deferred releasePending of a failed registration.
GiveUp(h) ==
  /\ \/ Goto(h, "refused", "idle")
     \/ Goto(h, "failed", "idle")
  /\ pendingRegs' = pendingRegs - 1
  /\ UNCHANGED <<configVars, name, key, old, closed, ownerVars>>

\* The upgrade fails, the registration message does not come in time, or
\* Register or the PAC target check refuses it.
RegisterFails(h) ==
  /\ \/ Goto(h, "admitted", "failed")
     \/ Goto(h, "verified", "failed")
  /\ name' = [name EXCEPT ![h] = None]
  /\ key' = [key EXCEPT ![h] = None]
  /\ UNCHANGED <<configVars, pendingRegs, old, closed, ownerVars>>

\* Register: the key decides the tenant, under the registry's mutex.
Register(h, k) ==
  /\ Goto(h, "admitted", "verified")
  /\ byFingerprint[k] # None
  /\ name' = [name EXCEPT ![h] = byFingerprint[k]]
  /\ key' = [key EXCEPT ![h] = k]
  /\ UNCHANGED <<configVars, pendingRegs, old, closed, ownerVars>>

\* RegisterAgent: last writer wins ...
RegisterAgent(h) ==
  /\ Goto(h, "verified", "replacing")
  /\ old' = [old EXCEPT ![h] = agent[name[h]]]
  /\ agent' = [agent EXCEPT ![name[h]] = h]
  /\ UNCHANGED <<configVars, pendingRegs, name, key, closed, socksOwner, token, assoc>>

\* ... and the loser is closed after the unlock.
MutCloseReplaced(h) ==
  /\ Goto(h, "replacing", "bound")
  /\ old' = [old EXCEPT ![h] = None]
  /\ UNCHANGED <<configVars, pendingRegs, name, key, closed, ownerVars>>

CloseReplaced(h) ==
  /\ Goto(h, "replacing", "bound")
  /\ closed' = closed \cup ({old[h]} \ {None})
  /\ old' = [old EXCEPT ![h] = None]
  /\ UNCHANGED <<configVars, pendingRegs, name, key, ownerVars>>

ReleasePending(h) ==
  /\ Goto(h, "bound", "unslotted")
  /\ pendingRegs' = pendingRegs - 1
  /\ UNCHANGED <<configVars, name, key, old, closed, ownerVars>>

\* The PAC targets are published only by the tenant's current agent.
ClaimSocks(h) ==
  /\ Goto(h, "unslotted", "claimed")
  /\ socksOwner' = IF agent[name[h]] = h
                     THEN [socksOwner EXCEPT ![name[h]] = h] ELSE socksOwner
  /\ UNCHANGED <<configVars, pendingRegs, name, key, old, closed, agent, token, assoc>>

\* native.issue: the tenant's other tokens and its association are dropped.
IssueToken(h) ==
  /\ Goto(h, "claimed", "serving")
  /\ token' = [token EXCEPT ![name[h]] = h]
  /\ assoc' = [assoc EXCEPT ![name[h]] = None]
  /\ UNCHANGED <<configVars, pendingRegs, name, key, old, closed, agent, socksOwner>>

\* An association frame that carries a current token.
Associate(h) ==
  /\ pc[h] \in {"serving", "undoNative"}
  /\ token[name[h]] = h
  /\ assoc' = [assoc EXCEPT ![name[h]] = h]
  /\ UNCHANGED <<configVars, pendingRegs, pc, name, key, old, closed, agent,
                 socksOwner, token>>

-----------------------------------------------------------------------------
(* Leaving: the deferred functions, last in first out.                     *)

\* The reply, the ping or the read fails, or the server hangs up.
Disconnect(h) ==
  /\ Goto(h, "serving", "undoNative")
  /\ UNCHANGED <<configVars, pendingRegs, name, key, old, closed, ownerVars>>

\* A closed WebSocket makes the read fail.
NoticeClosed(h) == h \in closed /\ Disconnect(h)

MutRemoveToken(h) ==
  /\ Goto(h, "undoNative", "undoSocks")
  /\ UNCHANGED <<configVars, pendingRegs, name, key, old, closed, ownerVars>>

RemoveToken(h) ==
  /\ Goto(h, "undoNative", "undoSocks")
  /\ IF token[name[h]] = h
       THEN /\ token' = [token EXCEPT ![name[h]] = None]
            /\ assoc' = [assoc EXCEPT ![name[h]] = None]
       ELSE UNCHANGED <<token, assoc>>
  /\ UNCHANGED <<configVars, pendingRegs, name, key, old, closed, agent, socksOwner>>

UnclaimSocks(h) ==
  /\ Goto(h, "undoSocks", "undoAgent")
  /\ socksOwner' = IF socksOwner[name[h]] = h
                     THEN [socksOwner EXCEPT ![name[h]] = None] ELSE socksOwner
  /\ UNCHANGED <<configVars, pendingRegs, name, key, old, closed, agent, token, assoc>>

\* DeregisterAgent clears the agent only if it is still the current one.
MutDeregisterAgent(h) ==
  /\ Goto(h, "undoAgent", "undoWS")
  /\ agent' = [agent EXCEPT ![name[h]] = None]
  /\ UNCHANGED <<configVars, pendingRegs, name, key, old, closed, socksOwner, token, assoc>>

DeregisterAgent(h) ==
  /\ Goto(h, "undoAgent", "undoWS")
  /\ agent' = IF agent[name[h]] = h THEN [agent EXCEPT ![name[h]] = None] ELSE agent
  /\ UNCHANGED <<configVars, pendingRegs, name, key, old, closed, socksOwner, token, assoc>>

\* A releasePending that is not a sync.Once.
MutLeave(h) ==
  /\ Goto(h, "undoWS", "idle")
  /\ pendingRegs' = pendingRegs - 1
  /\ closed' = closed \ {h}
  /\ name' = [name EXCEPT ![h] = None]
  /\ key' = [key EXCEPT ![h] = None]
  /\ UNCHANGED <<configVars, old, ownerVars>>

\* CloseNow, and releasePending once more, which is a no-op the second time.
Leave(h) ==
  /\ Goto(h, "undoWS", "idle")
  /\ closed' = closed \ {h}
  /\ name' = [name EXCEPT ![h] = None]
  /\ key' = [key EXCEPT ![h] = None]
  /\ UNCHANGED <<configVars, pendingRegs, old, ownerVars>>

-----------------------------------------------------------------------------
(* A configuration reload.                                                 *)

\* ReplaceRegistrations: swap the tables and unlink every agent whose tenant
\* is gone or bound to another key, under the mutex ...
Reload(fp, by) ==
  /\ evicting = {}
  /\ Configured(fp, by)
  /\ fpByName' = fp
  /\ byFingerprint' = by
  /\ LET gone == {n \in Names : agent[n] # None /\ fp[n] # key[agent[n]]}
     IN  /\ evicting' = {agent[n] : n \in gone}
         /\ agent' = [n \in Names |-> IF n \in gone THEN None ELSE agent[n]]
  /\ UNCHANGED <<pendingRegs, pc, name, key, old, closed, socksOwner, token, assoc>>

\* ... and close them after the unlock.
CloseEvicted(h) ==
  /\ h \in evicting
  /\ evicting' = evicting \ {h}
  /\ closed' = IF pc[h] = "idle" THEN closed ELSE closed \cup {h}
  /\ UNCHANGED <<fpByName, byFingerprint, pendingRegs, pc, name, key, old, ownerVars>>

-----------------------------------------------------------------------------
Progress(h) ==
  \/ GiveUp(h) \/ RegisterFails(h) \/ RegisterAgent(h) \/ CloseReplaced(h)
  \/ ReleasePending(h) \/ ClaimSocks(h) \/ IssueToken(h)
  \/ RemoveToken(h) \/ UnclaimSocks(h) \/ DeregisterAgent(h) \/ Leave(h)

Next ==
  \/ \E h \in Handlers :
       \/ Admit(h) \/ Progress(h) \/ Associate(h) \/ Disconnect(h) \/ CloseEvicted(h)
       \/ \E k \in Keys : Register(h, k)
  \/ \E fp \in [Names -> Keys \cup {None}], by \in [Keys -> Names \cup {None}] :
       Reload(fp, by)

\* Handlers are goroutines the runtime schedules; a closed WebSocket fails its
\* read, and the loop of a reload closes what it evicted. A server need not
\* connect, register or hang up.
Fairness ==
  \A h \in Handlers : WF_vars(Progress(h)) /\ WF_vars(NoticeClosed(h)) /\ WF_vars(CloseEvicted(h))

Spec == Init /\ [][Next]_vars /\ Fairness

-----------------------------------------------------------------------------
(* Properties.                                                             *)

TypeOK ==
  /\ Configured(fpByName, byFingerprint)
  /\ evicting \in SUBSET Handlers
  /\ pendingRegs \in Nat
  /\ pc \in [Handlers -> Points]
  /\ name \in [Handlers -> Names \cup {None}]
  /\ key \in [Handlers -> Keys \cup {None}]
  /\ old \in [Handlers -> Handlers \cup {None}]
  /\ closed \in SUBSET Handlers
  /\ \A owner \in {agent, socksOwner, token, assoc} :
       owner \in [Names -> Handlers \cup {None}]

Unregistered == {"admitted", "failed", "verified", "replacing", "bound"}

\* The connections that are upgraded and not registered are never more than
\* max_pending_registrations, and every slot comes back: the counter is the
\* number of handlers that still owe it a decrement.
RegistrationSlots ==
  /\ pendingRegs = Cardinality({h \in Handlers : pc[h] \in Unregistered \cup {"refused"}})
  /\ Cardinality({h \in Handlers : pc[h] \in Unregistered}) <= MaxPendingRegs

\* A handler that returned leaves nothing behind: what a tenant's tables name
\* as its agent, PAC owner, token holder or association is a handler of that
\* tenant whose deferred clean-up is still to come.
NothingOutlivesItsHandler ==
  \A n \in Names :
    /\ agent[n] # None =>
         /\ name[agent[n]] = n
         /\ pc[agent[n]] \in {"replacing", "bound", "unslotted", "claimed", "serving",
                              "undoNative", "undoSocks", "undoAgent"}
    /\ socksOwner[n] # None =>
         /\ name[socksOwner[n]] = n
         /\ pc[socksOwner[n]] \in {"claimed", "serving", "undoNative", "undoSocks"}
    /\ token[n] # None =>
         /\ name[token[n]] = n /\ pc[token[n]] \in {"serving", "undoNative"}
    /\ assoc[n] # None => assoc[n] = token[n]

\* Together: what the control connections of the relay hold, slots, table
\* entries and tokens, belongs to a handler that still has to give it back.
AgentsSound == TypeOK /\ RegistrationSlots /\ NothingOutlivesItsHandler

\* A serving agent stays reachable: unless its own connection is closed, or
\* somebody who replaced or evicted it is about to close it, it is the
\* tenant's agent. A late clean-up of an older connection never unlinks it.
\* And the PAC targets on offer are those of the tenant's current agent,
\* however the steps of its predecessor's handler are delayed.
ServingAgentReachable ==
  \A h \in Handlers :
    /\ (/\ pc[h] = "serving"
        /\ h \notin closed \cup evicting
        /\ \A g \in Handlers : old[g] # h) => agent[name[h]] = h
    /\ (pc[h] \in {"claimed", "serving"} /\ agent[name[h]] = h) => socksOwner[name[h]] = h

\* A replaced or evicted agent's handler goes away.
EvictedAgentLeaves ==
  \A h \in Handlers : (pc[h] = "serving" /\ agent[name[h]] # h) ~> pc[h] # "serving"

\* ReplaceRegistrations' promise: after a reload no agent is live under a key
\* that its tenant is not bound to.
NoAgentUnderRevokedKey ==
  \A n \in Names : agent[n] # None => fpByName[n] = key[agent[n]]
=============================================================================
