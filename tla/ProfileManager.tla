--------------------------- MODULE ProfileManager ---------------------------
(***************************************************************************)
(* The connection manager of the desktop client (internal/gui/manager):    *)
(* profiles, the attempts that connect them (one goroutine runConnect      *)
(* each), the prompts an attempt parks on, the events of a running         *)
(* connection, the callers that disconnect a profile or move a listener    *)
(* and the table of local addresses the profiles claim.  Their settings    *)
(* and gui.yaml are in ProfileStore.                                       *)
(*                                                                         *)
(* A step is one critical section of Manager.mu (or one call made outside  *)
(* it).  The connection an attempt opens carries the attempt's number.     *)
(***************************************************************************)
EXTENDS Naturals, FiniteSets

CONSTANTS
  Profiles,     \* profile identifiers; one is never given out twice
  Attempts,     \* calls of Connect, numbered; bounds the model
  Callers,      \* concurrent callers of Disconnect and ReplaceListener
  Addresses,    \* local addresses, records of a host and a port
  Requested,    \* Requested[p]: the addresses the profile asks for
  Encrypted     \* profiles whose identity needs a passphrase

Places == [host : {"lo", "lo2", "any"}, port : Nat]

ASSUME ManagerConstants ==
  /\ Addresses \subseteq Places
  /\ Requested \in [Profiles -> SUBSET Addresses]
  /\ Encrypted \subseteq Profiles
  /\ Attempts \subseteq Nat \ {0}

VARIABLES
  sess,       \* Manager.sessions; "absent" and "removed" stand for no entry
  att,        \* the runConnect goroutines
  conns,      \* connections that are open, by the attempt that opened them
  bound,      \* the addresses a connection's listeners have
  claims,     \* Manager.reservations
  calls,      \* callers of Disconnect and ReplaceListener
  trusted,    \* profiles whose server certificate is pinned
  overtaken   \* profiles a late Disconnect has reset (history)

vars == <<sess, att, conns, bound, claims, calls, trusted, overtaken>>
-----------------------------------------------------------------------------
None == 0

(* addressesConflict: the same port, and the same host or a wildcard.      *)
Conflict(a, b) ==
  /\ a.port = b.port
  /\ a.host = b.host \/ "any" \in {a.host, b.host}

(* pkg/client's listenLocal may move a listener to 127.0.0.1.              *)
Fallback(a) == [a EXCEPT !.host = "lo"]

States == {"absent", "removed", "idle", "connecting", "awaiting_trust",
           "awaiting_passphrase", "connected", "reconnecting", "failed"}

NewSession == [state |-> "idle", handle |-> None, reply |-> None]

Present == {p \in Profiles : sess[p].state \notin {"absent", "removed"}}

Claimed(p) == IF p \in DOMAIN claims THEN claims[p] ELSE {}

Release(p) == [q \in DOMAIN claims \ {p} |-> claims[q]]

Claim(p, as) == [q \in DOMAIN claims \cup {p} |-> IF q = p THEN as ELSE claims[q]]

NotYet == [pc |-> "unused", prof |-> None, answer |-> "none",
           seen |-> {}, opened |-> FALSE]

(* New: the profiles gui.yaml has, none of them connected.                 *)
Init ==
  /\ \E P \in SUBSET Profiles :
       sess = [p \in Profiles |->
                 IF p \in P THEN NewSession ELSE [NewSession EXCEPT !.state = "absent"]]
  /\ att = [a \in Attempts |-> NotYet]
  /\ conns = {} /\ bound = [a \in Attempts |-> {}] /\ claims = [p \in {} |-> {}]
  /\ calls = [c \in Callers |-> [pc |-> "none", prof |-> None, conn |-> None]]
  /\ trusted \in SUBSET Profiles /\ overtaken = {}
-----------------------------------------------------------------------------
(* AddProfile; identifiers are random, that of a removed profile does not  *)
(* come back.                                                              *)
AddProfile(p) ==
  /\ sess[p].state = "absent"
  /\ sess' = [sess EXCEPT ![p] = NewSession]
  /\ UNCHANGED <<att, conns, bound, claims, calls, trusted, overtaken>>

MutRemoveProfile(p) ==
  /\ p \in Present
  /\ sess' = [sess EXCEPT ![p] = [NewSession EXCEPT !.state = "removed"]]
  /\ UNCHANGED <<att, conns, bound, claims, calls, trusted, overtaken>>

(* RemoveProfile refuses a connected profile; closing s.cancel is what     *)
(* lets a parked attempt see that its session is gone.                     *)
RemoveProfile(p) ==
  /\ p \in Present /\ sess[p].handle = None
  /\ sess' = [sess EXCEPT ![p] = [NewSession EXCEPT !.state = "removed"]]
  /\ UNCHANGED <<att, conns, bound, claims, calls, trusted, overtaken>>

-----------------------------------------------------------------------------
(* One attempt.                                                            *)

Goto(a, l) == att' = [att EXCEPT ![a].pc = l]

Connect(p, a) ==
  /\ sess[p].state \in {"idle", "failed"}
  /\ att[a] = NotYet
  /\ \A b \in Attempts : b < a => att[b] /= NotYet
  /\ sess' = [sess EXCEPT ![p].state = "connecting"]
  /\ att' = [att EXCEPT ![a] = [NotYet EXCEPT !.pc = "key", !.prof = p]]
  /\ UNCHANGED <<conns, bound, claims, calls, trusted, overtaken>>

(* resolvePassphrase and resolveTrust park the attempt on a prompt that    *)
(* only AnswerPassphrase and AnswerTrust, the removal of the profile or    *)
(* promptTimeout ends.                                                     *)
Ask(a, awaiting, l) ==
  LET p == att[a].prof IN
  /\ IF p \in Present
       THEN /\ sess' = [sess EXCEPT ![p].state = awaiting, ![p].reply = a]
            /\ att' = [att EXCEPT ![a].pc = l, ![a].answer = "none"]
       ELSE Goto(a, "done") /\ UNCHANGED sess

ResolvePassphrase(a) ==
  /\ att[a].pc = "key"
  /\ \/ /\ att[a].prof \in Encrypted
        /\ Ask(a, "awaiting_passphrase", "passphrase")
     \/ /\ att[a].prof \notin Encrypted
        /\ Goto(a, "reserve") /\ UNCHANGED sess
     \/ Goto(a, "fail") /\ UNCHANGED sess          \* the key does not parse
  /\ UNCHANGED <<conns, bound, claims, calls, trusted, overtaken>>

(* A yes or a no; a second answer finds the channel full and is dropped.   *)
Answer(p, kind) ==
  /\ sess[p].state = kind /\ sess[p].reply /= None
  /\ att[sess[p].reply].answer = "none"
  /\ \E v \in {"yes", "no"} : att' = [att EXCEPT ![sess[p].reply].answer = v]
  /\ UNCHANGED <<sess, conns, bound, claims, calls, trusted, overtaken>>

AnswerPassphrase(p) == Answer(p, "awaiting_passphrase")

AnswerTrust(p) == Answer(p, "awaiting_trust")

MutAnswered(a, at, after) ==
  LET p == att[a].prof IN
  /\ att[a].pc = at
  /\ \/ /\ att[a].answer = "yes"
        /\ Goto(a, "reserve")
        /\ sess' = IF p \in Present
                     THEN [sess EXCEPT ![p].state = "connecting", ![p].reply = None]
                     ELSE sess
        /\ trusted' = after
     \/ /\ att[a].answer = "no" /\ Goto(a, "fail")
        /\ UNCHANGED <<sess, trusted>>
  /\ UNCHANGED <<conns, bound, claims, calls, overtaken>>

(* The prompt is over: on with the attempt, or to setFailed for a no, a    *)
(* wrong passphrase, a removed profile, a timeout or a pin not written.    *)
Answered(a, at, after) ==
  LET p == att[a].prof IN
  /\ att[a].pc = at
  /\ \/ /\ att[a].answer = "yes"
        /\ Goto(a, "reserve")
        /\ sess' = IF p \in Present
                     THEN [sess EXCEPT ![p].state = "connecting", ![p].reply = None]
                     ELSE sess
        /\ trusted' = after
     \/ /\ Goto(a, "fail")
        /\ UNCHANGED <<sess, trusted>>
  /\ UNCHANGED <<conns, bound, claims, calls, overtaken>>

PassphraseAnswered(a) == Answered(a, "passphrase", trusted)

TrustAnswered(a) == Answered(a, "trust", trusted \cup {att[a].prof})

(* reservePorts: a claim another profile holds refuses the attempt.        *)
ReservePorts(a) ==
  LET p == att[a].prof IN
  /\ att[a].pc = "reserve"
  /\ IF \E q \in DOMAIN claims \ {p}, x \in Requested[p] :
          \E y \in claims[q] : Conflict(x, y)
       THEN Goto(a, "fail") /\ UNCHANGED claims
       ELSE Goto(a, "dial") /\ claims' = Claim(p, Requested[p])
  /\ UNCHANGED <<sess, conns, bound, calls, trusted, overtaken>>

(* The connector: an unknown certificate is an error of its own; a         *)
(* listener is bound where asked or at its fallback, and never where       *)
(* another connection's listener is.                                       *)
Bindings(a) ==
  LET p == att[a].prof
      taken == UNION {bound[b] : b \in conns}
  IN {S \in SUBSET (Requested[p] \cup {Fallback(x) : x \in Requested[p]}) :
        /\ Cardinality(S) = Cardinality(Requested[p])
        /\ \A x \in S, y \in taken : ~Conflict(x, y)}

DialOpens(a) ==
  /\ att[a].pc = "dial" /\ att[a].prof \in trusted
  /\ \E S \in Bindings(a) : bound' = [bound EXCEPT ![a] = S]
  /\ conns' = conns \cup {a}
  /\ att' = [att EXCEPT ![a].pc = "store", ![a].opened = TRUE]
  /\ UNCHANGED <<sess, claims, calls, trusted, overtaken>>

DialFails(a) ==
  /\ att[a].pc = "dial"
  /\ claims' = Release(att[a].prof)
  /\ Goto(a, "fail")
  /\ UNCHANGED <<sess, conns, bound, calls, trusted, overtaken>>

DialUnknown(a) ==
  /\ att[a].pc = "dial" /\ att[a].prof \notin trusted
  /\ claims' = Release(att[a].prof)
  /\ Goto(a, "unknown")
  /\ UNCHANGED <<sess, conns, bound, calls, trusted, overtaken>>

ResolveTrust(a) ==
  /\ att[a].pc = "unknown"
  /\ Ask(a, "awaiting_trust", "trust")
  /\ UNCHANGED <<conns, bound, claims, calls, trusted, overtaken>>

(* setFailed: the claim goes first, the state in a second section.         *)
FailReleases(a) ==
  /\ att[a].pc = "fail"
  /\ claims' = Release(att[a].prof)
  /\ Goto(a, "failed")
  /\ UNCHANGED <<sess, conns, bound, calls, trusted, overtaken>>

SetFailed(a) ==
  LET p == att[a].prof IN
  /\ att[a].pc = "failed"
  /\ Goto(a, "done")
  /\ sess' = IF p \in Present
               THEN [sess EXCEPT ![p].state = "failed", ![p].handle = None, ![p].reply = None]
               ELSE sess
  /\ UNCHANGED <<conns, bound, claims, calls, trusted, overtaken>>

MutStoreHandle(a) ==
  LET p == att[a].prof IN
  /\ att[a].pc = "store"
  /\ IF p \in Present
       THEN /\ sess' = [sess EXCEPT ![p].state = "connected", ![p].handle = a]
            /\ Goto(a, "reconcile")
            /\ UNCHANGED conns
       ELSE /\ conns' = conns \ {a}
            /\ Goto(a, "done")
            /\ UNCHANGED sess
  /\ UNCHANGED <<bound, claims, calls, trusted, overtaken>>

(* The handle is stored; a profile removed meanwhile has it closed.        *)
StoreHandle(a) ==
  LET p == att[a].prof IN
  /\ att[a].pc = "store"
  /\ IF p \in Present
       THEN /\ sess' = [sess EXCEPT ![p].state = "connected", ![p].handle = a]
            /\ Goto(a, "reconcile")
            /\ UNCHANGED <<conns, claims>>
       ELSE /\ conns' = conns \ {a}
            /\ claims' = Release(p)
            /\ Goto(a, "done")
            /\ UNCHANGED sess
  /\ UNCHANGED <<bound, calls, trusted, overtaken>>

(* reconcileAllPortReservations: the claim becomes what was bound when     *)
(* handle.State() was read, just before the lock.                          *)
ReadState(a) ==
  /\ att[a].pc = "reconcile"
  /\ att' = [att EXCEPT ![a].pc = "correct", ![a].seen = bound[a]]
  /\ UNCHANGED <<sess, conns, bound, claims, calls, trusted, overtaken>>

Reconcile(a) ==
  LET p == att[a].prof IN
  /\ att[a].pc = "correct"
  /\ claims' = IF p \in DOMAIN claims THEN Claim(p, att[a].seen) ELSE claims
  /\ Goto(a, "done")
  /\ UNCHANGED <<sess, conns, bound, calls, trusted, overtaken>>
-----------------------------------------------------------------------------
(* handleEvent: the renewal goroutine of an open connection, and of one    *)
(* that has been closed but not yet noticed, reports; state decides.       *)
HandleEvent(a, s) ==
  LET p == att[a].prof IN
  /\ att[a].opened /\ p \in Present
  /\ sess[p].state \in {"connecting", "connected", "reconnecting"}
  /\ sess[p].state /= s
  /\ sess' = [sess EXCEPT ![p].state = s]
  /\ UNCHANGED <<att, conns, bound, claims, calls, trusted, overtaken>>

(* Disconnect reads the handle, closes it without the lock, then resets    *)
(* the session and gives the claim back in sections of their own.  The     *)
(* tray, the settings window and Close may all be in it at once.           *)
Disconnect(c, p) ==
  /\ calls[c].pc = "none" /\ p \in Present /\ sess[p].handle /= None
  /\ calls' = [calls EXCEPT ![c] = [pc |-> "close", prof |-> p, conn |-> sess[p].handle]]
  /\ UNCHANGED <<sess, att, conns, bound, claims, trusted, overtaken>>

DisconnectCloses(c) ==
  /\ calls[c].pc = "close"
  /\ conns' = conns \ {calls[c].conn}
  /\ calls' = [calls EXCEPT ![c].pc = "reset"]
  /\ UNCHANGED <<sess, att, bound, claims, trusted, overtaken>>

(* The session is reset whatever it is now: once another Disconnect of     *)
(* the same connection has let the profile connect again, that is an       *)
(* attempt or a connection this call knows nothing of.                     *)
Overtakes(c) ==
  LET s == sess[calls[c].prof] IN
  s.handle /= calls[c].conn /\ s.state \notin {"absent", "removed", "idle", "failed"}

DisconnectResets(c) ==
  LET p == calls[c].prof IN
  /\ calls[c].pc = "reset"
  /\ sess' = IF p \in Present
               THEN [sess EXCEPT ![p].state = "idle", ![p].handle = None]
               ELSE sess
  /\ calls' = [calls EXCEPT ![c].pc = "release"]
  /\ overtaken' = IF Overtakes(c) THEN overtaken \cup {p} ELSE overtaken
  /\ UNCHANGED <<att, conns, bound, claims, trusted>>

Returned == [pc |-> "none", prof |-> None, conn |-> None]

DisconnectReleases(c) ==
  /\ calls[c].pc = "release"
  /\ claims' = Release(calls[c].prof)
  /\ calls' = [calls EXCEPT ![c] = Returned]
  /\ UNCHANGED <<sess, att, conns, bound, trusted, overtaken>>

(* ReplaceListener: the handle is read, then the connection binds the new  *)
(* address, which fails when it is taken or the connection is closed, and  *)
(* the entry of the tunnel follows when the profile still has claims.      *)
ReplaceListener(c, p) ==
  /\ calls[c].pc = "none" /\ p \in Present /\ sess[p].handle /= None
  /\ calls' = [calls EXCEPT ![c] = [pc |-> "rebind", prof |-> p, conn |-> sess[p].handle]]
  /\ UNCHANGED <<sess, att, conns, bound, claims, trusted, overtaken>>

Rebinds(c) ==
  LET a == calls[c].conn IN
  /\ calls[c].pc = "rebind" /\ a \in conns
  /\ \E x \in Addresses :
       /\ \A b \in conns : \A y \in bound[b] : ~Conflict(x, y)
       /\ bound' = [bound EXCEPT ![a] = {x}]
  /\ calls' = [calls EXCEPT ![c].pc = "rebound"]
  /\ UNCHANGED <<sess, att, conns, claims, trusted, overtaken>>

RebindFails(c) ==
  /\ calls[c].pc = "rebind"
  /\ calls' = [calls EXCEPT ![c] = Returned]
  /\ UNCHANGED <<sess, att, conns, bound, claims, trusted, overtaken>>

ReconcileOne(c) ==
  LET p == calls[c].prof IN
  /\ calls[c].pc = "rebound"
  /\ claims' = IF Claimed(p) /= {} THEN Claim(p, bound[calls[c].conn]) ELSE claims
  /\ calls' = [calls EXCEPT ![c] = Returned]
  /\ UNCHANGED <<sess, att, conns, bound, trusted, overtaken>>

ClearError(p) ==
  /\ sess[p].state = "failed"
  /\ sess' = [sess EXCEPT ![p].state = "idle", ![p].reply = None]
  /\ UNCHANGED <<att, conns, bound, claims, calls, trusted, overtaken>>
-----------------------------------------------------------------------------
Attempt(a) ==
  \/ ResolvePassphrase(a) \/ PassphraseAnswered(a) \/ ReservePorts(a)
  \/ DialOpens(a) \/ DialFails(a) \/ DialUnknown(a)
  \/ ResolveTrust(a) \/ TrustAnswered(a)
  \/ FailReleases(a) \/ SetFailed(a)
  \/ StoreHandle(a) \/ ReadState(a) \/ Reconcile(a)

Return(c) ==
  \/ DisconnectCloses(c) \/ DisconnectResets(c) \/ DisconnectReleases(c)
  \/ Rebinds(c) \/ RebindFails(c) \/ ReconcileOne(c)

Next ==
  \/ \E p \in Profiles :
       \/ AddProfile(p) \/ RemoveProfile(p) \/ ClearError(p)
       \/ AnswerPassphrase(p) \/ AnswerTrust(p)
       \/ \E a \in Attempts : Connect(p, a)
       \/ \E c \in Callers : Disconnect(c, p) \/ ReplaceListener(c, p)
  \/ \E a \in Attempts :
       Attempt(a) \/ HandleEvent(a, "connected") \/ HandleEvent(a, "reconnecting")
  \/ \E c \in Callers : Return(c)

(* A goroutine that can run runs; a prompt times out.                      *)
Fairness ==
  /\ \A a \in Attempts : WF_vars(Attempt(a))
  /\ \A c \in Callers : WF_vars(Return(c))

Spec == Init /\ [][Next]_vars /\ Fairness
-----------------------------------------------------------------------------
(* Every field holds what the code can put there.                          *)
TypeOK ==
  /\ \A p \in Profiles :
       /\ sess[p].state \in States
       /\ sess[p].handle \in Attempts \cup {None} /\ sess[p].reply \in Attempts \cup {None}
  /\ \A a \in Attempts : att[a].prof \in Profiles \cup {None} /\ bound[a] \subseteq Places
  /\ conns \subseteq Attempts /\ DOMAIN claims \subseteq Profiles
  /\ trusted \subseteq Profiles /\ overtaken \subseteq Profiles

(* Every open connection has somebody who will close it: the session of    *)
(* its profile, or the attempt that just opened it.  "a removal can never  *)
(* orphan a running *client.Connection" (RemoveProfile).  However many     *)
(* calls overlap, only a Disconnect that resets a later session than the   *)
(* one it closed leaves a connection to nobody (manager.go:393-398).       *)
NoOrphan ==
  \A a \in conns : att[a].prof \notin overtaken =>
    sess[att[a].prof].handle = a \/ att[a].pc = "store"

(* No claim is left behind: with no attempt and no call under way for a    *)
(* profile that is not connected, its addresses are free for the others.   *)
(* (A claim nobody gives back would refuse every other profile.)           *)
NoClaimLeaks ==
  \A p \in DOMAIN claims \ overtaken :
    \/ sess[p].handle /= None
    \/ \E a \in Attempts : att[a].prof = p /\ att[a].pc \notin {"unused", "done"}
    \/ \E c \in Callers : calls[c].prof = p

(* Every attempt comes to an end: a prompt nobody answers times out, a     *)
(* removed profile lets its attempt go, and the state says how it ended.   *)
ConnectSettles ==
  \A p \in Profiles :
    sess[p].state \in {"connecting", "awaiting_trust", "awaiting_passphrase"} ~>
      sess[p].state \in {"connected", "reconnecting", "failed", "idle", "removed"}

(* The manager implements the life cycle it draws for a profile: prompts   *)
(* are part of connecting, and so is a connection whose events arrive      *)
(* before its handle is stored.                                            *)
Phase(p) ==
  IF p \in overtaken THEN "overtaken"
  ELSE IF sess[p].state \in {"absent", "removed", "idle", "failed"} THEN sess[p].state
  ELSE IF sess[p].handle /= None THEN "connected" ELSE "connecting"

Lifecycle == INSTANCE ProfileLifecycle WITH
  phase <- [p \in Profiles |-> Phase(p)],
  live <- {att[a].prof : a \in conns} \ overtaken

ImplementsLifecycle == Lifecycle!Spec
=============================================================================
