----------------------------- MODULE Gui_proofs -----------------------------
(***************************************************************************)
(* Proofs about ProfileManager, for any profiles, attempts, callers and    *)
(* addresses: no claim on a local address outlives its reason, no open     *)
(* connection is without an owner, and the manager implements the life     *)
(* cycle of a profile (ProfileLifecycle).                                  *)
(*                                                                         *)
(* The promises to a profile end when a Disconnect resets a session other  *)
(* than the one it closed (overtaken); until then, and for every other     *)
(* profile, they hold however many calls overlap.                          *)
(***************************************************************************)
EXTENDS Gui, FiniteSetTheorems, TLAPS

(***************************************************************************)
(* What the promises rest on.                                              *)
(***************************************************************************)

Points == {"unused", "key", "passphrase", "reserve", "dial", "unknown", "trust", "fail",
           "failed", "store", "reconcile", "correct", "done"}

SessionRecords ==
  [state : States, handle : Attempts \cup {None}, reply : Attempts \cup {None}]
AttemptRecords ==
  [pc : Points, prof : Profiles \cup {None}, answer : {"none", "yes", "no"},
   seen : SUBSET Places, opened : BOOLEAN]
CallRecords ==
  [pc : {"none", "close", "reset", "release", "rebind", "rebound"},
   prof : Profiles \cup {None}, conn : Attempts \cup {None}]

Typed ==
  /\ sess \in [Profiles -> SessionRecords] /\ att \in [Attempts -> AttemptRecords]
  /\ conns \subseteq Attempts /\ bound \in [Attempts -> SUBSET Places]
  /\ DOMAIN claims \subseteq Profiles /\ calls \in [Callers -> CallRecords]
  /\ trusted \subseteq Profiles /\ overtaken \subseteq Profiles

\* An attempt that has not handed its connection over, and one that has.
Trying(a) == att[a].pc \notin {"unused", "reconcile", "correct", "done"}
HandedOver(a) == att[a].pc \in {"reconcile", "correct", "done"}

\* A profile has one such attempt at a time, and no handle meanwhile; Connect
\* refuses any other state.
TryingAlone ==
  \A a \in Attempts : Trying(a) =>
    /\ att[a].prof \in Profiles
    /\ att[a].prof \notin overtaken =>
         /\ sess[att[a].prof].state \notin {"absent", "idle", "failed"}
         /\ sess[att[a].prof].handle = None
         /\ \A b \in Attempts : Trying(b) /\ att[b].prof = att[a].prof => b = a

Active == {"connecting", "awaiting_trust", "awaiting_passphrase", "connected", "reconnecting"}

\* A handle is an attempt's that is done with it, and shows as connected.
HandleStored ==
  \A p \in Profiles : sess[p].handle # None =>
    /\ HandedOver(sess[p].handle) /\ att[sess[p].handle].prof = p
    /\ sess[p].state \in Active
    /\ p \notin overtaken => sess[p].state \in {"connected", "reconnecting"}

\* Who has an open connection.
ConnectionOwned ==
  /\ \A a \in conns :
       /\ att[a].prof \in Profiles /\ (att[a].pc = "store" \/ HandedOver(a))
       /\ att[a].prof \notin overtaken => att[a].pc = "store" \/ sess[att[a].prof].handle = a
  /\ \A a \in Attempts : att[a].pc = "store" => a \in conns

\* A caller has read a connection that was handed over; it stays closed once
\* the caller has closed it, though it may no longer be the session's.
CallCurrent ==
  \A c \in Callers : calls[c].pc \in {"close", "reset"} =>
    /\ calls[c].prof \in Profiles /\ calls[c].conn \in Attempts /\ HandedOver(calls[c].conn)
    /\ calls[c].pc = "reset" => calls[c].conn \notin conns

\* Whoever answers for a claim; a prompt and a failed attempt do not.
ClaimHeld ==
  \A p \in DOMAIN claims \ overtaken :
    \/ sess[p].handle # None
    \/ \E a \in Attempts : att[a].prof = p /\ att[a].pc \in {"dial", "store", "fail"}
    \/ \E c \in Callers : calls[c].prof = p /\ calls[c].pc = "release"

IInv ==
  /\ Typed /\ TryingAlone /\ HandleStored /\ ConnectionOwned /\ CallCurrent /\ ClaimHeld

LEMMA InitInv == Init => IInv
<1> SUFFICES ASSUME Init PROVE IInv
  OBVIOUS
<1>1. Typed
  BY ManagerConstants 
     DEF Init, Typed, NewSession, NotYet, States, Points, None,
         SessionRecords, AttemptRecords, CallRecords
<1>2. /\ \A a \in Attempts : ~Trying(a) /\ att[a].pc = "unused"
      /\ \A p \in Profiles : sess[p].handle = None
      /\ conns = {} /\ DOMAIN claims = {} /\ \A c \in Callers : calls[c].pc = "none"
  BY DEF Init, Trying, NotYet, NewSession
<1> QED BY <1>1, <1>2
     DEF IInv, TryingAlone, HandleStored, ConnectionOwned, CallCurrent, ClaimHeld

(***************************************************************************)
(* What a step does to a record.                                           *)
(***************************************************************************)

LEMMA GotoMoves ==
  ASSUME Typed, NEW a \in Attempts, NEW l \in Points, Goto(a, l)
  PROVE  /\ att' \in [Attempts -> AttemptRecords]
         /\ att'[a].pc = l /\ att'[a].prof = att[a].prof
         /\ \A b \in Attempts \ {a} : att'[b] = att[b]
BY DEF Typed, Goto, AttemptRecords

LEMMA StateMoves ==
  ASSUME Typed, NEW p \in Profiles, NEW s \in States, NEW r \in Attempts \cup {None},
         \/ sess' = [sess EXCEPT ![p].state = s]
         \/ sess' = [sess EXCEPT ![p].state = s, ![p].reply = r]
  PROVE  /\ sess' \in [Profiles -> SessionRecords]
         /\ sess'[p].state = s /\ sess'[p].handle = sess[p].handle
         /\ \A q \in Profiles \ {p} : sess'[q] = sess[q]
BY DEF Typed, SessionRecords

\* A step on the session of p that leaves its handle alone.
LEMMA SessionStep ==
  ASSUME IInv, Typed', NEW p \in Profiles, UNCHANGED <<att, conns, claims, calls, overtaken>>,
         \A q \in Profiles \ {p} : sess'[q] = sess[q],
         sess'[p].handle = sess[p].handle,
         p \notin overtaken /\ (\E a \in Attempts : Trying(a) /\ att[a].prof = p) =>
           sess'[p].state \notin {"absent", "idle", "failed"},
         sess[p].handle # None => sess'[p].state \in {"connected", "reconnecting"}
  PROVE  IInv'
<1>1. \A q \in Profiles : sess'[q].handle = sess[q].handle
  OBVIOUS
<1>2. TryingAlone'
  BY <1>1 DEF IInv, TryingAlone, Trying
<1>3. HandleStored'
  BY <1>1 DEF IInv, Typed, HandleStored, HandedOver, Active
<1>4. ConnectionOwned' /\ CallCurrent' /\ ClaimHeld'
  BY <1>1 DEF IInv, Typed, ConnectionOwned, CallCurrent, ClaimHeld, HandedOver
<1> QED BY <1>2, <1>3, <1>4 DEF IInv

\* A step of an attempt that opens, stores and closes nothing.
LEMMA AttemptStep ==
  ASSUME IInv, Typed', NEW a \in Attempts, UNCHANGED <<conns, calls, overtaken>>,
         \A b \in Attempts \ {a} : att'[b] = att[b],
         att'[a].prof = att[a].prof,
         att[a].pc # "store", att'[a].pc \notin {"store", "unused"},
         HandedOver(a) => HandedOver(a)',
         \A q \in Profiles : \/ sess'[q].handle = sess[q].handle
                             \/ q \in overtaken /\ sess'[q].handle = None,
         \A q \in Profiles : \/ sess'[q] = sess[q]
                             \/ q = att[a].prof /\ Trying(a)
                                /\ (sess'[q].state \in Active \/ sess'[q].handle = None),
         Trying(a)' => /\ Trying(a)
                       /\ att[a].prof \notin overtaken =>
                            sess'[att[a].prof].state \notin {"absent", "idle", "failed"},
         DOMAIN claims' \ {att[a].prof} \subseteq DOMAIN claims,
         att[a].prof \in DOMAIN claims' =>
           \/ att'[a].pc \in {"dial", "fail"}
           \/ att[a].prof \in DOMAIN claims /\ att[a].pc \notin {"dial", "fail"}
  PROVE  IInv'
<1>1. \A b \in Attempts : (Trying(b)' => Trying(b)) /\ (HandedOver(b) => HandedOver(b)')
  BY DEF Trying, HandedOver
<1>2. \A b \in Attempts : att'[b].prof = att[b].prof
  OBVIOUS
<1>3. TryingAlone'
  BY <1>1, <1>2 DEF IInv, TryingAlone
<1>4. HandleStored'
  <2> SUFFICES ASSUME NEW p \in Profiles, sess'[p].handle # None
               PROVE  /\ HandedOver(sess[p].handle)' /\ att'[sess'[p].handle].prof = p
                      /\ sess'[p].handle = sess[p].handle
                      /\ sess'[p].state \in Active
                      /\ p \notin overtaken => sess'[p].state \in {"connected", "reconnecting"}
    BY DEF HandleStored, HandedOver
  <2>1. sess'[p].handle \in Attempts /\ sess'[p].handle = sess[p].handle
    BY DEF IInv, Typed, SessionRecords
  <2>2. HandedOver(sess[p].handle) /\ att[sess[p].handle].prof = p /\ sess[p].state \in Active
    BY <2>1 DEF IInv, HandleStored
  <2>3. HandedOver(sess[p].handle)'
    BY <1>1, <2>1, <2>2 DEF HandedOver
  <2>4. p \notin overtaken => sess'[p] = sess[p]
    BY <2>1 DEF IInv, TryingAlone
  <2> QED BY <1>2, <2>1, <2>2, <2>3, <2>4 DEF IInv, HandleStored
<1>5. ConnectionOwned' /\ CallCurrent'
  <2>1. \A b \in Attempts : att'[b].pc = "store" <=> att[b].pc = "store"
    OBVIOUS
  <2>2. ConnectionOwned'
    BY <1>1, <1>2, <2>1 DEF IInv, Typed, ConnectionOwned
  <2>3. CallCurrent'
    BY <1>1 DEF IInv, CallCurrent
  <2> QED BY <2>2, <2>3
<1>6. ClaimHeld'
  <2> SUFFICES ASSUME NEW p \in DOMAIN claims' \ overtaken
               PROVE  \/ sess'[p].handle # None
                      \/ \E b \in Attempts : /\ att'[b].prof = p
                                             /\ att'[b].pc \in {"dial", "store", "fail"}
                      \/ \E c \in Callers : calls'[c].prof = p /\ calls'[c].pc = "release"
    BY DEF ClaimHeld
  <2>1. p \in Profiles
    BY DEF Typed
  <2>2. CASE p = att[a].prof /\ att'[a].pc \in {"dial", "fail"}
    BY <2>2
  <2>3. CASE p \in DOMAIN claims /\ (p # att[a].prof \/ att[a].pc \notin {"dial", "fail"})
    BY <1>2, <2>1, <2>3 DEF IInv, ClaimHeld
  <2> QED BY <2>2, <2>3
<1> QED BY <1>3, <1>4, <1>5, <1>6 DEF IInv

(***************************************************************************)
(* Profiles, events and prompts.                                           *)
(***************************************************************************)

LEMMA ProfileInv ==
  ASSUME IInv, NEW p \in Profiles, AddProfile(p) \/ RemoveProfile(p) \/ ClearError(p)
  PROVE  IInv'
<1>1. UNCHANGED <<att, conns, bound, claims, calls, trusted, overtaken>> /\ sess[p].handle = None
  BY DEF AddProfile, RemoveProfile, ClearError, IInv, HandleStored, Active
<1>2. /\ sess' \in [Profiles -> SessionRecords]
      /\ \A q \in Profiles \ {p} : sess'[q] = sess[q]
      /\ sess'[p].handle = None
  BY <1>1 DEF AddProfile, RemoveProfile, ClearError, IInv, Typed, NewSession, SessionRecords,
     States, None
<1>3. p \notin overtaken /\ (\E a \in Attempts : Trying(a) /\ att[a].prof = p) =>
        sess'[p].state = "removed"
  <2>1. CASE AddProfile(p) \/ ClearError(p)
    BY <2>1 DEF AddProfile, ClearError, IInv, TryingAlone
  <2>2. CASE RemoveProfile(p)
    BY <2>2 DEF RemoveProfile, IInv, Typed, NewSession
  <2> QED BY <2>1, <2>2
<1>4. Typed'
  BY <1>1, <1>2 DEF IInv, Typed
<1> QED BY <1>1, <1>2, <1>3, <1>4, SessionStep

LEMMA EventInv ==
  ASSUME IInv, NEW a \in Attempts, NEW s \in {"connected", "reconnecting"}, HandleEvent(a, s)
  PROVE  IInv'
<1> DEFINE p == att[a].prof
<1>1. /\ UNCHANGED <<att, conns, bound, claims, calls, trusted, overtaken>>
      /\ p \in Profiles /\ sess' = [sess EXCEPT ![p].state = s] /\ s \in States
  BY DEF HandleEvent, Present, States
<1>2. /\ sess' \in [Profiles -> SessionRecords]
      /\ sess'[p].state = s /\ sess'[p].handle = sess[p].handle
      /\ \A q \in Profiles \ {p} : sess'[q] = sess[q]
  BY <1>1, StateMoves, Zenon DEF IInv
<1>3. Typed'
  BY <1>1, <1>2 DEF IInv, Typed
<1> QED BY <1>1, <1>2, <1>3, SessionStep

\* An answer changes nothing but the answer.
LEMMA AnswerInv ==
  ASSUME IInv, NEW p \in Profiles, AnswerPassphrase(p) \/ AnswerTrust(p)
  PROVE  IInv'
<1> DEFINE a == sess[p].reply
<1>1. PICK v \in {"yes", "no"} : att' = [att EXCEPT ![a].answer = v]
  BY DEF AnswerPassphrase, AnswerTrust, Answer
<1>2. a \in Attempts /\ UNCHANGED <<sess, conns, bound, claims, calls, trusted, overtaken>>
  BY DEF AnswerPassphrase, AnswerTrust, Answer, IInv, Typed, SessionRecords
<1>3. /\ att' \in [Attempts -> AttemptRecords]
      /\ \A b \in Attempts : att'[b].pc = att[b].pc /\ att'[b].prof = att[b].prof
  BY <1>1, <1>2 DEF IInv, Typed, AttemptRecords
<1>4. Typed'
  BY <1>2, <1>3 DEF IInv, Typed
<1>5. \A b \in Attempts : (Trying(b)' <=> Trying(b)) /\ (HandedOver(b)' <=> HandedOver(b))
  BY <1>3 DEF Trying, HandedOver
<1>6. TryingAlone' /\ ConnectionOwned' /\ CallCurrent' /\ ClaimHeld'
  BY <1>2, <1>3, <1>5 DEF IInv, Typed, TryingAlone, ConnectionOwned, CallCurrent, ClaimHeld
<1>7. HandleStored'
  BY <1>2, <1>3, <1>5 DEF IInv, Typed, HandleStored, SessionRecords
<1> QED BY <1>4, <1>6, <1>7 DEF IInv

(***************************************************************************)
(* The attempt, up to its connection and after it.                         *)
(***************************************************************************)

LEMMA TryingProfile ==
  ASSUME IInv, NEW a \in Attempts, att[a].pc \notin {"unused", "reconcile", "correct", "done"}
  PROVE  /\ att[a].prof \in Profiles
         /\ att[a].prof \notin overtaken =>
              /\ sess[att[a].prof].handle = None
              /\ sess[att[a].prof].state \notin {"absent", "idle", "failed"}
BY DEF IInv, TryingAlone, Trying

LEMMA GoOnInv ==
  ASSUME IInv, NEW a \in Attempts, NEW l \in Points \ {"store", "unused", "dial"}, Goto(a, l),
         att[a].pc \notin {"unused", "store", "reconcile", "correct", "done"},
         UNCHANGED <<sess, conns, bound, calls, trusted, overtaken>>,
         (claims' = claims /\ att[a].pc \notin {"dial", "fail"}) \/ claims' = Release(att[a].prof)
  PROVE  IInv'
<1>1. /\ att' \in [Attempts -> AttemptRecords]
      /\ att'[a].pc = l /\ att'[a].prof = att[a].prof
      /\ \A b \in Attempts \ {a} : att'[b] = att[b]
  BY GotoMoves DEF IInv
<1>2. /\ DOMAIN claims' \subseteq DOMAIN claims
      /\ att[a].prof \in DOMAIN claims' => att[a].pc \notin {"dial", "fail"}
  BY DEF Release
<1>3. Typed'
  BY <1>1, <1>2 DEF IInv, Typed
<1> QED BY <1>1, <1>2, <1>3, TryingProfile, AttemptStep DEF Trying, HandedOver, Active

LEMMA AskInv ==
  ASSUME IInv, NEW a \in Attempts,
         att[a].pc \in {"key", "unknown"},
         NEW w \in {"awaiting_trust", "awaiting_passphrase"}, NEW l \in {"trust", "passphrase"},
         Ask(a, w, l), UNCHANGED <<conns, bound, claims, calls, trusted, overtaken>>
  PROVE  IInv'
<1> DEFINE p == att[a].prof
<1>1. p \in Profiles
  BY TryingProfile
<1>2. CASE p \in Present
  <2>1. /\ sess' = [sess EXCEPT ![p].state = w, ![p].reply = a]
        /\ att' = [att EXCEPT ![a].pc = l, ![a].answer = "none"]
    BY <1>2 DEF Ask
  <2>2. /\ sess' \in [Profiles -> SessionRecords]
        /\ sess'[p].state = w /\ sess'[p].handle = sess[p].handle
        /\ \A q \in Profiles \ {p} : sess'[q] = sess[q]
    BY <1>1, <2>1 DEF IInv, Typed, SessionRecords, States
  <2>3. /\ att' \in [Attempts -> AttemptRecords]
        /\ att'[a].pc = l /\ att'[a].prof = att[a].prof
        /\ \A b \in Attempts \ {a} : att'[b] = att[b]
    <3>1. att \in [Attempts -> AttemptRecords] /\ l \in Points
      BY DEF IInv, Typed, Points
    <3>2. att'[a] = [att[a] EXCEPT !.pc = l, !.answer = "none"]
      BY <2>1, <3>1
    <3>3. [att[a] EXCEPT !.pc = l] \in AttemptRecords
      BY <3>1 DEF AttemptRecords
    <3>4. att'[a] = [[att[a] EXCEPT !.pc = l] EXCEPT !.answer = "none"]
      BY <3>1, <3>2 DEF AttemptRecords
    <3>5. att'[a] \in AttemptRecords /\ att'[a].pc = l /\ att'[a].prof = att[a].prof
      BY <3>1, <3>3, <3>4 DEF AttemptRecords
    <3> QED BY <2>1, <3>1, <3>5
  <2>4. Typed'
    BY <2>2, <2>3 DEF IInv, Typed
  <2> QED BY <1>1, <2>2, <2>3, <2>4, AttemptStep DEF Trying, HandedOver, Active
<1>3. CASE p \notin Present
  <2>1. Goto(a, "done") /\ UNCHANGED sess
    BY <1>3 DEF Ask
  <2> QED BY <2>1, GoOnInv DEF Points
<1> QED BY <1>2, <1>3

LEMMA ResolveInv ==
  ASSUME IInv, NEW a \in Attempts, ResolvePassphrase(a) \/ ResolveTrust(a)
  PROVE  IInv'
<1>1. CASE ResolveTrust(a)
  BY <1>1, AskInv DEF ResolveTrust
<1>2. CASE ResolvePassphrase(a) /\ Ask(a, "awaiting_passphrase", "passphrase")
  BY <1>2, AskInv DEF ResolvePassphrase
<1>3. CASE ResolvePassphrase(a) /\ UNCHANGED sess /\ \E l \in {"reserve", "fail"} : Goto(a, l)
  BY <1>3, GoOnInv DEF ResolvePassphrase, Points
<1> QED BY <1>1, <1>2, <1>3 DEF ResolvePassphrase

LEMMA AnsweredInv ==
  ASSUME IInv, NEW a \in Attempts, PassphraseAnswered(a) \/ TrustAnswered(a)
  PROVE  IInv'
<1> DEFINE p == att[a].prof
<1>1. att[a].pc \in {"passphrase", "trust"} /\ UNCHANGED <<conns, bound, claims, calls, overtaken>>
  BY DEF PassphraseAnswered, TrustAnswered, Answered
<1>2. /\ p \in Profiles
      /\ p \notin overtaken => sess[p].state \notin {"absent", "idle", "failed"}
  BY <1>1, TryingProfile
<1>3. CASE Goto(a, "fail") /\ UNCHANGED <<sess, trusted>>
  BY <1>1, <1>3, GoOnInv DEF Points
<1>4. CASE /\ Goto(a, "reserve") /\ trusted' \subseteq trusted \cup {p}
           /\ sess' = IF p \in Present
                        THEN [sess EXCEPT ![p].state = "connecting", ![p].reply = None]
                        ELSE sess
  <2>1. /\ att' \in [Attempts -> AttemptRecords]
        /\ att'[a].pc = "reserve" /\ att'[a].prof = att[a].prof
        /\ \A b \in Attempts \ {a} : att'[b] = att[b]
    BY <1>4, GotoMoves DEF IInv, Points
  <2>2. /\ sess' \in [Profiles -> SessionRecords]
        /\ p \notin overtaken => sess'[p].state \notin {"absent", "idle", "failed"}
        /\ sess'[p] = sess[p] \/ sess'[p].state = "connecting"
        /\ sess'[p].handle = sess[p].handle
        /\ \A q \in Profiles \ {p} : sess'[q] = sess[q]
    BY <1>2, <1>4 DEF IInv, Typed, SessionRecords, States
  <2>3. Typed'
    BY <1>1, <1>2, <1>4, <2>1, <2>2 DEF IInv, Typed
  <2> QED BY <1>1, <1>2, <2>1, <2>2, <2>3, AttemptStep DEF Trying, HandedOver, Active
<1> QED BY <1>3, <1>4 DEF PassphraseAnswered, TrustAnswered, Answered

LEMMA ReservePortsInv == ASSUME IInv, NEW a \in Attempts, ReservePorts(a) PROVE IInv'
<1> DEFINE p == att[a].prof
<1>1. att[a].pc = "reserve" /\ UNCHANGED <<sess, conns, bound, calls, trusted, overtaken>>
  BY DEF ReservePorts
<1>2. /\ p \in Profiles
      /\ p \notin overtaken => sess[p].state \notin {"absent", "idle", "failed"}
  BY <1>1, TryingProfile
<1>3. CASE Goto(a, "fail") /\ UNCHANGED claims
  BY <1>1, <1>3, GoOnInv DEF Points
<1>4. CASE Goto(a, "dial") /\ claims' = Claim(p, Requested[p])
  <2>1. /\ att' \in [Attempts -> AttemptRecords]
        /\ att'[a].pc = "dial" /\ att'[a].prof = att[a].prof
        /\ \A b \in Attempts \ {a} : att'[b] = att[b]
    BY <1>4, GotoMoves DEF IInv, Points
  <2>2. DOMAIN claims' = DOMAIN claims \cup {p}
    BY <1>4 DEF Claim
  <2>3. Typed'
    BY <1>1, <1>2, <2>1, <2>2 DEF IInv, Typed
  <2> QED BY <1>1, <1>2, <2>1, <2>2, <2>3, AttemptStep DEF Trying, HandedOver, Active
<1> QED BY <1>3, <1>4 DEF ReservePorts

LEMMA GivesUpInv ==
  ASSUME IInv, NEW a \in Attempts, DialFails(a) \/ DialUnknown(a) \/ FailReleases(a)
  PROVE  IInv'
BY GoOnInv DEF DialFails, DialUnknown, FailReleases, Points

LEMMA SetFailedInv == ASSUME IInv, NEW a \in Attempts, SetFailed(a) PROVE IInv'
<1> DEFINE p == att[a].prof
<1>1. att[a].pc = "failed" /\ Goto(a, "done") /\ UNCHANGED <<conns, bound, claims, calls, trusted, overtaken>>
  BY DEF SetFailed
<1>2. p \in Profiles /\ (p \notin overtaken => sess[p].handle = None)
  BY <1>1, TryingProfile
<1>3. /\ att' \in [Attempts -> AttemptRecords]
      /\ att'[a].pc = "done" /\ att'[a].prof = att[a].prof
      /\ \A b \in Attempts \ {a} : att'[b] = att[b]
  BY <1>1, GotoMoves DEF IInv, Points
<1>4. /\ sess' \in [Profiles -> SessionRecords] /\ (sess'[p] = sess[p] \/ sess'[p].handle = None)
      /\ \A q \in Profiles \ {p} : sess'[q] = sess[q]
  BY <1>2 DEF SetFailed, IInv, Typed, SessionRecords, States
<1>5. Typed'
  BY <1>1, <1>3, <1>4 DEF IInv, Typed
<1> QED BY <1>1, <1>2, <1>3, <1>4, <1>5, AttemptStep DEF Trying, HandedOver, Active

\* What a connection has bound is read and recorded.
LEMMA ReconcileInv ==
  ASSUME IInv, NEW a \in Attempts, ReadState(a) \/ Reconcile(a)
  PROVE  IInv'
<1> DEFINE p == att[a].prof
<1>1. /\ att[a].pc \in {"reconcile", "correct"} /\ UNCHANGED <<sess, conns, bound, calls, trusted, overtaken>>
      /\ \/ att' = [att EXCEPT ![a].pc = "correct", ![a].seen = bound[a]]
         \/ att' = [att EXCEPT ![a].pc = "done"]
      /\ DOMAIN claims' = DOMAIN claims
  BY DEF ReadState, Reconcile, Claim, Goto
<1>2. /\ att' \in [Attempts -> AttemptRecords]
      /\ att'[a].pc \in {"correct", "done"} /\ att'[a].prof = att[a].prof
      /\ \A b \in Attempts \ {a} : att'[b] = att[b]
  BY <1>1 DEF IInv, Typed, AttemptRecords, Points
<1>3. Typed'
  BY <1>1, <1>2 DEF IInv, Typed
<1> QED BY <1>1, <1>2, <1>3, AttemptStep DEF Trying, HandedOver, Active

LEMMA ConnectInv ==
  ASSUME IInv, NEW p \in Profiles, NEW a \in Attempts, Connect(p, a)
  PROVE  IInv'
<1>1. /\ sess[p].state \in {"idle", "failed"} /\ att[a] = NotYet
      /\ sess' = [sess EXCEPT ![p].state = "connecting"]
      /\ att' = [att EXCEPT ![a] = [NotYet EXCEPT !.pc = "key", !.prof = p]]
      /\ UNCHANGED <<conns, bound, claims, calls, trusted, overtaken>>
  BY DEF Connect
<1>2. /\ sess[p].handle = None
      /\ p \notin overtaken => \A b \in Attempts : Trying(b) => att[b].prof # p
  BY <1>1 DEF IInv, HandleStored, TryingAlone, Active
<1>3. /\ sess' \in [Profiles -> SessionRecords]
      /\ sess'[p].state = "connecting" /\ sess'[p].handle = None
      /\ \A q \in Profiles \ {p} : sess'[q] = sess[q]
  BY <1>1, <1>2, StateMoves DEF IInv, States
<1>4. /\ att' \in [Attempts -> AttemptRecords] /\ att[a].pc = "unused"
      /\ att'[a].pc = "key" /\ att'[a].prof = p
      /\ \A b \in Attempts \ {a} : att'[b] = att[b]
  <2> DEFINE new == [NotYet EXCEPT !.pc = "key", !.prof = p]
  <2>1. new \in AttemptRecords /\ new.pc = "key" /\ new.prof = p
    BY DEF NotYet, AttemptRecords, Points
  <2>2. att \in [Attempts -> AttemptRecords] /\ att[a].pc = "unused"
    BY <1>1 DEF IInv, Typed, NotYet
  <2> HIDE DEF new
  <2>3. att' = [att EXCEPT ![a] = new]
    BY <1>1 DEF new
  <2> QED BY <2>1, <2>2, <2>3
<1>5. Typed'
  BY <1>1, <1>3, <1>4 DEF IInv, Typed
<1>6. /\ \A b \in Attempts \ {a} : (Trying(b)' <=> Trying(b)) /\ (HandedOver(b)' <=> HandedOver(b))
      /\ ~HandedOver(a) /\ ~Trying(a)
  BY <1>4 DEF Trying, HandedOver
<1>7. TryingAlone'
  BY <1>1, <1>2, <1>3, <1>4, <1>6 DEF IInv, TryingAlone
<1>8. HandleStored'
  BY <1>1, <1>2, <1>3, <1>4, <1>6 DEF IInv, Typed, HandleStored, SessionRecords
<1>9. ConnectionOwned'
  <2>1. a \notin conns
    BY <1>4, <1>6 DEF IInv, ConnectionOwned
  <2> QED BY <1>1, <1>2, <1>3, <1>4, <1>6, <2>1, ManagerConstants DEF IInv, Typed, ConnectionOwned, None
<1>10. CallCurrent'
  BY <1>1, <1>6 DEF IInv, CallCurrent
<1>11. ClaimHeld'
  <2>1. \A q \in Profiles : sess'[q].handle = sess[q].handle
    BY <1>2, <1>3
  <2> QED BY <1>1, <1>4, <2>1 DEF IInv, Typed, ClaimHeld
<1> QED BY <1>5, <1>7, <1>8, <1>9, <1>10, <1>11 DEF IInv

LEMMA DialOpensInv == ASSUME IInv, NEW a \in Attempts, DialOpens(a) PROVE IInv'
<1> DEFINE p == att[a].prof
<1>1. /\ att[a].pc = "dial" /\ conns' = conns \cup {a}
      /\ att' = [att EXCEPT ![a].pc = "store", ![a].opened = TRUE]
      /\ UNCHANGED <<sess, claims, calls, trusted, overtaken>>
  BY DEF DialOpens
<1>2. /\ p \in Profiles
      /\ p \notin overtaken => sess[p].state \notin {"absent", "idle", "failed"}
  BY <1>1, TryingProfile
<1>3. /\ att' \in [Attempts -> AttemptRecords]
      /\ att'[a].pc = "store" /\ att'[a].prof = p
      /\ \A b \in Attempts \ {a} : att'[b] = att[b]
  <2>1. att \in [Attempts -> AttemptRecords]
    BY DEF IInv, Typed
  <2>2. [att[a] EXCEPT !.pc = "store"] \in AttemptRecords
    BY <2>1 DEF AttemptRecords, Points
  <2>3. att'[a] = [[att[a] EXCEPT !.pc = "store"] EXCEPT !.opened = TRUE]
    BY <1>1, <2>1 DEF AttemptRecords
  <2>4. att'[a] \in AttemptRecords /\ att'[a].pc = "store" /\ att'[a].prof = p
    BY <2>1, <2>2, <2>3 DEF AttemptRecords
  <2> QED BY <1>1, <2>1, <2>4
<1>4. bound' \in [Attempts -> SUBSET Places]
  <2>1. Requested[p] \in SUBSET Places
    BY <1>2, ManagerConstants DEF Places
  <2>2. \A x \in Requested[p] : Fallback(x) \in Places
    BY <2>1 DEF Fallback, Places
  <2>3. \A S \in Bindings(a) : S \in SUBSET Places
    BY <2>1, <2>2 DEF Bindings
  <2> QED BY <2>3 DEF DialOpens, IInv, Typed
<1>5. Typed'
  BY <1>1, <1>3, <1>4 DEF IInv, Typed
<1>6. /\ \A b \in Attempts : (Trying(b)' <=> Trying(b)) /\ (HandedOver(b)' <=> HandedOver(b))
      /\ ~HandedOver(a)
  BY <1>1, <1>3 DEF Trying, HandedOver
<1>7. TryingAlone'
  BY <1>1, <1>3, <1>6 DEF IInv, TryingAlone
<1>8. HandleStored'
  BY <1>1, <1>3, <1>6 DEF IInv, Typed, HandleStored, SessionRecords
<1>9. ConnectionOwned'
  BY <1>1, <1>2, <1>3, <1>6 DEF IInv, Typed, ConnectionOwned
<1>10. CallCurrent'
  BY <1>1, <1>6 DEF IInv, CallCurrent
<1>11. ClaimHeld'
  BY <1>1, <1>3 DEF IInv, ClaimHeld
<1> QED BY <1>5, <1>7, <1>8, <1>9, <1>10, <1>11 DEF IInv

LEMMA StoreHandleInv == ASSUME IInv, NEW a \in Attempts, StoreHandle(a) PROVE IInv'
<1> DEFINE p == att[a].prof
<1>1. att[a].pc = "store" /\ UNCHANGED <<bound, calls, trusted, overtaken>>
  BY DEF StoreHandle
<1>2. p \in Profiles /\ a # None /\ (p \notin overtaken => sess[p].handle = None)
  BY <1>1, TryingProfile, ManagerConstants DEF None
<1>3. p \notin overtaken => \A b \in Attempts : Trying(b) /\ att[b].prof = p => b = a
  BY <1>1 DEF IInv, TryingAlone, Trying
<1>4. ~HandedOver(a) /\ \A q \in Profiles : sess[q].handle # a
  BY <1>1, <1>2 DEF IInv, HandleStored, HandedOver
<1>5. CASE p \in Present
  <2>1. /\ sess' = [sess EXCEPT ![p].state = "connected", ![p].handle = a]
        /\ Goto(a, "reconcile") /\ UNCHANGED <<conns, claims>>
    BY <1>5 DEF StoreHandle
  <2>2. /\ att' \in [Attempts -> AttemptRecords]
        /\ att'[a].pc = "reconcile" /\ att'[a].prof = p
        /\ \A b \in Attempts \ {a} : att'[b] = att[b]
    BY <2>1, GotoMoves DEF IInv, Points
  <2>3. /\ sess' \in [Profiles -> SessionRecords]
        /\ sess'[p].state = "connected" /\ sess'[p].handle = a
        /\ \A q \in Profiles \ {p} : sess'[q] = sess[q]
    BY <1>2, <2>1 DEF IInv, Typed, SessionRecords, States
  <2>4. Typed'
    BY <1>1, <2>1, <2>2, <2>3 DEF IInv, Typed
  <2>5. /\ ~Trying(a)' /\ HandedOver(a)'
        /\ \A b \in Attempts \ {a} : (Trying(b)' <=> Trying(b)) /\ (HandedOver(b)' <=> HandedOver(b))
    BY <2>2 DEF Trying, HandedOver
  <2>6. TryingAlone'
    BY <1>1, <1>3, <2>2, <2>3, <2>5 DEF IInv, TryingAlone
  <2>7. HandleStored'
    BY <1>1, <1>4, <2>2, <2>3, <2>5 DEF IInv, Typed, HandleStored, SessionRecords, Active
  <2>8. ConnectionOwned'
    <3>1. \A b \in conns : b # a /\ att[b].prof = p /\ p \notin overtaken => FALSE
      BY <1>2, <1>3, ManagerConstants DEF IInv, Typed, ConnectionOwned, Trying, None
    <3> QED BY <1>1, <1>2, <2>1, <2>2, <2>3, <2>5, <3>1 DEF IInv, Typed, ConnectionOwned
  <2>9. CallCurrent'
    BY <1>1, <2>1, <2>5 DEF IInv, CallCurrent
  <2>10. ClaimHeld'
    BY <1>1, <1>2, <2>1, <2>2, <2>3 DEF IInv, Typed, ClaimHeld
  <2> QED BY <2>4, <2>6, <2>7, <2>8, <2>9, <2>10 DEF IInv
<1>6. CASE p \notin Present
  <2>1. /\ conns' = conns \ {a} /\ claims' = Release(p) /\ Goto(a, "done") /\ UNCHANGED sess
    BY <1>6 DEF StoreHandle
  <2>2. /\ att' \in [Attempts -> AttemptRecords]
        /\ att'[a].pc = "done" /\ att'[a].prof = p
        /\ \A b \in Attempts \ {a} : att'[b] = att[b]
    BY <2>1, GotoMoves DEF IInv, Points
  <2>3. DOMAIN claims' = DOMAIN claims \ {p}
    BY <2>1 DEF Release
  <2>4. Typed'
    BY <1>1, <2>1, <2>2, <2>3 DEF IInv, Typed
  <2>5. /\ ~Trying(a)' /\ HandedOver(a)'
        /\ \A b \in Attempts \ {a} : (Trying(b)' <=> Trying(b)) /\ (HandedOver(b)' <=> HandedOver(b))
    BY <2>2 DEF Trying, HandedOver
  <2>6. TryingAlone'
    BY <1>1, <2>1, <2>2, <2>5 DEF IInv, TryingAlone
  <2>7. HandleStored'
    BY <1>1, <1>4, <2>1, <2>2, <2>5 DEF IInv, Typed, HandleStored, SessionRecords
  <2>8. ConnectionOwned'
    BY <1>1, <2>1, <2>2, <2>5 DEF IInv, Typed, ConnectionOwned
  <2>9. CallCurrent'
    BY <1>1, <2>1, <2>5 DEF IInv, CallCurrent
  <2>10. ClaimHeld'
    BY <1>1, <2>1, <2>2, <2>3 DEF IInv, Typed, ClaimHeld
  <2> QED BY <2>4, <2>6, <2>7, <2>8, <2>9, <2>10 DEF IInv
<1> QED BY <1>5, <1>6

(***************************************************************************)
(* The caller of Disconnect or ReplaceListener.                            *)
(***************************************************************************)

LEMMA CallStartsInv ==
  ASSUME IInv, NEW c \in Callers, NEW p \in Profiles, Disconnect(c, p) \/ ReplaceListener(c, p)
  PROVE  IInv'
<1> DEFINE h == sess[p].handle
<1>1. /\ h # None /\ UNCHANGED <<sess, att, conns, bound, claims, trusted, overtaken>>
      /\ h \in Attempts
  BY DEF Disconnect, ReplaceListener, IInv, Typed, SessionRecords
<1>2. PICK l \in {"close", "rebind"} : calls' = [calls EXCEPT ![c] = [pc |-> l, prof |-> p, conn |-> h]]
  BY DEF Disconnect, ReplaceListener
<1>3. /\ calls' \in [Callers -> CallRecords] /\ calls[c].pc = "none"
      /\ calls'[c].pc = l /\ calls'[c].prof = p /\ calls'[c].conn = h
      /\ \A d \in Callers \ {c} : calls'[d] = calls[d]
  BY <1>1, <1>2 DEF Disconnect, ReplaceListener, IInv, Typed, CallRecords
<1>4. Typed'
  BY <1>1, <1>3 DEF IInv, Typed
<1>5. TryingAlone' /\ HandleStored' /\ ConnectionOwned'
  BY <1>1 DEF IInv, TryingAlone, HandleStored, ConnectionOwned, Trying, HandedOver
<1>6. CallCurrent'
  <2>1. HandedOver(h)
    BY <1>1 DEF IInv, HandleStored
  <2> QED BY <1>1, <1>3, <2>1 DEF IInv, CallCurrent, HandedOver
<1>7. ClaimHeld'
  BY <1>1, <1>3 DEF IInv, ClaimHeld
<1> QED BY <1>4, <1>5, <1>6, <1>7 DEF IInv

\* Disconnect closes what it read, which nobody can open again.
LEMMA DisconnectClosesInv ==
  ASSUME IInv, NEW c \in Callers, DisconnectCloses(c)
  PROVE  IInv'
<1> DEFINE h == calls[c].conn
<1>1. /\ conns' = conns \ {h} /\ calls[c].pc = "close"
      /\ calls' = [calls EXCEPT ![c].pc = "reset"]
      /\ UNCHANGED <<sess, att, bound, claims, trusted, overtaken>>
  BY DEF DisconnectCloses
<1>2. calls[c].prof \in Profiles /\ h \in Attempts /\ HandedOver(h)
  BY <1>1 DEF IInv, CallCurrent
<1>3. /\ calls' \in [Callers -> CallRecords]
      /\ calls'[c].pc = "reset" /\ calls'[c].prof = calls[c].prof /\ calls'[c].conn = h
      /\ \A d \in Callers \ {c} : calls'[d] = calls[d]
  BY <1>1 DEF IInv, Typed, CallRecords
<1>4. Typed'
  BY <1>1, <1>3 DEF IInv, Typed
<1>5. TryingAlone' /\ HandleStored'
  BY <1>1 DEF IInv, TryingAlone, HandleStored, Trying, HandedOver
<1>6. ConnectionOwned'
  BY <1>1, <1>2 DEF IInv, ConnectionOwned, HandedOver
<1>7. CallCurrent'
  BY <1>1, <1>2, <1>3 DEF IInv, CallCurrent, HandedOver
<1>8. ClaimHeld'
  BY <1>1, <1>3 DEF IInv, ClaimHeld
<1> QED BY <1>4, <1>5, <1>6, <1>7, <1>8 DEF IInv

\* Disconnect resets the session of what it closed, or one that is idle or
\* failed; any other one is overtaken.
LEMMA Resets ==
  ASSUME IInv, NEW c \in Callers, DisconnectResets(c)
  PROVE  /\ calls[c].prof \in Profiles /\ calls[c].conn \in Attempts \ conns
         /\ overtaken \subseteq overtaken' /\ overtaken' \subseteq overtaken \cup {calls[c].prof}
         /\ sess' \in [Profiles -> SessionRecords]
         /\ \A q \in Profiles \ {calls[c].prof} : sess'[q] = sess[q]
         /\ \/ sess'[calls[c].prof] = sess[calls[c].prof] /\ calls[c].prof \notin Present
               /\ overtaken' = overtaken
            \/ /\ sess'[calls[c].prof].state = "idle" /\ sess'[calls[c].prof].handle = None
               /\ calls[c].prof \in Present
               /\ \/ sess[calls[c].prof].handle = calls[c].conn
                  \/ sess[calls[c].prof].state \in {"idle", "failed"}
                  \/ overtaken' = overtaken \cup {calls[c].prof}
<1> DEFINE p == calls[c].prof
<1>1. calls[c].pc = "reset" /\ p \in Profiles /\ calls[c].conn \in Attempts \ conns
  BY DEF DisconnectResets, IInv, CallCurrent
<1>2. CASE p \in Present
  <2>1. sess' = [sess EXCEPT ![p].state = "idle", ![p].handle = None]
    BY <1>2 DEF DisconnectResets
  <2>2. /\ sess' \in [Profiles -> SessionRecords]
        /\ sess'[p].state = "idle" /\ sess'[p].handle = None
        /\ \A q \in Profiles \ {p} : sess'[q] = sess[q]
    BY <1>1, <2>1 DEF IInv, Typed, SessionRecords, States
  <2> QED BY <1>1, <1>2, <2>2 DEF DisconnectResets, Overtakes, Present
<1>3. CASE p \notin Present
  BY <1>1, <1>3 DEF DisconnectResets, Overtakes, Present, IInv, Typed
<1> QED BY <1>2, <1>3

LEMMA DisconnectResetsInv ==
  ASSUME IInv, NEW c \in Callers, DisconnectResets(c)
  PROVE  IInv'
<1>1. PICK p, h : p = calls[c].prof /\ h = calls[c].conn
  OBVIOUS
<1>2. /\ calls[c].pc = "reset" /\ calls' = [calls EXCEPT ![c].pc = "release"]
      /\ UNCHANGED <<att, conns, bound, claims, trusted>>
  BY DEF DisconnectResets
<1>3. /\ p \in Profiles /\ h \in Attempts \ conns
      /\ overtaken \subseteq overtaken' /\ overtaken' \subseteq overtaken \cup {p}
      /\ sess' \in [Profiles -> SessionRecords]
      /\ \A q \in Profiles \ {p} : sess'[q] = sess[q]
      /\ \/ sess'[p] = sess[p]
         \/ /\ sess'[p].state = "idle" /\ sess'[p].handle = None
            /\ \/ sess[p].handle = h
               \/ sess[p].state \in {"idle", "failed"}
               \/ overtaken' = overtaken \cup {p}
  BY <1>1, Resets
<1>4. /\ calls' \in [Callers -> CallRecords]
      /\ calls'[c].pc = "release" /\ calls'[c].prof = p
      /\ \A d \in Callers \ {c} : calls'[d] = calls[d]
  BY <1>1, <1>2 DEF IInv, Typed, CallRecords
<1>5. Typed'
  BY <1>2, <1>3, <1>4 DEF IInv, Typed
<1>6. /\ \A a \in Attempts : Trying(a)' <=> Trying(a)
      /\ \A a : HandedOver(a)' <=> HandedOver(a)
  BY <1>2 DEF Trying, HandedOver
<1>7. \/ sess'[p] = sess[p] \/ p \in overtaken'
      \/ /\ \A a \in Attempts : Trying(a) => att[a].prof # p
         /\ \A a \in conns : att[a].prof # p
  <2>1. CASE sess[p].handle = h /\ p \notin overtaken
    <3>1. h # None
      BY <1>3, ManagerConstants DEF None
    <3>2. \A a \in Attempts : Trying(a) => att[a].prof # p
      BY <2>1, <3>1 DEF IInv, TryingAlone
    <3> QED BY <1>3, <2>1, <3>2 DEF IInv, Typed, ConnectionOwned, Trying
  <2>2. CASE sess[p].state \in {"idle", "failed"} /\ p \notin overtaken
    <3>1. sess[p].handle = None
      BY <1>3, <2>2 DEF IInv, HandleStored, Active
    <3>2. \A a \in Attempts : Trying(a) => att[a].prof # p
      BY <2>2 DEF IInv, TryingAlone
    <3> QED BY <2>2, <3>1, <3>2, ManagerConstants DEF IInv, Typed, ConnectionOwned, Trying, None
  <2> QED BY <1>3, <2>1, <2>2
<1>8. TryingAlone'
  BY <1>2, <1>3, <1>6, <1>7 DEF IInv, TryingAlone
<1>9. HandleStored'
  BY <1>2, <1>3, <1>6 DEF IInv, HandleStored
<1>10. ConnectionOwned'
  BY <1>2, <1>3, <1>6, <1>7 DEF IInv, Typed, ConnectionOwned
<1>11. CallCurrent'
  BY <1>2, <1>4, <1>6 DEF IInv, CallCurrent
<1>12. ClaimHeld'
  BY <1>2, <1>3, <1>4 DEF IInv, Typed, ClaimHeld
<1> QED BY <1>5, <1>8, <1>9, <1>10, <1>11, <1>12 DEF IInv

\* The listener moves, or the call returns and may have changed a claim.
LEMMA RebindsInv == ASSUME IInv, NEW c \in Callers, Rebinds(c) PROVE IInv'
<1>1. /\ calls[c].pc = "rebind" /\ calls' = [calls EXCEPT ![c].pc = "rebound"]
      /\ UNCHANGED <<sess, att, conns, claims, trusted, overtaken>>
  BY DEF Rebinds
<1>2. /\ calls' \in [Callers -> CallRecords] /\ calls'[c].pc = "rebound"
      /\ \A d \in Callers \ {c} : calls'[d] = calls[d]
  BY <1>1 DEF IInv, Typed, CallRecords
<1>3. bound' \in [Attempts -> SUBSET Places]
  <2>1. PICK x \in Addresses : bound' = [bound EXCEPT ![calls[c].conn] = {x}]
    BY DEF Rebinds
  <2>2. {x} \in SUBSET Places
    BY ManagerConstants DEF Places
  <2> QED BY <2>1, <2>2 DEF IInv, Typed
<1>4. Typed'
  BY <1>1, <1>2, <1>3 DEF IInv, Typed
<1>5. TryingAlone' /\ HandleStored' /\ ConnectionOwned'
  BY <1>1 DEF IInv, TryingAlone, HandleStored, ConnectionOwned, Trying, HandedOver
<1>6. CallCurrent' /\ ClaimHeld'
  BY <1>1, <1>2 DEF IInv, CallCurrent, ClaimHeld, HandedOver
<1> QED BY <1>4, <1>5, <1>6 DEF IInv

LEMMA CallEndsInv ==
  ASSUME IInv, NEW c \in Callers, DisconnectReleases(c) \/ RebindFails(c) \/ ReconcileOne(c)
  PROVE  IInv'
<1> DEFINE p == calls[c].prof
<1>1. /\ calls' = [calls EXCEPT ![c] = Returned]
      /\ UNCHANGED <<sess, att, conns, bound, trusted, overtaken>>
      /\ \/ calls[c].pc = "release" /\ DOMAIN claims' = DOMAIN claims \ {p}
         \/ calls[c].pc \in {"rebind", "rebound"} /\ DOMAIN claims' = DOMAIN claims
  BY DEF DisconnectReleases, RebindFails, ReconcileOne, Release, Claim, Claimed
<1>2. /\ calls' \in [Callers -> CallRecords] /\ calls'[c].pc = "none"
      /\ \A d \in Callers \ {c} : calls'[d] = calls[d]
  BY <1>1 DEF IInv, Typed, CallRecords, Returned
<1>3. Typed'
  BY <1>1, <1>2 DEF IInv, Typed
<1>4. TryingAlone' /\ HandleStored' /\ ConnectionOwned'
  BY <1>1 DEF IInv, TryingAlone, HandleStored, ConnectionOwned, Trying, HandedOver
<1>5. CallCurrent'
  BY <1>1, <1>2 DEF IInv, CallCurrent, HandedOver
<1>6. ClaimHeld'
  BY <1>1, <1>2 DEF IInv, ClaimHeld
<1> QED BY <1>3, <1>4, <1>5, <1>6 DEF IInv

(***************************************************************************)
(* The invariant holds.                                                    *)
(***************************************************************************)

LEMMA NextInv == IInv /\ [Next]_vars => IInv'
<1> SUFFICES ASSUME IInv, [Next]_vars PROVE IInv'
  OBVIOUS
<1>1. CASE UNCHANGED vars
  BY <1>1 DEF vars, IInv, Typed, TryingAlone, HandleStored, ConnectionOwned, CallCurrent, ClaimHeld,
     Trying, HandedOver
<1>2. ASSUME NEW p \in Profiles,
             \/ AddProfile(p) \/ RemoveProfile(p) \/ ClearError(p)
             \/ AnswerPassphrase(p) \/ AnswerTrust(p)
             \/ \E a \in Attempts : Connect(p, a)
             \/ \E c \in Callers : Disconnect(c, p) \/ ReplaceListener(c, p)
      PROVE  IInv'
  BY <1>2, ProfileInv, AnswerInv, ConnectInv, CallStartsInv
<1>3. ASSUME NEW a \in Attempts, Attempt(a) PROVE IInv'
  BY <1>3, ResolveInv, AnsweredInv, ReservePortsInv, DialOpensInv, GivesUpInv, SetFailedInv,
     StoreHandleInv, ReconcileInv DEF Attempt
<1>4. ASSUME NEW a \in Attempts, HandleEvent(a, "connected") \/ HandleEvent(a, "reconnecting")
      PROVE  IInv'
  BY <1>4, EventInv
<1>5. ASSUME NEW c \in Callers, Return(c) PROVE IInv'
  BY <1>5, DisconnectClosesInv, DisconnectResetsInv, RebindsInv, CallEndsInv DEF Return
<1> QED BY <1>1, <1>2, <1>3, <1>4, <1>5 DEF Next

\* The inductive invariant: runConnect, setFailed, storeHandle, Disconnect and
\* handleEvent, each under Manager.mu only now and then, agree on whose the
\* attempt, the handle, the connection and the claims of a profile are.
THEOREM ManagerInvariant == Spec => []IInv
BY InitInv, NextInv, PTL DEF Spec

LEMMA NoLeaks == IInv => NoClaimLeaks
BY DEF IInv, ClaimHeld, NoClaimLeaks

\* A claim on a local address is the connected profile's, or that of an attempt
\* or of a call of Disconnect under way: every early return of runConnect,
\* setFailed and Disconnect gives it back.
THEOREM ClaimsNeverLeak == Spec => []NoClaimLeaks
BY ManagerInvariant, NoLeaks, PTL

LEMMA Owners == IInv => NoOrphan
BY DEF IInv, ConnectionOwned, NoOrphan

\* RemoveProfile and overlapping calls of Disconnect, whatever an attempt is
\* doing, leave no running connection that neither a session nor an attempt
\* will close, unless a Disconnect resets a session it did not close.
THEOREM ConnectionsAreOwned == Spec => []NoOrphan
BY ManagerInvariant, Owners, PTL

(***************************************************************************)
(* The manager implements the life cycle of a profile.                     *)
(***************************************************************************)

Phased == [p \in Profiles |-> Phase(p)]
Running == {att[a].prof : a \in conns} \ overtaken
Drawn == <<Phased, Running>>

LEMMA LifecycleInit == Init => Lifecycle!Init
<1> SUFFICES ASSUME Init PROVE Lifecycle!Init
  OBVIOUS
<1>1. \A p \in Profiles : Phase(p) \in {"absent", "idle"}
  BY DEF Init, NewSession, Phase
<1>2. {att[a].prof : a \in conns} \ overtaken = {}
  BY DEF Init
<1> QED BY <1>1, <1>2 DEF Lifecycle!Init

\* The abstract step is on the one profile whose session changes.
LEMMA PhaseMoves ==
  ASSUME Typed, Typed', NEW p \in Profiles, \A q \in Profiles \ {p} : sess'[q] = sess[q],
         overtaken' \ {p} = overtaken \ {p}
  PROVE  Phased' = [Phased EXCEPT ![p] = Phase(p)']
<1>1. \A q \in Profiles \ {p} : Phase(q)' = Phase(q)
  BY DEF Phase
<1> QED BY <1>1 DEF Phased

LEMMA Moves ==
  ASSUME Typed, Typed', NEW p \in Profiles, NEW from, NEW to, UNCHANGED overtaken,
         \A q \in Profiles \ {p} : sess'[q] = sess[q],
         Phase(p) \in from, Phase(p)' = to, Running' = Running
  PROVE  Lifecycle!Move(p, from, to)
<1>1. Phased' = [Phased EXCEPT ![p] = to]
  BY PhaseMoves
<1> QED BY <1>1 DEF Lifecycle!Move, Phased, Running

LEMMA SamePhases ==
  ASSUME Typed, Typed', NEW p \in Profiles, \A q \in Profiles \ {p} : sess'[q] = sess[q],
         UNCHANGED overtaken, Phase(p)' = Phase(p)
  PROVE  Phased' = Phased
<1>1. \A q \in Profiles : Phase(q)' = Phase(q)
  BY DEF Phase
<1> QED BY <1>1 DEF Phased

LEMMA SameSessions == ASSUME UNCHANGED <<sess, overtaken>> PROVE Phased' = Phased
BY DEF Phased, Phase

LEMMA SameRunning ==
  ASSUME Typed, conns' = conns, \A a \in Attempts : att'[a].prof = att[a].prof, UNCHANGED overtaken
  PROVE  Running' = Running
BY DEF Running, Typed

\* What becomes of a profile that was overtaken does not show.
LEMMA OvertakenStep ==
  ASSUME Typed, Typed', NEW p \in overtaken, UNCHANGED overtaken,
         \A q \in Profiles \ {p} : sess'[q] = sess[q], Running' = Running
  PROVE  UNCHANGED Drawn
<1>1. p \in Profiles /\ Phase(p)' = Phase(p)
  BY DEF Typed, Phase
<1> QED BY <1>1, SamePhases DEF Drawn

LEMMA TryingPhase ==
  ASSUME IInv, NEW a \in Attempts, Trying(a), att[a].prof \notin overtaken
  PROVE  /\ att[a].prof \in Present => Phase(att[a].prof) = "connecting"
         /\ att[a].prof \notin Present => Phase(att[a].prof) = "removed"
<1>1. /\ att[a].prof \in Profiles /\ sess[att[a].prof].handle = None
      /\ sess[att[a].prof].state \notin {"absent", "idle", "failed"}
  BY DEF IInv, TryingAlone
<1> QED BY <1>1 DEF Present, Phase

\* A profile has one connection.
LEMMA OneConnection ==
  ASSUME IInv, NEW a \in conns, NEW b \in conns, att[a].prof = att[b].prof,
         att[a].prof \notin overtaken
  PROVE  a = b
<1>1. a \in Attempts /\ b \in Attempts
  BY DEF IInv, Typed
<1>2. \A d \in conns : att[d].pc = "store" => Trying(d)
  BY DEF Trying
<1> QED BY <1>1, <1>2, ManagerConstants DEF IInv, ConnectionOwned, TryingAlone, None

LEMMA ProfileStep ==
  ASSUME IInv, IInv', NEW p \in Profiles,
         AddProfile(p) \/ RemoveProfile(p) \/ ClearError(p) \/ \E a \in Attempts : Connect(p, a)
  PROVE  Lifecycle!Next \/ UNCHANGED Drawn
<1>1. conns' = conns /\ UNCHANGED overtaken /\ \A a \in conns : att'[a].prof = att[a].prof
  <2>1. CASE \E a \in Attempts : Connect(p, a)
    <3>1. PICK a \in Attempts : Connect(p, a)
      BY <2>1
    <3>2. att[a].pc = "unused" /\ att' = [att EXCEPT ![a] = [NotYet EXCEPT !.pc = "key", !.prof = p]]
      BY <3>1 DEF Connect, NotYet
    <3>3. a \notin conns
      BY <3>2 DEF IInv, ConnectionOwned, HandedOver
    <3> QED BY <3>1, <3>2, <3>3 DEF Connect, IInv, Typed
  <2> QED BY <2>1 DEF AddProfile, RemoveProfile, ClearError
<1>2. Running' = Running
  BY <1>1 DEF Running
<1>3. Typed /\ Typed' /\ sess[p].handle = None
  BY DEF IInv, AddProfile, RemoveProfile, ClearError, Connect, HandleStored, Active
<1>4. \A q \in Profiles \ {p} : sess'[q] = sess[q]
  BY <1>3 DEF AddProfile, RemoveProfile, ClearError, Connect, Typed
<1>5. CASE AddProfile(p) /\ p \notin overtaken
  <2>1. Phase(p) = "absent" /\ Phase(p)' = "idle"
    BY <1>1, <1>3, <1>5 DEF AddProfile, Phase, NewSession, Typed
  <2> QED BY <1>1, <1>2, <1>3, <1>4, <2>1, Moves DEF Lifecycle!Next, Lifecycle!Add
<1>6. CASE RemoveProfile(p) /\ p \notin overtaken
  <2>1. Phase(p) \in {"idle", "connecting", "failed"}
    BY <1>1, <1>3, <1>6 DEF RemoveProfile, Present, Phase, Typed, SessionRecords, States
  <2>2. Phase(p)' = "removed"
    BY <1>1, <1>3, <1>6 DEF RemoveProfile, Phase, NewSession, Typed
  <2> QED BY <1>1, <1>2, <1>3, <1>4, <2>1, <2>2, Moves DEF Lifecycle!Next, Lifecycle!Remove
<1>7. CASE ClearError(p) /\ p \notin overtaken
  <2>1. Phase(p) = "failed" /\ Phase(p)' = "idle"
    BY <1>1, <1>3, <1>7 DEF ClearError, Phase, Typed, SessionRecords
  <2> QED BY <1>1, <1>2, <1>3, <1>4, <2>1, Moves DEF Lifecycle!Next, Lifecycle!Clear
<1>8. CASE p \notin overtaken /\ \E a \in Attempts : Connect(p, a)
  <2>1. Phase(p) \in {"idle", "failed"}
    <3>1. sess[p].state \in {"idle", "failed"}
      BY <1>8 DEF Connect
    <3> QED BY <1>3, <1>8, <3>1 DEF Phase
  <2>2. sess' = [sess EXCEPT ![p].state = "connecting"]
    BY <1>8 DEF Connect
  <2>3. sess'[p].state = "connecting" /\ sess'[p].handle = None
    BY <1>3, <2>2 DEF Typed, SessionRecords
  <2>4. Phase(p)' = "connecting"
    BY <1>1, <1>8, <2>3 DEF Phase
  <2> QED BY <1>1, <1>2, <1>3, <1>4, <2>1, <2>4, Moves DEF Lifecycle!Next, Lifecycle!Start
<1>9. CASE p \in overtaken
  BY <1>1, <1>2, <1>3, <1>4, <1>9, OvertakenStep
<1> QED BY <1>5, <1>6, <1>7, <1>8, <1>9

\* Steps that the user does not see.
LEMMA HiddenStep ==
  ASSUME IInv, IInv', conns' = conns, \A a \in Attempts : att'[a].prof = att[a].prof,
         UNCHANGED overtaken, NEW p \in Profiles, \A q \in Profiles \ {p} : sess'[q] = sess[q], Phase(p)' = Phase(p)
  PROVE  UNCHANGED Drawn
BY SamePhases, SameRunning DEF IInv, Drawn

LEMMA UnseenStep ==
  ASSUME IInv, IInv', UNCHANGED <<sess, conns, overtaken>>, \A a \in Attempts : att'[a].prof = att[a].prof
  PROVE  UNCHANGED Drawn
BY SameSessions, SameRunning DEF IInv, Drawn

LEMMA QuietStep ==
  ASSUME IInv, IInv', NEW a \in Attempts,
         \/ ResolvePassphrase(a) \/ PassphraseAnswered(a) \/ ReservePorts(a)
         \/ DialFails(a) \/ DialUnknown(a) \/ ResolveTrust(a) \/ TrustAnswered(a)
         \/ FailReleases(a) \/ ReadState(a) \/ Reconcile(a)
  PROVE  UNCHANGED Drawn
<1> DEFINE p == att[a].prof
<1>1. conns' = conns /\ UNCHANGED overtaken
  BY DEF ResolvePassphrase, PassphraseAnswered, ReservePorts, DialFails, DialUnknown, ResolveTrust,
     TrustAnswered, FailReleases, ReadState, Reconcile, Answered
<1>2. \/ \E l : att' = [att EXCEPT ![a].pc = l]
      \/ \E l : att' = [att EXCEPT ![a].pc = l, ![a].answer = "none"]
      \/ \E l, S : att' = [att EXCEPT ![a].pc = l, ![a].seen = S]
  BY Zenon DEF ResolvePassphrase, PassphraseAnswered, ReservePorts, DialFails, DialUnknown,
     ResolveTrust, TrustAnswered, FailReleases, ReadState, Reconcile, Answered, Ask, Goto
<1>3. \A b \in Attempts : att'[b].prof = att[b].prof
  <2>1. att \in [Attempts -> AttemptRecords]
    BY DEF IInv, Typed
  <2>2. CASE \E l : att' = [att EXCEPT ![a].pc = l]
    BY <2>1, <2>2 DEF AttemptRecords
  <2>3. CASE \E l : att' = [att EXCEPT ![a].pc = l, ![a].answer = "none"]
    BY <2>1, <2>3 DEF AttemptRecords
  <2>4. CASE \E l, S : att' = [att EXCEPT ![a].pc = l, ![a].seen = S]
    BY <2>1, <2>4 DEF AttemptRecords
  <2> QED BY <1>2, <2>2, <2>3, <2>4
<1>4. CASE UNCHANGED sess
  BY <1>1, <1>3, <1>4, UnseenStep
<1>5. CASE /\ p \in Present /\ Trying(a)
           /\ \E w \in {"connecting", "awaiting_trust", "awaiting_passphrase"},
                r \in Attempts \cup {None} :
                sess' = [sess EXCEPT ![p].state = w, ![p].reply = r]
  <2>1. PICK k : k = p
    OBVIOUS
  <2>2. /\ k \in Profiles
        /\ k \notin overtaken => sess[k].handle = None /\ Phase(k) = "connecting"
    BY <1>5, <2>1, TryingPhase DEF IInv, TryingAlone
  <2>3. PICK w \in {"connecting", "awaiting_trust", "awaiting_passphrase"},
             r \in Attempts \cup {None} :
               sess' = [sess EXCEPT ![k].state = w, ![k].reply = r]
    BY <1>5, <2>1
  <2>4. w \in States /\ Typed
    BY DEF States, IInv
  <2>5. /\ sess'[k].state = w /\ sess'[k].handle = sess[k].handle
        /\ \A q \in Profiles \ {k} : sess'[q] = sess[q]
    BY <2>2, <2>3, <2>4, StateMoves, Zenon
  <2>6. Phase(k)' = Phase(k)
    BY <1>1, <2>2, <2>5 DEF Phase
  <2> QED BY <1>1, <1>3, <2>2, <2>5, <2>6, HiddenStep
<1>6. CASE ~UNCHANGED sess
  <2>1. CASE ResolvePassphrase(a) \/ ResolveTrust(a)
    BY <1>5, <1>6, <2>1 DEF ResolvePassphrase, ResolveTrust, Ask, Trying
  <2>2. CASE PassphraseAnswered(a) \/ TrustAnswered(a)
    BY <1>5, <1>6, <2>2 DEF PassphraseAnswered, TrustAnswered, Answered, Trying
  <2> QED BY <1>6, <2>1, <2>2 DEF ReservePorts, DialFails, DialUnknown, FailReleases, ReadState, Reconcile
<1> QED BY <1>4, <1>6

LEMMA EventStep ==
  ASSUME IInv, IInv', NEW a \in Attempts, NEW s \in {"connected", "reconnecting"}, HandleEvent(a, s)
  PROVE  UNCHANGED Drawn
<1>1. PICK p : p = att[a].prof
  OBVIOUS
<1>2. /\ UNCHANGED <<att, conns, overtaken>> /\ p \in Profiles
      /\ sess[p].state \in {"connecting", "connected", "reconnecting"}
      /\ sess' = [sess EXCEPT ![p].state = s] /\ s \in States /\ Typed
  BY <1>1 DEF HandleEvent, Present, States, IInv
<1>3. /\ sess'[p].state = s /\ sess'[p].handle = sess[p].handle
      /\ \A q \in Profiles \ {p} : sess'[q] = sess[q]
  BY <1>2, StateMoves, Zenon
<1>4. Phase(p)' = Phase(p)
  BY <1>2, <1>3 DEF Phase
<1> QED BY <1>2, <1>3, <1>4, HiddenStep

LEMMA DialOpensStep ==
  ASSUME IInv, IInv', NEW a \in Attempts, DialOpens(a)
  PROVE  Lifecycle!Next \/ UNCHANGED Drawn
<1>1. PICK p : p = att[a].prof
  OBVIOUS
<1>2. /\ att[a].pc = "dial" /\ UNCHANGED <<sess, overtaken>> /\ conns' = conns \cup {a}
      /\ att' = [att EXCEPT ![a].pc = "store", ![a].opened = TRUE]
  BY DEF DialOpens
<1>3. /\ p \in Profiles
      /\ p \notin overtaken => Phase(p) \in {"connecting", "removed"} /\ sess[p].handle = None
  BY <1>1, <1>2, TryingPhase, TryingProfile DEF Trying
<1>4. \A b \in Attempts : att'[b].prof = att[b].prof
  BY <1>2 DEF IInv, Typed, AttemptRecords
<1>5. p \notin Running
  <2> SUFFICES ASSUME NEW b \in conns, att[b].prof = p, p \notin overtaken PROVE FALSE
    BY DEF Running
  <2>1. b \in Attempts /\ att[b].pc = "store"
    BY <1>3, ManagerConstants DEF IInv, Typed, ConnectionOwned, None
  <2>2. b = a
    BY <1>1, <1>2, <2>1 DEF IInv, TryingAlone, Trying
  <2> QED BY <1>2, <2>1, <2>2
<1>6. Running' = Running \cup ({p} \ overtaken)
  BY <1>1, <1>2, <1>4 DEF Running, IInv, Typed
<1>7. Phased' = Phased /\ Phased[p] = Phase(p)
  BY <1>2, <1>3, SameSessions DEF Phased
<1>8. CASE p \notin overtaken
  <2>1. Lifecycle!Open(p)
    BY <1>3, <1>5, <1>6, <1>7, <1>8 DEF Lifecycle!Open, Phased, Running
  <2> QED BY <1>3, <2>1 DEF Lifecycle!Next
<1>9. CASE p \in overtaken
  BY <1>6, <1>7, <1>9 DEF Drawn
<1> QED BY <1>8, <1>9

LEMMA SetFailedStep ==
  ASSUME IInv, IInv', NEW a \in Attempts, SetFailed(a)
  PROVE  Lifecycle!Next \/ UNCHANGED Drawn
<1>1. PICK p : p = att[a].prof
  OBVIOUS
<1>2. /\ att[a].pc = "failed" /\ UNCHANGED <<conns, overtaken>> /\ att' = [att EXCEPT ![a].pc = "done"]
      /\ p \in Present => sess' = [sess EXCEPT ![p].state = "failed", ![p].handle = None,
                                               ![p].reply = None]
      /\ p \notin Present => UNCHANGED sess
  BY <1>1 DEF SetFailed, Goto
<1>3. /\ p \in Profiles
      /\ p \notin overtaken => /\ sess[p].handle = None
                               /\ p \in Present => Phase(p) = "connecting"
  BY <1>1, <1>2, TryingPhase, TryingProfile DEF Trying
<1>4. \A b \in Attempts : att'[b].prof = att[b].prof
  BY <1>2 DEF IInv, Typed, AttemptRecords
<1>5. CASE p \notin Present
  BY <1>2, <1>4, <1>5, UnseenStep
<1>6. CASE p \in Present /\ p \notin overtaken
  <2>1. sess'[p].state = "failed" /\ \A q \in Profiles \ {p} : sess'[q] = sess[q]
    BY <1>2, <1>3, <1>6 DEF IInv, Typed, SessionRecords
  <2>2. p \notin Running
    <3> SUFFICES ASSUME NEW b \in conns, att[b].prof = p PROVE FALSE
      BY DEF Running
    <3>1. b \in Attempts /\ att[b].pc = "store"
      BY <1>3, <1>6, ManagerConstants DEF IInv, Typed, ConnectionOwned, None
    <3>2. b = a
      BY <1>1, <1>2, <1>6, <3>1 DEF IInv, TryingAlone, Trying
    <3> QED BY <1>2, <3>1, <3>2
  <2>3. sess'[p].handle = None
    BY <1>3, <2>1 DEF IInv, HandleStored, Active
  <2>4. Phase(p)' = "failed"
    BY <1>2, <1>6, <2>1, <2>3 DEF Phase
  <2>5. Lifecycle!Move(p, {"connecting"}, "failed")
    BY <1>2, <1>3, <1>4, <1>6, <2>1, <2>4, Moves, SameRunning DEF IInv
  <2> QED BY <1>3, <2>2, <2>5 DEF Lifecycle!Next, Lifecycle!Fail, Running
<1>7. CASE p \in Present /\ p \in overtaken
  <2>1. \A q \in Profiles \ {p} : sess'[q] = sess[q]
    BY <1>2, <1>7 DEF IInv, Typed
  <2> QED BY <1>2, <1>4, <1>7, <2>1, SameRunning, OvertakenStep DEF IInv
<1> QED BY <1>5, <1>6, <1>7

LEMMA StoreHandleStep ==
  ASSUME IInv, IInv', NEW a \in Attempts, StoreHandle(a)
  PROVE  Lifecycle!Next \/ UNCHANGED Drawn
<1>1. PICK p : p = att[a].prof
  OBVIOUS
<1>2. /\ att[a].pc = "store" /\ UNCHANGED overtaken
      /\ p \in Present =>
           /\ sess' = [sess EXCEPT ![p].state = "connected", ![p].handle = a]
           /\ Goto(a, "reconcile") /\ conns' = conns
      /\ p \notin Present => UNCHANGED sess /\ Goto(a, "done") /\ conns' = conns \ {a}
  BY <1>1 DEF StoreHandle
<1>3. /\ p \in Profiles /\ a \in conns /\ a # None
      /\ p \notin overtaken => /\ p \in Present => Phase(p) = "connecting"
                               /\ p \notin Present => Phase(p) = "removed"
  BY <1>1, <1>2, TryingPhase, TryingProfile, ManagerConstants DEF Trying, IInv, ConnectionOwned, None
<1>4. \A b \in Attempts : att'[b].prof = att[b].prof
  BY <1>2 DEF IInv, Typed, AttemptRecords, Goto
<1>5. p \notin overtaken => p \in Running
  BY <1>1, <1>3 DEF Running
<1>6. CASE p \in Present /\ p \notin overtaken
  <2>1. /\ sess'[p].state = "connected" /\ sess'[p].handle = a
        /\ \A q \in Profiles \ {p} : sess'[q] = sess[q]
    BY <1>2, <1>3, <1>6 DEF IInv, Typed, SessionRecords
  <2>2. Phase(p)' = "connected"
    BY <1>2, <1>3, <1>6, <2>1 DEF Phase
  <2>3. Lifecycle!Move(p, {"connecting"}, "connected")
    BY <1>2, <1>3, <1>4, <1>6, <2>1, <2>2, Moves, SameRunning DEF IInv
  <2> QED BY <1>3, <1>5, <1>6, <2>3 DEF Lifecycle!Next, Lifecycle!Succeed, Running
<1>7. CASE p \notin Present /\ p \notin overtaken
  <2>1. Running' = Running \ {p}
    <3>1. \A b \in conns : att[b].prof = p => b = a
      BY <1>1, <1>3, <1>7, OneConnection
    <3> QED BY <1>1, <1>2, <1>4, <1>7, <3>1 DEF Running, IInv, Typed
  <2>2. Phased' = Phased /\ Phased[p] = "removed"
    BY <1>2, <1>3, <1>7, SameSessions DEF Phased
  <2>3. Lifecycle!Close(p)
    BY <1>5, <1>7, <2>1, <2>2 DEF Lifecycle!Close, Phased, Running
  <2> QED BY <1>3, <2>3 DEF Lifecycle!Next
<1>8. CASE p \in overtaken
  <2>1. Running' = Running
    BY <1>1, <1>2, <1>4, <1>8 DEF Running, IInv, Typed
  <2>2. \A q \in Profiles \ {p} : sess'[q] = sess[q]
    BY <1>2 DEF IInv, Typed
  <2> QED BY <1>2, <1>8, <2>1, <2>2, OvertakenStep DEF IInv
<1> QED BY <1>6, <1>7, <1>8

\* What Disconnect closes is its profile's connection, or is closed already.
LEMMA CloseStep ==
  ASSUME IInv, IInv', NEW c \in Callers, DisconnectCloses(c)
  PROVE  Lifecycle!Next \/ UNCHANGED Drawn
<1>1. PICK h : h = calls[c].conn
  OBVIOUS
<1>2. /\ UNCHANGED <<sess, att, overtaken>> /\ conns' = conns \ {h}
      /\ h \in Attempts /\ HandedOver(h)
  BY <1>1 DEF DisconnectCloses, IInv, CallCurrent
<1>3. PICK p : p = att[h].prof
  OBVIOUS
<1>4. CASE h \in conns /\ p \notin overtaken
  <2>1. p \in Profiles /\ sess[p].handle = h /\ h # None
    BY <1>2, <1>3, <1>4, ManagerConstants DEF IInv, ConnectionOwned, HandedOver, None
  <2>2. Phase(p) = "connected"
    BY <1>4, <2>1 DEF IInv, HandleStored, Phase
  <2>3. Phased' = Phased /\ Phased[p] = "connected"
    BY <1>2, <2>1, <2>2, SameSessions DEF Phased
  <2>4. \A b \in conns : att[b].prof = p => b = h
    BY <1>3, <1>4, OneConnection
  <2>5. Running' = Running \ {p} /\ p \in Running
    BY <1>2, <1>3, <1>4, <2>4 DEF Running
  <2>6. Lifecycle!Close(p)
    BY <2>3, <2>5 DEF Lifecycle!Close, Phased, Running
  <2> QED BY <2>1, <2>6 DEF Lifecycle!Next
<1>5. CASE h \notin conns \/ p \in overtaken
  <2>1. Running' = Running
    BY <1>2, <1>3, <1>5 DEF Running
  <2> QED BY <1>2, <2>1, SameSessions DEF Drawn
<1> QED BY <1>4, <1>5

LEMMA ResetStep ==
  ASSUME IInv, IInv', NEW c \in Callers, DisconnectResets(c)
  PROVE  Lifecycle!Next \/ UNCHANGED Drawn
<1>1. PICK p, h : p = calls[c].prof /\ h = calls[c].conn
  OBVIOUS
<1>2. /\ p \in Profiles /\ h \in Attempts \ conns /\ UNCHANGED <<att, conns>>
      /\ overtaken \subseteq overtaken' /\ overtaken' \subseteq overtaken \cup {p}
      /\ \A q \in Profiles \ {p} : sess'[q] = sess[q]
      /\ \/ sess'[p] = sess[p] /\ overtaken' = overtaken
         \/ /\ sess'[p].state = "idle" /\ sess'[p].handle = None /\ p \in Present
            /\ \/ sess[p].handle = h
               \/ sess[p].state \in {"idle", "failed"}
               \/ overtaken' = overtaken \cup {p}
  BY <1>1, Resets DEF DisconnectResets
<1>3. Typed /\ Typed' /\ \A a \in Attempts : att'[a].prof = att[a].prof
  BY <1>2 DEF IInv
<1>4. UNCHANGED overtaken => Running' = Running
  BY <1>2, <1>3, SameRunning
<1>5. CASE p \in overtaken
  BY <1>2, <1>3, <1>4, <1>5, OvertakenStep
<1>6. CASE sess'[p] = sess[p] /\ p \notin overtaken /\ UNCHANGED overtaken
  BY <1>2, <1>3, <1>4, <1>6, HiddenStep DEF Phase
<1>7. CASE /\ p \in overtaken' /\ p \notin overtaken /\ p \in Present
           /\ ~(sess[p].state \in {"idle", "failed"})
  <2>1. Phase(p) \in {"connecting", "connected"} /\ Phase(p)' = "overtaken"
    <3>1. sess[p].state \notin {"absent", "removed", "idle", "failed"}
      BY <1>2, <1>7 DEF Present
    <3>2. Phase(p) = IF sess[p].handle # None THEN "connected" ELSE "connecting"
      BY <1>7, <3>1 DEF Phase
    <3> QED BY <1>7, <3>2 DEF Phase
  <2>2. Phased' = [Phased EXCEPT ![p] = "overtaken"] /\ Phased[p] = Phase(p)
    BY <1>2, <1>3, <2>1, PhaseMoves DEF Phased
  <2>3. Running' = Running \ {p}
    BY <1>2, <1>7 DEF Running
  <2>4. Lifecycle!Overtake(p)
    BY <2>1, <2>2, <2>3 DEF Lifecycle!Overtake, Phased, Running
  <2> QED BY <1>2, <2>4 DEF Lifecycle!Next
<1>8. CASE /\ sess[p].state \in {"idle", "failed"} /\ sess'[p].state = "idle"
           /\ p \notin overtaken'
  <2>1. Phase(p) = sess[p].state /\ Phase(p)' = "idle" /\ UNCHANGED overtaken
    BY <1>2, <1>8 DEF Phase
  <2>2. CASE sess[p].state = "idle"
    BY <1>2, <1>3, <2>1, <2>2, HiddenStep
  <2>3. CASE sess[p].state = "failed"
    <3>1. Lifecycle!Move(p, {"failed"}, "idle")
      BY <1>2, <1>3, <1>4, <2>1, <2>3, Moves
    <3> QED BY <1>2, <3>1 DEF Lifecycle!Next, Lifecycle!Clear
  <2> QED BY <1>8, <2>2, <2>3
<1>9. CASE sess[p].handle = h /\ sess'[p].state = "idle" /\ p \notin overtaken'
  <2>1. h # None /\ UNCHANGED overtaken
    BY <1>2, <1>9, ManagerConstants DEF None
  <2>2. Phase(p) = "connected" /\ Phase(p)' = "idle"
    BY <1>2, <1>9, <2>1 DEF IInv, HandleStored, Phase
  <2>3. p \notin Running
    <3> SUFFICES ASSUME NEW b \in conns, att[b].prof = p PROVE FALSE
      BY DEF Running
    <3>1. b \in Attempts /\ (Trying(b) \/ sess[p].handle = b)
      BY <1>2, <1>9 DEF IInv, Typed, ConnectionOwned, Trying
    <3> QED BY <1>2, <1>9, <2>1, <3>1 DEF IInv, TryingAlone
  <2>4. Lifecycle!Move(p, {"connected"}, "idle")
    BY <1>2, <1>3, <1>4, <2>1, <2>2, Moves
  <2> QED BY <1>2, <2>3, <2>4 DEF Lifecycle!Next, Lifecycle!Stop, Running
<1>10. CASE p \in overtaken' /\ p \notin overtaken /\ sess[p].state \in {"idle", "failed"}
  BY <1>1, <1>10 DEF DisconnectResets, Overtakes
<1> QED BY <1>2, <1>5, <1>6, <1>7, <1>8, <1>9, <1>10

LEMMA LifecycleStep ==
  ASSUME IInv, IInv', [Next]_vars
  PROVE  Lifecycle!Next \/ UNCHANGED Drawn
<1>1. CASE UNCHANGED vars
  BY <1>1, UnseenStep DEF vars
<1>2. ASSUME NEW p \in Profiles,
             \/ AddProfile(p) \/ RemoveProfile(p) \/ ClearError(p)
             \/ \E a \in Attempts : Connect(p, a)
      PROVE  Lifecycle!Next \/ UNCHANGED Drawn
  BY <1>2, ProfileStep
<1>3. ASSUME NEW p \in Profiles, AnswerPassphrase(p) \/ AnswerTrust(p)
      PROVE  UNCHANGED Drawn
  <2>1. /\ UNCHANGED <<sess, conns, overtaken>> /\ sess[p].reply \in Attempts
        /\ \E v \in {"yes", "no"} : att' = [att EXCEPT ![sess[p].reply].answer = v]
    BY <1>3 DEF AnswerPassphrase, AnswerTrust, Answer, IInv, Typed, SessionRecords
  <2>2. \A b \in Attempts : att'[b].prof = att[b].prof
    BY <2>1 DEF IInv, Typed, AttemptRecords
  <2> QED BY <2>1, <2>2, UnseenStep
<1>4. ASSUME NEW c \in Callers, NEW p \in Profiles, Disconnect(c, p) \/ ReplaceListener(c, p)
      PROVE  UNCHANGED Drawn
  BY <1>4, UnseenStep DEF Disconnect, ReplaceListener
<1>5. ASSUME NEW a \in Attempts, Attempt(a) PROVE Lifecycle!Next \/ UNCHANGED Drawn
  BY <1>5, QuietStep, DialOpensStep, SetFailedStep, StoreHandleStep DEF Attempt
<1>6. ASSUME NEW a \in Attempts, HandleEvent(a, "connected") \/ HandleEvent(a, "reconnecting")
      PROVE  UNCHANGED Drawn
  BY <1>6, EventStep
<1>7. ASSUME NEW c \in Callers, Return(c) PROVE Lifecycle!Next \/ UNCHANGED Drawn
  <2>1. CASE DisconnectCloses(c) \/ DisconnectResets(c)
    BY <2>1, CloseStep, ResetStep
  <2>2. CASE DisconnectReleases(c) \/ Rebinds(c) \/ RebindFails(c) \/ ReconcileOne(c)
    BY <2>2, UnseenStep DEF DisconnectReleases, Rebinds, RebindFails, ReconcileOne
  <2> QED BY <1>7, <2>1, <2>2 DEF Return
<1> QED BY <1>1, <1>2, <1>3, <1>4, <1>5, <1>6, <1>7 DEF Next

\* The manager's goroutines show the user the life cycle that the comment on
\* State draws: every critical section of runConnect, Disconnect and
\* handleEvent is one of its steps or does not show.
THEOREM ManagerImplementsLifecycle == Spec => ImplementsLifecycle
<1>1. IInv /\ IInv' /\ [Next]_vars => [Lifecycle!Next]_<<Phased, Running>>
  BY LifecycleStep DEF Drawn
<1> QED BY <1>1, LifecycleInit, ManagerInvariant, PTL
     DEF Spec, ImplementsLifecycle, Lifecycle!Spec, Phased, Running

(***************************************************************************)
(* The process and its settings window: a window belongs to an instance    *)
(* that serves, is leaving or has crashed, and not to one whose Spawner    *)
(* has been closed and has killed its child.                               *)
(***************************************************************************)

LaunchPoints == {"off", "handing", "starting", "written", "serving", "stopped",
                 "unlocked", "closing", "closed", "exited", "crashed"}

WindowInv ==
  /\ proc \in [Launches -> LaunchPoints]
  /\ lockFile \in Launches \cup {Nobody}
  /\ asked \in [Launches -> Launches \cup {Nobody}]
  /\ child \subseteq {p \in Launches :
                       proc[p] \in {"serving", "stopped", "unlocked", "closing", "crashed"}}
  /\ \A p \in Launches : proc[p] \in {"closing", "closed"} => p \in sealed

LEMMA WindowStep == WindowInv /\ [Launch!Next]_Launch!vars => WindowInv'
<1> SUFFICES ASSUME WindowInv, [Launch!Next]_Launch!vars PROVE WindowInv'
  OBVIOUS
<1> USE DEF WindowInv, LaunchPoints, Launch!Goto
<1>1. CASE UNCHANGED Launch!vars
  BY <1>1 DEF Launch!vars
<1>2. ASSUME NEW p \in Launches,
             Launch!Probe(p) \/ Launch!WriteLock(p) \/ Launch!Serve(p) \/ Launch!Quit(p)
             \/ Launch!RemoveLock(p) \/ Launch!CloseWindow(p) \/ Launch!CloseForUpdate(p)
             \/ Launch!Exit(p) \/ Launch!Crash(p)
      PROVE  WindowInv'
  BY <1>2 DEF Launch!Probe, Launch!WriteLock, Launch!Serve, Launch!Quit, Launch!RemoveLock,
     Launch!CloseWindow, Launch!CloseForUpdate, Launch!Exit, Launch!Crash, Launch!Answers, Launch!MustAnswer
<1>3. ASSUME NEW p \in Launches,
             Launch!HandOver(p) \/ Launch!Open(p) \/ Launch!WindowCloses(p)
             \/ Launch!KillWindow(p)
      PROVE  WindowInv'
  BY <1>3 DEF Launch!HandOver, Launch!Open, Launch!WindowCloses, Launch!KillWindow,
     Launch!MustAnswer
<1> QED BY <1>1, <1>2, <1>3 DEF Launch!Next

\* Whatever the tray, the prompt hook and other launches ask of an instance that
\* leaves, its deferred calls take the window down before the process is gone.
THEOREM NoWindowOutlivesItsInstance == Launch!Spec => []Launch!WindowGoneAtExit
<1>1. Launch!Init => WindowInv
  BY DEF Launch!Init, WindowInv, LaunchPoints
<1>2. WindowInv => Launch!WindowGoneAtExit
  BY DEF WindowInv, Launch!WindowGoneAtExit
<1> QED BY <1>1, <1>2, WindowStep, PTL DEF Launch!Spec

(***************************************************************************)
(* The settings.  persist reads the configuration with persistMu held, so  *)
(* the last save under way has the current one; a configuration that was   *)
(* ever seeded says so on the disk; and what a save drops from the disk    *)
(* was gone from the manager when it was read, and no identifier returns.  *)
(***************************************************************************)

Configurations == [profiles : SUBSET used, imported : BOOLEAN, rev : Nat]

StoreTyped ==
  /\ used \subseteq Names /\ CliProfile \in used
  /\ mem \in Configurations /\ saves \in Nat /\ forgot \subseteq used
  /\ \E c \in Configurations : disk = <<c>>
  /\ saving = <<>> \/ \E c \in Configurations : saving = <<c>>

Seeded ==
  /\ mem.imported /\ disk[1].imported
  /\ saving # <<>> => saving[1].imported

LastSaveReads == saves = 0 /\ saving # <<>> => saving = <<mem>>

Dropped ==
  /\ forgot \cap mem.profiles = {}
  /\ forgot \cap disk[1].profiles = {}
  /\ saving # <<>> => /\ forgot \cap saving[1].profiles = {}
                      /\ mem.profiles \cap disk[1].profiles \subseteq saving[1].profiles

StoreInv == StoreTyped /\ LastSaveReads /\ (~cleared => Seeded /\ Dropped) /\ Store!SavedIsCurrent

\* What ImportFromCLI makes of a configuration
LEMMA Imported ==
  ASSUME NEW c \in Configurations, NEW cli \in {{}, {CliProfile}}, CliProfile \in used
  PROVE  /\ Store!ImportFromCLI(c, cli) \in Configurations
         /\ c.imported => Store!ImportFromCLI(c, cli) = c
         /\ c.imported \/ c.profiles # {} => Store!ImportFromCLI(c, cli) = c
         /\ ~(c.imported \/ c.profiles # {}) => Store!ImportFromCLI(c, cli).imported
BY DEF Configurations, Store!ImportFromCLI

LEMMA StoreInit == Store!Init => StoreInv
<1> SUFFICES ASSUME Store!Init, NEW cli \in {{}, {CliProfile}},
                    mem = Store!ImportFromCLI(Store!Empty, cli), disk = <<mem>>
             PROVE  StoreInv
  BY DEF Store!Init
<1>1. /\ saves = 0 /\ saving = <<>> /\ used = {CliProfile} /\ forgot = {} /\ used \subseteq Names
  BY NamesAssumption DEF Store!Init
<1>2. Store!Empty \in Configurations /\ Store!Empty.profiles = {} /\ Store!Empty.imported = FALSE
  BY DEF Store!Empty, Configurations
<1>3. mem \in Configurations /\ mem.imported
  BY <1>1, <1>2, Imported
<1> QED BY <1>1, <1>3 DEF StoreInv, StoreTyped, Seeded, LastSaveReads, Dropped, Store!SavedIsCurrent

LEMMA RestartInv == StoreInv /\ Store!Restart => StoreInv'
<1> SUFFICES ASSUME StoreInv, NEW cli \in {{}, {CliProfile}}, Store!Restart, Store!Start(cli)
             PROVE  StoreInv'
  BY DEF Store!Restart
<1>1. /\ saves' = 0 /\ saving' = <<>> /\ UNCHANGED <<used, forgot, cleared>>
      /\ CliProfile \in used /\ used \subseteq Names /\ forgot \subseteq used
  BY DEF Store!Restart, StoreInv, StoreTyped
<1>2. PICK c \in Configurations : disk = <<c>>
  BY DEF StoreInv, StoreTyped
<1>3. Store!Load = c /\ disk[1] = c
  BY <1>2 DEF Store!Load
<1> DEFINE d == Store!ImportFromCLI(c, cli)
<1>4. /\ d \in Configurations /\ (c.imported \/ c.profiles # {} => d = c)
      /\ c.imported => d = c
  BY <1>1, Imported
<1> HIDE DEF d
<1>5. mem' = d /\ disk' = <<d>>
  BY <1>2, <1>3, <1>4 DEF Store!Start, d
<1>6. Configurations' = Configurations /\ disk'[1] = d
  BY <1>1, <1>5 DEF Configurations
<1>7. ~cleared => c.imported /\ forgot \cap c.profiles = {}
  BY <1>3 DEF StoreInv, Seeded, Dropped
<1>8. StoreTyped' /\ LastSaveReads' /\ Store!SavedIsCurrent'
  BY <1>1, <1>4, <1>5, <1>6 DEF StoreTyped, LastSaveReads, Store!SavedIsCurrent
<1>9. ~cleared' => Seeded' /\ Dropped'
  BY <1>1, <1>4, <1>5, <1>6, <1>7 DEF Seeded, Dropped
<1> QED BY <1>8, <1>9 DEF StoreInv

LEMMA ChangeInv ==
  ASSUME StoreInv, NEW c, Store!Change(c), used \subseteq used', used' \subseteq Names,
         c \in [profiles : SUBSET used', imported : BOOLEAN, rev : Nat],
         cleared => cleared', ~cleared' => c.imported = mem.imported,
         c.profiles \cap used \subseteq mem.profiles
  PROVE  StoreInv'
<1>1. /\ mem' = [c EXCEPT !.rev = mem.rev + 1] /\ saves' = saves + 1
      /\ UNCHANGED <<disk, saving, unsaved, forgot>>
  BY DEF Store!Change
<1>2. mem.rev \in Nat /\ saves \in Nat
  BY DEF StoreInv, StoreTyped, Configurations
<1>3. /\ mem' \in [profiles : SUBSET used', imported : BOOLEAN, rev : Nat]
      /\ mem'.imported = c.imported /\ mem'.profiles = c.profiles
  BY <1>1, <1>2
<1>4. StoreTyped'
  BY <1>1, <1>2, <1>3 DEF StoreInv, StoreTyped, Configurations
<1>5. LastSaveReads' /\ Store!SavedIsCurrent'
  BY <1>1, <1>2 DEF LastSaveReads, Store!SavedIsCurrent
<1>6. disk[1].profiles \subseteq used /\ forgot \subseteq used
  BY DEF StoreInv, StoreTyped, Configurations
<1>7. ~cleared' => Seeded' /\ Dropped'
  BY <1>1, <1>3, <1>6 DEF StoreInv, Seeded, Dropped
<1> QED BY <1>4, <1>5, <1>7 DEF StoreInv

LEMMA PersistInv ==
  ASSUME StoreInv, Store!PersistReads \/ Store!PersistSaves \/ Store!PersistFails
  PROVE  StoreInv'
<1>1. CASE Store!PersistReads
  BY <1>1 DEF Store!PersistReads, StoreInv, StoreTyped, Configurations, Seeded, LastSaveReads,
     Dropped, Store!SavedIsCurrent
<1>2. CASE Store!PersistFails
  BY <1>2 DEF Store!PersistFails, StoreInv, StoreTyped, Configurations, Seeded, LastSaveReads,
     Dropped, Store!SavedIsCurrent
<1>3. CASE Store!PersistSaves
  <2>1. PICK c \in Configurations : saving = <<c>>
    BY <1>3 DEF Store!PersistSaves, StoreInv, StoreTyped
  <2>2. /\ disk' = <<c>> /\ saving' = <<>> /\ unsaved' = FALSE /\ UNCHANGED <<mem, saves, used, cleared>>
        /\ forgot' = forgot \cup (Store!Load.profiles \ c.profiles)
    BY <1>3, <2>1 DEF Store!PersistSaves
  <2>3. Store!Load.profiles = disk[1].profiles /\ disk[1].profiles \subseteq used
    BY DEF Store!Load, StoreInv, StoreTyped, Configurations
  <2>4. StoreTyped' /\ LastSaveReads'
    BY <2>2, <2>3 DEF StoreInv, StoreTyped, Configurations, LastSaveReads
  <2>5. ~cleared' => Seeded' /\ Dropped'
    BY <2>1, <2>2, <2>3 DEF StoreInv, Seeded, Dropped
  <2>6. Store!SavedIsCurrent'
    BY <2>1, <2>2 DEF StoreInv, LastSaveReads, Store!SavedIsCurrent
  <2> QED BY <2>4, <2>5, <2>6 DEF StoreInv
<1> QED BY <1>1, <1>2, <1>3

LEMMA StoreStep == StoreInv /\ [Store!Next]_Store!vars => StoreInv'
<1> SUFFICES ASSUME StoreInv, [Store!Next]_Store!vars PROVE StoreInv'
  OBVIOUS
<1>0. mem \in Configurations /\ used \subseteq Names
  BY DEF StoreInv, StoreTyped
<1>1. CASE UNCHANGED Store!storeVars
  BY <1>1 DEF Store!storeVars, StoreInv, StoreTyped, Configurations, Seeded, LastSaveReads,
     Dropped, Store!SavedIsCurrent
<1>2. ASSUME NEW n \in Names, Store!AddProfile(n) PROVE StoreInv'
  <2> DEFINE c == [mem EXCEPT !.profiles = @ \cup {n}]
  <2>1. Store!Change(c) /\ n \notin used /\ used' = used \cup {n} /\ cleared' = cleared
    BY <1>2 DEF Store!AddProfile
  <2>2. /\ c.imported = mem.imported /\ c.profiles \cap used \subseteq mem.profiles
        /\ c \in [profiles : SUBSET used', imported : BOOLEAN, rev : Nat]
    BY <2>1, <1>0 DEF Configurations
  <2> HIDE DEF c
  <2> QED BY <2>1, <2>2, <1>0, ChangeInv
<1>3. ASSUME NEW n \in Names, Store!RemoveProfile(n) PROVE StoreInv'
  <2> DEFINE c == [mem EXCEPT !.profiles = @ \ {n}]
  <2>1. Store!Change(c) /\ used' = used /\ cleared' = cleared
    BY <1>3 DEF Store!RemoveProfile
  <2>2. /\ c.imported = mem.imported /\ c.profiles \cap used \subseteq mem.profiles
        /\ c \in [profiles : SUBSET used', imported : BOOLEAN, rev : Nat]
    BY <2>1, <1>0 DEF Configurations
  <2> HIDE DEF c
  <2> QED BY <2>1, <2>2, <1>0, ChangeInv
<1>4. CASE Store!Edit
  BY <1>0, <1>4, ChangeInv DEF Store!Edit, Configurations
<1>5. ASSUME NEW imported \in BOOLEAN, Store!SetSettings(imported) PROVE StoreInv'
  <2> DEFINE c == [mem EXCEPT !.imported = imported]
  <2>1. Store!Change(c) /\ used' = used /\ cleared' = (cleared \/ ~imported)
    BY <1>5 DEF Store!SetSettings
  <2>2. /\ c.imported = imported /\ c.profiles \cap used \subseteq mem.profiles
        /\ c \in [profiles : SUBSET used', imported : BOOLEAN, rev : Nat]
    BY <2>1, <1>0 DEF Configurations
  <2>3. ~cleared' => mem.imported = TRUE /\ imported = TRUE
    BY <2>1, <1>0 DEF StoreInv, Seeded, Configurations
  <2> HIDE DEF c
  <2> QED BY <2>1, <2>2, <2>3, <1>0, ChangeInv
<1>6. CASE Store!FeedNext
  BY <1>1, <1>6 DEF Store!FeedNext, Store!StateChanges, Store!PublishReads, Store!PublishSends,
     Store!TrayDraws, Store!Subscribe, Store!TrayReceives, Store!TrayTicks
<1>7. CASE UNCHANGED Store!vars
  BY <1>1, <1>7 DEF Store!vars, Store!storeVars
<1> QED BY <1>2, <1>3, <1>4, <1>5, <1>6, <1>7, RestartInv, PersistInv
     DEF Store!Next, Store!StoreNext, Store!EditNext

\* The tray: an update that is dropped finds others in the channel, and a
\* profile that was never added was never drawn.
Publishing(k, n) == Len(pubs[k]) = 2 /\ pubs[k][2] = n

FeedTyped ==
  /\ ver \in [Names -> Nat] /\ feed \in Seq(Names)
  /\ tray \in {"off", "drawn", "on"} /\ DOMAIN pubs = Publishers
  /\ \A k \in Publishers : pubs[k] = <<>> \/ \E at \in {"read", "send"}, n \in Names : pubs[k] = <<at, n>>
  /\ \A n \in Names \ used : ver[n] = 0 /\ n \notin DOMAIN shown

FeedInv == FeedTyped /\ Store!TrayCatchesUp

LEMMA FeedInit == Store!Init => FeedInv
BY DEF Store!Init, FeedInv, FeedTyped, Store!TrayCatchesUp

\* The part of TrayCatchesUp about one profile
CaughtUp(n) ==
  Store!Drawn(n) /= ver[n] => dirty \/ feed /= <<>> \/ n \in missed \/ \E k \in Publishers : Publishing(k, n)

LEMMA FeedStep == FeedInv /\ StoreInv /\ StoreInv' /\ [Store!Next]_Store!vars => FeedInv'
<1> SUFFICES ASSUME FeedInv, StoreInv, StoreInv', [Store!Next]_Store!vars PROVE FeedInv'
  OBVIOUS
<1>0. /\ mem.profiles \subseteq used /\ mem'.profiles \subseteq used' /\ used \subseteq Names
      /\ used' \subseteq Names
  BY DEF StoreInv, StoreTyped, Configurations
<1>a. /\ tray # "off" => \A n \in mem.profiles : CaughtUp(n)
      /\ FeedTyped
  BY DEF FeedInv, Store!TrayCatchesUp, CaughtUp, Publishing
<1>b. ASSUME FeedTyped', tray' # "off" => \A n \in mem'.profiles : CaughtUp(n)' PROVE FeedInv'
  BY <1>b DEF FeedInv, Store!TrayCatchesUp, CaughtUp, Publishing
<1>1. ASSUME UNCHANGED Store!feedVars, used \subseteq used', mem'.profiles \cap used \subseteq mem.profiles
      PROVE  FeedInv'
  <2>1. UNCHANGED <<ver, pubs, tray, feed, dirty, shown, missed>>
    BY <1>1 DEF Store!feedVars
  <2>2. FeedTyped'
    BY <2>1, <1>1, <1>a DEF FeedTyped
  <2>3. ASSUME tray' # "off", NEW n \in mem'.profiles PROVE CaughtUp(n)'
    <3>1. CASE n \in mem.profiles
      BY <2>1, <2>3, <3>1, <1>a DEF CaughtUp, Publishing, Store!Drawn
    <3>2. CASE n \notin used
      BY <2>1, <3>2, <1>0, <1>a DEF CaughtUp, FeedTyped, Store!Drawn
    <3> QED BY <3>1, <3>2, <1>1
  <2> QED BY <2>2, <2>3, <1>b
<1>2. ASSUME NEW k \in Publishers, NEW n \in Names, Store!StateChanges(k, n) PROVE FeedInv'
  <2>1. /\ n \in mem.profiles /\ ver' = [ver EXCEPT ![n] = @ + 1]
        /\ pubs[k] = <<>> /\ pubs' = [pubs EXCEPT ![k] = <<"read", n>>] /\ missed' = missed \ {n}
        /\ UNCHANGED <<tray, feed, dirty, shown, mem, used>>
    BY <1>2 DEF Store!StateChanges, Store!storeVars
  <2>2. FeedTyped'
    BY <2>1, <1>0, <1>a DEF FeedTyped
  <2>3. pubs'[k] = <<"read", n>> /\ \A j \in Publishers : j # k => pubs'[j] = pubs[j]
    BY <2>1, <1>a DEF FeedTyped
  <2>4. CaughtUp(n)'
    <3>1. Publishing(k, n)'
      BY <2>3 DEF Publishing
    <3> QED BY <3>1 DEF CaughtUp
  <2>5. ASSUME tray # "off", NEW m \in mem.profiles, m # n PROVE CaughtUp(m)'
    <3>1. ver'[m] = ver[m] /\ (m \in missed' <=> m \in missed)
      BY <2>1, <2>5, <1>0, <1>a DEF FeedTyped
    <3>2. \A j \in Publishers : Publishing(j, m) => Publishing(j, m)'
      BY <2>1, <2>3 DEF Publishing
    <3> QED BY <2>1, <2>5, <3>1, <3>2, <1>a DEF CaughtUp, Store!Drawn
  <2> QED BY <2>1, <2>2, <2>4, <2>5, <1>b
<1>3. ASSUME NEW k \in Publishers, Store!PublishReads(k) PROVE FeedInv'
  <2>1. PICK n \in Names : pubs[k] = <<"read", n>>
    <3>1. pubs[k] # <<>> /\ pubs[k][1] = "read"
      BY <1>3 DEF Store!PublishReads
    <3>2. PICK at \in {"read", "send"}, n \in Names : pubs[k] = <<at, n>>
      BY <3>1, <1>a DEF FeedTyped
    <3> QED BY <3>1, <3>2
  <2>2. /\ pubs' = [pubs EXCEPT ![k] = IF n \in mem.profiles THEN <<"send", n>> ELSE <<>>]
        /\ UNCHANGED <<ver, tray, feed, dirty, shown, missed, mem, used>>
    BY <1>3, <2>1 DEF Store!PublishReads, Store!storeVars
  <2>3. FeedTyped'
    BY <2>2, <1>a DEF FeedTyped
  <2>4. ASSUME tray # "off", NEW m \in mem.profiles PROVE CaughtUp(m)'
    <3>1. \A j \in Publishers : Publishing(j, m) => Publishing(j, m)'
      BY <2>1, <2>2, <1>a DEF Publishing, FeedTyped
    <3> QED BY <2>2, <2>4, <3>1, <1>a DEF CaughtUp, Store!Drawn
  <2> QED BY <2>2, <2>3, <2>4, <1>b
<1>4. ASSUME NEW k \in Publishers, Store!PublishSends(k) PROVE FeedInv'
  <2>1. PICK n \in Names : pubs[k] = <<"send", n>>
    <3>1. pubs[k] # <<>> /\ pubs[k][1] = "send"
      BY <1>4 DEF Store!PublishSends
    <3>2. PICK at \in {"read", "send"}, n \in Names : pubs[k] = <<at, n>>
      BY <3>1, <1>a DEF FeedTyped
    <3> QED BY <3>1, <3>2
  <2>2. /\ pubs' = [pubs EXCEPT ![k] = <<>>]
        /\ UNCHANGED <<ver, tray, dirty, shown, mem, used>>
        /\ feed' = IF tray = "on" /\ Len(feed) < Buffer THEN Append(feed, n) ELSE feed
        /\ missed' = IF tray = "drawn" THEN missed \cup {n} ELSE missed
    BY <1>4, <2>1 DEF Store!PublishSends, Store!storeVars
  <2>3. feed' \in Seq(Names) /\ (feed # <<>> => feed' # <<>>) /\ (tray = "on" => feed' # <<>>)
    <3>1. feed \in Seq(Names)
      BY <1>a DEF FeedTyped
    <3>2. CASE tray = "on" /\ Len(feed) < Buffer
      BY <2>2, <3>1, <3>2
    <3>3. CASE ~(tray = "on" /\ Len(feed) < Buffer)
      BY <2>2, <3>1, <3>3, BufferAssumption
    <3> QED BY <3>2, <3>3
  <2>4. FeedTyped'
    BY <2>2, <2>3, <1>a DEF FeedTyped
  <2>5. ASSUME tray # "off", NEW m \in mem.profiles PROVE CaughtUp(m)'
    <3>1. CASE tray = "on"
      BY <2>3, <3>1 DEF CaughtUp
    <3>2. CASE tray = "drawn" /\ m = n
      BY <2>2, <3>2 DEF CaughtUp
    <3>3. CASE tray # "on" /\ m # n
      <4>1. \A j \in Publishers : Publishing(j, m) => Publishing(j, m)'
        BY <2>1, <2>2, <3>3, <1>a DEF Publishing, FeedTyped
      <4> QED BY <2>2, <2>3, <2>5, <4>1, <1>a DEF CaughtUp, Store!Drawn
    <3> QED BY <3>1, <3>2, <3>3, <2>5, <1>a DEF FeedTyped
  <2> QED BY <2>2, <2>4, <2>5, <1>b
<1>5. CASE Store!TrayReceives
  <2>1. /\ UNCHANGED <<pubs, ver, tray, shown, used>> /\ dirty'
        /\ feed' = Tail(feed) /\ feed # <<>>
    BY <1>5 DEF Store!TrayReceives, Store!storeVars
  <2>2. FeedTyped'
    BY <2>1, <1>a DEF FeedTyped
  <2> QED BY <2>1, <2>2, <1>b DEF CaughtUp
<1>6. CASE Store!TrayTicks \/ Store!TrayDraws
  <2>1. /\ UNCHANGED <<pubs, ver, feed, used, mem>> /\ shown' = Store!Snapshots
        /\ tray' = tray \/ tray' = "drawn"
    BY <1>6 DEF Store!TrayTicks, Store!TrayDraws, Store!storeVars
  <2>2. FeedTyped'
    BY <2>1, <1>0, <1>a DEF FeedTyped, Store!Snapshots
  <2>3. \A n \in mem.profiles : CaughtUp(n)'
    BY <2>1 DEF CaughtUp, Store!Drawn, Store!Snapshots
  <2> QED BY <2>1, <2>2, <2>3, <1>b
<1>7. CASE Store!Subscribe
  <2>1. UNCHANGED <<pubs, ver, feed, dirty, shown, missed, used, mem>> /\ tray # "off" /\ tray' = "on"
    BY <1>7 DEF Store!Subscribe, Store!storeVars
  <2>2. FeedTyped'
    BY <2>1, <1>a DEF FeedTyped
  <2>3. \A n \in mem.profiles : CaughtUp(n)'
    BY <2>1, <1>a DEF CaughtUp, Publishing, Store!Drawn
  <2> QED BY <2>1, <2>2, <2>3, <1>b
<1>8. CASE Store!Restart
  BY <1>8, <1>b DEF Store!Restart, FeedTyped
<1>9. CASE Store!EditNext
  <2>1. UNCHANGED Store!feedVars /\ used \subseteq used'
    BY <1>9 DEF Store!EditNext, Store!AddProfile, Store!RemoveProfile, Store!Edit,
       Store!SetSettings, Store!Change
  <2>2. mem'.profiles \cap used \subseteq mem.profiles
    <3>1. mem \in Configurations
      BY DEF StoreInv, StoreTyped
    <3>2. ASSUME NEW c \in [profiles : SUBSET used', imported : BOOLEAN, rev : Nat], Store!Change(c)
          PROVE  mem'.profiles = c.profiles
      BY <3>2 DEF Store!Change
    <3>3. ASSUME NEW n \in Names, Store!AddProfile(n) PROVE mem'.profiles = mem.profiles \cup {n} /\ n \notin used
      BY <3>1, <3>2, <3>3, <2>1 DEF Store!AddProfile, Configurations
    <3>4. ASSUME NEW n \in Names, Store!RemoveProfile(n) PROVE mem'.profiles = mem.profiles \ {n}
      BY <3>1, <3>2, <3>4, <2>1 DEF Store!RemoveProfile, Configurations
    <3>5. ASSUME NEW imported \in BOOLEAN, Store!SetSettings(imported) PROVE mem'.profiles = mem.profiles
      BY <3>1, <3>2, <3>5, <2>1 DEF Store!SetSettings, Configurations
    <3>6. CASE Store!Edit
      BY <3>1, <3>2, <3>6, <2>1 DEF Store!Edit, Configurations
    <3> QED BY <1>9, <3>3, <3>4, <3>5, <3>6 DEF Store!EditNext
  <2> QED BY <2>1, <2>2, <1>1
<1>10. CASE Store!PersistReads \/ Store!PersistSaves \/ Store!PersistFails
  BY <1>1, <1>10 DEF Store!PersistReads, Store!PersistSaves, Store!PersistFails
<1>11. CASE UNCHANGED Store!vars
  BY <1>1, <1>11 DEF Store!vars, Store!feedVars
<1> QED BY <1>2, <1>3, <1>4, <1>5, <1>6, <1>7, <1>8, <1>9, <1>10, <1>11
     DEF Store!Next, Store!FeedNext, Store!StoreNext

\* Whatever order the calls of persist run in, whichever of them fail and
\* however often the client restarts, gui.yaml follows the manager, a removed
\* profile stays removed as long as SetSettings leaves the import mark, and a
\* dropped update leaves the tray another one.
THEOREM SettingsAreKept == Store!Spec => []Store!StoreSound
<1>1. StoreInv /\ FeedInv => Store!StoreSound
  BY DEF StoreInv, Dropped, FeedInv, Store!StoreSound, Store!RemovalIsFinal
<1> QED BY <1>1, StoreInit, StoreStep, FeedInit, FeedStep, PTL DEF Store!Spec

(***************************************************************************)
(* Updates.  An installer that is at the files has the lock; a job is for  *)
(* the installed version or that version has been moved away since; what   *)
(* was moved away is older than every release the controller, its cache    *)
(* and the jobs that can still go on know of.                              *)
(***************************************************************************)

JobRecords ==
  [pc : {"none", "check", "wait", "lock", "stage", "away", "in"},
   ver : Nat, cur : Nat, image : Nat, parent : Nat]

UpdTyped ==
  /\ latest \in Nat /\ target \in Nat /\ DOMAIN previous \subseteq Nat \ {0}
  /\ gui \in [up : {"no", "yes", "closing"}, cur : Nat, run : Nat]
  /\ ctl \in [busy : {"none", "checking", "downloading"}, release : Nat, archive : Nat,
              ready : BOOLEAN, started : BOOLEAN]
  /\ stateFile \in [release : Nat, archive : Nat]
  /\ inst \in [Installers -> JobRecords]

\* The controller: what it offers is newer than the program, and an archive
\* that is ready is in the cache that was saved.
Offered ==
  /\ ctl.release # 0 => ctl.release > gui.cur
  /\ ctl.busy = "downloading" => ctl.release # 0
  /\ ctl.ready => ctl.release # 0 /\ ctl.release \in archives /\ stateFile.release = ctl.release
  /\ product = "ntwire" => ctl.release = 0 /\ stateFile.release = 0 /\ gui.up = "no"
  /\ ctl.release <= latest /\ stateFile.release <= latest

Replacing == {i \in Installers : inst[i].pc \in {"stage", "away", "in"}}
Inside == {i \in Installers : inst[i].pc = "in"}

LockHeld == (Replacing # {} => lock) /\ \A i, j \in Replacing : i = j

\* The jobs that go on, past RunHelper's comparison with its own version.
Jobs == {i \in Installers : /\ inst[i].pc # "none"
                            /\ inst[i].pc = "check" => inst[i].image = inst[i].cur}

\* No cached release is older than a job's, and none is among the old files.
CacheCurrent ==
  /\ \A i \in Jobs : /\ inst[i].ver <= latest
                     /\ ctl.release = 0 \/ ctl.release >= inst[i].ver
                     /\ stateFile.release = 0 \/ stateFile.release >= inst[i].ver
                     /\ i \in Replacing => inst[i].ver > inst[i].cur
  /\ \A c \in DOMAIN previous : /\ c < latest
                                /\ ctl.release = 0 \/ ctl.release > c
                                /\ stateFile.release = 0 \/ stateFile.release > c

\* A job that is not overtaken installs something newer than all the old files.
Overtaken ==
  /\ \A i \in Jobs :
       /\ inst[i].cur # 0
       /\ target = inst[i].cur \/ inst[i].cur \in DOMAIN previous
       /\ target = inst[i].cur => \A c \in DOMAIN previous : inst[i].ver > c
       /\ \A j \in Inside : inst[j].cur = inst[i].cur =>
            \A c \in DOMAIN previous \ {inst[i].cur} : inst[i].ver > c
  /\ \A i \in Installers : inst[i].pc = "away" => target = inst[i].cur
  /\ \A i \in Inside : target = 0 /\ inst[i].cur \in DOMAIN previous

UpdInv == UpdTyped /\ Offered /\ LockHeld /\ CacheCurrent /\ Overtaken /\ Upd!Recoverable

LEMMA UpdInit == Upd!Init => UpdInv
<1> SUFFICES ASSUME Upd!Init PROVE UpdInv
  OBVIOUS
<1>1. /\ DOMAIN previous = {} /\ \A i \in Installers : inst[i] = Upd!NoJob
      /\ target = 1 /\ latest = 1 /\ ctl = Upd!Idle /\ stateFile = Upd!NoCache /\ gui.up = "no"
  BY DEF Upd!Init
<1>2. Upd!NoJob \in JobRecords /\ Upd!NoJob.pc = "none"
  BY DEF Upd!NoJob, JobRecords
<1>3. /\ Upd!Idle.release = 0 /\ Upd!Idle.busy = "none" /\ Upd!Idle.ready = FALSE
      /\ Upd!NoCache.release = 0
  BY DEF Upd!Idle, Upd!NoCache
<1>4. UpdTyped
  BY <1>1, <1>2 DEF Upd!Init, UpdTyped, Upd!Idle, Upd!NoCache
<1>5. Jobs = {} /\ Replacing = {} /\ Inside = {} /\ \A i \in Installers : inst[i].pc # "away"
  BY <1>1, <1>2 DEF Jobs, Replacing, Inside
<1> QED BY <1>1, <1>3, <1>4, <1>5
     DEF UpdInv, Offered, LockHeld, CacheCurrent, Overtaken, Upd!Recoverable

\* A step of the controller or of whoever publishes leaves the files alone.
LEMMA FilesKept ==
  ASSUME UpdInv, UNCHANGED <<inst, target, previous, lock>>
  PROVE  LockHeld' /\ Overtaken' /\ Upd!Recoverable'
BY DEF UpdInv, LockHeld, Overtaken, Upd!Recoverable, Jobs, Replacing, Inside

\* The release the controller and its cache know afterwards is one they knew,
\* none or the newest.
LEMMA CacheMoves ==
  ASSUME UpdInv, UNCHANGED <<inst, previous>>, latest' \in Nat, latest' >= latest,
         ctl'.release \in {0, latest, ctl.release, stateFile.release},
         stateFile'.release \in {0, latest, ctl.release, stateFile.release}
  PROVE  CacheCurrent' /\ ctl'.release <= latest' /\ stateFile'.release <= latest'
<1>1. latest \in Nat /\ ctl.release \in Nat /\ stateFile.release \in Nat
  BY DEF UpdInv, UpdTyped
<1>2. ctl.release <= latest /\ stateFile.release <= latest
  BY DEF UpdInv, Offered
<1>3. Jobs' = Jobs /\ Replacing' = Replacing
  BY DEF Jobs, Replacing
<1>4. ASSUME NEW i \in Jobs
      PROVE  /\ inst'[i].ver <= latest'
             /\ ctl'.release = 0 \/ ctl'.release >= inst'[i].ver
             /\ stateFile'.release = 0 \/ stateFile'.release >= inst'[i].ver
             /\ i \in Replacing' => inst'[i].ver > inst'[i].cur
  <2>1. inst' = inst /\ inst[i].ver \in Nat
    BY DEF UpdInv, UpdTyped, JobRecords, Jobs
  <2>2. /\ inst[i].ver <= latest
        /\ ctl.release = 0 \/ ctl.release >= inst[i].ver
        /\ stateFile.release = 0 \/ stateFile.release >= inst[i].ver
        /\ i \in Replacing => inst[i].ver > inst[i].cur
    BY DEF UpdInv, CacheCurrent
  <2> QED BY <1>1, <1>2, <1>3, <2>1, <2>2
<1>5. ASSUME NEW c \in DOMAIN previous
      PROVE  /\ c < latest'
             /\ ctl'.release = 0 \/ ctl'.release > c
             /\ stateFile'.release = 0 \/ stateFile'.release > c
  <2>1. c \in Nat
    BY DEF UpdInv, UpdTyped
  <2>2. /\ c < latest
        /\ ctl.release = 0 \/ ctl.release > c
        /\ stateFile.release = 0 \/ stateFile.release > c
    BY DEF UpdInv, CacheCurrent
  <2> QED BY <1>1, <1>2, <2>1, <2>2
<1>6. ctl'.release <= latest' /\ stateFile'.release <= latest'
  BY <1>1, <1>2
<1>7. CacheCurrent'
  BY <1>3, <1>4, <1>5 DEF CacheCurrent
<1> QED BY <1>6, <1>7

LEMMA PublishInv == UpdInv /\ Upd!Publish => UpdInv'
<1> SUFFICES ASSUME UpdInv, Upd!Publish PROVE UpdInv'
  OBVIOUS
<1>1. /\ latest' = latest + 1 /\ UNCHANGED <<product, gui, ctl, stateFile, archives>>
      /\ UNCHANGED <<inst, target, previous, lock>> /\ latest \in Nat
  BY DEF Upd!Publish, Upd!guiVars, Upd!fileVars, UpdInv, UpdTyped
<1>2. LockHeld' /\ Overtaken' /\ Upd!Recoverable'
  BY <1>1, FilesKept
<1>3. CacheCurrent' /\ ctl'.release <= latest' /\ stateFile'.release <= latest'
  BY <1>1, CacheMoves
<1>4. UpdTyped' /\ Offered'
  BY <1>1, <1>3 DEF UpdInv, UpdTyped, Offered
<1> QED BY <1>2, <1>3, <1>4 DEF UpdInv

LEMMA GuiStartsInv == UpdInv /\ Upd!GuiStarts => UpdInv'
<1> SUFFICES ASSUME UpdInv, Upd!GuiStarts PROVE UpdInv'
  OBVIOUS
<1>1. /\ UNCHANGED <<product, latest, stateFile, archives>> /\ latest \in Nat
      /\ UNCHANGED <<inst, target, previous, lock>> /\ product = "ntwire-gui"
  BY DEF Upd!GuiStarts, Upd!fileVars, UpdInv, UpdTyped
<1>2. /\ gui' = [up |-> "yes", cur |-> target, run |-> gui.run + 1]
      /\ gui' \in [up : {"no", "yes", "closing"}, cur : Nat, run : Nat] /\ gui'.cur = target
  BY DEF Upd!GuiStarts, UpdInv, UpdTyped
<1>3. /\ ctl' \in [busy : {"none", "checking", "downloading"}, release : Nat, archive : Nat,
                  ready : BOOLEAN, started : BOOLEAN]
      /\ ctl'.busy = "none"
      /\ \/ ctl'.release = 0 /\ ctl'.ready = FALSE
         \/ /\ ctl'.release = stateFile.release /\ stateFile.release > target
            /\ ctl'.ready => stateFile.release \in archives
  <2>1. Upd!Idle = [busy |-> "none", release |-> 0, archive |-> 0, ready |-> FALSE, started |-> FALSE]
    BY DEF Upd!Idle
  <2>2. CASE Upd!Newer(stateFile.release, target)
    BY <2>1, <2>2 DEF Upd!GuiStarts, Upd!Newer, UpdInv, UpdTyped
  <2>3. CASE ~Upd!Newer(stateFile.release, target)
    BY <2>1, <2>3 DEF Upd!GuiStarts
  <2> QED BY <2>2, <2>3
<1>4. LockHeld' /\ Overtaken' /\ Upd!Recoverable'
  BY <1>1, FilesKept
<1>5. CacheCurrent' /\ ctl'.release <= latest' /\ stateFile'.release <= latest'
  BY <1>1, <1>3, CacheMoves
<1>6. UpdTyped'
  BY <1>1, <1>2, <1>3 DEF UpdInv, UpdTyped
<1>7. Offered'
  <2>1. target \in Nat /\ stateFile.release \in Nat
    BY DEF UpdInv, UpdTyped
  <2> QED BY <1>1, <1>2, <1>3, <1>5, <2>1 DEF Offered
<1> QED BY <1>4, <1>5, <1>6, <1>7 DEF UpdInv

LEMMA BeginInv ==
  ASSUME UpdInv, Upd!Check \/ Upd!Download
  PROVE  UpdInv'
<1>1. PICK work \in {"checking", "downloading"} :
        Upd!Begin(work) /\ (work = "downloading" => ctl.release # 0)
  BY DEF Upd!Check, Upd!Download
<1>2. /\ UNCHANGED <<product, latest, gui, stateFile, archives, inst, target, previous, lock>>
      /\ ctl' = [ctl EXCEPT !.busy = work] /\ latest \in Nat
  BY <1>1 DEF Upd!Begin, Upd!fileVars, UpdInv, UpdTyped
<1>3. /\ ctl' \in [busy : {"none", "checking", "downloading"}, release : Nat, archive : Nat,
                  ready : BOOLEAN, started : BOOLEAN]
      /\ ctl'.busy = work /\ ctl'.release = ctl.release /\ ctl'.ready = ctl.ready
  BY <1>2 DEF UpdInv, UpdTyped
<1>4. LockHeld' /\ Overtaken' /\ Upd!Recoverable'
  BY <1>2, FilesKept
<1>5. CacheCurrent' /\ ctl'.release <= latest' /\ stateFile'.release <= latest'
  BY <1>2, <1>3, CacheMoves
<1>6. UpdTyped' /\ Offered'
  BY <1>1, <1>2, <1>3, <1>5 DEF UpdInv, UpdTyped, Offered
<1> QED BY <1>4, <1>5, <1>6 DEF UpdInv

ControlRecords ==
  [busy : {"none", "checking", "downloading"}, release : Nat, archive : Nat,
   ready : BOOLEAN, started : BOOLEAN]

\* The controller goes from one operation to the next: its release is its own or
\* the newest, and an archive it has ready is one it had or has just saved.
LEMMA ControlInv ==
  ASSUME UpdInv, UNCHANGED <<product, latest, inst, target, previous, lock>>,
         gui' \in [up : {"no", "yes", "closing"}, cur : Nat, run : Nat],
         ctl' \in ControlRecords, stateFile' \in [release : Nat, archive : Nat],
         archives \subseteq archives', ctl'.busy # "downloading",
         gui.up = "no" => gui' = gui /\ UNCHANGED <<ctl, stateFile>>,
         ctl'.release # 0 => gui'.cur = gui.cur,
         ctl'.release \in {0, ctl.release} \/ (ctl'.release = latest /\ latest > gui.cur),
         stateFile'.release \in {ctl'.release, stateFile.release},
         ctl'.ready => /\ ctl.ready \/ ctl.release \in archives'
                       /\ ctl'.release = ctl.release /\ ctl.release # 0
                       /\ stateFile'.release = ctl'.release
  PROVE  UpdInv'
<1>1. LockHeld' /\ Overtaken' /\ Upd!Recoverable'
  BY FilesKept
<1>2. latest \in Nat /\ gui.cur \in Nat /\ ctl.release \in Nat
  BY DEF UpdInv, UpdTyped
<1>3. CacheCurrent' /\ ctl'.release <= latest' /\ stateFile'.release <= latest'
  BY <1>2, CacheMoves
<1>4. UpdTyped'
  BY DEF UpdInv, UpdTyped, ControlRecords
<1>5. Offered'
  BY <1>2, <1>3 DEF UpdInv, Offered
<1> QED BY <1>1, <1>3, <1>4, <1>5 DEF UpdInv

LEMMA CheckEndsInv == UpdInv /\ Upd!CheckEnds => UpdInv'
<1> SUFFICES ASSUME UpdInv, Upd!CheckEnds PROVE UpdInv'
  OBVIOUS
<1>1. /\ UNCHANGED <<product, latest, inst, target, previous, lock, gui, archives>>
      /\ gui \in [up : {"no", "yes", "closing"}, cur : Nat, run : Nat] /\ gui.up # "no"
      /\ ctl \in ControlRecords /\ stateFile \in [release : Nat, archive : Nat] /\ latest \in Nat
      /\ ctl.ready => ctl.release # 0 /\ ctl.release \in archives /\ stateFile.release = ctl.release
  BY DEF Upd!CheckEnds, Upd!fileVars, UpdInv, UpdTyped, ControlRecords, Offered
<1>2. CASE ctl' = [ctl EXCEPT !.busy = "none"] /\ UNCHANGED stateFile
  BY <1>1, <1>2, ControlInv DEF ControlRecords
<1>3. CASE stateFile' \in {Upd!Saved(ctl'), stateFile}
           /\ Upd!Newer(latest, gui.cur) /\ ctl.release = latest
           /\ ctl' = [ctl EXCEPT !.busy = "none"]
  BY <1>1, <1>3, ControlInv DEF ControlRecords, Upd!Saved
<1>4. CASE stateFile' \in {Upd!Saved(ctl'), stateFile} /\ Upd!Newer(latest, gui.cur)
           /\ ctl' = [ctl EXCEPT !.busy = "none", !.release = latest, !.archive = 0, !.ready = FALSE]
  <2>1. /\ ctl' \in ControlRecords /\ ctl'.release = latest /\ ctl'.ready = FALSE
        /\ ctl'.busy = "none" /\ latest > gui.cur
    BY <1>1, <1>4 DEF ControlRecords, Upd!Newer
  <2>2. /\ stateFile' \in [release : Nat, archive : Nat]
        /\ stateFile'.release \in {ctl'.release, stateFile.release}
    BY <1>1, <1>4, <2>1 DEF Upd!Saved, ControlRecords
  <2> QED BY <1>1, <2>1, <2>2, ControlInv
<1>5. CASE stateFile' \in {Upd!Saved(ctl'), stateFile}
           /\ ctl' = [ctl EXCEPT !.busy = "none", !.release = 0, !.archive = 0, !.ready = FALSE]
  <2>1. /\ ctl' \in ControlRecords /\ ctl'.release = 0 /\ ctl'.ready = FALSE
        /\ ctl'.busy = "none"
    BY <1>1, <1>5 DEF ControlRecords
  <2>2. /\ stateFile' \in [release : Nat, archive : Nat]
        /\ stateFile'.release \in {ctl'.release, stateFile.release}
    BY <1>1, <1>5, <2>1 DEF Upd!Saved, ControlRecords
  <2> QED BY <1>1, <2>1, <2>2, ControlInv
<1> QED BY <1>2, <1>3, <1>4, <1>5 DEF Upd!CheckEnds, Upd!Save

LEMMA DownloadEndsInv == UpdInv /\ Upd!DownloadEnds => UpdInv'
<1> SUFFICES ASSUME UpdInv, Upd!DownloadEnds PROVE UpdInv'
  OBVIOUS
<1>1. /\ UNCHANGED <<product, latest, inst, target, previous, lock, gui>>
      /\ gui \in [up : {"no", "yes", "closing"}, cur : Nat, run : Nat] /\ gui.up # "no"
      /\ ctl \in ControlRecords /\ stateFile \in [release : Nat, archive : Nat]
      /\ ctl.ready => ctl.release # 0 /\ ctl.release \in archives /\ stateFile.release = ctl.release
      /\ ctl.release # 0
  BY DEF Upd!DownloadEnds, Upd!fileVars, UpdInv, UpdTyped, ControlRecords, Offered
<1>2. CASE ctl' = [ctl EXCEPT !.busy = "none"] /\ UNCHANGED <<archives, stateFile>>
  BY <1>1, <1>2, ControlInv DEF ControlRecords
<1>3. ASSUME archives' = archives \cup {ctl.release}, NEW saved \in BOOLEAN,
             ctl' = [ctl EXCEPT !.busy = "none", !.archive = ctl.release, !.ready = saved],
             stateFile' = IF saved THEN Upd!Saved(ctl') ELSE stateFile
      PROVE  UpdInv'
  <2>1. /\ ctl' \in ControlRecords /\ ctl'.release = ctl.release /\ ctl'.busy = "none"
        /\ ctl'.ready = saved
    BY <1>1, <1>3 DEF ControlRecords
  <2>2. CASE saved = TRUE
    <3>1. stateFile' \in [release : Nat, archive : Nat] /\ stateFile'.release = ctl'.release
      BY <1>3, <2>1, <2>2 DEF Upd!Saved, ControlRecords
    <3> QED BY <1>1, <1>3, <2>1, <3>1, ControlInv
  <2>3. CASE saved = FALSE
    <3>1. stateFile' = stateFile /\ ctl'.ready = FALSE
      BY <1>3, <2>1, <2>3
    <3> QED BY <1>1, <1>3, <2>1, <3>1, ControlInv
  <2> QED BY <2>2, <2>3
<1> QED BY <1>2, <1>3 DEF Upd!DownloadEnds

LEMMA QuitInv == UpdInv /\ Upd!Quit => UpdInv'
<1> SUFFICES ASSUME UpdInv, Upd!Quit PROVE UpdInv'
  OBVIOUS
<1>1. /\ UNCHANGED <<product, latest, ctl, stateFile, archives, inst, target, previous, lock>>
      /\ gui' = [gui EXCEPT !.up = "closing"] /\ gui.up = "yes" /\ latest \in Nat
  BY DEF Upd!Quit, Upd!fileVars, UpdInv, UpdTyped
<1>2. /\ gui' \in [up : {"no", "yes", "closing"}, cur : Nat, run : Nat]
      /\ gui'.cur = gui.cur
  BY <1>1 DEF UpdInv, UpdTyped
<1>3. LockHeld' /\ Overtaken' /\ Upd!Recoverable'
  BY <1>1, FilesKept
<1>4. CacheCurrent' /\ ctl'.release <= latest' /\ stateFile'.release <= latest'
  BY <1>1, CacheMoves
<1>5. UpdTyped' /\ Offered'
  BY <1>1, <1>2, <1>4 DEF UpdInv, UpdTyped, Offered
<1> QED BY <1>3, <1>4, <1>5 DEF UpdInv

LEMMA LeavesInv ==
  ASSUME UpdInv, Upd!Gone, ctl' = Upd!Idle, gui.up # "no",
         UNCHANGED <<product, latest, stateFile, archives, inst, target, previous, lock>>
  PROVE  UpdInv'
<1>1. gui' \in [up : {"no", "yes", "closing"}, cur : Nat, run : Nat]
  BY DEF Upd!Gone, UpdInv, UpdTyped
<1>2. ctl' \in ControlRecords /\ ctl'.release = 0 /\ ctl'.ready = FALSE /\ ctl'.busy = "none"
  BY DEF Upd!Idle, ControlRecords
<1>3. stateFile' \in [release : Nat, archive : Nat]
  BY DEF UpdInv, UpdTyped
<1> QED BY <1>1, <1>2, <1>3, ControlInv

\* What becomes of the jobs when one of them ends, or goes on.
LEMMA JobEnds ==
  ASSUME UpdInv, NEW i \in Installers, inst' = [inst EXCEPT ![i] = Upd!NoJob]
  PROVE  /\ inst' \in [Installers -> JobRecords] /\ inst'[i].pc = "none"
         /\ \A j \in Installers \ {i} : inst'[j] = inst[j]
         /\ Jobs' = Jobs \ {i} /\ Replacing' = Replacing \ {i} /\ Inside' = Inside \ {i}
<1>1. Upd!NoJob \in JobRecords /\ Upd!NoJob.pc = "none"
  BY DEF Upd!NoJob, JobRecords
<1>2. inst \in [Installers -> JobRecords]
  BY DEF UpdInv, UpdTyped
<1>3. inst' \in [Installers -> JobRecords] /\ inst'[i] = Upd!NoJob
      /\ \A j \in Installers \ {i} : inst'[j] = inst[j]
  BY <1>1, <1>2
<1> QED BY <1>1, <1>3 DEF Jobs, Replacing, Inside

LEMMA JobMoves ==
  ASSUME UpdInv, NEW i \in Installers, NEW l \in {"wait", "lock", "stage", "away", "in"},
         Upd!Goto(i, l), i \in Jobs
  PROVE  /\ inst' \in [Installers -> JobRecords] /\ inst'[i].pc = l
         /\ \A j \in Installers : inst'[j].ver = inst[j].ver /\ inst'[j].cur = inst[j].cur
         /\ \A j \in Installers \ {i} : inst'[j] = inst[j]
         /\ Jobs' = Jobs
         /\ Replacing' = IF l \in {"stage", "away", "in"} THEN Replacing \cup {i} ELSE Replacing \ {i}
         /\ Inside' = IF l = "in" THEN Inside \cup {i} ELSE Inside \ {i}
<1>1. inst \in [Installers -> JobRecords]
  BY DEF UpdInv, UpdTyped
<1>2. /\ inst' \in [Installers -> JobRecords] /\ inst'[i].pc = l
      /\ inst'[i].ver = inst[i].ver /\ inst'[i].cur = inst[i].cur
      /\ \A j \in Installers \ {i} : inst'[j] = inst[j]
  BY <1>1 DEF Upd!Goto, JobRecords
<1>3. Jobs' = Jobs
  BY <1>2 DEF Jobs
<1>4. Replacing' = IF l \in {"stage", "away", "in"} THEN Replacing \cup {i} ELSE Replacing \ {i}
  BY <1>2 DEF Replacing
<1>5. Inside' = IF l = "in" THEN Inside \cup {i} ELSE Inside \ {i}
  BY <1>2 DEF Inside
<1> QED BY <1>2, <1>3, <1>4, <1>5

LEMMA JobGone ==
  ASSUME UpdInv, NEW i \in Installers, inst' = [inst EXCEPT ![i] = Upd!NoJob],
         UNCHANGED <<product, latest, gui, ctl, stateFile, archives, target, previous>>,
         lock' = lock \/ i \in Replacing
  PROVE  UpdInv'
<1>1. /\ inst' \in [Installers -> JobRecords] /\ inst'[i].pc = "none"
      /\ \A j \in Installers \ {i} : inst'[j] = inst[j]
      /\ Jobs' = Jobs \ {i} /\ Replacing' = Replacing \ {i} /\ Inside' = Inside \ {i}
  BY JobEnds
<1>2. Jobs \subseteq Installers /\ Replacing \subseteq Installers /\ Inside \subseteq Installers
  BY DEF Jobs, Replacing, Inside
<1>3. UpdTyped' /\ Offered' /\ LockHeld' /\ Upd!Recoverable'
  BY <1>1, <1>2 DEF UpdInv, UpdTyped, Offered, LockHeld, Upd!Recoverable
<1>4. CacheCurrent'
  BY <1>1, <1>2 DEF UpdInv, CacheCurrent
<1>5. Overtaken'
  BY <1>1, <1>2 DEF UpdInv, Overtaken
<1> QED BY <1>3, <1>4, <1>5 DEF UpdInv

LEMMA OutsideKept ==
  ASSUME UNCHANGED Upd!outside
  PROVE  UNCHANGED <<product, latest, gui, ctl, stateFile, archives>>
BY DEF Upd!outside

LEMMA RefuseInv ==
  ASSUME UpdInv, NEW i \in Installers, UNCHANGED Upd!outside, UNCHANGED <<target, previous>>,
         (Upd!Refuse(i) \/ (i \in Replacing /\ Upd!Unlocked(i, "error")))
  PROVE  UpdInv'
BY JobGone, OutsideKept DEF Upd!Refuse, Upd!Unlocked, Upd!fileVars

\* A job that waits goes on to its next point.
LEMMA WaitingInv ==
  ASSUME UpdInv, NEW i \in Jobs, NEW l \in {"wait", "lock"}, Upd!Goto(i, l),
         inst[i].pc \notin {"stage", "away", "in"},
         UNCHANGED <<product, latest, gui, ctl, stateFile, archives, target, previous, lock>>
  PROVE  UpdInv'
<1>1. Jobs \subseteq Installers /\ Replacing \subseteq Installers /\ Inside \subseteq Installers
      /\ i \notin Replacing /\ i \notin Inside
  BY DEF Jobs, Replacing, Inside
<1>2. /\ inst' \in [Installers -> JobRecords] /\ inst'[i].pc = l
      /\ \A j \in Installers : inst'[j].ver = inst[j].ver /\ inst'[j].cur = inst[j].cur
      /\ \A j \in Installers \ {i} : inst'[j] = inst[j]
      /\ Jobs' = Jobs
  BY <1>1, JobMoves
<1>3. Replacing' = Replacing /\ Inside' = Inside
  BY <1>1, <1>2 DEF Replacing, Inside
<1>4. UpdTyped' /\ Offered' /\ LockHeld' /\ Upd!Recoverable'
  BY <1>1, <1>2, <1>3 DEF UpdInv, UpdTyped, Offered, LockHeld, Upd!Recoverable
<1>5. CacheCurrent'
  BY <1>1, <1>2, <1>3 DEF UpdInv, CacheCurrent
<1>6. Overtaken'
  BY <1>1, <1>2, <1>3 DEF UpdInv, Overtaken
<1> QED BY <1>4, <1>5, <1>6 DEF UpdInv

LEMMA HelperInv ==
  ASSUME UpdInv, NEW i \in Installers, Upd!HelperChecks(i) \/ Upd!HelperWaits(i)
  PROVE  UpdInv'
<1>1. UNCHANGED Upd!outside
  BY DEF Upd!HelperChecks, Upd!HelperWaits
<1>2. CASE Upd!HelperChecks(i) /\ inst[i].image = inst[i].cur
  <2>1. i \in Jobs /\ Upd!Goto(i, "wait") /\ inst[i].pc = "check"
        /\ UNCHANGED <<target, previous, lock>>
    BY <1>2 DEF Upd!HelperChecks, Jobs, Upd!fileVars
  <2> QED BY <1>1, <2>1, OutsideKept, WaitingInv
<1>3. CASE Upd!HelperChecks(i) /\ inst[i].image # inst[i].cur
  BY <1>1, <1>3, OutsideKept, JobGone DEF Upd!HelperChecks, Upd!fileVars
<1>4. CASE Upd!HelperWaits(i) /\ Upd!Goto(i, "lock") /\ UNCHANGED Upd!fileVars
  <2>1. i \in Jobs /\ inst[i].pc = "wait" /\ UNCHANGED <<target, previous, lock>>
    BY <1>4 DEF Upd!HelperWaits, Jobs, Upd!fileVars
  <2> QED BY <1>1, <1>4, <2>1, OutsideKept, WaitingInv
<1>5. CASE Upd!HelperWaits(i) /\ Upd!Refuse(i)
  BY <1>1, <1>5, RefuseInv DEF Upd!Refuse, Upd!fileVars
<1> QED BY <1>2, <1>3, <1>4, <1>5 DEF Upd!HelperWaits

LEMMA TakeLockInv ==
  ASSUME UpdInv, NEW i \in Installers, Upd!TakeLock(i)
  PROVE  UpdInv'
<1>1. UNCHANGED Upd!outside
  BY DEF Upd!TakeLock
<1>2. CASE Upd!Refuse(i)
  BY <1>1, <1>2, RefuseInv DEF Upd!Refuse, Upd!fileVars
<1>3. CASE /\ target # 0 /\ ~lock /\ Upd!Newer(inst[i].ver, inst[i].cur)
           /\ lock' = TRUE /\ Upd!Goto(i, "stage") /\ UNCHANGED <<target, previous, result>>
  <2>1. Jobs \subseteq Installers /\ i \in Jobs /\ Replacing = {} /\ inst[i].ver > inst[i].cur
    BY <1>3 DEF Upd!TakeLock, Jobs, UpdInv, LockHeld, Upd!Newer
  <2>2. Inside \subseteq Replacing
    BY DEF Inside, Replacing
  <2>3. /\ inst' \in [Installers -> JobRecords] /\ inst'[i].pc = "stage"
        /\ \A j \in Installers : inst'[j].ver = inst[j].ver /\ inst'[j].cur = inst[j].cur
        /\ \A j \in Installers \ {i} : inst'[j] = inst[j]
        /\ Jobs' = Jobs
    BY <1>3, <2>1, JobMoves
  <2>4. Replacing' = {i} /\ Inside' = {}
    BY <1>3, <2>1, <2>2, JobMoves
  <2>5. UpdTyped' /\ Offered' /\ LockHeld' /\ Upd!Recoverable'
    BY <1>1, <1>3, <2>3, <2>4, OutsideKept
       DEF UpdInv, UpdTyped, Offered, LockHeld, Upd!Recoverable
  <2>6. CacheCurrent'
    BY <1>1, <1>3, <2>1, <2>3, <2>4, OutsideKept DEF UpdInv, CacheCurrent
  <2>7. Overtaken'
    BY <1>1, <1>3, <2>1, <2>3, <2>4, OutsideKept DEF UpdInv, Overtaken
  <2> QED BY <2>5, <2>6, <2>7 DEF UpdInv
<1> QED BY <1>2, <1>3 DEF Upd!TakeLock

LEMMA StageInv ==
  ASSUME UpdInv, NEW i \in Installers, Upd!Stage(i)
  PROVE  UpdInv'
<1>1. UNCHANGED Upd!outside /\ UNCHANGED <<target, previous>> /\ i \in Replacing /\ i \in Jobs
  BY DEF Upd!Stage, Replacing, Jobs
<1>2. CASE Upd!Unlocked(i, "error")
  BY <1>1, <1>2, RefuseInv
<1>3. CASE /\ inst[i].cur \notin DOMAIN previous
           /\ Upd!Goto(i, "away") /\ UNCHANGED <<lock, result>>
  <2>1. Jobs \subseteq Installers /\ Inside \subseteq Installers /\ i \notin Inside
    BY DEF Upd!Stage, Jobs, Inside
  <2>2. /\ inst' \in [Installers -> JobRecords] /\ inst'[i].pc = "away"
        /\ \A j \in Installers : inst'[j].ver = inst[j].ver /\ inst'[j].cur = inst[j].cur
        /\ \A j \in Installers \ {i} : inst'[j] = inst[j]
        /\ Jobs' = Jobs
    BY <1>1, <1>3, JobMoves
  <2>3. Replacing' = Replacing /\ Inside' = Inside
    BY <1>1, <2>1, <2>2 DEF Replacing, Inside
  <2>4. UpdTyped' /\ Offered' /\ LockHeld' /\ Upd!Recoverable'
    BY <1>1, <1>3, <2>2, <2>3, OutsideKept
       DEF UpdInv, UpdTyped, Offered, LockHeld, Upd!Recoverable
  <2>5. CacheCurrent'
    BY <1>1, <2>1, <2>2, <2>3, OutsideKept DEF UpdInv, CacheCurrent
  <2>6. Overtaken'
    BY <1>1, <1>3, <2>1, <2>2, <2>3 DEF UpdInv, Overtaken
  <2> QED BY <2>4, <2>5, <2>6 DEF UpdInv
<1> QED BY <1>2, <1>3 DEF Upd!Stage

LEMMA MoveAwayInv ==
  ASSUME UpdInv, NEW i \in Installers, Upd!MoveAway(i)
  PROVE  UpdInv'
<1>1. UNCHANGED Upd!outside /\ i \in Replacing /\ i \in Jobs /\ i \notin Inside
      /\ Jobs \subseteq Installers /\ Inside \subseteq Replacing
  BY DEF Upd!MoveAway, Replacing, Jobs, Inside
<1>2. CASE Upd!Unlocked(i, "error") /\ UNCHANGED <<target, previous>>
  BY <1>1, <1>2, RefuseInv
<1>3. CASE /\ target # 0
           /\ previous' = [c \in DOMAIN previous \cup {inst[i].cur} |->
                             IF c = inst[i].cur THEN target ELSE previous[c]]
           /\ target' = 0
           /\ Upd!Goto(i, "in") /\ UNCHANGED <<lock, result>>
  <2>1. /\ inst' \in [Installers -> JobRecords] /\ inst'[i].pc = "in"
        /\ \A j \in Installers : inst'[j].ver = inst[j].ver /\ inst'[j].cur = inst[j].cur
        /\ \A j \in Installers \ {i} : inst'[j] = inst[j]
        /\ Jobs' = Jobs
    BY <1>1, <1>3, JobMoves
  <2>2. Inside = {} /\ Inside' = {i} /\ Replacing' = Replacing /\ Replacing = {i}
    <3>1. Replacing = {i}
      BY <1>1 DEF UpdInv, LockHeld
    <3>2. Inside = {}
      BY <1>1, <3>1
    <3>3. Inside' = {i}
      BY <2>1, <3>2 DEF Inside
    <3>4. Replacing' = {i}
      BY <2>1, <3>1 DEF Replacing
    <3> QED BY <3>1, <3>2, <3>3, <3>4
  <2>3. target = inst[i].cur /\ target \in Nat \ {0}
    BY <1>3 DEF Upd!MoveAway, UpdInv, Overtaken, UpdTyped
  <2>4. /\ DOMAIN previous' = DOMAIN previous \cup {target} /\ previous'[target] = target
        /\ \A c \in DOMAIN previous : previous'[c] = c
    BY <1>3, <2>3 DEF UpdInv, Upd!Recoverable
  <2>5. UpdTyped' /\ Offered' /\ LockHeld' /\ Upd!Recoverable'
    BY <1>1, <1>3, <2>1, <2>2, <2>3, <2>4, OutsideKept
       DEF UpdInv, UpdTyped, Offered, LockHeld, Upd!Recoverable
  <2>6. /\ latest \in Nat /\ ctl.release \in Nat /\ stateFile.release \in Nat
        /\ inst[i].ver \in Nat /\ inst[i].cur \in Nat
    BY DEF UpdInv, UpdTyped, JobRecords
  <2>7. /\ inst[i].ver <= latest /\ inst[i].ver > inst[i].cur
        /\ ctl.release = 0 \/ ctl.release >= inst[i].ver
        /\ stateFile.release = 0 \/ stateFile.release >= inst[i].ver
    BY <1>1 DEF UpdInv, CacheCurrent
  <2>8. /\ target < latest
        /\ ctl.release = 0 \/ ctl.release > target
        /\ stateFile.release = 0 \/ stateFile.release > target
    BY <2>3, <2>6, <2>7
  <2>9. CacheCurrent'
    BY <1>1, <2>1, <2>2, <2>4, <2>8, OutsideKept DEF UpdInv, CacheCurrent
  <2>10. ASSUME NEW j \in Jobs
         PROVE  /\ inst'[j].cur # 0 /\ inst'[j].cur \in DOMAIN previous' /\ inst'[j].cur # target'
                /\ inst[i].cur = inst[j].cur =>
                     \A c \in DOMAIN previous' \ {inst[j].cur} : inst[j].ver > c
    BY <1>1, <1>3, <2>1, <2>3, <2>4 DEF UpdInv, Overtaken
  <2>11. Overtaken'
    <3>1. \A j \in Installers : inst'[j].pc # "away"
      BY <1>1, <2>1, <2>2 DEF Replacing
    <3> QED BY <1>1, <1>3, <2>1, <2>2, <2>3, <2>4, <2>10, <3>1 DEF Overtaken
  <2> QED BY <2>5, <2>9, <2>11 DEF UpdInv
<1> QED BY <1>2, <1>3 DEF Upd!MoveAway

LEMMA MoveInInv ==
  ASSUME UpdInv, NEW i \in Installers, Upd!MoveIn(i)
  PROVE  UpdInv'
<1>1. UNCHANGED Upd!outside /\ i \in Replacing /\ i \in Jobs /\ i \in Inside
      /\ Jobs \subseteq Installers /\ Inside \subseteq Replacing /\ Replacing \subseteq Installers
  BY DEF Upd!MoveIn, Replacing, Jobs, Inside
<1>2. CASE Upd!Unlocked(i, "error") /\ UNCHANGED <<target, previous>>
  BY <1>1, <1>2, RefuseInv
<1>3. ASSUME inst' = [inst EXCEPT ![i] = Upd!NoJob], lock' = FALSE
      PROVE  /\ inst' \in [Installers -> JobRecords] /\ inst'[i].pc = "none"
             /\ \A j \in Installers \ {i} : inst'[j] = inst[j]
             /\ Jobs' = Jobs \ {i} /\ Replacing' = {} /\ Inside' = {} /\ Replacing = {i}
             /\ \A j \in Installers : inst'[j].pc # "away"
  <2>1. /\ inst' \in [Installers -> JobRecords] /\ inst'[i].pc = "none"
        /\ \A j \in Installers \ {i} : inst'[j] = inst[j]
        /\ Jobs' = Jobs \ {i} /\ Replacing' = Replacing \ {i} /\ Inside' = Inside \ {i}
    BY <1>3, JobEnds
  <2>2. Replacing = {i}
    BY <1>1 DEF UpdInv, LockHeld
  <2>3. \A j \in Installers : inst'[j].pc # "away"
    BY <2>1, <2>2 DEF Replacing
  <2> QED BY <1>1, <2>1, <2>2, <2>3
<1>4. /\ target = 0 /\ inst[i].cur \in DOMAIN previous /\ inst[i].cur \in Nat \ {0}
      /\ \A c \in DOMAIN previous : c \in Nat \ {0} /\ previous[c] = c
      /\ inst[i].ver \in Nat /\ inst[i].ver > inst[i].cur
      /\ \A c \in DOMAIN previous \ {inst[i].cur} : inst[i].ver > c
  BY <1>1 DEF UpdInv, UpdTyped, JobRecords, Overtaken, CacheCurrent, Upd!Recoverable
<1>5. \A j \in Jobs : inst[j].cur # 0 /\ inst[j].cur \in DOMAIN previous
  BY <1>4 DEF UpdInv, Overtaken
<1>6. CASE target' = inst[i].ver /\ Upd!Unlocked(i, "installed") /\ UNCHANGED previous
  <2>1. /\ inst' \in [Installers -> JobRecords] /\ inst'[i].pc = "none"
        /\ \A j \in Installers \ {i} : inst'[j] = inst[j]
        /\ Jobs' = Jobs \ {i} /\ Replacing' = {} /\ Inside' = {}
        /\ \A j \in Installers : inst'[j].pc # "away"
    BY <1>3, <1>6 DEF Upd!Unlocked
  <2>2. inst[i].ver \notin DOMAIN previous /\ inst[i].ver # 0
    BY <1>4
  <2>3. UpdTyped' /\ Offered' /\ LockHeld' /\ Upd!Recoverable'
    BY <1>1, <1>4, <1>6, <2>1, <2>2, OutsideKept
       DEF UpdInv, UpdTyped, Offered, LockHeld, Upd!Recoverable
  <2>4. CacheCurrent'
    BY <1>1, <1>6, <2>1, OutsideKept DEF UpdInv, CacheCurrent
  <2>5. Overtaken'
    BY <1>1, <1>5, <1>6, <2>1, <2>2 DEF Overtaken
  <2> QED BY <2>3, <2>4, <2>5 DEF UpdInv
<1>7. CASE /\ target' = previous[inst[i].cur]
           /\ previous' = [c \in DOMAIN previous \ {inst[i].cur} |-> previous[c]]
           /\ Upd!Unlocked(i, "error")
  <2>1. /\ inst' \in [Installers -> JobRecords] /\ inst'[i].pc = "none"
        /\ \A j \in Installers \ {i} : inst'[j] = inst[j]
        /\ Jobs' = Jobs \ {i} /\ Replacing' = {} /\ Inside' = {}
        /\ \A j \in Installers : inst'[j].pc # "away"
    BY <1>3, <1>7 DEF Upd!Unlocked
  <2>2. /\ target' = inst[i].cur /\ DOMAIN previous' = DOMAIN previous \ {inst[i].cur}
        /\ \A c \in DOMAIN previous' : previous'[c] = c
    BY <1>4, <1>7
  <2>3. UpdTyped' /\ Offered' /\ LockHeld' /\ Upd!Recoverable'
    BY <1>1, <1>4, <2>1, <2>2, OutsideKept
       DEF UpdInv, UpdTyped, Offered, LockHeld, Upd!Recoverable
  <2>4. CacheCurrent'
    BY <1>1, <2>1, <2>2, OutsideKept DEF UpdInv, CacheCurrent
  <2>5. ASSUME NEW j \in Jobs, inst[j].cur = inst[i].cur
        PROVE  \A c \in DOMAIN previous' : inst[j].ver > c
    BY <1>1, <2>2, <2>5 DEF UpdInv, Overtaken
  <2>6. Overtaken'
    BY <1>1, <1>5, <2>1, <2>2, <2>5 DEF Overtaken
  <2> QED BY <2>3, <2>4, <2>6 DEF UpdInv
<1> QED BY <1>2, <1>6, <1>7 DEF Upd!MoveIn

\* StartHelper and performUpdate: a new job is for the installed version, and
\* its release is newer than all the old files.
LEMMA NewJob ==
  ASSUME UpdInv, NEW i \in Installers, inst[i] = Upd!NoJob,
         NEW job \in JobRecords, job.pc \in {"check", "lock"}, inst' = [inst EXCEPT ![i] = job],
         (job.pc = "check" => job.image = job.cur) =>
            job.cur # 0 /\ (job.cur = target \/ job.cur \in DOMAIN previous),
         job.ver <= latest, \A c \in DOMAIN previous : job.ver > c,
         ctl.release = 0 \/ ctl.release >= job.ver,
         stateFile.release = 0 \/ stateFile.release >= job.ver,
         ctl' \in ControlRecords, ctl'.release \in {0, ctl.release},
         ctl'.release = 0 => ctl'.ready = FALSE /\ ctl'.busy # "downloading",
         ctl'.release # 0 => gui' = gui /\ ctl'.ready = ctl.ready /\ ctl'.busy = ctl.busy,
         archives \subseteq archives',
         gui' \in [up : {"no", "yes", "closing"}, cur : Nat, run : Nat],
         gui'.up = "no" \/ gui' = gui,
         UNCHANGED <<product, latest, stateFile, target, previous, lock>>
  PROVE  UpdInv'
<1>1. /\ inst' \in [Installers -> JobRecords] /\ inst'[i] = job
      /\ \A j \in Installers \ {i} : inst'[j] = inst[j]
  BY DEF UpdInv, UpdTyped
<1>2. Upd!NoJob.pc = "none"
  BY DEF Upd!NoJob
<1>3. /\ Replacing' = Replacing /\ Inside' = Inside /\ i \notin Replacing /\ i \notin Inside
      /\ Jobs' \subseteq Jobs \cup {i} /\ i \notin Jobs /\ Jobs \subseteq Installers
      /\ Replacing \subseteq Installers /\ Inside \subseteq Installers
  BY <1>1, <1>2 DEF Replacing, Inside, Jobs
<1>4. i \in Jobs' => job.cur # 0 /\ (job.cur = target \/ job.cur \in DOMAIN previous)
  BY <1>1 DEF Jobs
<1>8. UpdTyped'
  BY <1>1 DEF UpdInv, UpdTyped, ControlRecords
<1>9. Offered'
  <2>1. latest \in Nat /\ ctl'.release <= latest
    BY DEF UpdInv, UpdTyped, Offered
  <2> QED BY <2>1 DEF UpdInv, Offered
<1>10. LockHeld' /\ Upd!Recoverable'
  BY <1>3 DEF UpdInv, LockHeld, Upd!Recoverable
<1>11. CacheCurrent'
  BY <1>1, <1>3 DEF UpdInv, CacheCurrent
<1>12. Overtaken'
  <2>1. \A j \in Installers : inst'[j].pc = "away" => inst[j].pc = "away" /\ j # i
    BY <1>1
  <2> QED BY <1>1, <1>3, <1>4, <2>1 DEF UpdInv, Overtaken
<1> QED BY <1>8, <1>9, <1>10, <1>11, <1>12 DEF UpdInv

LEMMA LaunchInv ==
  ASSUME UpdInv, NEW i \in Installers, Upd!Launch(i), Upd!Installable, gui.up # "no",
         \/ ctl' = [ctl EXCEPT !.started = TRUE] /\ gui' = gui
         \/ ctl' = Upd!Idle /\ Upd!Gone,
         UNCHANGED <<product, latest, stateFile, archives, target, previous, lock>>
  PROVE  UpdInv'
<1>0. PICK image \in ({target} \ {0}) \cup ({gui.cur} \cap DOMAIN previous) :
        inst' = [inst EXCEPT ![i] = [pc |-> "check", ver |-> ctl.release, cur |-> gui.cur,
                                      image |-> image, parent |-> gui.run]]
  BY DEF Upd!Launch
<1> DEFINE job == [pc |-> "check", ver |-> ctl.release, cur |-> gui.cur,
                   image |-> image, parent |-> gui.run]
<1>1. /\ job \in JobRecords /\ job.pc = "check" /\ job.ver = ctl.release
      /\ job.cur = gui.cur /\ job.image = image
  BY DEF UpdInv, UpdTyped, JobRecords
<1>2. inst[i] = Upd!NoJob /\ inst' = [inst EXCEPT ![i] = job]
  BY <1>0 DEF Upd!Launch
<1> HIDE DEF job
<1>3. ctl.release # 0 /\ ctl.ready /\ ctl.release <= latest /\ stateFile.release = ctl.release
  BY DEF Upd!Installable, UpdInv, Offered
<1>4. /\ \A c \in DOMAIN previous : ctl.release > c
      /\ ctl.release \in Nat
  BY <1>3 DEF UpdInv, CacheCurrent, UpdTyped
<1>5. gui \in [up : {"no", "yes", "closing"}, cur : Nat, run : Nat]
  BY DEF UpdInv, UpdTyped
<1>a. /\ job.ver <= latest /\ \A c \in DOMAIN previous : job.ver > c
      /\ ctl.release >= job.ver /\ stateFile.release >= job.ver
  BY <1>1, <1>3, <1>4
<1>b. job.image = job.cur => job.cur # 0 /\ (job.cur = target \/ job.cur \in DOMAIN previous)
  BY <1>0, <1>1 DEF UpdInv, UpdTyped
<1>6. CASE ctl' = Upd!Idle /\ Upd!Gone
  <2>1. /\ gui' \in [up : {"no", "yes", "closing"}, cur : Nat, run : Nat] /\ gui'.up = "no"
    BY <1>5, <1>6 DEF Upd!Gone
  <2>2. ctl' \in ControlRecords /\ ctl'.release = 0 /\ ctl'.ready = FALSE /\ ctl'.busy = "none"
    BY <1>6 DEF Upd!Idle, ControlRecords
  <2> QED BY <1>1, <1>2, <1>a, <1>b, <2>1, <2>2, NewJob
<1>7. CASE ctl' = [ctl EXCEPT !.started = TRUE] /\ gui' = gui
  <2>1. ctl' \in ControlRecords /\ ctl'.release = ctl.release /\ ctl'.ready = ctl.ready
        /\ ctl'.busy = ctl.busy
    BY <1>7 DEF UpdInv, UpdTyped, ControlRecords
  <2> QED BY <1>1, <1>2, <1>3, <1>a, <1>b, <1>5, <1>7, <2>1, NewJob
<1> QED BY <1>6, <1>7

LEMMA UserRepairsInv == UpdInv /\ Upd!UserRepairs => UpdInv'
<1> SUFFICES ASSUME UpdInv, Upd!UserRepairs PROVE UpdInv'
  OBVIOUS
<1>1. /\ UNCHANGED Upd!outside /\ inst' = inst /\ UNCHANGED <<product, latest, gui, ctl, stateFile, archives>>
  BY OutsideKept DEF Upd!UserRepairs
<1>2. Upd!NoJob.pc = "none"
  BY DEF Upd!NoJob
<1>3. /\ Jobs = {} /\ Replacing = {} /\ Inside = {} /\ \A i \in Installers : inst[i].pc # "away"
      /\ Jobs' = {} /\ Replacing' = {} /\ Inside' = {}
  BY <1>1, <1>2 DEF Upd!UserRepairs, Jobs, Replacing, Inside
<1>4. /\ target' \in Nat /\ DOMAIN previous' \subseteq DOMAIN previous
      /\ Upd!Recoverable'
  <2>1. CASE UNCHANGED <<target, previous>>
    BY <2>1 DEF UpdInv, UpdTyped, Upd!Recoverable
  <2>2. ASSUME NEW c \in DOMAIN previous,
               target' = IF target = 0 THEN previous[c] ELSE target,
               previous' = [d \in DOMAIN previous \ {c} |-> previous[d]]
        PROVE  /\ target' \in Nat /\ DOMAIN previous' \subseteq DOMAIN previous
               /\ Upd!Recoverable'
    <3>1. previous[c] = c /\ c \in Nat \ {0} /\ target \in Nat
      BY DEF UpdInv, UpdTyped, Upd!Recoverable
    <3>2. target' \in Nat \ {0} /\ DOMAIN previous' = DOMAIN previous \ {c}
      BY <2>2, <3>1
    <3> QED BY <2>2, <3>2 DEF UpdInv, Upd!Recoverable
  <2> QED BY <2>1, <2>2 DEF Upd!UserRepairs
<1>5. UpdTyped' /\ Offered' /\ LockHeld'
  BY <1>1, <1>3, <1>4 DEF UpdInv, UpdTyped, Offered, LockHeld
<1>6. CacheCurrent' /\ Overtaken'
  BY <1>1, <1>3, <1>4 DEF UpdInv, CacheCurrent, Overtaken
<1> QED BY <1>4, <1>5, <1>6 DEF UpdInv

LEMMA CliUpdateInv ==
  ASSUME UpdInv, NEW i \in Installers, Upd!CliUpdate(i)
  PROVE  UpdInv'
<1> DEFINE job == [Upd!NoJob EXCEPT !.pc = "lock", !.ver = latest, !.cur = target]
<1>1. /\ inst[i] = Upd!NoJob /\ target # 0 /\ inst' = [inst EXCEPT ![i] = job]
      /\ archives \subseteq archives' /\ product = "ntwire"
      /\ UNCHANGED <<product, latest, gui, ctl, stateFile, target, previous, lock>>
  BY DEF Upd!CliUpdate, Upd!fileVars
<1>2. latest \in Nat /\ target \in Nat
  BY DEF UpdInv, UpdTyped
<1>3. Upd!NoJob \in JobRecords
  BY DEF Upd!NoJob, JobRecords
<1>4. job \in JobRecords /\ job.pc = "lock" /\ job.ver = latest /\ job.cur = target
  BY <1>2, <1>3 DEF JobRecords
<1> HIDE DEF job
<1>5. /\ ctl.release = 0 /\ stateFile.release = 0 /\ ctl.ready = FALSE /\ ctl.busy # "downloading"
      /\ ctl \in ControlRecords
      /\ gui \in [up : {"no", "yes", "closing"}, cur : Nat, run : Nat]
  BY <1>1 DEF UpdInv, Offered, UpdTyped, ControlRecords
<1>6. \A c \in DOMAIN previous : latest > c
  <2>1. \A c \in DOMAIN previous : c < latest /\ c \in Nat
    BY DEF UpdInv, CacheCurrent, UpdTyped
  <2> QED BY <1>2, <2>1
<1>7. job.ver <= latest /\ \A c \in DOMAIN previous : job.ver > c
  BY <1>2, <1>4, <1>6
<1> QED BY <1>1, <1>4, <1>5, <1>7, NewJob

LEMMA UpdStep == UpdInv /\ [Upd!Next]_Upd!vars => UpdInv'
<1> SUFFICES ASSUME UpdInv, [Upd!Next]_Upd!vars PROVE UpdInv'
  OBVIOUS
<1>1. CASE UNCHANGED Upd!vars
  BY <1>1 DEF Upd!vars, UpdInv, UpdTyped, Offered, LockHeld, CacheCurrent, Overtaken,
     Upd!Recoverable, Jobs, Replacing, Inside
<1>2. CASE Upd!Exit \/ Upd!GuiCrashes
  BY <1>2, LeavesInv DEF Upd!Exit, Upd!GuiCrashes, Upd!fileVars
<1>3. ASSUME NEW i \in Installers, Upd!InstallOnExit(i) \/ Upd!ExitWithUpdate(i) PROVE UpdInv'
  BY <1>3, LaunchInv DEF Upd!InstallOnExit, Upd!ExitWithUpdate, Upd!fileVars
<1>4. ASSUME NEW i \in Installers, Upd!Install(i) PROVE UpdInv'
  BY <1>4, HelperInv, TakeLockInv, StageInv, MoveAwayInv, MoveInInv DEF Upd!Install
<1>5. ASSUME NEW i \in Installers, Upd!InstallerCrashes(i) PROVE UpdInv'
  BY <1>5, JobGone, OutsideKept DEF Upd!InstallerCrashes, Upd!fileVars
<1>6. CASE Upd!LaunchFails
  BY <1>6 DEF Upd!LaunchFails, Upd!fileVars, UpdInv, UpdTyped, Offered, LockHeld, CacheCurrent,
     Overtaken, Upd!Recoverable, Jobs, Replacing, Inside
<1> QED BY <1>1, <1>2, <1>3, <1>4, <1>5, <1>6, PublishInv, GuiStartsInv, BeginInv, CheckEndsInv,
     DownloadEndsInv, QuitInv, UserRepairsInv, CliUpdateInv DEF Upd!Next

LEMMA UpdSafe == UpdInv => Upd!UpdatesSafe
<1> SUFFICES ASSUME UpdInv PROVE Upd!UpdatesSafe
  OBVIOUS
<1>1. Upd!Recoverable
  BY DEF UpdInv
<1>2. Upd!OneReplaces
  BY DEF UpdInv, LockHeld, Upd!OneReplaces, Replacing
<1>3. Upd!ReadyIsReady
  BY DEF UpdInv, Offered, Upd!ReadyIsReady, Upd!Newer
<1>4. Upd!NeverOlder
  <2> SUFFICES ASSUME NEW i \in Installers, inst[i].pc = "in", NEW c \in DOMAIN previous
               PROVE  inst[i].ver > previous[c]
    BY DEF Upd!NeverOlder, Upd!Newer
  <2>1. i \in Jobs /\ i \in Replacing /\ i \in Inside
    BY DEF Jobs, Replacing, Inside
  <2>2. previous[c] = c
    BY DEF UpdInv, Upd!Recoverable
  <2>3. inst[i].ver > inst[i].cur
    BY <2>1 DEF UpdInv, CacheCurrent
  <2>4. c # inst[i].cur => inst[i].ver > c
    BY <2>1 DEF UpdInv, Overtaken
  <2> QED BY <2>2, <2>3, <2>4
<1> QED BY <1>1, <1>2, <1>3, <1>4 DEF Upd!UpdatesSafe

\* Whoever dies between the two renames, and however many jobs were made for the
\* version that one of them replaced, an update neither loses the installed
\* files nor puts an older version in their place.
THEOREM UpdatesAreSafe == Upd!Spec => []Upd!UpdatesSafe
BY UpdInit, UpdStep, UpdSafe, PTL DEF Upd!Spec

\* The desktop client: its four parts together keep what it promises.
THEOREM GuiIsSound == Spec /\ Store!Spec /\ Upd!Spec /\ Launch!Spec => []GuiSound
<1>1. IInv => TypeOK /\ NoOrphan
  <2>1. IInv => TypeOK
    BY DEF IInv, Typed, TypeOK, SessionRecords, AttemptRecords
  <2> QED BY <2>1, Owners
<1>2. IInv /\ Store!StoreSound /\ Upd!UpdatesSafe /\ Launch!WindowGoneAtExit => GuiSound
  BY <1>1 DEF GuiSound
<1> QED BY <1>2, ManagerInvariant, SettingsAreKept, UpdatesAreSafe,
     NoWindowOutlivesItsInstance, PTL
=============================================================================
