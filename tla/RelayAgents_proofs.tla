-------------------------- MODULE RelayAgents_proofs --------------------------
(***************************************************************************)
(* Proofs about RelayAgents, for any number of control connections,        *)
(* tenants, keys and slots: what the tables of the relay name belongs to a *)
(* handler that still has to give it back, the slots add up, and a serving *)
(* agent stays reachable until somebody closes it.                         *)
(***************************************************************************)
EXTENDS RelayAgents, FiniteSetTheorems, TLAPS

-----------------------------------------------------------------------------
(* Counters that stand for sets: how the size of a set moves when one      *)
(* element enters or leaves.                                               *)
Bit(b) == IF b THEN 1 ELSE 0

\* An element counts for one.
LEMMA CardinalityWithout ==
  ASSUME NEW S, NEW c, IsFiniteSet(S)
  PROVE  /\ Cardinality(S \ {c}) \in Nat
         /\ Cardinality(S) = Cardinality(S \ {c}) + Bit(c \in S)
<1> DEFINE U == S \ {c}
<1>1. IsFiniteSet(U) /\ c \notin U
  BY FS_Subset
<1>2. Cardinality(U \cup {c}) = Cardinality(U) + 1
  BY <1>1, FS_AddElement
<1>3. Cardinality(U) \in Nat
  BY <1>1, FS_CardinalityType
<1>4. S = IF c \in S THEN U \cup {c} ELSE U
  OBVIOUS
<1> QED
  BY <1>2, <1>3, <1>4 DEF Bit

\* Two finite sets that agree off one element differ by that element.
LEMMA CardinalityOffOne ==
  ASSUME NEW S, NEW T, NEW c, IsFiniteSet(S), IsFiniteSet(T), T \ {c} = S \ {c}
  PROVE  Cardinality(T) = Cardinality(S) + Bit(c \in T) - Bit(c \in S)
<1>1. /\ Cardinality(S \ {c}) \in Nat
      /\ Cardinality(S) = Cardinality(S \ {c}) + Bit(c \in S)
  BY CardinalityWithout
<1>2. Cardinality(T) = Cardinality(T \ {c}) + Bit(c \in T)
  BY CardinalityWithout
<1>3. Cardinality(T \ {c}) = Cardinality(S \ {c})
  OBVIOUS
<1> QED
  BY <1>1, <1>2, <1>3 DEF Bit


(***************************************************************************)
(* What the promises rest on.                                              *)
(***************************************************************************)

\* The handler has registered its agent and not yet deregistered it.
Registered == {"replacing", "bound", "unslotted", "claimed", "serving",
               "undoNative", "undoSocks", "undoAgent"}

\* Register has answered a handler that is past it.
Named ==
  \A h \in Handlers : pc[h] \in Registered \cup {"verified", "undoWS"} =>
    name[h] \in Names /\ key[h] \in Keys

\* The agent that was replaced is remembered only until it is closed.
Replacing == \A h \in Handlers : old[h] # None => pc[h] = "replacing"

\* An agent that is not its tenant's any more is closed, or will be by whoever
\* replaced or evicted it.
Superseded ==
  \A h \in Handlers :
    (/\ pc[h] \in Registered
     /\ h \notin closed \cup evicting
     /\ \A g \in Handlers : old[g] # h) => agent[name[h]] = h

\* The current agent is the owner of the PAC targets once it has claimed them.
Offered ==
  \A h \in Handlers :
    (pc[h] \in {"claimed", "serving"} /\ agent[name[h]] = h) => socksOwner[name[h]] = h

Owned == NothingOutlivesItsHandler /\ Named /\ Replacing /\ Superseded /\ Offered

IInv == TypeOK /\ RegistrationSlots /\ Owned

(***************************************************************************)
(* Facts used by several actions.                                          *)
(***************************************************************************)

\* The conjuncts of TypeOK one by one.
LEMMA Types ==
  ASSUME TypeOK
  PROVE  /\ evicting \in SUBSET Handlers /\ closed \in SUBSET Handlers
         /\ pendingRegs \in Nat
         /\ pc \in [Handlers -> Points]
         /\ name \in [Handlers -> Names \cup {None}]
         /\ key \in [Handlers -> Keys \cup {None}]
         /\ old \in [Handlers -> Handlers \cup {None}]
         /\ agent \in [Names -> Handlers \cup {None}]
         /\ socksOwner \in [Names -> Handlers \cup {None}]
         /\ token \in [Names -> Handlers \cup {None}]
         /\ assoc \in [Names -> Handlers \cup {None}]
BY DEF TypeOK

\* A handler that owes the counter a decrement.
Owing == Unregistered \cup {"refused"}

\* The counter follows a handler that moves.
LEMMA SlotMoves ==
  ASSUME IInv, NEW h \in Handlers, NEW l \in Points, pc' = [pc EXCEPT ![h] = l],
         pendingRegs' = pendingRegs + Bit(l \in Owing) - Bit(pc[h] \in Owing),
         l \in Unregistered => pc[h] \in Unregistered \/ pendingRegs' <= MaxPendingRegs
  PROVE  pendingRegs' \in Nat /\ RegistrationSlots'
<1> DEFINE A == {g \in Handlers : pc[g] \in Owing}
           B == {g \in Handlers : pc'[g] \in Owing}
           C == {g \in Handlers : pc[g] \in Unregistered}
           D == {g \in Handlers : pc'[g] \in Unregistered}
<1>0. pc \in [Handlers -> Points] /\ pendingRegs \in Nat
  BY Types DEF IInv
<1>1. IsFiniteSet(A) /\ IsFiniteSet(B) /\ IsFiniteSet(C) /\ IsFiniteSet(D)
  BY SomeSlots, FS_Subset
<1>2. B \ {h} = A \ {h} /\ D \ {h} = C \ {h}
  BY <1>0
<1>3. /\ h \in A <=> pc[h] \in Owing
      /\ h \in B <=> l \in Owing
      /\ h \in C <=> pc[h] \in Unregistered
      /\ h \in D <=> l \in Unregistered
  BY <1>0
<1>4. /\ Cardinality(B) = Cardinality(A) + Bit(h \in B) - Bit(h \in A)
      /\ Cardinality(D) = Cardinality(C) + Bit(h \in D) - Bit(h \in C)
  BY <1>1, <1>2, CardinalityOffOne
<1>5. Cardinality(A) = pendingRegs /\ Cardinality(C) <= MaxPendingRegs
  BY DEF IInv, RegistrationSlots, Owing
<1>6. /\ Cardinality(A) \in Nat /\ Cardinality(B) \in Nat
      /\ Cardinality(C) \in Nat /\ Cardinality(D) \in Nat
  BY <1>1, FS_CardinalityType
<1>7. Cardinality(B) = pendingRegs'
  BY <1>3, <1>4, <1>5
<1>8. Cardinality(D) <= Cardinality(B)
  <2>1. D \subseteq B
    BY DEF Owing
  <2> QED BY <2>1, <1>1, FS_Subset
<1>9. Cardinality(D) <= MaxPendingRegs
  <2>1. CASE l \in Unregistered /\ pc[h] \notin Unregistered
    BY <2>1, <1>6, <1>7, <1>8, SomeSlots
  <2>2. CASE ~(l \in Unregistered /\ pc[h] \notin Unregistered)
    <3>1. Bit(h \in D) <= Bit(h \in C) /\ Bit(h \in D) \in {0, 1} /\ Bit(h \in C) \in {0, 1}
      BY <2>2, <1>3 DEF Bit
    <3> QED BY <3>1, <1>4, <1>5, <1>6, SomeSlots
  <2> QED BY <2>1, <2>2
<1> QED BY <1>6, <1>7, <1>9 DEF RegistrationSlots, Owing

\* The three ways a handler moves: with its slot, giving it back, without one.
LEMMA SlotStays ==
  ASSUME IInv, NEW h \in Handlers, NEW l \in Points, pc' = [pc EXCEPT ![h] = l],
         pendingRegs' = pendingRegs, pc[h] \in Owing <=> l \in Owing,
         l \in Unregistered => pc[h] \in Unregistered
  PROVE  pendingRegs' \in Nat /\ RegistrationSlots'
<1>1. /\ Bit(l \in Owing) = Bit(pc[h] \in Owing) /\ Bit(l \in Owing) \in {0, 1}
      /\ pendingRegs \in Nat
  BY Types DEF Bit, IInv
<1>2. pendingRegs' = pendingRegs + Bit(l \in Owing) - Bit(pc[h] \in Owing)
  BY <1>1
<1> QED BY <1>2, SlotMoves

LEMMA SlotBack ==
  ASSUME IInv, NEW h \in Handlers, NEW l \in Points, pc' = [pc EXCEPT ![h] = l],
         pendingRegs' = pendingRegs - 1, pc[h] \in Owing, l \notin Owing
  PROVE  pendingRegs' \in Nat /\ RegistrationSlots'
<1>1. Bit(l \in Owing) = 0 /\ Bit(pc[h] \in Owing) = 1 /\ pendingRegs \in Nat
  BY Types DEF Bit, IInv
<1>2. pendingRegs' = pendingRegs + Bit(l \in Owing) - Bit(pc[h] \in Owing)
  BY <1>1
<1> QED BY <1>2, SlotMoves DEF Owing

\* A step that moves no handler keeps the slots.
LEMMA SlotsKept ==
  ASSUME IInv, pc' = pc, pendingRegs' = pendingRegs
  PROVE  pendingRegs' \in Nat /\ RegistrationSlots'
BY Types DEF IInv, RegistrationSlots

(***************************************************************************)
(* The initial states and every step.                                      *)
(***************************************************************************)

\* Nothing is held before the first connection.
LEMMA InitInv == Init => IInv
<1> SUFFICES ASSUME Init PROVE IInv
  OBVIOUS
<1>1. TypeOK
  BY SomeSlots DEF Init, TypeOK, Points
<1>2. RegistrationSlots
  <2>1. /\ {h \in Handlers : pc[h] \in Unregistered \cup {"refused"}} = {}
        /\ {h \in Handlers : pc[h] \in Unregistered} = {}
        /\ pendingRegs = 0
    BY DEF Init, Unregistered
  <2> QED BY <2>1, FS_EmptySet, SomeSlots DEF RegistrationSlots
<1>3. Owned
  BY DEF Init, Owned, NothingOutlivesItsHandler, Named, Replacing, Superseded, Offered,
         Registered
<1> QED BY <1>1, <1>2, <1>3 DEF IInv

\* A connection comes: the counter is taken and looked at.
LEMMA AdmitInv ==
  ASSUME IInv, NEW h \in Handlers, Admit(h)
  PROVE  IInv'
<1>0. TypeOK /\ Owned /\ IInv
  BY DEF IInv
<1> USE Types, Distinct DEF Goto, configVars, ownerVars, Points
<1> DEFINE l == IF pendingRegs' > MaxPendingRegs THEN "refused" ELSE "admitted"
<1>1. pendingRegs' \in Nat /\ RegistrationSlots'
  <2>1. /\ pc[h] = "idle" /\ l \in Points /\ pc' = [pc EXCEPT ![h] = l]
        /\ pendingRegs' = pendingRegs + 1 /\ pendingRegs \in Nat
    BY <1>0 DEF Admit
  <2>2. l \in Unregistered => pendingRegs' <= MaxPendingRegs
    BY <2>1, SomeSlots DEF Unregistered
  <2>3. Bit(l \in Owing) = 1 /\ Bit(pc[h] \in Owing) = 0
    BY <2>1 DEF Bit, Owing, Unregistered
  <2>4. pendingRegs' = pendingRegs + Bit(l \in Owing) - Bit(pc[h] \in Owing)
    BY <2>1, <2>3
  <2> HIDE DEF l
  <2> QED BY <2>1, <2>2, <2>4, SlotMoves
<1>2. TypeOK'
  BY <1>0, <1>1 DEF Admit, TypeOK
<1>3. Owned'
  BY <1>0 DEF Admit, Owned, NothingOutlivesItsHandler, Named, Replacing, Superseded,
              Offered, Registered
<1> QED BY <1>1, <1>2, <1>3 DEF IInv

\* A registration that is refused or fails, and one that is through: the slot
\* is given back once.
LEMMA SlotGivenBack ==
  ASSUME IInv, NEW h \in Handlers,
         GiveUp(h) \/ RegisterFails(h) \/ ReleasePending(h)
  PROVE  IInv'
<1>0. TypeOK /\ Owned /\ IInv
  BY DEF IInv
<1> USE Types, Distinct DEF Goto, configVars, ownerVars, Points
<1>1. CASE GiveUp(h)
  <2>1. pendingRegs' \in Nat /\ RegistrationSlots'
    BY <1>1, SlotBack DEF GiveUp, Owing, Unregistered
  <2>2. TypeOK'
    BY <1>0, <1>1, <2>1 DEF GiveUp, TypeOK
  <2>3. Owned'
    BY <1>0, <1>1 DEF GiveUp, Owned, NothingOutlivesItsHandler, Named, Replacing,
                         Superseded, Offered, Registered
  <2> QED BY <2>1, <2>2, <2>3 DEF IInv
<1>2. CASE RegisterFails(h)
  <2>1. pendingRegs' \in Nat /\ RegistrationSlots'
    BY <1>2, SlotStays DEF RegisterFails, Owing, Unregistered
  <2>2. TypeOK'
    BY <1>0, <1>2, <2>1 DEF RegisterFails, TypeOK
  <2>3. Owned'
    BY <1>0, <1>2 DEF RegisterFails, Owned, NothingOutlivesItsHandler, Named, Replacing,
                         Superseded, Offered, Registered
  <2> QED BY <2>1, <2>2, <2>3 DEF IInv
<1>3. CASE ReleasePending(h)
  <2>1. pendingRegs' \in Nat /\ RegistrationSlots'
    BY <1>3, SlotBack DEF ReleasePending, Owing, Unregistered
  <2>2. TypeOK'
    BY <1>0, <1>3, <2>1 DEF ReleasePending, TypeOK
  <2>3. Owned'
    BY <1>0, <1>3 DEF ReleasePending, Owned, NothingOutlivesItsHandler, Named, Replacing,
                         Superseded, Offered, Registered
  <2> QED BY <2>1, <2>2, <2>3 DEF IInv
<1> QED BY <1>1, <1>2, <1>3

\* The tenant gets its agent, and the one before is closed.
LEMMA AgentReplaced ==
  ASSUME IInv, NEW h \in Handlers,
         RegisterAgent(h) \/ CloseReplaced(h)
  PROVE  IInv'
<1>0. TypeOK /\ Owned /\ IInv
  BY DEF IInv
<1> USE Types, Distinct DEF Goto, configVars, ownerVars, Points
<1>1. CASE RegisterAgent(h)
  <2>1. pendingRegs' \in Nat /\ RegistrationSlots'
    BY <1>1, SlotStays DEF RegisterAgent, Owing, Unregistered
  <2>2. TypeOK'
    BY <1>0, <1>1, <2>1 DEF RegisterAgent, TypeOK, Owned, Named, Registered
  <2>3. Owned'
    BY <1>0, <1>1 DEF RegisterAgent, Owned, NothingOutlivesItsHandler, Named, Replacing,
                         Superseded, Offered, Registered
  <2> QED BY <2>1, <2>2, <2>3 DEF IInv
<1>2. CASE CloseReplaced(h)
  <2>1. pendingRegs' \in Nat /\ RegistrationSlots'
    BY <1>2, SlotStays DEF CloseReplaced, Owing, Unregistered
  <2>2. TypeOK'
    BY <1>0, <1>2, <2>1 DEF CloseReplaced, TypeOK
  <2>3. Owned'
    BY <1>0, <1>2 DEF CloseReplaced, Owned, NothingOutlivesItsHandler, Named, Replacing,
                         Superseded, Offered, Registered
  <2> QED BY <2>1, <2>2, <2>3 DEF IInv
<1> QED BY <1>1, <1>2

\* PAC targets, token and the end of serving.
LEMMA ClaimsMade ==
  ASSUME IInv, NEW h \in Handlers,
         ClaimSocks(h) \/ IssueToken(h) \/ Disconnect(h)
  PROVE  IInv'
<1>0. TypeOK /\ Owned /\ IInv
  BY DEF IInv
<1> USE Types, Distinct DEF Goto, configVars, ownerVars, Points
<1>1. CASE ClaimSocks(h)
  <2>1. pendingRegs' \in Nat /\ RegistrationSlots'
    BY <1>1, SlotStays DEF ClaimSocks, Owing, Unregistered
  <2>2. TypeOK'
    BY <1>0, <1>1, <2>1 DEF ClaimSocks, TypeOK, Owned, Named, Registered
  <2>3. Owned'
    BY <1>0, <1>1 DEF ClaimSocks, Owned, NothingOutlivesItsHandler, Named, Replacing,
                         Superseded, Offered, Registered
  <2> QED BY <2>1, <2>2, <2>3 DEF IInv
<1>2. CASE IssueToken(h)
  <2>1. pendingRegs' \in Nat /\ RegistrationSlots'
    BY <1>2, SlotStays DEF IssueToken, Owing, Unregistered
  <2>2. TypeOK'
    BY <1>0, <1>2, <2>1 DEF IssueToken, TypeOK, Owned, Named, Registered
  <2>3. Owned'
    BY <1>0, <1>2 DEF IssueToken, Owned, NothingOutlivesItsHandler, Named, Replacing,
                         Superseded, Offered, Registered
  <2> QED BY <2>1, <2>2, <2>3 DEF IInv
<1>3. CASE Disconnect(h)
  <2>1. pendingRegs' \in Nat /\ RegistrationSlots'
    BY <1>3, SlotStays DEF Disconnect, Owing, Unregistered
  <2>2. TypeOK'
    BY <1>0, <1>3, <2>1 DEF Disconnect, TypeOK
  <2>3. Owned'
    BY <1>0, <1>3 DEF Disconnect, Owned, NothingOutlivesItsHandler, Named, Replacing,
                         Superseded, Offered, Registered
  <2> QED BY <2>1, <2>2, <2>3 DEF IInv
<1> QED BY <1>1, <1>2, <1>3

\* The deferred functions.
LEMMA ClaimsUndone ==
  ASSUME IInv, NEW h \in Handlers,
         RemoveToken(h) \/ UnclaimSocks(h) \/ DeregisterAgent(h) \/ Leave(h)
  PROVE  IInv'
<1>0. TypeOK /\ Owned /\ IInv
  BY DEF IInv
<1> USE Types, Distinct DEF Goto, configVars, ownerVars, Points
<1>1. CASE RemoveToken(h)
  <2>1. pendingRegs' \in Nat /\ RegistrationSlots'
    BY <1>1, SlotStays DEF RemoveToken, Owing, Unregistered
  <2>2. TypeOK'
    BY <1>0, <1>1, <2>1 DEF RemoveToken, TypeOK
  <2>3. Owned'
    BY <1>0, <1>1 DEF RemoveToken, Owned, NothingOutlivesItsHandler, Named, Replacing,
                         Superseded, Offered, Registered
  <2> QED BY <2>1, <2>2, <2>3 DEF IInv
<1>2. CASE UnclaimSocks(h)
  <2>1. pendingRegs' \in Nat /\ RegistrationSlots'
    BY <1>2, SlotStays DEF UnclaimSocks, Owing, Unregistered
  <2>2. TypeOK'
    BY <1>0, <1>2, <2>1 DEF UnclaimSocks, TypeOK
  <2>3. Owned'
    BY <1>0, <1>2 DEF UnclaimSocks, Owned, NothingOutlivesItsHandler, Named, Replacing,
                         Superseded, Offered, Registered
  <2> QED BY <2>1, <2>2, <2>3 DEF IInv
<1>3. CASE DeregisterAgent(h)
  <2>1. pendingRegs' \in Nat /\ RegistrationSlots'
    BY <1>3, SlotStays DEF DeregisterAgent, Owing, Unregistered
  <2>2. TypeOK'
    BY <1>0, <1>3, <2>1 DEF DeregisterAgent, TypeOK
  <2>3. Owned'
    BY <1>0, <1>3 DEF DeregisterAgent, Owned, NothingOutlivesItsHandler, Named, Replacing,
                         Superseded, Offered, Registered
  <2> QED BY <2>1, <2>2, <2>3 DEF IInv
<1>4. CASE Leave(h)
  <2>1. pendingRegs' \in Nat /\ RegistrationSlots'
    BY <1>4, SlotStays DEF Leave, Owing, Unregistered
  <2>2. TypeOK'
    BY <1>0, <1>4, <2>1 DEF Leave, TypeOK
  <2>3. Owned'
    BY <1>0, <1>4 DEF Leave, Owned, NothingOutlivesItsHandler, Named, Replacing,
                         Superseded, Offered, Registered
  <2> QED BY <2>1, <2>2, <2>3 DEF IInv
<1> QED BY <1>1, <1>2, <1>3, <1>4

\* Register: the key decides the tenant.
LEMMA RegisterInv ==
  ASSUME IInv, NEW h \in Handlers, NEW k \in Keys, Register(h, k)
  PROVE  IInv'
<1>0. TypeOK /\ Owned /\ IInv
  BY DEF IInv
<1> USE Types, Distinct DEF Goto, configVars, ownerVars, Points
<1>1. pendingRegs' \in Nat /\ RegistrationSlots'
  BY SlotStays DEF Register, Owing, Unregistered
<1>2. byFingerprint[k] \in Names
  BY <1>0 DEF Register, TypeOK, Configured
<1>3. TypeOK'
  BY <1>0, <1>1, <1>2 DEF Register, TypeOK
<1>4. Owned'
  BY <1>0, <1>2 DEF Register, Owned, NothingOutlivesItsHandler, Named, Replacing,
                    Superseded, Offered, Registered
<1> QED BY <1>1, <1>3, <1>4 DEF IInv

\* An association, and an evicted agent that is closed.
LEMMA AsideInv ==
  ASSUME IInv, NEW h \in Handlers, Associate(h) \/ CloseEvicted(h)
  PROVE  IInv'
<1>0. TypeOK /\ Owned /\ IInv
  BY DEF IInv
<1> USE Types, Distinct DEF Goto, configVars, ownerVars, Points
<1>1. pendingRegs' \in Nat /\ RegistrationSlots'
  BY <1>0, SlotsKept DEF Associate, CloseEvicted
<1>2. TypeOK'
  BY <1>0, <1>1 DEF Associate, CloseEvicted, TypeOK, Owned, Named, Registered
<1>3. Owned'
  BY <1>0 DEF Associate, CloseEvicted, Owned, NothingOutlivesItsHandler, Named, Replacing,
              Superseded, Offered, Registered
<1> QED BY <1>1, <1>2, <1>3 DEF IInv

\* A reload unlinks agents, and remembers every one of them for closing.
LEMMA ReloadInv ==
  ASSUME IInv, NEW fp \in [Names -> Keys \cup {None}], NEW by \in [Keys -> Names \cup {None}],
         Reload(fp, by)
  PROVE  IInv'
<1>0. TypeOK /\ Owned /\ IInv
  BY DEF IInv
<1> USE Types, Distinct DEF Goto, configVars, ownerVars, Points
<1> DEFINE gone == {n \in Names : agent[n] # None /\ fp[n] # key[agent[n]]}
<1>1. /\ evicting' = {agent[n] : n \in gone}
      /\ agent' = [n \in Names |-> IF n \in gone THEN None ELSE agent[n]]
      /\ Configured(fpByName', byFingerprint')
      /\ UNCHANGED <<pendingRegs, pc, name, key, old, closed, socksOwner, token, assoc>>
  BY DEF Reload
<1>2. pendingRegs' \in Nat /\ RegistrationSlots'
  BY <1>0, <1>1, SlotsKept
<1>3. evicting' \in SUBSET Handlers /\ agent' \in [Names -> Handlers \cup {None}]
  BY <1>0, <1>1
<1>4. TypeOK'
  BY <1>0, <1>1, <1>2, <1>3 DEF TypeOK
<1>5. NothingOutlivesItsHandler' /\ Named' /\ Replacing' /\ Offered'
  BY <1>0, <1>1 DEF Owned, NothingOutlivesItsHandler, Named, Replacing, Offered, Registered
<1>6. Superseded'
  <2>1. evicting = {}
    BY DEF Reload
  <2> HIDE DEF gone
  <2>2. \A h \in Handlers : pc[h] \in Registered => name[h] \in Names
    BY <1>0 DEF Owned, Named
  <2> QED BY <1>0, <1>1, <2>1, <2>2 DEF Owned, Superseded, Registered
<1> QED BY <1>2, <1>4, <1>5, <1>6 DEF IInv, Owned

\* Every step keeps the invariant.
LEMMA NextInv == IInv /\ [Next]_vars => IInv'
<1> SUFFICES ASSUME IInv, [Next]_vars PROVE IInv'
  OBVIOUS
<1>1. CASE UNCHANGED vars
  <2> USE <1>1 DEF vars, configVars, ownerVars
  <2>1. TypeOK'
    BY DEF IInv, TypeOK
  <2>2. RegistrationSlots'
    BY DEF IInv, RegistrationSlots
  <2>3. Owned'
    BY DEF IInv, Owned, NothingOutlivesItsHandler, Named, Replacing, Superseded, Offered
  <2> QED BY <2>1, <2>2, <2>3 DEF IInv
<1>2. CASE \E h \in Handlers :
             \/ Admit(h) \/ Progress(h) \/ Associate(h) \/ Disconnect(h) \/ CloseEvicted(h)
             \/ \E k \in Keys : Register(h, k)
  BY <1>2, AdmitInv, SlotGivenBack, AgentReplaced, ClaimsMade, ClaimsUndone, RegisterInv,
     AsideInv DEF Progress
<1>3. CASE \E fp \in [Names -> Keys \cup {None}], by \in [Keys -> Names \cup {None}] :
             Reload(fp, by)
  BY <1>3, ReloadInv
<1> QED BY <1>1, <1>2, <1>3 DEF Next

(***************************************************************************)
(* The theorems.                                                           *)
(***************************************************************************)

\* handleControl and its deferred functions: for any number of connections and
\* tenants, the pending counter is the number of handlers that owe it a
\* decrement, never more than max_pending_registrations are upgraded and
\* unregistered, and no table of the relay names a handler that has returned.
THEOREM AgentsAreSound == Spec => []AgentsSound
<1>1. IInv => AgentsSound
  BY DEF IInv, Owned, AgentsSound
<1> QED BY <1>1, InitInv, NextInv, PTL DEF Spec

\* RegisterAgent, DeregisterAgent and ReplaceRegistrations: a serving agent is
\* its tenant's agent unless it is closed or about to be, and the PAC targets
\* on offer are its own, however late the clean-up of its predecessor runs.
THEOREM ServingAgentIsReachable == Spec => []ServingAgentReachable
<1>1. IInv => ServingAgentReachable
  BY DEF IInv, Owned, Superseded, Offered, ServingAgentReachable, Registered
<1> QED BY <1>1, InitInv, NextInv, PTL DEF Spec
=============================================================================
