---------------------------- MODULE Relay_proofs ----------------------------
(***************************************************************************)
(* Proofs about the relay, for every number of connections, tenants and    *)
(* hosts, of Services, clients, ports, nonces and sources, and every value *)
(* of the limits: dial-back first, then the parts beside it.               *)
(*                                                                         *)
(* Of dial-back, the counters alone are not inductive: that a decrement    *)
(* never finds zero rests on which control points may hold a slot, which   *)
(* is what Shape says of the two goroutines that share a conn_id.          *)
(***************************************************************************)
EXTENDS Relay, FiniteSetTheorems, TLAPS

-----------------------------------------------------------------------------
(* Counters that stand for sets: how the size of a set moves when one      *)
(* element enters or leaves.                                               *)
Bit(b) == IF b THEN 1 ELSE 0

\* An element counts for one.
LEMMA CardinalityWithout ==
  ASSUME NEW S, NEW c, IsFiniteSet(S)
  PROVE  /\ Cardinality(S \ {c}) \in Nat
         /\ Cardinality(S) = Cardinality(S \ {c}) + Bit(c \in S)
<1> DEFINE U == S \ {c}
<1>1. IsFiniteSet(U) /\ c \notin U
  BY FS_Subset
<1>2. Cardinality(U \cup {c}) = Cardinality(U) + 1
  BY <1>1, FS_AddElement
<1>3. Cardinality(U) \in Nat
  BY <1>1, FS_CardinalityType
<1>4. S = IF c \in S THEN U \cup {c} ELSE U
  OBVIOUS
<1> QED
  BY <1>2, <1>3, <1>4 DEF Bit

\* Two finite sets that agree off one element differ by that element.
LEMMA CardinalityOffOne ==
  ASSUME NEW S, NEW T, NEW c, IsFiniteSet(S), IsFiniteSet(T), T \ {c} = S \ {c}
  PROVE  Cardinality(T) = Cardinality(S) + Bit(c \in T) - Bit(c \in S)
<1>1. /\ Cardinality(S \ {c}) \in Nat
      /\ Cardinality(S) = Cardinality(S \ {c}) + Bit(c \in S)
  BY CardinalityWithout
<1>2. Cardinality(T) = Cardinality(T \ {c}) + Bit(c \in T)
  BY CardinalityWithout
<1>3. Cardinality(T \ {c}) = Cardinality(S \ {c})
  OBVIOUS
<1> QED
  BY <1>1, <1>2, <1>3 DEF Bit


IsPend(c, r) == route[c] = r /\ (c \in idPending \/ pc[c] = "dialing")
IsLive(c, r) == route[c] = r /\ pc[c] \in {"live", "closing"}

\* Where the public goroutine stands limits the route it resolved to, who may
\* hold its conn_id and what the data goroutine may be doing.
ShapeOf(c) ==
  /\ c \in idPending => pc[c] \in {"pushing", "waiting"}
  /\ pc[c] \in {"pushing", "waiting", "got", "cancelled", "drained"}
       => route[c] \in Tenants
  /\ pc[c] = "dialing" => route[c] \in Hosts
  /\ pc[c] \in {"resolved", "live", "closing"} => route[c] \in Routes
  /\ c \in sent => route[c] \in Tenants /\ pc[c] \notin {"idle", "resolved", "dialing"}
  /\ dpc[c] # "none" => c \in sent /\ c \notin idPending
  /\ dpc[c] \in {"accepted", "checked"} => back[c] = "open"
  /\ c \in chFull => /\ dpc[c] = "parked" /\ back[c] = "open"
                     /\ pc[c] \notin {"got", "live"}

Shape == \A c \in Conns : ShapeOf(c)

Limits ==
  /\ \A r \in Routes : pending[r] <= MaxPending
  /\ \A h \in Hosts : pending[h] + live[h] <= MaxConns

IndInv == TypeOK /\ Shape /\ CountersExact /\ SplicedConnIsHeld /\ Limits

\* Type correctness with counters that may have gone below zero.
TypeInt ==
  /\ agentUp \in [Tenants -> BOOLEAN]
  /\ discovered \in [Hosts -> BOOLEAN]
  /\ pc \in [Conns -> PublicPoints]
  /\ route \in [Conns -> Routes \cup {None}]
  /\ idPending \in SUBSET Conns
  /\ sent \in SUBSET Conns
  /\ late \in SUBSET Conns
  /\ dpc \in [Conns -> DataPoints]
  /\ chFull \in SUBSET Conns
  /\ done \in SUBSET Conns
  /\ back \in [Conns -> {"none", "open", "closed"}]
  /\ pending \in [Routes -> Int]
  /\ live \in [Routes -> Int]

\* A step of c's goroutines touches no other slot, and moves each counter by
\* what it does to c.
Accounted(c) ==
  /\ \A d \in Conns \ {c} : /\ pc'[d] = pc[d] /\ route'[d] = route[d]
                            /\ d \in idPending' <=> d \in idPending
  /\ \A r \in Routes :
       /\ pending'[r] = pending[r] + Bit(IsPend(c, r)') - Bit(IsPend(c, r))
       /\ live'[r] = live[r] + Bit(IsLive(c, r)') - Bit(IsLive(c, r))

-----------------------------------------------------------------------------
\* The connections behind a counter are finitely many.
LEMMA OnFinite ==
  ASSUME NEW r
  PROVE  /\ IsFiniteSet(PendingOn(r)) /\ Cardinality(PendingOn(r)) \in Nat
         /\ IsFiniteSet(LiveOn(r)) /\ Cardinality(LiveOn(r)) \in Nat
<1>1. PendingOn(r) \subseteq Conns /\ LiveOn(r) \subseteq Conns
  BY DEF PendingOn, LiveOn
<1> QED
  BY <1>1, ConnsFinite, FS_Subset, FS_CardinalityType

\* An accounted step keeps the counters exact.
LEMMA AccountedKeepsCounters ==
  ASSUME TypeOK, CountersExact, NEW c \in Conns, Accounted(c)
  PROVE  CountersExact'
<1> SUFFICES ASSUME NEW r \in Routes
             PROVE  /\ pending'[r] = Cardinality(PendingOn(r)')
                    /\ live'[r] = Cardinality(LiveOn(r)')
  BY DEF CountersExact
<1>1. /\ PendingOn(r)' \ {c} = PendingOn(r) \ {c}
      /\ LiveOn(r)' \ {c} = LiveOn(r) \ {c}
  BY DEF Accounted, PendingOn, LiveOn
<1>2. /\ c \in PendingOn(r) <=> IsPend(c, r)
      /\ c \in PendingOn(r)' <=> IsPend(c, r)'
      /\ c \in LiveOn(r) <=> IsLive(c, r)
      /\ c \in LiveOn(r)' <=> IsLive(c, r)'
  BY DEF PendingOn, LiveOn, IsPend, IsLive
<1>3. /\ IsFiniteSet(PendingOn(r)) /\ Cardinality(PendingOn(r)) \in Nat
      /\ IsFiniteSet(LiveOn(r)) /\ Cardinality(LiveOn(r)) \in Nat
  BY OnFinite
<1>4. IsFiniteSet(PendingOn(r)') /\ IsFiniteSet(LiveOn(r)')
  <2>1. PendingOn(r)' \subseteq Conns /\ LiveOn(r)' \subseteq Conns
    BY DEF PendingOn, LiveOn
  <2> QED
    BY <2>1, ConnsFinite, FS_Subset
<1>5. Cardinality(PendingOn(r)') = Cardinality(PendingOn(r))
        + Bit(c \in PendingOn(r)') - Bit(c \in PendingOn(r))
  BY <1>1, <1>3, <1>4, CardinalityOffOne
<1>6. Cardinality(LiveOn(r)') = Cardinality(LiveOn(r))
        + Bit(c \in LiveOn(r)') - Bit(c \in LiveOn(r))
  BY <1>1, <1>3, <1>4, CardinalityOffOne
<1>7. /\ Bit(c \in PendingOn(r)') = Bit(IsPend(c, r)')
      /\ Bit(c \in PendingOn(r)) = Bit(IsPend(c, r))
      /\ Bit(c \in LiveOn(r)') = Bit(IsLive(c, r)')
      /\ Bit(c \in LiveOn(r)) = Bit(IsLive(c, r))
  BY <1>2 DEF Bit
<1>8. /\ pending[r] = Cardinality(PendingOn(r))
      /\ live[r] = Cardinality(LiveOn(r))
  BY DEF CountersExact
<1>9. /\ pending'[r] = pending[r] + Bit(IsPend(c, r)') - Bit(IsPend(c, r))
      /\ live'[r] = live[r] + Bit(IsLive(c, r)') - Bit(IsLive(c, r))
  BY DEF Accounted
<1> QED
  BY <1>5, <1>6, <1>7, <1>8, <1>9

\* A connection that is accounted as live is one its counter stands for.
LEMMA LiveIsCounted ==
  ASSUME CountersExact, NEW c \in Conns, NEW r \in Routes, IsLive(c, r)
  PROVE  live[r] > 0
<1>1. c \in LiveOn(r)
  BY DEF LiveOn, IsLive
<1>2. IsFiniteSet(LiveOn(r)) /\ Cardinality(LiveOn(r)) \in Nat
  BY OnFinite
<1>3. Cardinality(LiveOn(r)) = Cardinality(LiveOn(r) \ {c}) + 1
  BY <1>1, <1>2, CardinalityWithout DEF Bit
<1>4. Cardinality(LiveOn(r) \ {c}) \in Nat
  BY <1>2, CardinalityWithout
<1> QED
  BY <1>3, <1>4 DEF CountersExact

-----------------------------------------------------------------------------
\* A relay starts with no connection and zero counters.
LEMMA InitIndInv == Init => IndInv
<1> SUFFICES ASSUME Init PROVE IndInv
  OBVIOUS
<1>1. TypeOK /\ Shape /\ SplicedConnIsHeld /\ Limits
  BY RoutesDisjoint, LimitsPositive
  DEF Init, TypeOK, Shape, ShapeOf, SplicedConnIsHeld, Limits, PublicPoints, DataPoints,
      Routes
<1>2. CountersExact
  <2>1. \A r \in Routes : PendingOn(r) = {} /\ LiveOn(r) = {}
    BY DEF Init, PendingOn, LiveOn
  <2> QED
    BY <2>1, FS_EmptySet DEF Init, CountersExact
<1> QED
  BY <1>1, <1>2 DEF IndInv

\* What a step must establish besides exact counters.
LEMMA StepSuffices ==
  ASSUME IndInv, NEW c \in Conns, TypeInt', Accounted(c), Shape',
         SplicedConnIsHeld', Limits'
  PROVE  IndInv'
<1>1. CountersExact'
  BY AccountedKeepsCounters DEF IndInv
<1>2. \A r \in Routes : pending'[r] \in Nat /\ live'[r] \in Nat
  <2> SUFFICES ASSUME NEW r \in Routes PROVE pending'[r] \in Nat /\ live'[r] \in Nat
    OBVIOUS
  <2>1. PendingOn(r)' \subseteq Conns /\ LiveOn(r)' \subseteq Conns
    BY DEF PendingOn, LiveOn
  <2>2. Cardinality(PendingOn(r)') \in Nat /\ Cardinality(LiveOn(r)') \in Nat
    BY <2>1, ConnsFinite, FS_Subset, FS_CardinalityType
  <2> QED
    BY <1>1, <2>2 DEF CountersExact
<1>3. TypeOK'
  BY <1>2 DEF TypeInt, TypeOK
<1> QED
  BY <1>1, <1>3 DEF IndInv

-----------------------------------------------------------------------------
(* One lemma per action: it keeps the inductive invariant.                 *)

\* A step that changes agents or discovery only keeps the invariant.
LEMMA EnvironmentStep ==
  ASSUME IndInv, UNCHANGED <<pc, route, idPending, dataVars, pending, live>>,
         agentUp' \in [Tenants -> BOOLEAN], discovered' \in [Hosts -> BOOLEAN]
  PROVE  IndInv'
<1>1. \A r : PendingOn(r)' = PendingOn(r) /\ LiveOn(r)' = LiveOn(r)
  BY DEF PendingOn, LiveOn
<1>2. CountersExact'
  BY <1>1 DEF IndInv, CountersExact
<1> QED
  BY <1>2 DEF IndInv, TypeOK, Shape, ShapeOf, SplicedConnIsHeld, Limits, dataVars

\* Handle resolving an SNI keeps the invariant.
LEMMA ResolveStep ==
  ASSUME IndInv, NEW c \in Conns, NEW t \in Tenants \cup {None},
         NEW h \in Hosts, Resolve(c, t, h)
  PROVE  IndInv'
<1> USE RoutesDisjoint DEF IndInv, TypeOK, Resolve, ResolvedRoute,
      envVars, dataVars
<1>1. TypeInt'
  BY DEF TypeInt, Shape, ShapeOf, PublicPoints, DataPoints, Routes
<1>2. Accounted(c)
  BY DEF Accounted, Bit, IsPend, IsLive, Shape, ShapeOf, Routes
<1>3. Shape'
  BY DEF Shape, ShapeOf, SplicedConnIsHeld, Routes
<1>4. SplicedConnIsHeld'
  BY DEF Shape, ShapeOf, SplicedConnIsHeld, Routes
<1>5. Limits'
  BY LimitsPositive DEF Limits, Shape, ShapeOf, Routes
<1> QED
  BY <1>1, <1>2, <1>3, <1>4, <1>5, StepSuffices

\* The first critical section of Open keeps the invariant.
LEMMA OpenMintStep ==
  ASSUME IndInv, NEW c \in Conns, OpenMint(c)
  PROVE  IndInv'
<1> USE RoutesDisjoint DEF IndInv, TypeOK, OpenMint, HasCapacity,
      envVars, dataVars
<1>1. TypeInt'
  BY DEF TypeInt, Shape, ShapeOf, PublicPoints, DataPoints, Routes
<1>2. Accounted(c)
  BY DEF Accounted, Bit, IsPend, IsLive, Shape, ShapeOf, Routes
<1>3. Shape'
  BY DEF Shape, ShapeOf, SplicedConnIsHeld, Routes
<1>4. SplicedConnIsHeld'
  BY DEF Shape, ShapeOf, SplicedConnIsHeld, Routes
<1>5. Limits'
  BY LimitsPositive DEF Limits, Shape, ShapeOf, Routes
<1> QED
  BY <1>1, <1>2, <1>3, <1>4, <1>5, StepSuffices

\* The RelayOpen reaching the agent keeps the invariant.
LEMMA PushSendStep ==
  ASSUME IndInv, NEW c \in Conns, PushSend(c)
  PROVE  IndInv'
<1> USE RoutesDisjoint DEF IndInv, TypeOK, PushSend,
      envVars, dataVars
<1>1. TypeInt'
  BY DEF TypeInt, Shape, ShapeOf, PublicPoints, DataPoints, Routes
<1>2. Accounted(c)
  BY DEF Accounted, Bit, IsPend, IsLive, Shape, ShapeOf, Routes
<1>3. Shape'
  BY DEF Shape, ShapeOf, SplicedConnIsHeld, Routes
<1>4. SplicedConnIsHeld'
  BY DEF Shape, ShapeOf, SplicedConnIsHeld, Routes
<1>5. Limits'
  BY LimitsPositive DEF Limits, Shape, ShapeOf, Routes
<1> QED
  BY <1>1, <1>2, <1>3, <1>4, <1>5, StepSuffices

\* Agent.Push succeeding keeps the invariant.
LEMMA PushOkStep ==
  ASSUME IndInv, NEW c \in Conns, PushOk(c)
  PROVE  IndInv'
<1> USE RoutesDisjoint DEF IndInv, TypeOK, PushOk, Goto,
      envVars, dataVars
<1>1. TypeInt'
  BY DEF TypeInt, Shape, ShapeOf, PublicPoints, DataPoints, Routes
<1>2. Accounted(c)
  BY DEF Accounted, Bit, IsPend, IsLive, Shape, ShapeOf, Routes
<1>3. Shape'
  BY DEF Shape, ShapeOf, SplicedConnIsHeld, Routes
<1>4. SplicedConnIsHeld'
  BY DEF Shape, ShapeOf, SplicedConnIsHeld, Routes
<1>5. Limits'
  BY LimitsPositive DEF Limits, Shape, ShapeOf, Routes
<1> QED
  BY <1>1, <1>2, <1>3, <1>4, <1>5, StepSuffices

\* Agent.Push failing keeps the invariant.
LEMMA PushFailStep ==
  ASSUME IndInv, NEW c \in Conns, PushFail(c)
  PROVE  IndInv'
<1> USE RoutesDisjoint DEF IndInv, TypeOK, PushFail, Goto, CancelPending,
      envVars, dataVars
<1>1. TypeInt'
  BY DEF TypeInt, Shape, ShapeOf, PublicPoints, DataPoints, Routes
<1>2. Accounted(c)
  BY DEF Accounted, Bit, IsPend, IsLive, Shape, ShapeOf, Routes
<1>3. Shape'
  BY DEF Shape, ShapeOf, SplicedConnIsHeld, Routes
<1>4. SplicedConnIsHeld'
  BY DEF Shape, ShapeOf, SplicedConnIsHeld, Routes
<1>5. Limits'
  BY LimitsPositive DEF Limits, Shape, ShapeOf, Routes
<1> QED
  BY <1>1, <1>2, <1>3, <1>4, <1>5, StepSuffices

\* Open's select taking the connection keeps the invariant.
LEMMA OpenReceiveStep ==
  ASSUME IndInv, NEW c \in Conns, OpenReceive(c)
  PROVE  IndInv'
<1> USE RoutesDisjoint DEF IndInv, TypeOK, OpenReceive, Goto,
      envVars, dataVars
<1>1. TypeInt'
  BY DEF TypeInt, Shape, ShapeOf, PublicPoints, DataPoints, Routes
<1>2. Accounted(c)
  BY DEF Accounted, Bit, IsPend, IsLive, Shape, ShapeOf, Routes
<1>3. Shape'
  BY DEF Shape, ShapeOf, SplicedConnIsHeld, Routes
<1>4. SplicedConnIsHeld'
  BY DEF Shape, ShapeOf, SplicedConnIsHeld, Routes
<1>5. Limits'
  BY LimitsPositive DEF Limits, Shape, ShapeOf, Routes
<1> QED
  BY <1>1, <1>2, <1>3, <1>4, <1>5, StepSuffices

\* Open accounting a live connection keeps the invariant.
LEMMA OpenAccountStep ==
  ASSUME IndInv, NEW c \in Conns, OpenAccount(c)
  PROVE  IndInv'
<1> USE RoutesDisjoint DEF IndInv, TypeOK, OpenAccount, Goto,
      envVars, dataVars
<1>1. TypeInt'
  BY DEF TypeInt, Shape, ShapeOf, PublicPoints, DataPoints, Routes
<1>2. Accounted(c)
  BY DEF Accounted, Bit, IsPend, IsLive, Shape, ShapeOf, Routes
<1>3. Shape'
  BY DEF Shape, ShapeOf, SplicedConnIsHeld, Routes
<1>4. SplicedConnIsHeld'
  BY DEF Shape, ShapeOf, SplicedConnIsHeld, Routes
<1>5. Limits'
  BY LimitsPositive DEF Limits, Shape, ShapeOf, Routes
<1> QED
  BY <1>1, <1>2, <1>3, <1>4, <1>5, StepSuffices

\* An abandoned Open cancelling its conn_id keeps the invariant.
LEMMA AbandonCancelStep ==
  ASSUME IndInv, NEW c \in Conns, AbandonCancel(c)
  PROVE  IndInv'
<1> USE RoutesDisjoint DEF IndInv, TypeOK, AbandonCancel, Goto, CancelPending,
      envVars, dataVars
<1>1. TypeInt'
  BY DEF TypeInt, Shape, ShapeOf, PublicPoints, DataPoints, Routes
<1>2. Accounted(c)
  BY DEF Accounted, Bit, IsPend, IsLive, Shape, ShapeOf, Routes
<1>3. Shape'
  BY DEF Shape, ShapeOf, SplicedConnIsHeld, Routes
<1>4. SplicedConnIsHeld'
  BY DEF Shape, ShapeOf, SplicedConnIsHeld, Routes
<1>5. Limits'
  BY LimitsPositive DEF Limits, Shape, ShapeOf, Routes
<1> QED
  BY <1>1, <1>2, <1>3, <1>4, <1>5, StepSuffices

\* DrainPending keeps the invariant.
LEMMA AbandonDrainStep ==
  ASSUME IndInv, NEW c \in Conns, AbandonDrain(c)
  PROVE  IndInv'
<1> USE RoutesDisjoint DEF IndInv, TypeOK, AbandonDrain, Goto,
      envVars, dataVars
<1>1. TypeInt'
  BY DEF TypeInt, Shape, ShapeOf, PublicPoints, DataPoints, Routes
<1>2. Accounted(c)
  BY DEF Accounted, Bit, IsPend, IsLive, Shape, ShapeOf, Routes
<1>3. Shape'
  BY DEF Shape, ShapeOf, SplicedConnIsHeld, Routes
<1>4. SplicedConnIsHeld'
  BY DEF Shape, ShapeOf, SplicedConnIsHeld, Routes
<1>5. Limits'
  BY LimitsPositive DEF Limits, Shape, ShapeOf, Routes
<1> QED
  BY <1>1, <1>2, <1>3, <1>4, <1>5, StepSuffices

\* Close(done) keeps the invariant.
LEMMA AbandonSignalStep ==
  ASSUME IndInv, NEW c \in Conns, AbandonSignal(c)
  PROVE  IndInv'
<1> USE RoutesDisjoint DEF IndInv, TypeOK, AbandonSignal, Goto,
      envVars, dataVars
<1>1. TypeInt'
  BY DEF TypeInt, Shape, ShapeOf, PublicPoints, DataPoints, Routes
<1>2. Accounted(c)
  BY DEF Accounted, Bit, IsPend, IsLive, Shape, ShapeOf, Routes
<1>3. Shape'
  BY DEF Shape, ShapeOf, SplicedConnIsHeld, Routes
<1>4. SplicedConnIsHeld'
  BY DEF Shape, ShapeOf, SplicedConnIsHeld, Routes
<1>5. Limits'
  BY LimitsPositive DEF Limits, Shape, ShapeOf, Routes
<1> QED
  BY <1>1, <1>2, <1>3, <1>4, <1>5, StepSuffices

\* OpenSNI claiming a slot of a Service keeps the invariant.
LEMMA DialStartStep ==
  ASSUME IndInv, NEW c \in Conns, DialStart(c)
  PROVE  IndInv'
<1> USE RoutesDisjoint DEF IndInv, TypeOK, DialStart, HasCapacity,
      envVars, dataVars
<1>1. TypeInt'
  BY DEF TypeInt, Shape, ShapeOf, PublicPoints, DataPoints, Routes
<1>2. Accounted(c)
  BY DEF Accounted, Bit, IsPend, IsLive, Shape, ShapeOf, Routes
<1>3. Shape'
  BY DEF Shape, ShapeOf, SplicedConnIsHeld, Routes
<1>4. SplicedConnIsHeld'
  BY DEF Shape, ShapeOf, SplicedConnIsHeld, Routes
<1>5. Limits'
  BY LimitsPositive DEF Limits, Shape, ShapeOf, Routes
<1> QED
  BY <1>1, <1>2, <1>3, <1>4, <1>5, StepSuffices

\* A successful Service dial keeps the invariant.
LEMMA DialOkStep ==
  ASSUME IndInv, NEW c \in Conns, DialOk(c)
  PROVE  IndInv'
<1> USE RoutesDisjoint DEF IndInv, TypeOK, DialOk, Goto,
      envVars, dataVars
<1>1. TypeInt'
  BY DEF TypeInt, Shape, ShapeOf, PublicPoints, DataPoints, Routes
<1>2. Accounted(c)
  BY DEF Accounted, Bit, IsPend, IsLive, Shape, ShapeOf, Routes
<1>3. Shape'
  BY DEF Shape, ShapeOf, SplicedConnIsHeld, Routes
<1>4. SplicedConnIsHeld'
  BY DEF Shape, ShapeOf, SplicedConnIsHeld, Routes
<1>5. Limits'
  BY LimitsPositive DEF Limits, Shape, ShapeOf, Routes
<1> QED
  BY <1>1, <1>2, <1>3, <1>4, <1>5, StepSuffices

\* A failed Service dial keeps the invariant.
LEMMA DialFailStep ==
  ASSUME IndInv, NEW c \in Conns, DialFail(c)
  PROVE  IndInv'
<1> USE RoutesDisjoint DEF IndInv, TypeOK, DialFail, Goto,
      envVars, dataVars
<1>1. TypeInt'
  BY DEF TypeInt, Shape, ShapeOf, PublicPoints, DataPoints, Routes
<1>2. Accounted(c)
  BY DEF Accounted, Bit, IsPend, IsLive, Shape, ShapeOf, Routes
<1>3. Shape'
  BY DEF Shape, ShapeOf, SplicedConnIsHeld, Routes
<1>4. SplicedConnIsHeld'
  BY DEF Shape, ShapeOf, SplicedConnIsHeld, Routes
<1>5. Limits'
  BY LimitsPositive DEF Limits, Shape, ShapeOf, Routes
<1> QED
  BY <1>1, <1>2, <1>3, <1>4, <1>5, StepSuffices

\* Dispatch closing the back connection keeps the invariant.
LEMMA SpliceEndStep ==
  ASSUME IndInv, NEW c \in Conns, SpliceEnd(c)
  PROVE  IndInv'
<1> USE RoutesDisjoint DEF IndInv, TypeOK, SpliceEnd, Goto,
      envVars, dataVars
<1>1. TypeInt'
  BY DEF TypeInt, Shape, ShapeOf, PublicPoints, DataPoints, Routes
<1>2. Accounted(c)
  BY DEF Accounted, Bit, IsPend, IsLive, Shape, ShapeOf, Routes
<1>3. Shape'
  BY DEF Shape, ShapeOf, SplicedConnIsHeld, Routes
<1>4. SplicedConnIsHeld'
  BY DEF Shape, ShapeOf, SplicedConnIsHeld, Routes
<1>5. Limits'
  BY LimitsPositive DEF Limits, Shape, ShapeOf, Routes
<1> QED
  BY <1>1, <1>2, <1>3, <1>4, <1>5, StepSuffices

\* Registry.Release keeps the invariant.
LEMMA ReleaseStep ==
  ASSUME IndInv, NEW c \in Conns, Release(c)
  PROVE  IndInv'
<1> USE RoutesDisjoint DEF IndInv, TypeOK, Release, Goto,
      envVars, dataVars
<1>1. TypeInt'
  BY DEF TypeInt, Shape, ShapeOf, PublicPoints, DataPoints, Routes
<1>0. live[route[c]] > 0
  BY LiveIsCounted DEF IsLive, Shape, ShapeOf
<1>2. Accounted(c)
  BY <1>0 DEF Accounted, Bit, IsPend, IsLive, Shape, ShapeOf, Routes
<1>3. Shape'
  BY DEF Shape, ShapeOf, SplicedConnIsHeld, Routes
<1>4. SplicedConnIsHeld'
  BY DEF Shape, ShapeOf, SplicedConnIsHeld, Routes
<1>5. Limits'
  BY LimitsPositive DEF Limits, Shape, ShapeOf, Routes
<1> QED
  BY <1>1, <1>2, <1>3, <1>4, <1>5, StepSuffices

\* Registry.Redeem keeps the invariant.
LEMMA RedeemStep ==
  ASSUME IndInv, NEW c \in Conns, Redeem(c)
  PROVE  IndInv'
<1> USE RoutesDisjoint DEF IndInv, TypeOK, Redeem,
      envVars, dataVars
<1>1. TypeInt'
  BY DEF TypeInt, Shape, ShapeOf, PublicPoints, DataPoints, Routes
<1>2. Accounted(c)
  BY DEF Accounted, Bit, IsPend, IsLive, Shape, ShapeOf, Routes
<1>3. Shape'
  BY DEF Shape, ShapeOf, SplicedConnIsHeld, Routes
<1>4. SplicedConnIsHeld'
  BY DEF Shape, ShapeOf, SplicedConnIsHeld, Routes
<1>5. Limits'
  BY LimitsPositive DEF Limits, Shape, ShapeOf, Routes
<1> QED
  BY <1>1, <1>2, <1>3, <1>4, <1>5, StepSuffices

\* Websocket.Accept succeeding keeps the invariant.
LEMMA AcceptOkStep ==
  ASSUME IndInv, NEW c \in Conns, AcceptOk(c)
  PROVE  IndInv'
<1> USE RoutesDisjoint DEF IndInv, TypeOK, AcceptOk, GotoData,
      envVars, dataVars
<1>1. TypeInt'
  BY DEF TypeInt, Shape, ShapeOf, PublicPoints, DataPoints, Routes
<1>2. Accounted(c)
  BY DEF Accounted, Bit, IsPend, IsLive, Shape, ShapeOf, Routes
<1>3. Shape'
  BY DEF Shape, ShapeOf, SplicedConnIsHeld, Routes
<1>4. SplicedConnIsHeld'
  BY DEF Shape, ShapeOf, SplicedConnIsHeld, Routes
<1>5. Limits'
  BY LimitsPositive DEF Limits, Shape, ShapeOf, Routes
<1> QED
  BY <1>1, <1>2, <1>3, <1>4, <1>5, StepSuffices

\* Websocket.Accept failing keeps the invariant.
LEMMA AcceptFailStep ==
  ASSUME IndInv, NEW c \in Conns, AcceptFail(c)
  PROVE  IndInv'
<1> USE RoutesDisjoint DEF IndInv, TypeOK, AcceptFail, GotoData,
      envVars, dataVars
<1>1. TypeInt'
  BY DEF TypeInt, Shape, ShapeOf, PublicPoints, DataPoints, Routes
<1>2. Accounted(c)
  BY DEF Accounted, Bit, IsPend, IsLive, Shape, ShapeOf, Routes
<1>3. Shape'
  BY DEF Shape, ShapeOf, SplicedConnIsHeld, Routes
<1>4. SplicedConnIsHeld'
  BY DEF Shape, ShapeOf, SplicedConnIsHeld, Routes
<1>5. Limits'
  BY LimitsPositive DEF Limits, Shape, ShapeOf, Routes
<1> QED
  BY <1>1, <1>2, <1>3, <1>4, <1>5, StepSuffices

\* HandleData's first look at Done keeps the invariant.
LEMMA CheckDoneStep ==
  ASSUME IndInv, NEW c \in Conns, CheckDone(c)
  PROVE  IndInv'
<1> USE RoutesDisjoint DEF IndInv, TypeOK, CheckDone, GotoData, CloseAndReturn,
      envVars, dataVars
<1>1. TypeInt'
  BY DEF TypeInt, Shape, ShapeOf, PublicPoints, DataPoints, Routes
<1>2. Accounted(c)
  BY DEF Accounted, Bit, IsPend, IsLive, Shape, ShapeOf, Routes
<1>3. Shape'
  BY DEF Shape, ShapeOf, SplicedConnIsHeld, Routes
<1>4. SplicedConnIsHeld'
  BY DEF Shape, ShapeOf, SplicedConnIsHeld, Routes
<1>5. Limits'
  BY LimitsPositive DEF Limits, Shape, ShapeOf, Routes
<1> QED
  BY <1>1, <1>2, <1>3, <1>4, <1>5, StepSuffices

\* HandleData's delivery keeps the invariant.
LEMMA DeliverStep ==
  ASSUME IndInv, NEW c \in Conns, Deliver(c)
  PROVE  IndInv'
<1> USE RoutesDisjoint DEF IndInv, TypeOK, Deliver, GotoData,
      envVars, dataVars
<1>1. TypeInt'
  BY DEF TypeInt, Shape, ShapeOf, PublicPoints, DataPoints, Routes
<1>2. Accounted(c)
  BY DEF Accounted, Bit, IsPend, IsLive, Shape, ShapeOf, Routes
<1>3. Shape'
  BY DEF Shape, ShapeOf, SplicedConnIsHeld, Routes
<1>4. SplicedConnIsHeld'
  BY DEF Shape, ShapeOf, SplicedConnIsHeld, Routes
<1>5. Limits'
  BY LimitsPositive DEF Limits, Shape, ShapeOf, Routes
<1> QED
  BY <1>1, <1>2, <1>3, <1>4, <1>5, StepSuffices

\* HandleData's select taking Done keeps the invariant.
LEMMA SeeDoneStep ==
  ASSUME IndInv, NEW c \in Conns, SeeDone(c)
  PROVE  IndInv'
<1> USE RoutesDisjoint DEF IndInv, TypeOK, SeeDone, GotoData, CloseAndReturn,
      envVars, dataVars
<1>1. TypeInt'
  BY DEF TypeInt, Shape, ShapeOf, PublicPoints, DataPoints, Routes
<1>2. Accounted(c)
  BY DEF Accounted, Bit, IsPend, IsLive, Shape, ShapeOf, Routes
<1>3. Shape'
  BY DEF Shape, ShapeOf, SplicedConnIsHeld, Routes
<1>4. SplicedConnIsHeld'
  BY DEF Shape, ShapeOf, SplicedConnIsHeld, Routes
<1>5. Limits'
  BY LimitsPositive DEF Limits, Shape, ShapeOf, Routes
<1> QED
  BY <1>1, <1>2, <1>3, <1>4, <1>5, StepSuffices

\* The handler returning keeps the invariant.
LEMMA HandlerReturnStep ==
  ASSUME IndInv, NEW c \in Conns, HandlerReturn(c)
  PROVE  IndInv'
<1> USE RoutesDisjoint DEF IndInv, TypeOK, HandlerReturn, GotoData,
      envVars, dataVars
<1>1. TypeInt'
  BY DEF TypeInt, Shape, ShapeOf, PublicPoints, DataPoints, Routes
<1>2. Accounted(c)
  BY DEF Accounted, Bit, IsPend, IsLive, Shape, ShapeOf, Routes
<1>3. Shape'
  BY DEF Shape, ShapeOf, SplicedConnIsHeld, Routes
<1>4. SplicedConnIsHeld'
  BY DEF Shape, ShapeOf, SplicedConnIsHeld, Routes
<1>5. Limits'
  BY LimitsPositive DEF Limits, Shape, ShapeOf, Routes
<1> QED
  BY <1>1, <1>2, <1>3, <1>4, <1>5, StepSuffices

\* A conn_id expiring keeps the invariant.
LEMMA ExpireStep ==
  ASSUME IndInv, NEW c \in Conns, Expire(c)
  PROVE  IndInv'
<1> USE RoutesDisjoint DEF IndInv, TypeOK, Expire,
      envVars, dataVars
<1>1. TypeInt'
  BY DEF TypeInt, Shape, ShapeOf, PublicPoints, DataPoints, Routes
<1>2. Accounted(c)
  BY DEF Accounted, Bit, IsPend, IsLive, Shape, ShapeOf, Routes
<1>3. Shape'
  BY DEF Shape, ShapeOf, SplicedConnIsHeld, Routes
<1>4. SplicedConnIsHeld'
  BY DEF Shape, ShapeOf, SplicedConnIsHeld, Routes
<1>5. Limits'
  BY LimitsPositive DEF Limits, Shape, ShapeOf, Routes
<1> QED
  BY <1>1, <1>2, <1>3, <1>4, <1>5, StepSuffices

\* A slot being used again keeps the invariant.
LEMMA ReuseStep ==
  ASSUME IndInv, NEW c \in Conns, Reuse(c)
  PROVE  IndInv'
<1> USE RoutesDisjoint DEF IndInv, TypeOK, Reuse, Goto,
      envVars, dataVars
<1>1. TypeInt'
  BY DEF TypeInt, Shape, ShapeOf, PublicPoints, DataPoints, Routes
<1>2. Accounted(c)
  BY DEF Accounted, Bit, IsPend, IsLive, Shape, ShapeOf, Routes
<1>3. Shape'
  BY DEF Shape, ShapeOf, SplicedConnIsHeld, Routes
<1>4. SplicedConnIsHeld'
  BY DEF Shape, ShapeOf, SplicedConnIsHeld, Routes
<1>5. Limits'
  BY LimitsPositive DEF Limits, Shape, ShapeOf, Routes
<1> QED
  BY <1>1, <1>2, <1>3, <1>4, <1>5, StepSuffices

-----------------------------------------------------------------------------
\* Every step keeps the inductive invariant.
LEMMA NextIndInv == IndInv /\ [Next]_vars => IndInv'
<1> SUFFICES ASSUME IndInv, [Next]_vars PROVE IndInv'
  OBVIOUS
<1>1. CASE UNCHANGED vars
  BY <1>1, EnvironmentStep DEF vars, dataVars, IndInv, TypeOK
<1>2. ASSUME NEW t \in Tenants, AgentChanges(t) PROVE IndInv'
  BY <1>2, EnvironmentStep DEF AgentChanges, IndInv, TypeOK
<1>3. ASSUME NEW h \in Hosts, DiscoveryChanges(h) PROVE IndInv'
  BY <1>3, EnvironmentStep DEF DiscoveryChanges, IndInv, TypeOK
<1>4. ASSUME NEW c \in Conns, Public(c) \/ Data(c) \/ Expire(c) \/ Reuse(c)
      PROVE  IndInv'
  <2>1. CASE OpenMint(c)
    BY <2>1, OpenMintStep
  <2>2. CASE PushSend(c)
    BY <2>2, PushSendStep
  <2>3. CASE PushOk(c)
    BY <2>3, PushOkStep
  <2>4. CASE PushFail(c)
    BY <2>4, PushFailStep
  <2>5. CASE OpenReceive(c)
    BY <2>5, OpenReceiveStep
  <2>6. CASE OpenAccount(c)
    BY <2>6, OpenAccountStep
  <2>7. CASE AbandonCancel(c)
    BY <2>7, AbandonCancelStep
  <2>8. CASE AbandonDrain(c)
    BY <2>8, AbandonDrainStep
  <2>9. CASE AbandonSignal(c)
    BY <2>9, AbandonSignalStep
  <2>10. CASE DialStart(c)
    BY <2>10, DialStartStep
  <2>11. CASE DialOk(c)
    BY <2>11, DialOkStep
  <2>12. CASE DialFail(c)
    BY <2>12, DialFailStep
  <2>13. CASE SpliceEnd(c)
    BY <2>13, SpliceEndStep
  <2>14. CASE Release(c)
    BY <2>14, ReleaseStep
  <2>15. CASE Redeem(c)
    BY <2>15, RedeemStep
  <2>16. CASE AcceptOk(c)
    BY <2>16, AcceptOkStep
  <2>17. CASE AcceptFail(c)
    BY <2>17, AcceptFailStep
  <2>18. CASE CheckDone(c)
    BY <2>18, CheckDoneStep
  <2>19. CASE Deliver(c)
    BY <2>19, DeliverStep
  <2>20. CASE SeeDone(c)
    BY <2>20, SeeDoneStep
  <2>21. CASE HandlerReturn(c)
    BY <2>21, HandlerReturnStep
  <2>22. CASE Expire(c)
    BY <2>22, ExpireStep
  <2>23. CASE Reuse(c)
    BY <2>23, ReuseStep
  <2>24. ASSUME NEW t \in Tenants \cup {None}, NEW h \in Hosts, Resolve(c, t, h)
        PROVE  IndInv'
    BY <2>24, ResolveStep
  <2> QED
    BY <1>4, <2>1, <2>2, <2>3, <2>4, <2>5, <2>6, <2>7, <2>8, <2>9, <2>10, <2>11, <2>12, <2>13, <2>14, <2>15, <2>16, <2>17, <2>18, <2>19, <2>20, <2>21, <2>22, <2>23, <2>24 DEF Public, Data
<1> QED
  BY <1>1, <1>2, <1>3, <1>4 DEF Next

\* The bound on the counters is a bound on the connections.
LEMMA LimitsFollow == IndInv => LimitsHold
<1> SUFFICES ASSUME IndInv PROVE LimitsHold
  OBVIOUS
<1>1. ASSUME NEW r \in Routes PROVE Cardinality(PendingOn(r)) <= MaxPending
  BY DEF IndInv, Limits, CountersExact
<1>2. ASSUME NEW h \in Hosts
      PROVE  Cardinality(PendingOn(h) \cup LiveOn(h)) <= MaxConns
  <2>1. h \in Routes
    BY DEF Routes
  <2>2. /\ IsFiniteSet(PendingOn(h)) /\ Cardinality(PendingOn(h)) \in Nat
        /\ IsFiniteSet(LiveOn(h)) /\ Cardinality(LiveOn(h)) \in Nat
    BY OnFinite
  <2>3. Cardinality(PendingOn(h)) + Cardinality(LiveOn(h)) <= MaxConns
    BY <2>1 DEF IndInv, Limits, CountersExact
  <2>4. /\ IsFiniteSet(PendingOn(h) \cap LiveOn(h))
        /\ Cardinality(PendingOn(h) \cap LiveOn(h)) \in Nat
    BY <2>2, FS_Intersection, FS_CardinalityType
  <2>5. Cardinality(PendingOn(h) \cup LiveOn(h))
          = Cardinality(PendingOn(h)) + Cardinality(LiveOn(h))
            - Cardinality(PendingOn(h) \cap LiveOn(h))
    BY <2>2, FS_Union
  <2> QED
    BY <2>2, <2>3, <2>4, <2>5, LimitsPositive
<1> QED
  BY <1>1, <1>2 DEF LimitsHold

\* The inductive invariant holds throughout.
THEOREM Inductive == Spec => []IndInv
<1> QED
  BY InitIndInv, NextIndInv, PTL DEF Spec

\* Every variable keeps its type; in particular no interleaving of Open,
\* Redeem, cancelPending and Release drives a tenant's counters below zero.
THEOREM TypeCorrect == Spec => []TypeOK
<1>1. IndInv => TypeOK
  BY DEF IndInv
<1> QED
  BY <1>1, Inductive, PTL

\* A tenant's pending and live counters always equal the connections they
\* stand for, for any number of concurrent connections.
THEOREM CountersAreExact == Spec => []CountersExact
<1>1. IndInv => CountersExact
  BY DEF IndInv
<1> QED
  BY <1>1, Inductive, PTL

\* The pending limit holds on every route and the connection limit on every
\* discovered Service.
THEOREM LimitsAreHeld == Spec => []LimitsHold
<1> QED
  BY LimitsFollow, Inductive, PTL

\* The accounting is exact and the limits it enforces hold.
THEOREM SlotsAreAccounted == Spec => []SlotsAccounted
<1>1. TypeOK /\ CountersExact /\ LimitsHold => SlotsAccounted
  BY DEF SlotsAccounted
<1> QED
  BY <1>1, TypeCorrect, CountersAreExact, LimitsAreHeld, PTL

\* What is spliced is open and its HTTP handler is parked in handleData.
THEOREM SplicedIsHeld == Spec => []SplicedConnIsHeld
<1>1. IndInv => SplicedConnIsHeld
  BY DEF IndInv
<1> QED
  BY <1>1, Inductive, PTL

(***************************************************************************)
(* Kubernetes discovery.  Whatever the registry does for one Service, the  *)
(* others keep their share of a hostname: its route or a place among those *)
(* in conflict over it.                                                    *)
(***************************************************************************)

TableRecords ==
  [byID : [Services -> KubeHosts \cup {NoHost}],
   routes : [KubeHosts -> Services \cup {NoHost}],
   conflicts : [KubeHosts -> SUBSET Services]]

\* A conflict has several parties, and nobody has the route meanwhile.
Settled(t) ==
  \A h \in KubeHosts : /\ \A s \in Services : t.conflicts[h] # {s}
                       /\ t.conflicts[h] # {} => t.routes[h] = NoHost

Shares(t, h, s) == t.routes[h] = s \/ s \in t.conflicts[h]

LEMMA ServicesNamed == \A s \in Services : s # NoHost
BY DiscoveryAssumption

Written(t, h, r, c) == [t EXCEPT !.routes[h] = r, !.conflicts[h] = c]

LEMMA RegistryWrite ==
  ASSUME NEW t \in TableRecords, NEW h \in KubeHosts,
         NEW r \in Services \cup {NoHost}, NEW c \in SUBSET Services,
         NEW u, u = Written(t, h, r, c)
  PROVE  /\ u \in TableRecords /\ u.byID = t.byID
         /\ u.routes[h] = r /\ u.conflicts[h] = c
         /\ \A g \in KubeHosts \ {h} : u.routes[g] = t.routes[g] /\ u.conflicts[g] = t.conflicts[g]
BY DEF TableRecords, Written

LEMMA UpsertKeeps ==
  ASSUME NEW t \in TableRecords, Settled(t), NEW h \in KubeHosts, NEW s \in Services,
         NEW u, u = Kube!UpsertKubernetes(t, h, s)
  PROVE  /\ u \in TableRecords /\ Settled(u) /\ u.byID = t.byID /\ Shares(u, h, s)
         /\ \A g \in KubeHosts, r \in Services : Shares(t, g, r) => Shares(u, g, r)
<1>1. t.routes[h] \in Services \cup {NoHost} /\ t.conflicts[h] \in SUBSET Services
  BY DEF TableRecords
<1>2. CASE t.routes[h] \notin {NoHost, s}
  <2>1. t.conflicts[h] = {}
    BY <1>2 DEF Settled
  <2> DEFINE c == {t.routes[h]} \cup {s}
  <2>2. u = Written(t, h, NoHost, c)
    BY <1>2, <2>1 DEF Kube!UpsertKubernetes, Kube!Unrouted, TableRecords, Written
  <2>3. c \in SUBSET Services /\ t.routes[h] # s
    BY <1>1, <1>2
  <2>4. /\ u \in TableRecords /\ u.byID = t.byID
        /\ u.routes[h] = NoHost /\ u.conflicts[h] = c
        /\ \A g \in KubeHosts \ {h} : u.routes[g] = t.routes[g] /\ u.conflicts[g] = t.conflicts[g]
    BY <2>2, <2>3, RegistryWrite
  <2> QED BY <2>1, <2>3, <2>4 DEF Settled, Shares
<1>3. CASE t.routes[h] \in {NoHost, s} /\ t.conflicts[h] # {}
  <2>1. t.routes[h] = NoHost
    BY <1>3 DEF Settled
  <2>2. u = [t EXCEPT !.conflicts[h] = @ \cup {s}]
    BY <1>3 DEF Kube!UpsertKubernetes, Kube!Unrouted
  <2>3. /\ u \in TableRecords /\ u.byID = t.byID
        /\ u.routes = t.routes /\ u.conflicts[h] = t.conflicts[h] \cup {s}
        /\ \A g \in KubeHosts \ {h} : u.conflicts[g] = t.conflicts[g]
    BY <2>2 DEF TableRecords
  <2>4. \A r \in Services : t.conflicts[h] \cup {s} # {r}
    BY <1>1, <1>3 DEF Settled
  <2> QED BY <2>1, <2>3, <2>4 DEF Settled, Shares
<1>4. CASE t.routes[h] \in {NoHost, s} /\ t.conflicts[h] = {}
  <2>1. u = [t EXCEPT !.routes[h] = s]
    BY <1>4 DEF Kube!UpsertKubernetes, Kube!Unrouted
  <2>2. /\ u \in TableRecords /\ u.byID = t.byID
        /\ u.conflicts = t.conflicts /\ u.routes[h] = s
        /\ \A g \in KubeHosts \ {h} : u.routes[g] = t.routes[g]
    BY <2>1 DEF TableRecords
  <2> QED BY <1>4, <2>2, ServicesNamed DEF Settled, Shares
<1> QED BY <1>2, <1>3, <1>4

LEMMA RemoveKeeps ==
  ASSUME NEW t \in TableRecords, Settled(t), NEW h \in KubeHosts, NEW s \in Services,
         NEW u, u = Kube!RemoveKubernetes(t, h, s)
  PROVE  /\ u \in TableRecords /\ Settled(u) /\ u.byID = t.byID
         /\ \A g \in KubeHosts, r \in Services \ {s} : Shares(t, g, r) => Shares(u, g, r)
         /\ \A g \in KubeHosts \ {h} : Shares(t, g, s) => Shares(u, g, s)
<1> DEFINE left == t.conflicts[h] \ {s}
           kept == IF t.routes[h] = s THEN NoHost ELSE t.routes[h]
<1>1. left \in SUBSET Services /\ kept \in Services \cup {NoHost}
  BY DEF TableRecords
<1>2. ASSUME NEW x \in left, left = {x}
      PROVE  u = Written(t, h, x, {})
  <2>1. (CHOOSE y \in left : TRUE) = x
    BY <1>2
  <2> QED BY <1>2, <2>1 DEF Kube!RemoveKubernetes, Written
<1>3. ~(\E x \in left : left = {x}) => u = Written(t, h, kept, left)
  BY DEF Kube!RemoveKubernetes, Kube!Unrouted, Written
<1>4. ASSUME NEW x \in left, left = {x}
      PROVE  /\ u \in TableRecords /\ u.byID = t.byID
             /\ u.routes[h] = x /\ u.conflicts[h] = {}
             /\ \A g \in KubeHosts \ {h} : u.routes[g] = t.routes[g] /\ u.conflicts[g] = t.conflicts[g]
  BY <1>1, <1>2, <1>4, RegistryWrite
<1>5. ASSUME ~(\E x \in left : left = {x})
      PROVE  /\ u \in TableRecords /\ u.byID = t.byID
             /\ u.routes[h] = kept /\ u.conflicts[h] = left
             /\ \A g \in KubeHosts \ {h} : u.routes[g] = t.routes[g] /\ u.conflicts[g] = t.conflicts[g]
  <2>1. u = Written(t, h, kept, left)
    BY <1>3, <1>5
  <2> HIDE DEF left, kept
  <2> QED BY <1>1, <2>1, RegistryWrite
<1>6. CASE \E x \in left : left = {x}
  <2>1. t.routes[h] = NoHost
    BY <1>6 DEF Settled
  <2> QED BY <1>4, <1>6, <2>1, ServicesNamed DEF Settled, Shares
<1>7. CASE ~(\E x \in left : left = {x})
  <2>1. /\ left # {} => kept = NoHost
        /\ \A r \in Services : left # {r}
    BY <1>7 DEF Settled
  <2> QED BY <1>5, <1>7, <2>1 DEF Settled, Shares
<1> QED BY <1>6, <1>7

LEMMA ReconcileKeeps ==
  ASSUME NEW t \in TableRecords, Settled(t), NEW s \in Services, NEW o \in Kube!Objects, NEW spaces,
         NEW u, u = Kube!Reconcile(t, s, o, spaces)
  PROVE  /\ u \in TableRecords /\ Settled(u)
         /\ \A g \in KubeHosts, r \in Services \ {s} : Shares(t, g, r) => Shares(u, g, r)
         /\ Kube!Eligible(o, spaces) => Shares(u, o.host, s)
<1> DEFINE old == t.byID[s]
           ok == Kube!Eligible(o, spaces)
           gone == Kube!RemoveKubernetes(t, old, s)
           t1 == IF old # NoHost /\ (~ok \/ old # o.host)
                   THEN [gone EXCEPT !.byID[s] = NoHost] ELSE t
           t2 == Kube!UpsertKubernetes(t1, o.host, s)
<1>1. old \in KubeHosts \cup {NoHost} /\ o.host \in KubeHosts
  BY DEF TableRecords, Kube!Objects
<1>2. u = IF ~ok THEN t1 ELSE IF t2.conflicts[o.host] # {} THEN t2
          ELSE [t2 EXCEPT !.byID[s] = o.host]
  BY DEF Kube!Reconcile
<1>3. /\ t1 \in TableRecords /\ Settled(t1)
      /\ \A g \in KubeHosts, r \in Services \ {s} : Shares(t, g, r) => Shares(t1, g, r)
  <2>1. CASE old # NoHost /\ (~ok \/ old # o.host)
    <3>1. /\ gone \in TableRecords /\ Settled(gone)
          /\ \A g \in KubeHosts, r \in Services \ {s} : Shares(t, g, r) => Shares(gone, g, r)
      BY <1>1, <2>1, RemoveKeeps
    <3>2. t1 = [gone EXCEPT !.byID[s] = NoHost]
      BY <2>1
    <3> HIDE DEF gone, t1
    <3>3. t1 \in TableRecords /\ t1.routes = gone.routes /\ t1.conflicts = gone.conflicts
      BY <3>1, <3>2 DEF TableRecords
    <3> QED BY <3>1, <3>3 DEF Settled, Shares
  <2>2. CASE ~(old # NoHost /\ (~ok \/ old # o.host))
    BY <2>2
  <2> QED BY <2>1, <2>2
<1> HIDE DEF t1
<1>4. /\ t2 \in TableRecords /\ Settled(t2) /\ Shares(t2, o.host, s)
      /\ \A g \in KubeHosts, r \in Services : Shares(t1, g, r) => Shares(t2, g, r)
  BY <1>1, <1>3, UpsertKeeps
<1> HIDE DEF t2, ok
<1>5. CASE ~ok
  BY <1>2, <1>3, <1>5 DEF ok
<1>6. CASE ok /\ t2.conflicts[o.host] # {}
  BY <1>2, <1>3, <1>4, <1>6
<1>7. CASE ok /\ ~(t2.conflicts[o.host] # {})
  <2>1. u = [t2 EXCEPT !.byID[s] = o.host]
    BY <1>2, <1>7
  <2>2. u \in TableRecords /\ u.routes = t2.routes /\ u.conflicts = t2.conflicts
    BY <1>1, <1>4, <2>1 DEF TableRecords
  <2> QED BY <1>3, <1>4, <2>2 DEF Settled, Shares
<1> QED BY <1>5, <1>6, <1>7

KubeInv ==
  /\ cluster \in [Services -> Kube!Objects \cup {Kube!Absent, Kube!Deleted}]
  /\ services \in [Services -> Kube!Objects \cup {Kube!Absent}]
  /\ todo \subseteq {s \in Services : services[s] # Kube!Absent}
  /\ Kube!Tables \in TableRecords /\ Settled(Kube!Tables)
  /\ \A s \in Services \ todo :
       services[s] # Kube!Absent /\ Kube!Eligible(services[s], ns) =>
         Shares(Kube!Tables, services[s].host, s)

LEMMA KubeInit == Kube!Init => KubeInv
<1> SUFFICES ASSUME Kube!Init PROVE KubeInv
  OBVIOUS
<1>1. /\ byID = [s \in Services |-> NoHost] /\ conflicts = [h \in KubeHosts |-> {}]
      /\ routes = [h \in KubeHosts |-> NoHost] /\ todo = {}
      /\ services = [s \in Services |-> Kube!Absent] /\ cluster = [s \in Services |-> Kube!Absent]
  BY DEF Kube!Init, Kube!Unrouted
<1>2. Kube!Tables \in TableRecords
  BY <1>1 DEF Kube!Tables, TableRecords
<1>3. Settled(Kube!Tables)
  BY <1>1 DEF Kube!Tables, Settled
<1> QED BY <1>1, <1>2, <1>3 DEF KubeInv

LEMMA TablesMove ==
  ASSUME NEW u \in TableRecords, Kube!Store(u)
  PROVE  Kube!Tables' = u
BY DEF Kube!Store, Kube!Tables, TableRecords

LEMMA KubeStep == KubeInv /\ [Kube!Next]_Kube!kubeVars => KubeInv'
<1> SUFFICES ASSUME KubeInv, [Kube!Next]_Kube!kubeVars PROVE KubeInv'
  OBVIOUS
<1>0. /\ Kube!Absent \notin Kube!Objects /\ Kube!Deleted \notin Kube!Objects
      /\ \A o \in Kube!Objects : o.host \in KubeHosts
  BY DiscoveryAssumption DEF Kube!Absent, Kube!Deleted, Kube!Objects
<1>1. CASE UNCHANGED Kube!kubeVars
  BY <1>1 DEF Kube!kubeVars, KubeInv, Kube!Tables
<1>2. CASE Kube!Change
  <2>1. UNCHANGED <<services, ns, todo, byID, routes, conflicts>>
    BY <1>2 DEF Kube!Change
  <2>2. cluster' \in [Services -> Kube!Objects \cup {Kube!Absent, Kube!Deleted}]
    BY <1>2 DEF Kube!Change, KubeInv
  <2> QED BY <2>1, <2>2 DEF KubeInv, Kube!Tables
<1>3. ASSUME NEW s \in Services, Kube!PutService(s) PROVE KubeInv'
  <2> DEFINE u == Kube!Reconcile(Kube!Tables, s, cluster[s], ns)
  <2>1. /\ todo = {} /\ cluster[s] \in Kube!Objects /\ services' = [services EXCEPT ![s] = cluster[s]]
        /\ Kube!Store(u) /\ UNCHANGED <<cluster, labelled, ns, todo, changes>>
    BY <1>3 DEF Kube!PutService, KubeInv
  <2>2. /\ u \in TableRecords /\ Settled(u)
        /\ \A g \in KubeHosts, r \in Services \ {s} : Shares(Kube!Tables, g, r) => Shares(u, g, r)
        /\ Kube!Eligible(cluster[s], ns) => Shares(u, cluster[s].host, s)
    BY <2>1, ReconcileKeeps DEF KubeInv
  <2> HIDE DEF u
  <2>3. Kube!Tables' = u
    BY <2>1, <2>2, TablesMove
  <2>4. /\ services' \in [Services -> Kube!Objects \cup {Kube!Absent}]
        /\ services'[s] = cluster[s] /\ \A r \in Services \ {s} : services'[r] = services[r]
    BY <2>1 DEF KubeInv
  <2>5. ASSUME NEW r \in Services, services'[r] # Kube!Absent, Kube!Eligible(services'[r], ns)
        PROVE  Shares(u, services'[r].host, r)
    <3>1. CASE r = s
      BY <2>2, <2>4, <2>5, <3>1
    <3>2. CASE r # s
      BY <1>0, <2>1, <2>2, <2>4, <2>5, <3>2 DEF KubeInv
    <3> QED BY <3>1, <3>2
  <2> QED BY <2>1, <2>2, <2>3, <2>4, <2>5 DEF KubeInv
<1>4. ASSUME NEW s \in Services, Kube!DeleteService(s) PROVE KubeInv'
  <2> DEFINE host == IF byID[s] # NoHost THEN byID[s] ELSE services[s].host
             gone == Kube!RemoveKubernetes(Kube!Tables, host, s)
             u == [gone EXCEPT !.byID[s] = NoHost]
  <2>1. /\ todo = {} /\ services[s] \in Kube!Objects /\ services' = [services EXCEPT ![s] = Kube!Absent]
        /\ Kube!Store(u) /\ UNCHANGED <<cluster, labelled, ns, todo, changes>>
    BY <1>4 DEF Kube!DeleteService, KubeInv
  <2>2. byID \in [Services -> KubeHosts \cup {NoHost}]
    BY DEF KubeInv, Kube!Tables, TableRecords
  <2>3. host \in KubeHosts
    BY <1>0, <2>1, <2>2
  <2>4. /\ gone \in TableRecords /\ Settled(gone)
        /\ \A g \in KubeHosts, r \in Services \ {s} : Shares(Kube!Tables, g, r) => Shares(gone, g, r)
    BY <2>3, RemoveKeeps DEF KubeInv
  <2> HIDE DEF gone
  <2>5. u \in TableRecords /\ u.routes = gone.routes /\ u.conflicts = gone.conflicts
    BY <2>4 DEF TableRecords
  <2> HIDE DEF u
  <2>6. Kube!Tables' = u /\ Settled(u)
        /\ \A g \in KubeHosts, r \in Services \ {s} : Shares(Kube!Tables, g, r) => Shares(u, g, r)
    BY <2>1, <2>4, <2>5, TablesMove DEF Settled, Shares
  <2>7. /\ services' \in [Services -> Kube!Objects \cup {Kube!Absent}]
        /\ services'[s] = Kube!Absent /\ \A r \in Services \ {s} : services'[r] = services[r]
    BY <2>1 DEF KubeInv
  <2>8. ASSUME NEW r \in Services, services'[r] # Kube!Absent, Kube!Eligible(services'[r], ns)
        PROVE  Shares(u, services'[r].host, r)
    BY <1>0, <2>1, <2>6, <2>7, <2>8 DEF KubeInv
  <2> QED BY <2>1, <2>5, <2>6, <2>7, <2>8 DEF KubeInv
<1>5. ASSUME NEW s \in Services, Kube!ReconcileAll(s) PROVE KubeInv'
  <2> DEFINE u == Kube!Reconcile(Kube!Tables, s, services[s], ns)
  <2>1. /\ s \in todo /\ todo' = todo \ {s} /\ services[s] \in Kube!Objects
        /\ Kube!Store(u) /\ UNCHANGED <<cluster, labelled, services, ns, changes>>
    BY <1>5 DEF Kube!ReconcileAll, KubeInv
  <2>2. /\ u \in TableRecords /\ Settled(u)
        /\ \A g \in KubeHosts, r \in Services \ {s} : Shares(Kube!Tables, g, r) => Shares(u, g, r)
        /\ Kube!Eligible(services[s], ns) => Shares(u, services[s].host, s)
    BY <2>1, ReconcileKeeps DEF KubeInv
  <2> HIDE DEF u
  <2>3. Kube!Tables' = u
    BY <2>1, <2>2, TablesMove
  <2>4. ASSUME NEW r \in Services \ todo', services[r] # Kube!Absent, Kube!Eligible(services[r], ns)
        PROVE  Shares(u, services[r].host, r)
    <3>1. CASE r = s
      BY <2>2, <2>4, <3>1
    <3>2. CASE r # s
      BY <1>0, <2>1, <2>2, <2>4, <3>2 DEF KubeInv
    <3> QED BY <3>1, <3>2
  <2> QED BY <2>1, <2>2, <2>3, <2>4 DEF KubeInv
<1>6. ASSUME NEW n \in Spaces, Kube!PutNamespace(n) PROVE KubeInv'
  BY <1>6 DEF Kube!PutNamespace, KubeInv, Kube!Tables
<1> QED BY <1>1, <1>2, <1>3, <1>4, <1>5, <1>6 DEF Kube!Next

\* Whatever Services and namespaces come and go in whatever order, and in the
\* middle of a walk over all Services, a hostname that two of them claim is
\* routed to neither, and no eligible Service is left out.
THEOREM DiscoveryIsFair == Kube!Spec => []Kube!NoArbitraryChoice
<1>1. ASSUME KubeInv PROVE Kube!NoArbitraryChoice
  <2>1. ASSUME NEW h \in KubeHosts, NEW s \in Kube!Claimants(h)
        PROVE  s \in Services /\ (routes[h] = s \/ s \in conflicts[h])
    BY <1>1, <2>1 DEF Kube!Claimants, KubeInv, Shares, Kube!Tables
  <2>2. ASSUME NEW h \in KubeHosts
        PROVE  /\ \A s \in Services : conflicts[h] # {s}
               /\ conflicts[h] # {} => routes[h] = NoHost
    BY <1>1, <2>2 DEF KubeInv, Settled, Kube!Tables
  <2> QED BY <2>1, <2>2, ServicesNamed DEF Kube!NoArbitraryChoice, Kube!Unrouted
<1> QED BY <1>1, KubeInit, KubeStep, PTL DEF Kube!Spec

(***************************************************************************)
(* The sockets of the process.                                             *)
(***************************************************************************)

LEMMA ProcessCounts == \A S : Process!Cardinality(S) = Cardinality(S)
BY DEF Process!Cardinality, Cardinality

Sockets ==
  ({"public", "agents", "reflect", "udp"} \X {"relay"})
    \cup ({"port"} \X Ports) \cup ({"native", "tcp"} \X Listening)

\* The sockets of one kind are finitely many, so they can be listed.
LEMMA KindIsFinite ==
  ASSUME NEW S, IsFiniteSet(S), NEW kind
  PROVE  IsFiniteSet({<<kind, x>> : x \in S})
<1> DEFINE T == {<<kind, x>> : x \in S}
           f == [x \in S |-> <<kind, x>>]
<1>1. f \in Surjection(S, T)
  BY DEF Surjection
<1> QED
  BY <1>1, FS_Surjection

LEMMA ListIsSequence ==
  ASSUME NEW S, IsFiniteSet(S)
  PROVE  Process!SetToSeq(S) \in Seq(S)
<1>1. Cardinality(S) \in Nat /\ ExistsBijection(1..Cardinality(S), S)
  BY FS_CardinalityType
<1>2. PICK f \in [1..Cardinality(S) -> S] :
        \A a, b \in 1..Cardinality(S) : f[a] = f[b] => a = b
  BY <1>1 DEF ExistsBijection, Bijection, Injection, IsInjective
<1>3. Process!IsInjective(f)
  BY <1>2 DEF Process!IsInjective
<1>4. Process!SetToSeq(S) \in [1..Cardinality(S) -> S]
  BY <1>2, <1>3, ProcessCounts DEF Process!SetToSeq
<1> QED
  BY <1>1, <1>4

\* What Start binds is a sequence of sockets, whatever the configuration.
LEMMA PlanIsSequence ==
  ASSUME NEW r \in BOOLEAN, NEW u \in BOOLEAN,
         NEW n \in SUBSET Listening, NEW t \in SUBSET Listening
  PROVE  Process!Plan(r, u, n, t) \in Seq(Sockets)
<1> DEFINE ports == {<<"port", p>> : p \in Ports}
           natives == {<<"native", x>> : x \in n}
           tcps == {<<"tcp", x>> : x \in t}
<1>1. IsFiniteSet(n) /\ IsFiniteSet(t) /\ IsFiniteSet(Ports)
  BY FS_Subset, SocketsAssumption
<1>2. IsFiniteSet(ports) /\ IsFiniteSet(natives) /\ IsFiniteSet(tcps)
  BY <1>1, KindIsFinite
<1>3. /\ Process!SetToSeq(ports) \in Seq(ports)
      /\ Process!SetToSeq(natives) \in Seq(natives)
      /\ Process!SetToSeq(tcps) \in Seq(tcps)
  BY <1>2, ListIsSequence
<1>4. ports \subseteq Sockets /\ natives \subseteq Sockets /\ tcps \subseteq Sockets
  BY DEF Sockets
<1>5. /\ Process!SetToSeq(ports) \in Seq(Sockets)
      /\ Process!SetToSeq(natives) \in Seq(Sockets)
      /\ Process!SetToSeq(tcps) \in Seq(Sockets)
  BY <1>3, <1>4
<1>6. /\ Process!One("public") \in Sockets /\ Process!One("agents") \in Sockets
      /\ Process!One("reflect") \in Sockets /\ Process!One("udp") \in Sockets
  BY DEF Process!One, Sockets
<1>7. /\ Process!Base \in Seq(Sockets)
      /\ (IF r THEN <<Process!One("reflect")>> ELSE <<>>) \in Seq(Sockets)
  BY <1>6 DEF Process!Base
<1>8. (IF u THEN <<Process!One("udp")>> \o Process!SetToSeq(ports) ELSE <<>>) \in Seq(Sockets)
  BY <1>5, <1>6
<1> HIDE DEF ports, natives, tcps
<1>9. \A a, b, c, d, e \in Seq(Sockets) : a \o b \o c \o d \o e \in Seq(Sockets)
  OBVIOUS
<1> QED
  BY <1>5, <1>7, <1>8, <1>9 DEF Process!Plan, ports, natives, tcps

\* Once as many sockets are open as the plan is long, all of them are.
LEMMA AllAreOpen ==
  ASSUME NEW w \in Seq(Sockets), NEW S \in SUBSET Process!ToSet(w),
         Cardinality(S) = Len(w)
  PROVE  S = Process!ToSet(w)
<1> DEFINE T == Process!ToSet(w)
<1>1. w \in Surjection(1..Len(w), T) /\ IsFiniteSet(1..Len(w)) /\ Cardinality(1..Len(w)) = Len(w)
  <2>1. w \in [1..Len(w) -> T] /\ Len(w) \in Nat
    BY DEF Process!ToSet
  <2>2. \A x \in T : \E i \in 1..Len(w) : w[i] = x
    BY DEF Process!ToSet
  <2>3. w \in Surjection(1..Len(w), T)
    BY <2>1, <2>2 DEF Surjection
  <2>4. IsFiniteSet(1..Len(w)) /\ Cardinality(1..Len(w)) = Len(w)
    <3>1. Len(w) \in Int /\ 1 \in Int /\ Len(w) >= 0
      BY <2>1
    <3>2. IsFiniteSet(1..Len(w))
      BY <3>1, FS_Interval
    <3>3. Cardinality(1..Len(w)) = IF 1 > Len(w) THEN 0 ELSE Len(w) - 1 + 1
      BY <3>1, FS_Interval, Zenon
    <3> QED
      BY <3>1, <3>2, <3>3
  <2> QED
    BY <2>3, <2>4
<1>2. IsFiniteSet(T) /\ Cardinality(T) <= Len(w)
  BY <1>1, FS_Surjection
<1>3. Cardinality(S) <= Cardinality(T) /\ (Cardinality(T) = Cardinality(S) => T = S)
  BY <1>2, FS_Subset
<1>4. Cardinality(T) \in Nat /\ Len(w) \in Nat
  BY <1>2, FS_CardinalityType
<1> QED
  BY <1>2, <1>3, <1>4

\* Until the Relay takes the sockets over nobody serves and nothing is
\* watched; from then on it owns all there are, so that Close reaches them.
ProcInv ==
  /\ want \in Seq(Sockets) /\ bound \subseteq Process!All
  /\ life \in {"new", "starting", "failed", "running", "closed"}
  /\ life = "new" => owned = {} /\ bound = {}
  /\ life \in {"new", "starting", "failed"} => serving = {}
  /\ life \in {"new", "starting"} /\ owned = {} => ~watching
  /\ life \in {"starting", "running"} /\ owned /= {} =>
       /\ owned = bound /\ bound = Process!All /\ Cardinality(bound) = Len(want)
       /\ told = Process!All \cap Process!Offers
  /\ life = "running" => owned /= {} /\ serving = Process!All
  /\ life \in {"failed", "closed"} => bound = {} /\ ~watching

LEMMA ProcInit == Process!Init => ProcInv
<1> SUFFICES ASSUME Process!Init PROVE ProcInv
  OBVIOUS
<1>1. want \in Seq(Sockets)
  BY PlanIsSequence DEF Process!Init
<1> QED
  BY <1>1 DEF Process!Init, ProcInv

LEMMA ProcStep == ProcInv /\ [Process!Next]_Process!procVars => ProcInv'
<1> SUFFICES ASSUME ProcInv, [Process!Next]_Process!procVars PROVE ProcInv'
  OBVIOUS
<1> USE DEF ProcInv, Process!All
<1>1. CASE Process!Bind
  <2>1. Cardinality(bound) < Len(want) /\ want' = want
    BY <1>1, ProcessCounts DEF Process!Bind
  <2>2. owned = {}
    BY <1>1, <2>1 DEF Process!Bind
  <2>3. want[Cardinality(bound) + 1] \in Process!ToSet(want)
    <3>1. IsFiniteSet(bound)
      <4>1. want \in Surjection(1..Len(want), Process!ToSet(want))
        BY DEF Surjection, Process!ToSet
      <4>2. IsFiniteSet(1..Len(want))
        BY FS_Interval
      <4>3. IsFiniteSet(Process!ToSet(want))
        BY <4>1, <4>2, FS_Surjection
      <4> QED
        BY <4>3, FS_Subset
    <3>2. Cardinality(bound) \in Nat
      BY <3>1, FS_CardinalityType
    <3> QED
      BY <2>1, <3>2 DEF Process!ToSet
  <2> QED
    BY <1>1, <2>1, <2>2, <2>3, ProcessCounts DEF Process!Bind
<1>2. CASE Process!BindFails
  <2>1. owned = {}
    BY <1>2, ProcessCounts DEF Process!BindFails
  <2> QED
    BY <1>2, <2>1 DEF Process!BindFails
<1>3. CASE Process!Hand
  <2>1. Cardinality(bound) = Len(want)
    BY <1>3, ProcessCounts DEF Process!Hand
  <2>2. bound = Process!ToSet(want)
    BY <2>1, AllAreOpen
  <2> QED
    BY <1>3, <2>1, <2>2 DEF Process!Hand
<1>4. CASE Process!Discover
  BY <1>4 DEF Process!Discover
<1>5. CASE Process!StartServing
  BY <1>5 DEF Process!StartServing
<1>6. CASE Process!Close
  BY <1>6 DEF Process!Close
<1>7. CASE \E s \in Process!All : Process!ReaderEnds(s)
  BY <1>7 DEF Process!ReaderEnds
<1>8. CASE UNCHANGED Process!procVars
  BY <1>8 DEF Process!procVars
<1> QED
  BY <1>1, <1>2, <1>3, <1>4, <1>5, <1>6, <1>7, <1>8 DEF Process!Next

\* relay.go: a start that fails half-way closes every socket it had bound,
\* Close closes all of them, and a relay that runs serves all it was asked
\* to and offers what is there, for every configuration.
THEOREM SocketsAreAccounted == Process!Spec => []Process!SocketsAccounted
<1>1. ProcInv => Process!SocketsAccounted
  BY DEF ProcInv, Process!SocketsAccounted
<1> QED
  BY <1>1, ProcInit, ProcStep, PTL DEF Process!Spec

(***************************************************************************)
(* The native WireGuard forwarder.                                         *)
(***************************************************************************)

\* The keys of a table are the entries of its ring, each once.
RingOK(table, D, r, pos) ==
  /\ r \in Seq(D) /\ Len(r) <= MaxIndices /\ pos \in 1..MaxIndices
  /\ \A a, b \in 1..Len(r) : r[a] = r[b] => a = b
  /\ \A k \in D : table[k] /= None <=> \E a \in 1..Len(r) : r[a] = k

\* s is what becomes of ring r when key has a place in it and s.out none.
SlotOK(s, D, r, key) ==
  /\ s.ring \in Seq(D) /\ Len(s.ring) <= MaxIndices /\ s.pos \in 1..MaxIndices
  /\ \A a, b \in 1..Len(s.ring) : s.ring[a] = s.ring[b] => a = b
  /\ \E a \in 1..Len(s.ring) : s.ring[a] = key
  /\ s.out /= key
  /\ \A k \in D : k /= key =>
       ((\E a \in 1..Len(s.ring) : s.ring[a] = k)
          <=> ((\E a \in 1..Len(r) : r[a] = k) /\ k /= s.out))

\* A new key takes a place of its own, of the oldest one if there is none.
LEMMA SlotKeeps ==
  ASSUME NEW D, NEW table, NEW r, NEW pos, NEW key \in D,
         None \notin D, table[key] = None, RingOK(table, D, r, pos)
  PROVE  SlotOK(Native!Slot(r, pos, key), D, r, key)
<1> DEFINE s == Native!Slot(r, pos, key)
<1>0. MaxIndices \in Nat \ {0} /\ r \in Seq(D) /\ pos \in 1..MaxIndices /\ Len(r) \in Nat
  BY NativeAssumption DEF RingOK
<1>1. \A a \in 1..Len(r) : r[a] \in D /\ r[a] /= key /\ r[a] /= None
  BY <1>0 DEF RingOK
<1>2. CASE Len(r) = MaxIndices
  <2> DEFINE q == [r EXCEPT ![pos] = key]
  <2>1. s.ring = q /\ s.out = r[pos] /\ s.pos = (pos % Len(r)) + 1
    BY <1>2 DEF Native!Slot
  <2>2. q \in Seq(D) /\ Len(q) = Len(r) /\ q[pos] = key
        /\ \A a \in 1..Len(r) : a /= pos => q[a] = r[a]
    BY <1>0, <1>2
  <2>3. s.pos \in 1..MaxIndices
    BY <1>0, <1>2, <2>1
  <2>4. pos \in 1..Len(r)
    BY <1>0, <1>2
  <2> HIDE DEF q, s
  <2>5. \A a, b \in 1..Len(q) : q[a] = q[b] => a = b
    BY <1>0, <1>1, <2>2, <2>4 DEF RingOK
  <2>6. s.out /= key /\ \E a \in 1..Len(q) : q[a] = key
    BY <1>1, <2>1, <2>2, <2>4
  <2>7. ASSUME NEW k \in D, k /= key
        PROVE  (\E a \in 1..Len(q) : q[a] = k) <=> ((\E a \in 1..Len(r) : r[a] = k) /\ k /= r[pos])
    <3>1. ASSUME NEW a \in 1..Len(q), q[a] = k PROVE a \in 1..Len(r) /\ r[a] = k /\ k /= r[pos]
      BY <2>2, <2>4, <2>7, <3>1 DEF RingOK
    <3>2. ASSUME NEW a \in 1..Len(r), r[a] = k, k /= r[pos] PROVE a \in 1..Len(q) /\ q[a] = k
      BY <2>2, <3>2
    <3> QED
      BY <3>1, <3>2
  <2> QED
    BY <1>0, <1>2, <2>1, <2>2, <2>3, <2>5, <2>6, <2>7 DEF s, SlotOK
<1>3. CASE Len(r) /= MaxIndices
  <2> DEFINE q == Append(r, key)
  <2>1. s.ring = q /\ s.out = None /\ s.pos = pos
    BY <1>3 DEF Native!Slot
  <2>2. q \in Seq(D) /\ Len(q) = Len(r) + 1 /\ q[Len(r) + 1] = key
        /\ \A a \in 1..Len(r) : q[a] = r[a]
    BY <1>0
  <2>3. Len(q) <= MaxIndices
    BY <1>0, <1>3, <2>2 DEF RingOK
  <2> HIDE DEF q, s
  <2>4. \A a \in 1..Len(q) : a \in 1..Len(r) \/ a = Len(r) + 1
    BY <1>0, <2>2
  <2>5. \A a, b \in 1..Len(q) : q[a] = q[b] => a = b
    BY <1>0, <1>1, <2>2, <2>4 DEF RingOK
  <2>6. s.out /= key /\ \E a \in 1..Len(q) : q[a] = key
    BY <1>0, <2>1, <2>2
  <2>7. ASSUME NEW k \in D, k /= key
        PROVE  (\E a \in 1..Len(q) : q[a] = k) <=> ((\E a \in 1..Len(r) : r[a] = k) /\ k /= None)
    <3>1. ASSUME NEW a \in 1..Len(q), q[a] = k PROVE a \in 1..Len(r) /\ r[a] = k /\ k /= None
      BY <1>1, <2>2, <2>4, <2>7, <3>1
    <3>2. ASSUME NEW a \in 1..Len(r), r[a] = k PROVE a \in 1..Len(q) /\ q[a] = k
      BY <1>0, <2>2, <3>2
    <3> QED
      BY <3>1, <3>2
  <2> QED
    BY <1>0, <2>1, <2>2, <2>3, <2>5, <2>6, <2>7 DEF s, SlotOK
<1> QED
  BY <1>2, <1>3

\* Writing an entry keeps table and ring in step; what it evicts is gone.
LEMMA PutKeeps ==
  ASSUME NEW D, NEW V, NEW table \in [D -> V \cup {None}], NEW r, NEW pos, NEW key \in D,
         NEW v \in V, None \notin D, None \notin V, RingOK(table, D, r, pos)
  PROVE  LET p == Native!Put(table, r, pos, key, v) IN
         /\ p.table \in [D -> V \cup {None}]
         /\ RingOK(p.table, D, p.ring, p.pos)
         /\ p.table[key] = v /\ p.out /= key
         /\ \A k \in D : k /= key => p.table[k] = IF k = p.out THEN None ELSE table[k]
<1> DEFINE p == Native!Put(table, r, pos, key, v)
           s == IF table[key] /= None THEN [ring |-> r, pos |-> pos, out |-> None]
                                      ELSE Native!Slot(r, pos, key)
<1>1. /\ p.ring = s.ring /\ p.pos = s.pos /\ p.out = s.out
      /\ p.table = [k \in D |-> IF k = key THEN v ELSE IF k = s.out THEN None ELSE table[k]]
  BY DEF Native!Put
<1>2. SlotOK(s, D, r, key)
  <2>1. CASE table[key] = None
    BY <2>1, SlotKeeps
  <2>2. CASE table[key] /= None
    BY <2>2 DEF RingOK, SlotOK
  <2> QED
    BY <2>1, <2>2
<1> HIDE DEF p, s
<1>3. /\ p.table \in [D -> V \cup {None}]
      /\ p.table[key] = v
      /\ \A k \in D : k /= key => p.table[k] = IF k = p.out THEN None ELSE table[k]
  BY <1>1
<1>4. ASSUME NEW k \in D
      PROVE  p.table[k] /= None <=> \E a \in 1..Len(s.ring) : s.ring[a] = k
  <2>1. CASE k = key
    BY <1>2, <1>3, <2>1 DEF SlotOK
  <2>2. CASE k /= key
    BY <1>1, <1>2, <1>3, <2>2 DEF RingOK, SlotOK
  <2> QED
    BY <2>1, <2>2
<1>5. RingOK(p.table, D, p.ring, p.pos)
  BY <1>1, <1>2, <1>4 DEF RingOK, SlotOK
<1> QED
  BY <1>1, <1>2, <1>3, <1>5 DEF p, SlotOK

Drawn == DOMAIN ClientIndex
Given == DOMAIN ServerIndex
Addresses == UNION {AddrsOf[c] : c \in Clients}

\* A pair joins two indices of one client, so that a transport packet moves
\* the route of the client that sent it.
NativeInv ==
  /\ indices \in [Drawn -> Addresses \cup {None}] /\ RingOK(indices, Drawn, ring, at)
  /\ pairs \in [Given -> Drawn \cup {None}] /\ RingOK(pairs, Given, pairRing, pairAt)
  /\ flows \subseteq {i \in Drawn : indices[i] /= None}
  /\ \A i \in Drawn : indices[i] /= None => indices[i] \in AddrsOf[ClientIndex[i]]
  /\ \A j \in Given : pairs[j] /= None => ClientIndex[pairs[j]] = ServerIndex[j]
  /\ server /= None => token /= 0

LEMMA AddressesNamed == None \notin Addresses
BY NativeAssumption DEF Addresses

LEMMA NativeInit == Native!Init => NativeInv
<1> SUFFICES ASSUME Native!Init PROVE NativeInv
  OBVIOUS
<1>1. MaxIndices \in Nat \ {0}
  BY NativeAssumption
<1>2. /\ indices = [i \in Drawn |-> None] /\ ring = <<>> /\ at = 1 /\ flows = {}
      /\ pairs = [j \in Given |-> None] /\ pairRing = <<>> /\ pairAt = 1 /\ server = None
  BY DEF Native!Init, Native!CIdx, Native!SIdx, Drawn, Given
<1>3. RingOK(indices, Drawn, ring, at) /\ RingOK(pairs, Given, pairRing, pairAt)
  BY <1>1, <1>2 DEF RingOK
<1> QED
  BY <1>2, <1>3 DEF NativeInv

LEMMA NativeRegStep ==
  ASSUME NativeInv, UNCHANGED Native!tableVars, server' /= None => token' /= 0
  PROVE  NativeInv'
<1>1. UNCHANGED <<indices, flows, ring, at, pairs, pairRing, pairAt>>
  BY DEF Native!tableVars
<1> QED
  BY <1>1 DEF NativeInv, RingOK

LEMMA FromServerStep ==
  ASSUME NativeInv, NEW i \in Drawn, NEW j \in Given, NEW typ \in 2..4,
         Native!FromServer(typ, i, j)
  PROVE  NativeInv'
<1>1. UNCHANGED <<indices, flows, ring, at, issued, token, server>> /\ ServerIndex[j] = ClientIndex[i]
  BY DEF Native!FromServer, Native!regVars
<1>2. CASE UNCHANGED <<pairs, pairRing, pairAt>>
  <2>1. UNCHANGED Native!tableVars
    BY <1>1, <1>2 DEF Native!tableVars
  <2>2. server' /= None => token' /= 0
    BY <1>1 DEF NativeInv
  <2> QED
    BY <2>1, <2>2, NativeRegStep
<1>3. CASE LET p == Native!Put(pairs, pairRing, pairAt, j, i)
           IN  pairs' = p.table /\ pairRing' = p.ring /\ pairAt' = p.pos
  <2> DEFINE p == Native!Put(pairs, pairRing, pairAt, j, i)
  <2>1. pairs' = p.table /\ pairRing' = p.ring /\ pairAt' = p.pos
    BY <1>3
  <2>2. None \notin Given /\ None \notin Drawn
    BY NativeAssumption DEF Given, Drawn
  <2>3. pairs \in [Given -> Drawn \cup {None}] /\ RingOK(pairs, Given, pairRing, pairAt)
    BY DEF NativeInv
  <2>4. /\ p.table \in [Given -> Drawn \cup {None}] /\ RingOK(p.table, Given, p.ring, p.pos)
        /\ p.table[j] = i
        /\ \A k \in Given : k /= j => p.table[k] = IF k = p.out THEN None ELSE pairs[k]
    BY <2>2, <2>3, PutKeeps
  <2> HIDE DEF p
  <2>5. \A k \in Given : pairs'[k] /= None => ClientIndex[pairs'[k]] = ServerIndex[k]
    BY <1>1, <2>1, <2>4 DEF NativeInv
  <2>6. RingOK(pairs', Given, pairRing', pairAt') /\ RingOK(indices', Drawn, ring', at')
    BY <1>1, <2>1, <2>4 DEF NativeInv
  <2> QED
    BY <1>1, <2>1, <2>4, <2>5, <2>6 DEF NativeInv
<1> QED
  BY <1>2, <1>3 DEF Native!FromServer

LEMMA InitiationStep ==
  ASSUME NativeInv, NEW c \in Clients, NEW from \in AddrsOf[c], NEW i \in Drawn,
         Native!Initiation(c, from, i)
  PROVE  NativeInv'
<1> DEFINE p == Native!Put(indices, ring, at, i, from)
<1>1. /\ UNCHANGED <<pairs, pairRing, pairAt, issued, token, server>> /\ ClientIndex[i] = c
      /\ indices' = p.table /\ ring' = p.ring /\ at' = p.pos
      /\ flows' = (flows \ {p.out}) \cup {i}
  BY DEF Native!Initiation, Native!regVars
<1>2. None \notin Drawn /\ None \notin Addresses /\ from \in Addresses
  BY NativeAssumption, AddressesNamed DEF Drawn, Addresses
<1>3. indices \in [Drawn -> Addresses \cup {None}] /\ RingOK(indices, Drawn, ring, at)
  BY DEF NativeInv
<1>4. /\ p.table \in [Drawn -> Addresses \cup {None}] /\ RingOK(p.table, Drawn, p.ring, p.pos)
      /\ p.table[i] = from /\ p.out /= i
      /\ \A k \in Drawn : k /= i => p.table[k] = IF k = p.out THEN None ELSE indices[k]
  BY <1>2, <1>3, PutKeeps
<1> HIDE DEF p
<1>5. RingOK(indices', Drawn, ring', at') /\ RingOK(pairs', Given, pairRing', pairAt')
  BY <1>1, <1>4 DEF NativeInv
<1>6. flows' \subseteq {k \in Drawn : indices'[k] /= None}
  <2>1. ASSUME NEW k \in flows', k /= i PROVE k \in Drawn /\ indices'[k] /= None
    <3>1. k \in flows /\ k /= p.out
      BY <1>1, <2>1
    <3>2. k \in Drawn /\ indices[k] /= None
      BY <3>1 DEF NativeInv
    <3> QED
      BY <1>1, <1>4, <2>1, <3>1, <3>2
  <2>2. indices'[i] /= None
    BY <1>1, <1>2, <1>4
  <2> QED
    BY <2>1, <2>2
<1>7. \A k \in Drawn : indices'[k] /= None => indices'[k] \in AddrsOf[ClientIndex[k]]
  BY <1>1, <1>4 DEF NativeInv
<1> QED
  BY <1>1, <1>4, <1>5, <1>6, <1>7 DEF NativeInv

LEMMA TransportStep ==
  ASSUME NativeInv, NEW c \in Clients, NEW from \in AddrsOf[c], NEW j \in Given,
         Native!Transport(c, from, j)
  PROVE  NativeInv'
<1> DEFINE i == pairs[j]
<1>1. /\ UNCHANGED <<ring, at, pairs, pairRing, pairAt, issued, token, server>>
      /\ ServerIndex[j] = c /\ i /= None /\ indices[i] /= None
      /\ indices' = [indices EXCEPT ![i] = from] /\ flows' = flows \cup {i}
  BY DEF Native!Transport, Native!regVars
<1>2. i \in Drawn /\ ClientIndex[i] = c
  BY <1>1 DEF NativeInv
<1>3. from \in Addresses /\ from /= None
  BY AddressesNamed DEF Addresses
<1>4. indices \in [Drawn -> Addresses \cup {None}]
  BY DEF NativeInv
<1> HIDE DEF i
<1>5. /\ indices' \in [Drawn -> Addresses \cup {None}] /\ indices'[i] = from
      /\ \A k \in Drawn : k /= i => indices'[k] = indices[k]
  BY <1>1, <1>2, <1>3, <1>4
<1>6. \A k \in Drawn : indices'[k] /= None <=> indices[k] /= None
  BY <1>1, <1>2, <1>3, <1>5
<1>7. RingOK(indices', Drawn, ring', at') /\ RingOK(pairs', Given, pairRing', pairAt')
  <2>1. RingOK(indices, Drawn, ring, at) /\ RingOK(pairs, Given, pairRing, pairAt)
    BY DEF NativeInv
  <2>2. RingOK(indices', Drawn, ring, at)
    BY <1>6, <2>1 DEF RingOK
  <2> QED
    BY <1>1, <2>1, <2>2
<1>8. flows' \subseteq {k \in Drawn : indices'[k] /= None}
  BY <1>1, <1>2, <1>6 DEF NativeInv
<1>9. \A k \in Drawn : indices'[k] /= None => indices'[k] \in AddrsOf[ClientIndex[k]]
  BY <1>2, <1>5, <1>6 DEF NativeInv
<1> QED
  BY <1>1, <1>5, <1>7, <1>8, <1>9 DEF NativeInv

LEMMA NativeStep == NativeInv /\ [Native!Next]_Native!nativeVars => NativeInv'
<1> SUFFICES ASSUME NativeInv, [Native!Next]_Native!nativeVars PROVE NativeInv'
  OBVIOUS
<1> USE DEF Native!CIdx, Native!SIdx, Drawn, Given
<1>1. CASE Native!Issue
  BY <1>1, NativeRegStep DEF Native!Issue
<1>2. CASE \E t \in 1..MaxTokens : Native!RemoveToken(t)
  BY <1>2, NativeRegStep DEF Native!RemoveToken
<1>3. CASE \E t \in 1..MaxTokens : \E a \in ServerAddrs : Native!Associate(t, a)
  <2>1. PICK t \in 1..MaxTokens, a \in ServerAddrs : Native!Associate(t, a)
    BY <1>3
  <2>2. token' = t /\ UNCHANGED Native!tableVars
    BY <2>1 DEF Native!Associate
  <2>3. t /= 0
    OBVIOUS
  <2> QED
    BY <2>2, <2>3, NativeRegStep
<1>4. CASE \E i \in Native!CIdx : Native!Expire(i)
  <2>1. UNCHANGED <<indices, ring, at, pairs, pairRing, pairAt, token, server>> /\ flows' \subseteq flows
    BY <1>4 DEF Native!Expire, Native!regVars
  <2> QED
    BY <2>1 DEF NativeInv, RingOK
<1>5. CASE \E i \in Native!CIdx, j \in Native!SIdx, typ \in 2..4 : Native!FromServer(typ, i, j)
  BY <1>5, FromServerStep
<1>6. CASE \E c \in Clients : \E from \in AddrsOf[c], i \in Native!CIdx : Native!Initiation(c, from, i)
  BY <1>6, InitiationStep
<1>7. CASE \E c \in Clients : \E from \in AddrsOf[c], j \in Native!SIdx : Native!Transport(c, from, j)
  BY <1>7, TransportStep
<1>8. CASE UNCHANGED Native!nativeVars
  BY <1>8, NativeRegStep DEF Native!nativeVars, Native!tableVars, NativeInv
<1> QED
  BY <1>1, <1>2, <1>3, <1>4, <1>5, <1>6, <1>7, <1>8 DEF Native!Next

\* nativewg.go: however handshakes evict one another's slots, clients roam
\* and registrations replace each other, each table holds what its ring
\* says, an answer goes to an address of the client it is for, and a server
\* is associated under a token only.
THEOREM NativeIsSound == Native!Spec => []Native!NativeSound
<1>1. NativeInv => Native!NativeSound
  <2> SUFFICES ASSUME NativeInv PROVE Native!NativeSound
    OBVIOUS
  <2> USE DEF Drawn, Given
  <2>1. /\ ring \in Seq(Drawn) /\ pairRing \in Seq(Given)
        /\ Len(ring) <= MaxIndices /\ Len(pairRing) <= MaxIndices
        /\ at \in 1..MaxIndices /\ pairAt \in 1..MaxIndices
    BY DEF NativeInv, RingOK
  <2>2. Native!IsInjective(ring) /\ Native!IsInjective(pairRing)
    <3>1. /\ DOMAIN ring = 1..Len(ring) /\ \A a, b \in 1..Len(ring) : ring[a] = ring[b] => a = b
          /\ DOMAIN pairRing = 1..Len(pairRing)
          /\ \A a, b \in 1..Len(pairRing) : pairRing[a] = pairRing[b] => a = b
      BY <2>1 DEF NativeInv, RingOK
    <3> QED
      BY <3>1 DEF Native!IsInjective
  <2>3. DOMAIN indices = Drawn /\ DOMAIN pairs = Given
    BY DEF NativeInv
  <2>4. Native!Known(indices) = Native!ToSet(ring)
    BY <2>1, <2>3 DEF NativeInv, RingOK, Native!Known, Native!ToSet
  <2>5. Native!Known(pairs) = Native!ToSet(pairRing)
    BY <2>1, <2>3 DEF NativeInv, RingOK, Native!Known, Native!ToSet
  <2>6. flows \subseteq Native!Known(indices) /\ Native!AnswersFindClient /\ Native!AssociationOwned
    BY <2>3 DEF NativeInv, Native!Known, Native!AnswersFindClient, Native!AssociationOwned
  <2>7. Native!RingsAgree
    BY <2>1, <2>2, <2>4, <2>5, <2>6 DEF Native!RingsAgree
  <2> QED
    BY <2>6, <2>7 DEF Native!NativeSound
<1> QED
  BY <1>1, NativeInit, NativeStep, PTL DEF Native!Spec

(***************************************************************************)
(* The limits on what an unauthenticated caller makes the relay remember.  *)
(***************************************************************************)

LEMMA AuthCounts == \A S : Auth!Cardinality(S) = Cardinality(S)
BY DEF Auth!Cardinality, Cardinality

\* Of some moments one is the earliest.
LEMMA OldestExists ==
  ASSUME NEW S, S /= {}, NEW table, \A n \in S : table[n] \in Nat
  PROVE  \E n \in S : \A m \in S : table[n] <= table[m]
<1> DEFINE T == {table[n] : n \in S}
           R == OpToRel(<, Nat)
<1>1. T \subseteq Nat /\ T /= {}
  OBVIOUS
<1>2. IsWellFoundedOn(R, Nat)
  BY NatLessThanWellFounded
<1>3. PICK x \in T : \A y \in T : ~(<<y, x>> \in R)
  <2> HIDE DEF T, R
  <2> QED
    BY <1>1, <1>2, WFMin
<1>4. \A y \in T : x <= y
  <2>1. \A y \in Nat, z \in Nat : y < z => <<y, z>> \in R
    BY Zenon DEF OpToRel
  <2> HIDE DEF T, R
  <2>2. \A y \in T : ~(y < x)
    BY <1>1, <1>3, <2>1
  <2> QED
    BY <1>1, <1>3, <2>2
<1>5. PICK n \in S : x = table[n]
  OBVIOUS
<1> QED
  BY <1>4, <1>5

\* A cached nonce carries the moment it was accepted.
NonceInv ==
  /\ now \in Nat /\ seen \in [Nonces -> Int] /\ accepted \in [Nonces -> Int]
  /\ \A n \in Nonces : seen[n] \in {-1, accepted[n]} /\ accepted[n] \in -1..now
  /\ Auth!NoncesRemembered

Cached == {n \in Nonces : seen[n] /= -1}
Young == {n \in Cached : now - seen[n] <= TTL}

\* What a full cache keeps: it has room again, and forgets a nonce that has
\* not expired only if it is the oldest of so many that they fill it.
Survivors(kept) ==
  /\ kept \subseteq Young /\ Cardinality(kept) < MaxNonces
  /\ \A m \in Young \ kept :
       /\ Cardinality(Young \ {m}) + 1 >= MaxNonces
       /\ \A k \in Young : seen[m] <= seen[k]

LEMMA CachedFinite ==
  ASSUME NonceInv
  PROVE  /\ Auth!Held(seen) = Cached /\ IsFiniteSet(Cached) /\ IsFiniteSet(Young)
         /\ Cardinality(Cached) \in Nat /\ Cardinality(Young) \in Nat
         /\ Cardinality(Young) <= Cardinality(Cached) /\ Cardinality(Cached) <= MaxNonces
<1>1. Auth!Held(seen) = Cached
  BY DEF Auth!Held, Auth!Never, Cached
<1>2. IsFiniteSet(Nonces) /\ Cached \subseteq Nonces /\ Young \subseteq Cached
  BY LimitsAssumption DEF Cached, Young
<1>3. IsFiniteSet(Cached)
  BY <1>2, FS_Subset
<1>4. IsFiniteSet(Young) /\ Cardinality(Young) <= Cardinality(Cached)
  BY <1>2, <1>3, FS_Subset
<1>5. Cardinality(Auth!Held(seen)) <= MaxNonces
  BY AuthCounts DEF NonceInv, Auth!NoncesRemembered
<1> QED
  BY <1>1, <1>3, <1>4, <1>5, FS_CardinalityType

LEMMA SweepSurvivors ==
  ASSUME NonceInv
  PROVE  \E kept : /\ Survivors(kept)
                   /\ Auth!SweepNonces(seen) = [n \in Nonces |-> IF n \in kept THEN seen[n] ELSE -1]
<1> DEFINE oldest == CHOOSE n \in Young : \A m \in Young : seen[n] <= seen[m]
           kept == IF Cardinality(Young) >= MaxNonces THEN Young \ {oldest} ELSE Young
<1>1. /\ Auth!Held(seen) = Cached /\ IsFiniteSet(Young) /\ Cardinality(Young) \in Nat
      /\ Cardinality(Young) <= MaxNonces /\ MaxNonces \in Nat \ {0}
  BY CachedFinite, LimitsAssumption
<1>2. Auth!SweepNonces(seen) = [n \in Nonces |-> IF n \in kept THEN seen[n] ELSE -1]
  BY <1>1, AuthCounts DEF Auth!SweepNonces, Auth!Never, Young
<1>3. CASE Cardinality(Young) < MaxNonces
  <2>1. kept = Young
    BY <1>1, <1>3
  <2> HIDE DEF kept
  <2> QED
    BY <1>2, <1>3, <2>1 DEF Survivors
<1>4. CASE Cardinality(Young) >= MaxNonces
  <2>1. Young /= {}
    BY <1>1, <1>4, FS_EmptySet
  <2>2. \A n \in Young : seen[n] \in Nat
    BY DEF NonceInv, Cached, Young
  <2>3. \E n \in Young : \A m \in Young : seen[n] <= seen[m]
    BY <2>1, <2>2, OldestExists
  <2>4. oldest \in Young /\ \A m \in Young : seen[oldest] <= seen[m]
    BY <2>3
  <2>5. kept = Young \ {oldest}
    BY <1>4
  <2> HIDE DEF oldest, kept
  <2>6. Cardinality(Young \ {oldest}) = Cardinality(Young) - 1
    BY <1>1, <2>4, FS_RemoveElement
  <2>7. kept \subseteq Young /\ Young \ kept = {oldest} /\ Cardinality(kept) < MaxNonces
    BY <1>1, <2>4, <2>5, <2>6
  <2>8. Cardinality(Young \ {oldest}) + 1 >= MaxNonces
    BY <1>1, <1>4, <2>6
  <2>9. Survivors(kept)
    BY <2>4, <2>7, <2>8 DEF Survivors
  <2> QED
    BY <1>2, <2>9
<1> QED
  BY <1>1, <1>3, <1>4

Later(m) == {k \in Nonces \ {m} : accepted[k] >= accepted[m]}

LEMMA RememberedMeans ==
  Auth!NoncesRemembered <=>
    /\ Cardinality(Cached) <= MaxNonces
    /\ \A m \in Nonces : accepted[m] /= -1 /\ now - accepted[m] <= TTL =>
         seen[m] = accepted[m] \/ Cardinality(Later(m)) >= MaxNonces
BY AuthCounts DEF Auth!NoncesRemembered, Auth!Held, Auth!Never, Cached, Later

LEMMA LaterGrows ==
  ASSUME NEW m, NEW S \in SUBSET Nonces, S \subseteq Later(m)'
  PROVE  /\ Cardinality(S) \in Nat /\ Cardinality(Later(m)') \in Nat
         /\ Cardinality(Later(m)') >= Cardinality(S)
<1>1. IsFiniteSet(Nonces) /\ Later(m)' \subseteq Nonces
  BY LimitsAssumption DEF Later
<1>2. IsFiniteSet(Later(m)')
  BY <1>1, FS_Subset
<1>3. IsFiniteSet(S) /\ Cardinality(S) <= Cardinality(Later(m)')
  BY <1>2, FS_Subset
<1> QED
  BY <1>2, <1>3, FS_CardinalityType

LEMMA UseStep ==
  ASSUME NonceInv, NEW n \in Nonces, Auth!Use(n)
  PROVE  NonceInv'
<1>1. /\ now' = now /\ accepted' = [accepted EXCEPT ![n] = now]
      /\ seen[n] = -1 \/ now - seen[n] > TTL
  BY DEF Auth!Use, Auth!Never
<1>2. /\ now \in Nat /\ seen \in [Nonces -> Int] /\ accepted \in [Nonces -> Int]
      /\ \A m \in Nonces : seen[m] \in {-1, accepted[m]} /\ accepted[m] \in -1..now
      /\ MaxNonces \in Nat \ {0} /\ TTL \in Nat /\ IsFiniteSet(Nonces)
  BY LimitsAssumption DEF NonceInv
<1>3. PICK kept \in SUBSET Cached :
        /\ Cardinality(kept) < MaxNonces
        /\ \A m \in Young \ kept : /\ Cardinality(Young \ {m}) + 1 >= MaxNonces
                                   /\ \A k \in Young : seen[m] <= seen[k]
        /\ seen' = [[m \in Nonces |-> IF m \in kept THEN seen[m] ELSE -1] EXCEPT ![n] = now]
  <2>1. /\ Auth!Held(seen) = Cached /\ Cardinality(Cached) \in Nat
        /\ Cardinality(Cached) <= MaxNonces /\ Young \subseteq Cached
    BY CachedFinite DEF Young
  <2>2. CASE Cardinality(Cached) >= MaxNonces
    <3>1. seen' = [Auth!SweepNonces(seen) EXCEPT ![n] = now]
      BY <2>1, <2>2, AuthCounts DEF Auth!Use
    <3>2. PICK kept : /\ Survivors(kept)
                      /\ Auth!SweepNonces(seen) = [m \in Nonces |-> IF m \in kept THEN seen[m] ELSE -1]
      BY SweepSurvivors
    <3>3. kept \in SUBSET Cached
      BY <2>1, <3>2 DEF Survivors
    <3> QED
      BY <3>1, <3>2, <3>3 DEF Survivors
  <2>3. CASE Cardinality(Cached) < MaxNonces
    <3>1. seen' = [seen EXCEPT ![n] = now]
      <4>1. ~(Auth!Cardinality(Auth!Held(seen)) >= MaxNonces)
        BY <1>2, <2>1, <2>3, AuthCounts
      <4> QED
        BY <4>1, Zenon DEF Auth!Use
    <3>2. seen = [m \in Nonces |-> IF m \in Cached THEN seen[m] ELSE -1]
      BY <1>2 DEF Cached
    <3> QED
      BY <2>1, <2>3, <3>1, <3>2
  <2> QED
    BY <1>2, <2>1, <2>2, <2>3
<1>4. /\ seen' \in [Nonces -> Int] /\ accepted' \in [Nonces -> Int]
      /\ seen'[n] = now /\ accepted'[n] = now
      /\ \A m \in Nonces \ {n} : /\ seen'[m] = IF m \in kept THEN seen[m] ELSE -1
                                 /\ accepted'[m] = accepted[m]
  BY <1>1, <1>2, <1>3
<1>5. \A m \in Nonces : seen'[m] \in {-1, accepted'[m]} /\ accepted'[m] \in -1..now
  BY <1>2, <1>4
<1>6. Cardinality(Cached') <= MaxNonces
  <2>1. IsFiniteSet(kept)
    BY CachedFinite, FS_Subset
  <2>2. /\ IsFiniteSet(kept \cup {n}) /\ Cardinality(kept) \in Nat
        /\ Cardinality(kept \cup {n}) <= Cardinality(kept) + 1
    BY <2>1, FS_AddElement, FS_CardinalityType
  <2>3. Cached' \subseteq kept \cup {n}
    BY <1>4 DEF Cached
  <2>4. IsFiniteSet(Cached') /\ Cardinality(Cached') <= Cardinality(kept \cup {n})
    BY <2>2, <2>3, FS_Subset
  <2>5. Cardinality(Cached') \in Nat /\ Cardinality(kept \cup {n}) \in Nat
    BY <2>2, <2>4, FS_CardinalityType
  <2> QED
    BY <1>2, <1>3, <2>2, <2>4, <2>5
<1>7. ASSUME NEW m \in Nonces, accepted'[m] /= -1, now - accepted'[m] <= TTL
      PROVE  seen'[m] = accepted'[m] \/ Cardinality(Later(m)') >= MaxNonces
  <2>1. CASE m = n
    BY <1>4, <2>1
  <2>2. CASE m /= n
    <3>1. accepted'[m] = accepted[m] /\ seen'[m] = IF m \in kept THEN seen[m] ELSE -1
      BY <1>4, <2>2
    <3>2. seen[m] = accepted[m] \/ Cardinality(Later(m)) >= MaxNonces
      BY <1>7, <3>1, RememberedMeans DEF NonceInv
    <3>3. CASE Cardinality(Later(m)) >= MaxNonces
      <4>1. Later(m) \subseteq Later(m)'
        BY <1>2, <1>4, <3>1 DEF Later
      <4>2. Later(m) \in SUBSET Nonces
        BY DEF Later
      <4>3. /\ Cardinality(Later(m)) \in Nat /\ Cardinality(Later(m)') \in Nat
            /\ Cardinality(Later(m)') >= Cardinality(Later(m))
        BY <4>1, <4>2, LaterGrows
      <4> QED
        BY <1>2, <3>3, <4>3
    <3>4. CASE seen[m] = accepted[m] /\ m \in kept
      BY <3>1, <3>4
    <3>5. CASE seen[m] = accepted[m] /\ m \notin kept
      <4>1. m \in Young \ kept
        BY <1>7, <3>1, <3>5 DEF Young, Cached
      <4>2. n \notin Young
        BY <1>1, <1>2 DEF Young, Cached
      <4> DEFINE S == (Young \ {m}) \cup {n}
      <4>3. Cardinality(S) = Cardinality(Young \ {m}) + 1
        <5>1. IsFiniteSet(Young \ {m}) /\ n \notin Young \ {m}
          BY <4>2, CachedFinite, FS_Subset
        <5> QED
          BY <5>1, FS_AddElement
      <4>4. S \in SUBSET Nonces
        BY DEF Young, Cached
      <4>5. S \subseteq Later(m)'
        <5>1. n \in Later(m)'
          BY <1>2, <1>4, <2>2, <3>1 DEF Later
        <5>2. ASSUME NEW k \in Young \ {m} PROVE k \in Later(m)'
          <6>1. k \in Nonces /\ seen[k] = accepted[k] /\ k /= n
            BY <1>2, <4>2 DEF Young, Cached
          <6>2. seen[m] <= seen[k]
            BY <1>3, <4>1
          <6> QED
            BY <1>2, <1>4, <3>1, <3>5, <6>1, <6>2 DEF Later
        <5> QED
          BY <5>1, <5>2
      <4>6. Cardinality(Young \ {m}) + 1 >= MaxNonces
        BY <1>3, <4>1
      <4> HIDE DEF S
      <4>7. /\ Cardinality(S) \in Nat /\ Cardinality(Later(m)') \in Nat
            /\ Cardinality(Later(m)') >= Cardinality(S)
        BY <4>4, <4>5, LaterGrows
      <4> QED
        BY <1>2, <4>3, <4>6, <4>7
    <3> QED
      BY <3>2, <3>3, <3>4, <3>5
  <2> QED
    BY <2>1, <2>2
<1>8. Auth!NoncesRemembered'
  BY <1>1, <1>6, <1>7, AuthCounts
     DEF Auth!NoncesRemembered, Auth!Held, Auth!Never, Cached, Later
<1> QED
  BY <1>1, <1>2, <1>4, <1>5, <1>8 DEF NonceInv

\* q, the moments a source got through, spreads: of twice the limit in a row
\* the last comes more than a window after the first.
Spread(q) == \A i, j \in DOMAIN q : j - i + 1 = 2 * Limit => q[j] - q[i] > Window

\* What a source's count says of those moments at time t: the last m of them
\* fall in the window that began at since, the Limit before those may reach
\* up to it, and what came earlier is more than a window older.
Paced(n, since, t, q) ==
  LET m == IF n < Limit THEN n ELSE Limit IN
  IF n = 0
    THEN \A i \in 1..Len(q) : i <= Len(q) - Limit + 1 => q[i] < t - Window
    ELSE \A i \in 1..Len(q) : /\ i <= Len(q) - m + 1 => q[i] <= since
                              /\ i <= Len(q) - m - Limit + 1 => q[i] < since - Window

LEMMA LimitsTyped ==
  /\ Limit \in Nat \ {0} /\ Window \in Nat /\ MaxSources \in Nat /\ Share \in 1..MaxSources
  /\ IsFiniteSet(Sources) /\ Watched \in Sources
BY LimitsAssumption

LEMMA PacedTick ==
  ASSUME NEW n \in Nat, NEW since \in Nat, NEW t \in Nat, NEW q \in Seq(Nat),
         Paced(n, since, t, q)
  PROVE  Paced(n, since, t + 1, q)
BY LimitsTyped DEF Paced

\* A window that is over says what an absent count says.
LEMMA PacedForget ==
  ASSUME NEW n \in Nat \ {0}, NEW since \in Nat, NEW x \in Nat, NEW t \in Nat,
         NEW q \in Seq(Nat), Paced(n, since, t, q), t - since > Window
  PROVE  Paced(0, x, t, q)
<1> SUFFICES ASSUME NEW i \in 1..Len(q), i <= Len(q) - Limit + 1
             PROVE  q[i] < t - Window
  BY DEF Paced
<1> DEFINE m == IF n < Limit THEN n ELSE Limit
<1>1. m <= Limit /\ m \in Nat
  BY LimitsTyped
<1>2. \A k \in 1..Len(q) : k <= Len(q) - m + 1 => q[k] <= since
  BY DEF Paced
<1> HIDE DEF m
<1>3. i <= Len(q) - m + 1
  BY <1>1, LimitsTyped
<1>4. q[i] <= since /\ q[i] \in Nat
  BY <1>2, <1>3
<1> QED
  BY <1>4, LimitsTyped

\* The first request of a window.
LEMMA PacedFresh ==
  ASSUME NEW x, NEW t \in Nat, NEW q \in Seq(Nat), Paced(0, x, t, q),
         \A i \in 1..Len(q) : q[i] <= t, Spread(q)
  PROVE  Paced(1, t, t, Append(q, t)) /\ Spread(Append(q, t))
<1> DEFINE a == Append(q, t)
           L == Len(q)
<1>1. a \in Seq(Nat) /\ Len(a) = L + 1 /\ a[L + 1] = t /\ DOMAIN a = 1..(L + 1)
      /\ \A i \in 1..L : a[i] = q[i] /\ q[i] \in Nat
  OBVIOUS
<1>2. L \in Nat /\ DOMAIN q = 1..L /\ \A i \in 1..(L + 1) : i \in 1..L \/ i = L + 1
  OBVIOUS
<1>3. \A i \in 1..L : i <= L - Limit + 1 => q[i] < t - Window
  BY DEF Paced
<1> HIDE DEF a, L
<1>4. \A i \in 1..(L + 1) : a[i] <= t /\ (i <= L + 1 - 1 - Limit + 1 => a[i] < t - Window)
  BY <1>1, <1>2, <1>3, LimitsTyped DEF L
<1>5. (IF 1 < Limit THEN 1 ELSE Limit) = 1
  BY LimitsTyped
<1>6. Paced(1, t, t, a)
  BY <1>1, <1>2, <1>4, <1>5, LimitsTyped DEF Paced
<1>7. ASSUME NEW i \in 1..(L + 1), NEW j \in 1..(L + 1), j - i + 1 = 2 * Limit
      PROVE  a[j] - a[i] > Window
  <2>1. CASE j = L + 1
    <3>1. i \in 1..L /\ i <= L - Limit + 1
      BY <1>2, <1>7, <2>1, LimitsTyped
    <3> QED
      BY <1>1, <1>3, <2>1, <3>1, LimitsTyped
  <2>2. CASE j \in 1..L
    <3>1. i \in 1..L
      BY <1>2, <1>7, <2>2, LimitsTyped
    <3> QED
      BY <1>1, <1>2, <1>7, <2>2, <3>1 DEF Spread
  <2> QED
    BY <1>2, <2>1, <2>2
<1>8. Spread(a)
  BY <1>1, <1>7 DEF Spread
<1> QED
  BY <1>6, <1>8 DEF a

\* One more request of a window that has room.
LEMMA PacedMore ==
  ASSUME NEW n \in Nat \ {0}, NEW since \in Nat, NEW t \in Nat, NEW q \in Seq(Nat),
         n + 1 <= Limit, since <= t, Paced(n, since, t, q), Spread(q)
  PROVE  Paced(n + 1, since, t, Append(q, t)) /\ Spread(Append(q, t))
<1> DEFINE a == Append(q, t)
           L == Len(q)
<1>1. a \in Seq(Nat) /\ Len(a) = L + 1 /\ a[L + 1] = t /\ DOMAIN a = 1..(L + 1)
      /\ \A i \in 1..L : a[i] = q[i] /\ q[i] \in Nat
  OBVIOUS
<1>2. L \in Nat /\ DOMAIN q = 1..L /\ \A i \in 1..(L + 1) : i \in 1..L \/ i = L + 1
  OBVIOUS
<1>3. \A i \in 1..L : /\ i <= L - n + 1 => q[i] <= since
                      /\ i <= L - n - Limit + 1 => q[i] < since - Window
  BY LimitsTyped DEF Paced
<1> HIDE DEF a, L
<1>4. \A i \in 1..(L + 1) : /\ i <= L + 1 - (n + 1) + 1 => a[i] <= since
                            /\ i <= L + 1 - (n + 1) - Limit + 1 => a[i] < since - Window
  BY <1>1, <1>2, <1>3, LimitsTyped
<1>5. (IF n + 1 < Limit THEN n + 1 ELSE Limit) = n + 1 /\ n + 1 /= 0
  BY LimitsTyped
<1>6. Paced(n + 1, since, t, a)
  BY <1>1, <1>2, <1>4, <1>5, LimitsTyped DEF Paced
<1>7. ASSUME NEW i \in 1..(L + 1), NEW j \in 1..(L + 1), j - i + 1 = 2 * Limit
      PROVE  a[j] - a[i] > Window
  <2>1. CASE j = L + 1
    <3>1. i \in 1..L /\ i <= L - n - Limit + 1
      BY <1>2, <1>7, <2>1, LimitsTyped
    <3> QED
      BY <1>1, <1>3, <2>1, <3>1, LimitsTyped
  <2>2. CASE j \in 1..L
    <3>1. i \in 1..L
      BY <1>2, <1>7, <2>2, LimitsTyped
    <3> QED
      BY <1>1, <1>2, <1>7, <2>2, <3>1 DEF Spread
  <2> QED
    BY <1>2, <2>1, <2>2
<1>8. Spread(a)
  BY <1>1, <1>7 DEF Spread
<1> QED
  BY <1>6, <1>8 DEF a

\* A request that is over the limit is not let through.
LEMMA PacedOver ==
  ASSUME NEW n \in Nat \ {0}, NEW since \in Nat, NEW t \in Nat, NEW q \in Seq(Nat),
         n + 1 > Limit, Paced(n, since, t, q)
  PROVE  Paced(n + 1, since, t, q)
<1>1. (IF n < Limit THEN n ELSE Limit) = Limit /\ (IF n + 1 < Limit THEN n + 1 ELSE Limit) = Limit
  BY LimitsTyped
<1> QED
  BY <1>1 DEF Paced

Counts == [n : Nat, since : Nat]
Following == {s \in Sources : sources[s].n /= 0}

SourceInv ==
  /\ sources \in [Sources -> Counts] /\ allowed \in Seq(Nat) /\ evicted \in BOOLEAN
  /\ \A s \in Sources : sources[s].since <= now
  /\ \A i \in 1..Len(allowed) : allowed[i] <= now
  /\ Cardinality(Following) <= MaxSources /\ Spread(allowed)
  /\ ~evicted => Paced(sources[Watched].n, sources[Watched].since, now, allowed)

\* The table a request is counted in: swept or not, it has room, and an
\* entry is as it was or gone.
Room(table) ==
  /\ table \in [Sources -> Counts]
  /\ \A x \in Sources : table[x] = sources[x] \/ table[x] = [n |-> 0, since |-> 0]
  /\ Cardinality({x \in Sources : table[x].n /= 0}) < MaxSources

LEMMA RoomLeft ==
  ASSUME NEW kept \in SUBSET Sources, Cardinality(kept) < MaxSources, sources \in [Sources -> Counts],
         NEW table, table = [x \in Sources |-> IF x \in kept THEN sources[x] ELSE [n |-> 0, since |-> 0]]
  PROVE  Room(table)
<1>1. [n |-> 0, since |-> 0] \in Counts
  BY DEF Counts
<1>2. /\ table \in [Sources -> Counts]
      /\ \A x \in Sources : table[x] = IF x \in kept THEN sources[x] ELSE [n |-> 0, since |-> 0]
  BY <1>1
<1> DEFINE S == {x \in Sources : table[x].n /= 0}
<1>3. S \subseteq kept
  <2> SUFFICES ASSUME NEW x \in Sources, table[x].n /= 0, x \notin kept PROVE FALSE
    OBVIOUS
  <2>1. table[x] = [n |-> 0, since |-> 0]
    BY <1>2
  <2> QED
    BY <2>1
<1>4. IsFiniteSet(kept)
  BY LimitsTyped, FS_Subset
<1> HIDE DEF S
<1>5. IsFiniteSet(S) /\ Cardinality(S) <= Cardinality(kept)
  BY <1>3, <1>4, FS_Subset
<1>6. Cardinality(S) \in Nat /\ Cardinality(kept) \in Nat
  BY <1>4, <1>5, FS_CardinalityType
<1>7. Cardinality(S) < MaxSources
  BY <1>5, <1>6, LimitsTyped
<1> QED
  BY <1>2, <1>7 DEF Room, S

LEMMA TargetIsSmaller == MaxSources - MaxSources \div Share \in Int /\ MaxSources - MaxSources \div Share < MaxSources
<1>1. MaxSources \in Nat \ {0} /\ Share \in Nat \ {0} /\ Share <= MaxSources
  BY LimitsTyped
<1>2. MaxSources \div Share \in Nat /\ MaxSources < Share * (MaxSources \div Share) + Share
  BY <1>1
<1>3. MaxSources \div Share /= 0
  BY <1>1, <1>2
<1> QED
  BY <1>1, <1>2, <1>3

LEMMA SweptHasRoom ==
  ASSUME SourceInv, NEW table \in Auth!Sweeps(sources)
  PROVE  Room(table)
<1> DEFINE within == {s \in Following : now - sources[s].since <= Window}
           target == MaxSources - MaxSources \div Share
<1>1. Auth!Tracked(sources) = Following
  BY DEF Auth!Tracked, Following
<1>2. PICK kept \in IF Auth!Cardinality(within) <= target THEN {within} ELSE Auth!kSubset(target, within) :
        table = [s \in Sources |-> IF s \in kept THEN sources[s] ELSE [n |-> 0, since |-> 0]]
  BY <1>1 DEF Auth!Sweeps, Auth!Fresh
<1>3. kept \subseteq within /\ Cardinality(kept) <= target
  <2>1. target \in Int
    BY TargetIsSmaller
  <2> HIDE DEF within, target
  <2>2. CASE Auth!Cardinality(within) <= target
    BY <1>2, <2>2, AuthCounts
  <2>3. CASE ~(Auth!Cardinality(within) <= target)
    <3>1. kept \in Auth!kSubset(target, within)
      BY <1>2, <2>3
    <3>2. kept \subseteq within /\ Cardinality(kept) = target
      BY <3>1, AuthCounts DEF Auth!kSubset
    <3> QED
      BY <2>1, <3>2
  <2> QED
    BY <2>2, <2>3
<1>4. kept \in SUBSET Sources
  BY <1>3 DEF Following
<1>5. IsFiniteSet(kept)
  BY <1>4, LimitsTyped, FS_Subset
<1>6. Cardinality(kept) \in Nat
  BY <1>5, FS_CardinalityType
<1>7. Cardinality(kept) < MaxSources
  BY <1>3, <1>6, TargetIsSmaller, LimitsTyped
<1> QED
  BY <1>2, <1>4, <1>7, RoomLeft DEF SourceInv

\* What the request finds of the followed source, if it was not evicted.
LEMMA PacedInTable ==
  ASSUME SourceInv, now \in Nat, NEW table, Room(table), ~evicted,
         ~(/\ Watched \in Auth!Tracked(sources) \ Auth!Tracked(table)
           /\ now - sources[Watched].since <= Window)
  PROVE  Paced(table[Watched].n, table[Watched].since, now, allowed)
<1>1. /\ sources[Watched] \in Counts /\ allowed \in Seq(Nat) /\ Watched \in Sources
      /\ Paced(sources[Watched].n, sources[Watched].since, now, allowed)
  BY LimitsTyped DEF SourceInv
<1>2. sources[Watched].n \in Nat /\ sources[Watched].since \in Nat
  BY <1>1 DEF Counts
<1>3. CASE table[Watched] = sources[Watched]
  BY <1>1, <1>3
<1>4. CASE table[Watched] = [n |-> 0, since |-> 0] /\ sources[Watched].n = 0
  BY <1>1, <1>4 DEF Paced
<1>5. CASE table[Watched] = [n |-> 0, since |-> 0] /\ sources[Watched].n /= 0
  <2>1. Watched \in Auth!Tracked(sources) /\ Watched \notin Auth!Tracked(table)
    BY <1>1, <1>5 DEF Auth!Tracked
  <2>2. now - sources[Watched].since > Window
    BY <1>2, <2>1, LimitsTyped
  <2>3. Paced(0, 0, now, allowed)
    BY <1>1, <1>2, <1>5, <2>2, PacedForget
  <2> QED
    BY <1>5, <2>3
<1> QED
  BY <1>1, <1>3, <1>4, <1>5 DEF Room

LEMMA CountNew ==
  ASSUME NEW table, NEW s, table[s].n = 0 \/ now - table[s].since > Window
  PROVE  Auth!Count(table, s) = [n |-> 1, since |-> now]
BY DEF Auth!Count

LEMMA CountMore ==
  ASSUME NEW table, NEW s, table[s] \in Counts, table[s].n /= 0, ~(now - table[s].since > Window)
  PROVE  /\ Auth!Count(table, s) \in Counts
         /\ Auth!Count(table, s).n = table[s].n + 1
         /\ Auth!Count(table, s).since = table[s].since
<1>1. Auth!Count(table, s) = [table[s] EXCEPT !.n = table[s].n + 1]
  BY DEF Auth!Count
<1> QED
  BY <1>1 DEF Counts

\* A request of the followed source leaves its moments spread.
LEMMA WatchedCounted ==
  ASSUME SourceInv, now \in Nat, NEW table, Room(table), NEW q,
         Paced(table[Watched].n, table[Watched].since, now, allowed),
         q = IF Auth!Count(table, Watched).n <= Limit THEN Append(allowed, now) ELSE allowed
  PROVE  /\ Spread(q)
         /\ Paced(Auth!Count(table, Watched).n, Auth!Count(table, Watched).since, now, q)
<1>1. /\ table[Watched] \in Counts /\ table[Watched].n \in Nat /\ table[Watched].since \in Nat
      /\ Watched \in Sources
  BY LimitsTyped DEF Room, Counts
<1>2. table[Watched].since <= now
  BY <1>1 DEF Room, SourceInv
<1>3. allowed \in Seq(Nat) /\ Spread(allowed) /\ \A i \in 1..Len(allowed) : allowed[i] <= now
  BY DEF SourceInv
<1>4. CASE table[Watched].n = 0 \/ now - table[Watched].since > Window
  <2>1. Auth!Count(table, Watched) = [n |-> 1, since |-> now]
    BY <1>4, CountNew
  <2>2. q = Append(allowed, now)
    BY <2>1, LimitsTyped
  <2>3. \E x : Paced(0, x, now, allowed)
    <3>1. CASE table[Watched].n = 0
      BY <3>1
    <3>2. CASE table[Watched].n /= 0
      <4>1. now - table[Watched].since > Window
        BY <1>4, <3>2
      <4>2. Paced(0, 0, now, allowed)
        BY <1>1, <1>3, <3>2, <4>1, PacedForget
      <4> QED
        BY <4>2
    <3> QED
      BY <3>1, <3>2
  <2>4. Paced(1, now, now, Append(allowed, now)) /\ Spread(Append(allowed, now))
    BY <1>3, <2>3, PacedFresh
  <2> QED
    BY <2>1, <2>2, <2>4
<1>5. CASE table[Watched].n /= 0 /\ ~(now - table[Watched].since > Window)
  <2>1. /\ Auth!Count(table, Watched).n = table[Watched].n + 1
        /\ Auth!Count(table, Watched).since = table[Watched].since
    BY <1>1, <1>5, CountMore
  <2>2. CASE table[Watched].n + 1 <= Limit
    <3>1. q = Append(allowed, now)
      BY <2>1, <2>2
    <3>2. /\ Paced(table[Watched].n + 1, table[Watched].since, now, Append(allowed, now))
          /\ Spread(Append(allowed, now))
      BY <1>1, <1>2, <1>3, <1>5, <2>2, PacedMore
    <3> QED
      BY <2>1, <3>1, <3>2
  <2>3. CASE table[Watched].n + 1 > Limit
    <3>1. q = allowed
      BY <1>1, <2>1, <2>3, LimitsTyped
    <3>2. Paced(table[Watched].n + 1, table[Watched].since, now, allowed)
      BY <1>1, <1>3, <1>5, <2>3, PacedOver
    <3> QED
      BY <1>3, <2>1, <3>1, <3>2
  <2> QED
    BY <1>1, <2>2, <2>3, LimitsTyped
<1> QED
  BY <1>4, <1>5

LEMMA AllowStep ==
  ASSUME SourceInv, now \in Nat, NEW s \in Sources, Auth!Allow(s)
  PROVE  SourceInv'
<1>1. now' = now
  BY DEF Auth!Allow
<1>2. PICK table :
        /\ Room(table)
        /\ sources' = [table EXCEPT ![s] = Auth!Count(table, s)]
        /\ evicted' = (evicted \/ /\ Watched \in Auth!Tracked(sources) \ Auth!Tracked(table)
                                  /\ now - sources[Watched].since <= Window)
        /\ allowed' = IF s = Watched /\ Auth!Count(table, s).n <= Limit /\ ~evicted'
                        THEN Append(allowed, now) ELSE allowed
  <2> DEFINE sweep == now > sweepAt \/ Auth!Cardinality(Auth!Tracked(sources)) >= MaxSources
  <2>1. PICK table \in IF sweep THEN Auth!Sweeps(sources) ELSE {sources} :
          /\ sources' = [table EXCEPT ![s] = Auth!Count(table, s)]
          /\ evicted' = (evicted \/ /\ Watched \in Auth!Tracked(sources) \ Auth!Tracked(table)
                                    /\ now - sources[Watched].since <= Window)
          /\ allowed' = IF s = Watched /\ Auth!Count(table, s).n <= Limit /\ ~evicted'
                          THEN Append(allowed, now) ELSE allowed
    BY Zenon DEF Auth!Allow
  <2>2. CASE sweep
    BY <2>1, <2>2, SweptHasRoom
  <2>3. CASE ~sweep
    <3>1. table = sources
      BY <2>1, <2>3
    <3>2. Auth!Tracked(sources) = Following
      BY DEF Auth!Tracked, Following
    <3>3. IsFiniteSet(Following)
      BY LimitsTyped, FS_Subset DEF Following
    <3>4. Cardinality(Following) \in Nat
      BY <3>3, FS_CardinalityType
    <3>5. Cardinality(Following) < MaxSources
      BY <2>3, <3>2, <3>4, AuthCounts, LimitsTyped
    <3>6. Room(table)
      BY <3>1, <3>5 DEF Room, Following, SourceInv
    <3> QED
      BY <2>1, <3>6
  <2> QED
    BY <2>2, <2>3
<1>3. /\ table \in [Sources -> Counts]
      /\ \A x \in Sources : table[x].since <= now
  <2>1. table \in [Sources -> Counts]
    BY <1>2 DEF Room
  <2>2. ASSUME NEW x \in Sources PROVE table[x].since <= now
    <3>1. CASE table[x] = sources[x]
      BY <3>1 DEF SourceInv
    <3>2. CASE table[x] = [n |-> 0, since |-> 0]
      BY <3>2
    <3> QED
      BY <1>2, <3>1, <3>2 DEF Room
  <2> QED
    BY <2>1, <2>2
<1>4. Auth!Count(table, s) \in Counts /\ Auth!Count(table, s).since <= now
  <2>1. table[s] \in Counts
    BY <1>3
  <2>2. CASE table[s].n = 0 \/ now - table[s].since > Window
    BY <2>2, CountNew DEF Counts
  <2>3. CASE ~(table[s].n = 0 \/ now - table[s].since > Window)
    BY <1>3, <2>1, <2>3, CountMore
  <2> QED
    BY <2>2, <2>3
<1>5. /\ sources' \in [Sources -> Counts] /\ sources'[s] = Auth!Count(table, s)
      /\ \A x \in Sources \ {s} : sources'[x] = table[x]
  BY <1>2, <1>3, <1>4
<1>6. \A x \in Sources : sources'[x].since <= now
  BY <1>3, <1>4, <1>5
<1>7. Cardinality(Following') <= MaxSources
  <2> DEFINE S == {x \in Sources : table[x].n /= 0}
  <2>1. Following' \subseteq S \cup {s}
    BY <1>5 DEF Following
  <2>2. IsFiniteSet(S)
    BY LimitsTyped, FS_Subset
  <2>3. Cardinality(S) < MaxSources
    BY <1>2 DEF Room
  <2> HIDE DEF S
  <2>4. /\ IsFiniteSet(S \cup {s}) /\ Cardinality(S) \in Nat
        /\ Cardinality(S \cup {s}) <= Cardinality(S) + 1
    <3>1. Cardinality(S) \in Nat
      BY <2>2, FS_CardinalityType
    <3>2. /\ IsFiniteSet(S \cup {s})
          /\ Cardinality(S \cup {s}) = IF s \in S THEN Cardinality(S) ELSE Cardinality(S) + 1
      BY <2>2, FS_AddElement
    <3> QED
      BY <3>1, <3>2
  <2>5. IsFiniteSet(Following') /\ Cardinality(Following') <= Cardinality(S \cup {s})
    BY <2>1, <2>4, FS_Subset
  <2>6. Cardinality(Following') \in Nat /\ Cardinality(S \cup {s}) \in Nat
    BY <2>4, <2>5, FS_CardinalityType
  <2> QED
    BY <2>3, <2>4, <2>5, <2>6, LimitsTyped
<1>8. /\ allowed' \in Seq(Nat) /\ evicted' \in BOOLEAN
      /\ \A i \in 1..Len(allowed') : allowed'[i] <= now
  <2>1. allowed \in Seq(Nat) /\ \A i \in 1..Len(allowed) : allowed[i] <= now
    BY DEF SourceInv
  <2>2. allowed' = Append(allowed, now) \/ allowed' = allowed
    BY <1>2
  <2>3. \A i \in 1..Len(Append(allowed, now)) : Append(allowed, now)[i] <= now
    BY <2>1
  <2>4. evicted' \in BOOLEAN
    BY <1>2, Zenon DEF SourceInv
  <2> QED
    BY <2>1, <2>2, <2>3, <2>4
<1>9. Spread(allowed') /\ (~evicted' => Paced(sources'[Watched].n, sources'[Watched].since, now, allowed'))
  <2>1. Spread(allowed)
    BY DEF SourceInv
  <2>2. CASE evicted'
    BY <1>2, <2>1, <2>2
  <2>3. CASE ~evicted'
    <3>1. Paced(table[Watched].n, table[Watched].since, now, allowed)
      BY <1>2, <2>3, PacedInTable
    <3>2. CASE s = Watched
      BY <1>2, <1>5, <2>3, <3>1, <3>2, WatchedCounted
    <3>3. CASE s /= Watched
      BY <1>2, <1>5, <2>1, <3>1, <3>3, LimitsTyped
    <3> QED
      BY <3>2, <3>3
  <2> QED
    BY <2>2, <2>3
<1> QED
  BY <1>1, <1>5, <1>6, <1>7, <1>8, <1>9 DEF SourceInv

AuthInv == NonceInv /\ SourceInv

LEMMA AuthInit == Auth!Init => AuthInv
<1> SUFFICES ASSUME Auth!Init PROVE AuthInv
  OBVIOUS
<1>1. /\ now = 0 /\ seen = [n \in Nonces |-> -1] /\ accepted = [n \in Nonces |-> -1]
      /\ sources = [s \in Sources |-> [n |-> 0, since |-> 0]]
      /\ allowed = <<>> /\ evicted = FALSE
  BY DEF Auth!Init, Auth!Never, Auth!Fresh
<1>2. Cached = {} /\ Following = {}
  <2>1. \A n \in Nonces : seen[n] = -1
    BY <1>1
  <2>2. \A s \in Sources : sources[s].n = 0
    BY <1>1
  <2> QED
    BY <2>1, <2>2 DEF Cached, Following
<1>3. Cardinality(Cached) = 0 /\ Cardinality(Following) = 0 /\ MaxNonces \in Nat /\ MaxSources \in Nat
  BY <1>2, FS_EmptySet, LimitsAssumption
<1>4. Auth!NoncesRemembered
  BY <1>1, <1>3, RememberedMeans
<1>5. NonceInv
  BY <1>1, <1>4 DEF NonceInv
<1>6. sources \in [Sources -> Counts] /\ \A s \in Sources : sources[s].since <= now
  BY <1>1 DEF Counts
<1>7. Spread(allowed) /\ Paced(sources[Watched].n, sources[Watched].since, now, allowed)
  <2>1. sources[Watched].n = 0
    BY <1>1, LimitsTyped
  <2> QED
    BY <1>1, <2>1 DEF Spread, Paced
<1>8. /\ allowed \in Seq(Nat) /\ evicted \in BOOLEAN
      /\ \A i \in 1..Len(allowed) : allowed[i] <= now
  <2>1. allowed \in Seq(Nat) /\ Len(allowed) = 0
    BY <1>1
  <2>2. evicted \in BOOLEAN
    BY <1>1, Zenon
  <2>3. \A i \in 1..Len(allowed) : allowed[i] <= now
    BY <2>1
  <2> QED
    BY <2>1, <2>2, <2>3
<1>9. Cardinality(Following) <= MaxSources
  BY <1>3
<1>10. SourceInv
  BY <1>6, <1>7, <1>8, <1>9 DEF SourceInv
<1> QED
  BY <1>5, <1>10 DEF AuthInv

LEMMA AuthTick ==
  ASSUME AuthInv, Auth!Tick
  PROVE  AuthInv'
<1>1. now \in Nat /\ now' = now + 1
      /\ UNCHANGED <<seen, accepted, sources, allowed, evicted>>
  BY DEF Auth!Tick, Auth!nonceVars, Auth!sourceVars, AuthInv, NonceInv
<1>2. NonceInv'
  <2>1. /\ seen \in [Nonces -> Int] /\ accepted \in [Nonces -> Int] /\ TTL \in Nat
        /\ \A n \in Nonces : seen[n] \in {-1, accepted[n]} /\ accepted[n] \in -1..now
    BY LimitsAssumption DEF AuthInv, NonceInv
  <2>2. Auth!NoncesRemembered'
    <3>1. Auth!NoncesRemembered
      BY DEF AuthInv, NonceInv
    <3>2. Auth!Cardinality(Auth!Held(seen)') <= MaxNonces
      BY <1>1, <3>1 DEF Auth!NoncesRemembered, Auth!Held
    <3>3. ASSUME NEW n \in Nonces, accepted[n] /= -1, now' - accepted[n] <= TTL
          PROVE  \/ seen[n] = accepted[n]
                 \/ Auth!Cardinality({m \in Nonces \ {n} : accepted[m] >= accepted[n]}) >= MaxNonces
      <4>1. now - accepted[n] <= TTL
        BY <1>1, <2>1, <3>3
      <4> QED
        BY <3>1, <3>3, <4>1 DEF Auth!NoncesRemembered, Auth!Never
    <3> QED
      BY <1>1, <3>2, <3>3 DEF Auth!NoncesRemembered, Auth!Never, Auth!Held
  <2> QED
    BY <1>1, <2>1, <2>2 DEF NonceInv
<1>3. SourceInv'
  <2>1. /\ sources[Watched].n \in Nat /\ sources[Watched].since \in Nat /\ allowed \in Seq(Nat)
        /\ sources \in [Sources -> Counts]
    BY LimitsTyped DEF AuthInv, SourceInv, Counts
  <2>2. ~evicted => Paced(sources[Watched].n, sources[Watched].since, now + 1, allowed)
    BY <1>1, <2>1, PacedTick DEF AuthInv, SourceInv
  <2>3. \A s \in Sources : sources[s].since <= now + 1
    BY <1>1, <2>1 DEF AuthInv, SourceInv, Counts
  <2>4. \A i \in 1..Len(allowed) : allowed[i] <= now + 1
    BY <1>1, <2>1 DEF AuthInv, SourceInv
  <2> QED
    BY <1>1, <2>1, <2>2, <2>3, <2>4 DEF AuthInv, SourceInv, Following
<1> QED
  BY <1>2, <1>3 DEF AuthInv

LEMMA AuthStep == AuthInv /\ [Auth!Next]_Auth!limitVars => AuthInv'
<1> SUFFICES ASSUME AuthInv, [Auth!Next]_Auth!limitVars PROVE AuthInv'
  OBVIOUS
<1>1. CASE Auth!Tick
  BY <1>1, AuthTick
<1>2. CASE \E n \in Nonces : Auth!Use(n)
  <2>1. PICK n \in Nonces : Auth!Use(n)
    BY <1>2
  <2>2. NonceInv'
    BY <2>1, UseStep DEF AuthInv
  <2>3. UNCHANGED <<now, sources, sweepAt, allowed, evicted>>
    BY <2>1 DEF Auth!Use, Auth!sourceVars
  <2>4. SourceInv'
    BY <2>3 DEF AuthInv, SourceInv, Following
  <2> QED
    BY <2>2, <2>4 DEF AuthInv
<1>3. CASE \E s \in Sources : Auth!Allow(s)
  <2>1. PICK s \in Sources : Auth!Allow(s)
    BY <1>3
  <2>2. SourceInv'
    BY <2>1, AllowStep DEF AuthInv, NonceInv
  <2>3. UNCHANGED <<now, seen, accepted>>
    BY <2>1 DEF Auth!Allow, Auth!nonceVars
  <2>4. NonceInv'
    BY <2>3 DEF AuthInv, NonceInv, Auth!NoncesRemembered, Auth!Held
  <2> QED
    BY <2>2, <2>4 DEF AuthInv
<1>4. CASE UNCHANGED Auth!limitVars
  <2>1. UNCHANGED <<now, seen, accepted, sources, sweepAt, allowed, evicted>>
    BY <1>4 DEF Auth!limitVars
  <2>2. NonceInv'
    BY <2>1 DEF AuthInv, NonceInv, Auth!NoncesRemembered, Auth!Held
  <2>3. SourceInv'
    BY <2>1 DEF AuthInv, SourceInv, Following
  <2> QED
    BY <2>2, <2>3 DEF AuthInv
<1> QED
  BY <1>1, <1>2, <1>3, <1>4 DEF Auth!Next, Auth!NonceNext, Auth!SourceNext

\* authlimit: whatever the full tables forget, a nonce accepted within the
\* TTL is still known unless the cache was filled since, a source that was
\* not evicted gets less than twice its limit through within a window, and
\* neither table outgrows its bound.
THEOREM LimitsAreKept == Auth!Spec => []Auth!LimitsHold
<1>1. AuthInv => Auth!LimitsHold
  <2> SUFFICES ASSUME AuthInv PROVE Auth!LimitsHold
    OBVIOUS
  <2>1. Auth!NoncesRemembered
    BY DEF AuthInv, NonceInv
  <2>2. Auth!Tracked(sources) = Following
    BY DEF Auth!Tracked, Following
  <2>3. Auth!SourcesLimited
    BY <2>2, AuthCounts DEF AuthInv, SourceInv, Spread, Auth!SourcesLimited
  <2> QED
    BY <2>1, <2>3 DEF Auth!LimitsHold
<1> QED
  BY <1>1, AuthInit, AuthStep, PTL DEF Auth!Spec

(***************************************************************************)
(* The parts of the relay together.                                        *)
(***************************************************************************)

\* RelaySound, the invariant the run of the whole relay checks: of discovery,
\* the forwarder, the sockets and the limits, for any number of Services,
\* clients, ports, nonces and sources.
THEOREM RelayIsSound ==
  Kube!Spec /\ Native!Spec /\ Process!Spec /\ Auth!Spec => []RelaySound
BY DiscoveryIsFair, NativeIsSound, SocketsAreAccounted, LimitsAreKept, PTL DEF RelaySound
=============================================================================
