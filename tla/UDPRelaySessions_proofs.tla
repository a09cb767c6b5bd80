---------------------- MODULE UDPRelaySessions_proofs ----------------------
(***************************************************************************)
(* Proofs about UDPRelaySessions, for every table size, port pool and set  *)
(* of addresses.                                                           *)
(*                                                                         *)
(* The permission model is about a session that was looked up before its   *)
(* legs are read. What carries it across the gap is that releasing a       *)
(* session unbinds its legs (Sessioned), that only the client-facing       *)
(* goroutine moves a client address (ReaderSound), and that an object a    *)
(* goroutine refers to is not the one Allocate hands out.                  *)
(***************************************************************************)
EXTENDS UDPRelaySessions, FiniteSetTheorems, TLAPS

-----------------------------------------------------------------------------
(* Counters that stand for sets: how the size of a set moves when one      *)
(* element enters or leaves.                                               *)
Bit(b) == IF b THEN 1 ELSE 0

\* An element counts for one.
LEMMA CardinalityWithout ==
  ASSUME NEW S, NEW c, IsFiniteSet(S)
  PROVE  /\ Cardinality(S \ {c}) \in Nat
         /\ Cardinality(S) = Cardinality(S \ {c}) + Bit(c \in S)
<1> DEFINE U == S \ {c}
<1>1. IsFiniteSet(U) /\ c \notin U
  BY FS_Subset
<1>2. Cardinality(U \cup {c}) = Cardinality(U) + 1
  BY <1>1, FS_AddElement
<1>3. Cardinality(U) \in Nat
  BY <1>1, FS_CardinalityType
<1>4. S = IF c \in S THEN U \cup {c} ELSE U
  OBVIOUS
<1> QED
  BY <1>2, <1>3, <1>4 DEF Bit


Sessioned ==
  \A s \in Sessions :
    /\ s \in tokens => port[s] \in Ports /\ tenant[s] \in Tenants
    /\ s \notin tokens => serverAddr[s] = None /\ clientAddr[s] = None

ReaderSound ==
  /\ cl.at # "idle" => cl.sess \in Sessions /\ cl.from \in Addrs
  /\ (cl.at = "looked" /\ cl.sess \in tokens) => clientAddr[cl.sess] = cl.from
  /\ \A p \in Ports : sl[p].at # "idle" =>
       sl[p].sess \in Sessions /\ sl[p].from \in Addrs /\ port[sl[p].sess] = p

IndInv ==
  /\ TypeOK /\ Sessioned /\ ReaderSound
  /\ PortsPartitioned /\ TenantCountsExact /\ ClientIndexSound

-----------------------------------------------------------------------------
\* The sessions of a tenant are finitely many.
LEMMA OfTenantFinite ==
  ASSUME TypeOK, NEW t
  PROVE  IsFiniteSet(OfTenant(t)) /\ Cardinality(OfTenant(t)) \in Nat
<1>1. OfTenant(t) \subseteq Sessions
  BY DEF OfTenant, TypeOK
<1> QED
  BY <1>1, FiniteTable, FS_Subset, FS_CardinalityType

\* A relay starts with an empty table and a full pool.
LEMMA InitIndInv == Init => IndInv
<1> SUFFICES ASSUME Init PROVE IndInv
  OBVIOUS
<1>1. TypeOK /\ Sessioned /\ ReaderSound /\ ClientIndexSound
  BY DEF Init, TypeOK, Sessioned, ReaderSound, ClientIndexSound, Idle, Readers
<1>2. PortsPartitioned
  BY NoneIsNothing DEF Init, PortsPartitioned
<1>3. TenantCountsExact
  <2>1. \A t \in Tenants : OfTenant(t) = {}
    BY DEF Init, OfTenant
  <2> QED
    BY <2>1, FS_EmptySet, TenantLimit DEF Init, TenantCountsExact
<1> QED
  BY <1>1, <1>2, <1>3 DEF IndInv

\* A session that leaves the table leaves its tenant's count.
LEMMA ForgetCounts ==
  ASSUME IndInv, NEW s \in Sessions, s \in tokens, Forget(s)
  PROVE  TenantCountsExact' /\ tenantN' \in [Tenants -> Nat]
<1> DEFINE u == tenant[s]
<1>1. u \in Tenants
  BY DEF IndInv, Sessioned
<1>2. \A t \in Tenants : OfTenant(t)' = IF t = u THEN OfTenant(t) \ {s} ELSE OfTenant(t)
  BY DEF OfTenant, Forget
<1>3. s \in OfTenant(u) /\ IsFiniteSet(OfTenant(u))
  BY OfTenantFinite DEF OfTenant, IndInv
<1>4. /\ Cardinality(OfTenant(u) \ {s}) \in Nat
      /\ Cardinality(OfTenant(u)) = Cardinality(OfTenant(u) \ {s}) + 1
  BY <1>3, CardinalityWithout DEF Bit
<1>5. \A t \in Tenants : tenantN[t] = Cardinality(OfTenant(t)) /\ tenantN[t] <= MaxPerTenant
                         /\ tenantN[t] \in Nat
  BY DEF IndInv, TenantCountsExact, TypeOK
<1>6. \A t \in Tenants : tenantN'[t] = IF t = u THEN tenantN[t] - 1 ELSE tenantN[t]
  BY <1>1 DEF Forget, IndInv, TypeOK
<1>7. ASSUME NEW t \in Tenants
      PROVE  tenantN'[t] = Cardinality(OfTenant(t)') /\ tenantN'[t] <= MaxPerTenant
             /\ tenantN'[t] \in Nat
  <2>1. CASE t = u
    <3>1. tenantN'[t] = tenantN[u] - 1 /\ OfTenant(t)' = OfTenant(u) \ {s}
      BY <1>2, <1>6, <2>1
    <3> QED
      BY <1>1, <1>4, <1>5, <3>1, TenantLimit
  <2>2. CASE t # u
    BY <1>2, <1>5, <1>6, <2>2
  <2> QED
    BY <2>1, <2>2
<1>8. tenantN' \in [Tenants -> Nat]
  BY <1>7, <1>1 DEF Forget, IndInv, TypeOK
<1> QED
  BY <1>7, <1>8 DEF TenantCountsExact

\* A session that enters the table enters its tenant's count.
LEMMA AllocateCounts ==
  ASSUME IndInv, NEW t \in Tenants, NEW s \in Sessions, NEW p \in Ports,
         Allocate(t, s, p)
  PROVE  TenantCountsExact'
<1>1. s \notin tokens
  BY DEF Allocate, Unreferenced
<1>2. \A v \in Tenants : OfTenant(v)' = IF v = t THEN OfTenant(v) \cup {s} ELSE OfTenant(v)
  BY <1>1 DEF OfTenant, Allocate, IndInv, TypeOK
<1>3. IsFiniteSet(OfTenant(t)) /\ s \notin OfTenant(t)
  BY <1>1, OfTenantFinite DEF OfTenant, IndInv
<1>4. Cardinality(OfTenant(t) \cup {s}) = Cardinality(OfTenant(t)) + 1
  BY <1>3, FS_AddElement
<1>5. \A v \in Tenants : tenantN[v] = Cardinality(OfTenant(v)) /\ tenantN[v] <= MaxPerTenant
                         /\ tenantN[v] \in Nat
  BY DEF IndInv, TenantCountsExact, TypeOK
<1>6. /\ \A v \in Tenants : tenantN'[v] = IF v = t THEN tenantN[v] + 1 ELSE tenantN[v]
      /\ tenantN[t] < MaxPerTenant
  BY DEF Allocate, IndInv, TypeOK
<1>7. ASSUME NEW v \in Tenants
      PROVE  tenantN'[v] = Cardinality(OfTenant(v)') /\ tenantN'[v] <= MaxPerTenant
  <2>1. CASE v = t
    <3>1. tenantN'[v] = tenantN[t] + 1 /\ OfTenant(v)' = OfTenant(t) \cup {s}
      BY <1>2, <1>6, <2>1
    <3> QED
      BY <1>4, <1>5, <1>6, <3>1, TenantLimit
  <2>2. CASE v # t
    BY <1>2, <1>5, <1>6, <2>2
  <2> QED
    BY <2>1, <2>2
<1> QED
  BY <1>7 DEF TenantCountsExact

\* A step that leaves the table's membership alone leaves the counts alone.
LEMMA SameCounts ==
  ASSUME IndInv, UNCHANGED <<tokens, tenantN, tenant>>
  PROVE  TenantCountsExact'
<1>1. \A t \in Tenants : OfTenant(t)' = OfTenant(t)
  BY DEF OfTenant
<1> QED
  BY <1>1 DEF IndInv, TenantCountsExact

-----------------------------------------------------------------------------
(* One lemma per action: it keeps the inductive invariant.                 *)

\* Allocate keeps the invariant.
LEMMA AllocateStep ==
  ASSUME IndInv, NEW t \in Tenants, NEW s \in Sessions, NEW p \in Ports,
         Allocate(t, s, p)
  PROVE  IndInv'
<1> USE NoneIsNothing DEF IndInv, TypeOK, Allocate, Unreferenced, readerVars
<1>1. TypeOK'
  BY DEF Readers
<1>2. Sessioned'
  BY DEF Sessioned
<1>3. ReaderSound'
  BY DEF ReaderSound, Sessioned
<1>4. ClientIndexSound'
  BY DEF ClientIndexSound
<1>5. PortsPartitioned'
  BY DEF PortsPartitioned, Sessioned
<1>6. TenantCountsExact'
  BY AllocateCounts
<1> QED
  BY <1>1, <1>2, <1>3, <1>4, <1>5, <1>6

\* Releasing a session and its port keeps the invariant.
LEMMA ReleaseStep ==
  ASSUME IndInv, NEW s \in Sessions, s \in tokens, Forget(s),
         ReleasePort(port[s]), UNCHANGED failed
  PROVE  IndInv'
<1> USE NoneIsNothing DEF IndInv, TypeOK, Forget, ReleasePort, readerVars
<1>0. port[s] \in Ports /\ tenant[s] \in Tenants
  BY DEF Sessioned
<1>1. TenantCountsExact' /\ tenantN' \in [Tenants -> Nat]
  BY ForgetCounts
<1>2. TypeOK'
  BY <1>0, <1>1 DEF Readers
<1>3. Sessioned'
  BY DEF Sessioned
<1>4. ReaderSound'
  BY DEF ReaderSound
<1>5. ClientIndexSound'
  BY DEF ClientIndexSound
<1>6. PortsPartitioned'
  BY <1>0 DEF PortsPartitioned, Sessioned
<1> QED
  BY <1>1, <1>2, <1>3, <1>4, <1>5, <1>6

\* A stopped read loop, with and without a session on its port, keeps the
\* invariant.
LEMMA DisablePortStep ==
  ASSUME IndInv, NEW p \in Ports, DisablePort(p)
  PROVE  IndInv'
<1> USE NoneIsNothing DEF IndInv, TypeOK, DisablePort
<1>1. CASE byPort[p] = None
  <2> USE <1>1 DEF tableVars, sessionVars, readerVars
  <2>1. TypeOK'
    BY DEF Readers
  <2>2. Sessioned' /\ ReaderSound' /\ ClientIndexSound'
    BY DEF Sessioned, ReaderSound, ClientIndexSound
  <2>3. PortsPartitioned'
    BY DEF PortsPartitioned, Sessioned
  <2>4. TenantCountsExact'
    BY SameCounts
  <2> QED
    BY <2>1, <2>2, <2>3, <2>4
<1>2. CASE byPort[p] # None
  <2> DEFINE s == byPort[p]
  <2>0. s \in Sessions /\ s \in tokens /\ port[s] = p /\ tenant[s] \in Tenants /\ Forget(s)
    BY <1>2 DEF PortsPartitioned, Sessioned
  <2>1. TenantCountsExact' /\ tenantN' \in [Tenants -> Nat]
    BY <2>0, ForgetCounts
  <2> HIDE DEF s
  <2> USE DEF Forget, readerVars
  <2>2. TypeOK'
    BY <2>0, <2>1 DEF Readers
  <2>3. Sessioned' /\ ReaderSound' /\ ClientIndexSound'
    BY <2>0 DEF Sessioned, ReaderSound, ClientIndexSound
  <2>4. PortsPartitioned'
    BY <2>0 DEF PortsPartitioned, Sessioned
  <2> QED
    BY <2>1, <2>2, <2>3, <2>4
<1> QED
  BY <1>1, <1>2

\* A session growing idle keeps the invariant.
LEMMA GrowIdleStep ==
  ASSUME IndInv, NEW s \in Sessions, GrowIdle(s)
  PROVE  IndInv'
<1> USE NoneIsNothing DEF IndInv, TypeOK, GrowIdle, tableVars, allocVars,
      sessionVars, readerVars
<1>1. TypeOK'
  BY DEF Readers, Idle, ReaderSound
<1>2. Sessioned' /\ ReaderSound'
  BY DEF Sessioned, ReaderSound, Idle, ClientIndexSound, PortsPartitioned
<1>3. ClientIndexSound'
  BY DEF ClientIndexSound
<1>4. PortsPartitioned'
  BY DEF PortsPartitioned
<1>5. TenantCountsExact'
  BY SameCounts
<1> QED
  BY <1>1, <1>2, <1>3, <1>4, <1>5

\* BindClient keeps the invariant.
LEMMA ClientBindStep ==
  ASSUME IndInv, NEW s \in Sessions, NEW a \in Addrs, ClientBind(s, a)
  PROVE  IndInv'
<1> USE NoneIsNothing DEF IndInv, TypeOK, ClientBind, Touched, tableVars, allocVars,
      sessionVars, readerVars
<1>1. TypeOK'
  BY DEF Readers, Idle, ReaderSound
<1>2. Sessioned' /\ ReaderSound'
  BY DEF Sessioned, ReaderSound, Idle, ClientIndexSound, PortsPartitioned
<1>3. ClientIndexSound'
  BY DEF ClientIndexSound
<1>4. PortsPartitioned'
  BY DEF PortsPartitioned
<1>5. TenantCountsExact'
  BY SameCounts
<1> QED
  BY <1>1, <1>2, <1>3, <1>4, <1>5

\* LookupByClientAddr keeps the invariant.
LEMMA ClientLookupStep ==
  ASSUME IndInv, NEW a \in Addrs, ClientLookup(a)
  PROVE  IndInv'
<1> USE NoneIsNothing DEF IndInv, TypeOK, ClientLookup, tableVars, allocVars,
      sessionVars, readerVars
<1>1. TypeOK'
  BY DEF Readers, Idle, ReaderSound
<1>2. Sessioned' /\ ReaderSound'
  BY DEF Sessioned, ReaderSound, Idle, ClientIndexSound, PortsPartitioned
<1>3. ClientIndexSound'
  BY DEF ClientIndexSound
<1>4. PortsPartitioned'
  BY DEF PortsPartitioned
<1>5. TenantCountsExact'
  BY SameCounts
<1> QED
  BY <1>1, <1>2, <1>3, <1>4, <1>5

\* Reading the legs for a client datagram keeps the invariant.
LEMMA ClientLegsStep ==
  ASSUME IndInv, ClientLegs
  PROVE  IndInv'
<1> USE NoneIsNothing DEF IndInv, TypeOK, ClientLegs, tableVars, allocVars,
      sessionVars, readerVars
<1>1. TypeOK'
  BY DEF Readers, Idle, ReaderSound
<1>2. Sessioned' /\ ReaderSound'
  BY DEF Sessioned, ReaderSound, Idle, ClientIndexSound, PortsPartitioned
<1>3. ClientIndexSound'
  BY DEF ClientIndexSound
<1>4. PortsPartitioned'
  BY DEF PortsPartitioned
<1>5. TenantCountsExact'
  BY SameCounts
<1> QED
  BY <1>1, <1>2, <1>3, <1>4, <1>5

\* Writing a client datagram keeps the invariant.
LEMMA ClientWriteStep ==
  ASSUME IndInv, ClientWrite
  PROVE  IndInv'
<1> USE NoneIsNothing DEF IndInv, TypeOK, ClientWrite, Touched, tableVars, allocVars,
      sessionVars, readerVars
<1>1. TypeOK'
  BY DEF Readers, Idle, ReaderSound
<1>2. Sessioned' /\ ReaderSound'
  BY DEF Sessioned, ReaderSound, Idle, ClientIndexSound, PortsPartitioned
<1>3. ClientIndexSound'
  BY DEF ClientIndexSound
<1>4. PortsPartitioned'
  BY DEF PortsPartitioned
<1>5. TenantCountsExact'
  BY SameCounts
<1> QED
  BY <1>1, <1>2, <1>3, <1>4, <1>5

\* sessionForPort keeps the invariant.
LEMMA ServerLookupStep ==
  ASSUME IndInv, NEW p \in Ports, NEW a \in Addrs, ServerLookup(p, a)
  PROVE  IndInv'
<1> USE NoneIsNothing DEF IndInv, TypeOK, ServerLookup, tableVars, allocVars,
      sessionVars, readerVars
<1>1. TypeOK'
  BY DEF Readers, Idle, ReaderSound
<1>2. Sessioned' /\ ReaderSound'
  BY DEF Sessioned, ReaderSound, Idle, ClientIndexSound, PortsPartitioned
<1>3. ClientIndexSound'
  BY DEF ClientIndexSound
<1>4. PortsPartitioned'
  BY DEF PortsPartitioned
<1>5. TenantCountsExact'
  BY SameCounts
<1> QED
  BY <1>1, <1>2, <1>3, <1>4, <1>5

\* BindServer keeps the invariant.
LEMMA ServerBindStep ==
  ASSUME IndInv, NEW p \in Ports, ServerBind(p)
  PROVE  IndInv'
<1> USE NoneIsNothing DEF IndInv, TypeOK, ServerBind, Touched, tableVars, allocVars,
      sessionVars, readerVars
<1>0. sl[p].sess \in Sessions /\ sl[p].from \in Addrs
  BY DEF ReaderSound
<1>1. TypeOK'
  <2>1. sl'[p] \in Readers
    BY <1>0 DEF Readers, Idle
  <2>2. sl' \in [Ports -> Readers]
    BY <2>1
  <2> QED
    BY <1>0, <2>2
<1>2. Sessioned' /\ ReaderSound'
  BY DEF Sessioned, ReaderSound, Idle, ClientIndexSound, PortsPartitioned
<1>3. ClientIndexSound'
  BY DEF ClientIndexSound
<1>4. PortsPartitioned'
  BY DEF PortsPartitioned
<1>5. TenantCountsExact'
  BY SameCounts
<1> QED
  BY <1>1, <1>2, <1>3, <1>4, <1>5

\* Acknowledging a bind keeps the invariant.
LEMMA ServerAckStep ==
  ASSUME IndInv, NEW p \in Ports, ServerAck(p)
  PROVE  IndInv'
<1> USE NoneIsNothing DEF IndInv, TypeOK, ServerAck, tableVars, allocVars,
      sessionVars, readerVars
<1>1. TypeOK'
  BY DEF Readers, Idle, ReaderSound
<1>2. Sessioned' /\ ReaderSound'
  BY DEF Sessioned, ReaderSound, Idle, ClientIndexSound, PortsPartitioned
<1>3. ClientIndexSound'
  BY DEF ClientIndexSound
<1>4. PortsPartitioned'
  BY DEF PortsPartitioned
<1>5. TenantCountsExact'
  BY SameCounts
<1> QED
  BY <1>1, <1>2, <1>3, <1>4, <1>5

\* Dropping a server datagram keeps the invariant.
LEMMA ServerDropStep ==
  ASSUME IndInv, NEW p \in Ports, ServerDrop(p)
  PROVE  IndInv'
<1> USE NoneIsNothing DEF IndInv, TypeOK, ServerDrop, tableVars, allocVars,
      sessionVars, readerVars
<1>1. TypeOK'
  BY DEF Readers, Idle, ReaderSound
<1>2. Sessioned' /\ ReaderSound'
  BY DEF Sessioned, ReaderSound, Idle, ClientIndexSound, PortsPartitioned
<1>3. ClientIndexSound'
  BY DEF ClientIndexSound
<1>4. PortsPartitioned'
  BY DEF PortsPartitioned
<1>5. TenantCountsExact'
  BY SameCounts
<1> QED
  BY <1>1, <1>2, <1>3, <1>4, <1>5

\* Reading the legs for a server datagram keeps the invariant.
LEMMA ServerLegsStep ==
  ASSUME IndInv, NEW p \in Ports, ServerLegs(p)
  PROVE  IndInv'
<1> USE NoneIsNothing DEF IndInv, TypeOK, ServerLegs, tableVars, allocVars,
      sessionVars, readerVars
<1>0. sl[p].sess \in Sessions /\ sl[p].from \in Addrs
  BY DEF ReaderSound
<1>1. TypeOK'
  <2>1. sl'[p] \in Readers
    BY <1>0 DEF Readers, Idle
  <2>2. sl' \in [Ports -> Readers]
    BY <2>1
  <2> QED
    BY <1>0, <2>2
<1>2. Sessioned' /\ ReaderSound'
  BY DEF Sessioned, ReaderSound, Idle, ClientIndexSound, PortsPartitioned
<1>3. ClientIndexSound'
  BY DEF ClientIndexSound
<1>4. PortsPartitioned'
  BY DEF PortsPartitioned
<1>5. TenantCountsExact'
  BY SameCounts
<1> QED
  BY <1>1, <1>2, <1>3, <1>4, <1>5

\* Writing a server datagram keeps the invariant.
LEMMA ServerWriteStep ==
  ASSUME IndInv, NEW p \in Ports, ServerWrite(p)
  PROVE  IndInv'
<1> USE NoneIsNothing DEF IndInv, TypeOK, ServerWrite, Touched, tableVars, allocVars,
      sessionVars, readerVars
<1>1. TypeOK'
  BY DEF Readers, Idle, ReaderSound
<1>2. Sessioned' /\ ReaderSound'
  BY DEF Sessioned, ReaderSound, Idle, ClientIndexSound, PortsPartitioned
<1>3. ClientIndexSound'
  BY DEF ClientIndexSound
<1>4. PortsPartitioned'
  BY DEF PortsPartitioned
<1>5. TenantCountsExact'
  BY SameCounts
<1> QED
  BY <1>1, <1>2, <1>3, <1>4, <1>5

-----------------------------------------------------------------------------
\* Every step keeps the inductive invariant.
LEMMA NextIndInv == IndInv /\ [Next]_vars => IndInv'
<1> SUFFICES ASSUME IndInv, [Next]_vars PROVE IndInv'
  OBVIOUS
<1>1. CASE UNCHANGED vars
  <2>1. TenantCountsExact'
    BY <1>1, SameCounts DEF vars, tableVars, sessionVars
  <2> QED
    BY <1>1, <2>1 DEF vars, tableVars, allocVars, sessionVars, readerVars, IndInv, TypeOK,
       Sessioned, ReaderSound, PortsPartitioned, ClientIndexSound
<1>2. CASE Table
  <2>1. ASSUME NEW t \in Tenants, NEW s \in Sessions, NEW p \in Ports, Allocate(t, s, p)
        PROVE  IndInv'
    BY <2>1, AllocateStep
  <2>2. ASSUME NEW s \in Sessions, Release(s) \/ Sweep(s) PROVE IndInv'
    BY <2>2, ReleaseStep DEF Release, Sweep
  <2>3. ASSUME NEW s \in Sessions, GrowIdle(s) PROVE IndInv'
    BY <2>3, GrowIdleStep
  <2>4. ASSUME NEW p \in Ports, DisablePort(p) PROVE IndInv'
    BY <2>4, DisablePortStep
  <2> QED
    BY <1>2, <2>1, <2>2, <2>3, <2>4 DEF Table
<1>3. CASE ClientLeg
  BY <1>3, ClientBindStep, ClientLookupStep, ClientLegsStep, ClientWriteStep DEF ClientLeg
<1>4. ASSUME NEW p \in Ports, ServerLeg(p) PROVE IndInv'
  BY <1>4, ServerLookupStep, ServerBindStep, ServerAckStep, ServerDropStep, ServerLegsStep,
     ServerWriteStep
  DEF ServerLeg
<1> QED
  BY <1>1, <1>2, <1>3, <1>4 DEF Next

\* A step that decides to forward a datagram is a reading of legs.
LEMMA ForwardStep ==
  ASSUME IndInv, [Next]_vars
  PROVE  /\ (cl.at = "looked" /\ cl'.at = "writing") => ClientLegs
         /\ \A p \in Ports : (sl[p].at = "looked" /\ sl'[p].at = "writing") => ServerLegs(p)
<1> USE DEF Idle, tableVars, allocVars, sessionVars, readerVars, IndInv, TypeOK
<1>1. CASE UNCHANGED vars
  BY <1>1 DEF vars
<1>2. CASE Table
  BY <1>2 DEF Table, Allocate, Release, Sweep, GrowIdle, DisablePort, Forget
<1>3. CASE ClientLeg
  BY <1>3 DEF ClientLeg, ClientBind, ClientLookup, ClientWrite, ClientLegs
<1>4. ASSUME NEW q \in Ports, ServerLeg(q)
      PROVE  /\ (cl.at = "looked" /\ cl'.at = "writing") => ClientLegs
             /\ \A p \in Ports : (sl[p].at = "looked" /\ sl'[p].at = "writing")
                                  => ServerLegs(p)
  <2>1. CASE \E a \in Addrs : ServerLookup(q, a)
    BY <2>1 DEF ServerLookup
  <2>2. CASE ServerBind(q)
    BY <2>2 DEF ServerBind
  <2>3. CASE ServerAck(q) \/ ServerDrop(q)
    BY <2>3 DEF ServerAck, ServerDrop
  <2>4. CASE ServerLegs(q)
    BY <2>4 DEF ServerLegs
  <2>5. CASE ServerWrite(q)
    BY <2>5 DEF ServerWrite
  <2> QED
    BY <1>4, <2>1, <2>2, <2>3, <2>4, <2>5 DEF ServerLeg
<1> QED
  BY <1>1, <1>2, <1>3, <1>4 DEF Next

\* The legs that are read belong to a live session.
LEMMA ForwardPermitted ==
  ASSUME IndInv, [Next]_vars
  PROVE  /\ (cl.at = "looked" /\ cl'.at = "writing") =>
              /\ cl.sess \in tokens
              /\ clientAddr[cl.sess] = cl.from
              /\ serverAddr[cl.sess] = cl'.dst
         /\ \A p \in Ports : (sl[p].at = "looked" /\ sl'[p].at = "writing") =>
              /\ sl[p].sess \in tokens /\ port[sl[p].sess] = p
              /\ serverAddr[sl[p].sess] = sl[p].from
              /\ clientAddr[sl[p].sess] = sl'[p].dst
<1>1. ASSUME cl.at = "looked", cl'.at = "writing"
      PROVE  cl.sess \in tokens /\ clientAddr[cl.sess] = cl.from
             /\ serverAddr[cl.sess] = cl'.dst
  <2>1. ClientLegs
    BY <1>1, ForwardStep
  <2>2. cl.sess \in Sessions /\ serverAddr[cl.sess] # None
    BY <1>1, <2>1 DEF ClientLegs, Idle, IndInv, ReaderSound
  <2>3. cl'.dst = serverAddr[cl.sess]
    BY <2>1, <2>2 DEF ClientLegs, IndInv, TypeOK, Readers
  <2> QED
    BY <1>1, <2>2, <2>3 DEF IndInv, Sessioned, ReaderSound
<1>2. ASSUME NEW p \in Ports, sl[p].at = "looked", sl'[p].at = "writing"
      PROVE  /\ sl[p].sess \in tokens /\ port[sl[p].sess] = p
             /\ serverAddr[sl[p].sess] = sl[p].from
             /\ clientAddr[sl[p].sess] = sl'[p].dst
  <2>1. ServerLegs(p)
    BY <1>2, ForwardStep
  <2>2. /\ sl[p].sess \in Sessions /\ port[sl[p].sess] = p
        /\ sl[p] \in Readers /\ sl \in [Ports -> Readers]
    BY <1>2 DEF IndInv, ReaderSound, TypeOK
  <2>3. serverAddr[sl[p].sess] = sl[p].from /\ clientAddr[sl[p].sess] # None
    BY <1>2, <2>1, <2>2 DEF ServerLegs, Idle
  <2>4. sl'[p].dst = clientAddr[sl[p].sess]
    BY <2>1, <2>2, <2>3 DEF ServerLegs, Readers
  <2> QED
    BY <2>2, <2>3, <2>4 DEF IndInv, Sessioned
<1> QED
  BY <1>1, <1>2

\* The inductive invariant holds throughout.
THEOREM Inductive == Spec => []IndInv
<1> QED
  BY InitIndInv, NextIndInv, PTL DEF Spec

\* Every variable keeps its type; no count and no free list goes below zero.
THEOREM TypeCorrect == Spec => []TypeOK
<1>1. IndInv => TypeOK
  BY DEF IndInv
<1> QED
  BY <1>1, Inductive, PTL

\* Every pooled port is in exactly one place, for any pool.
THEOREM PortsArePartitioned == Spec => []PortsPartitioned
<1>1. IndInv => PortsPartitioned
  BY DEF IndInv
<1> QED
  BY <1>1, Inductive, PTL

\* Tenants' session counts are exact and bounded, for any number of sessions.
THEOREM TenantCountsAreExact == Spec => []TenantCountsExact
<1>1. IndInv => TenantCountsExact
  BY DEF IndInv
<1> QED
  BY <1>1, Inductive, PTL

\* The client index never finds a released or a moved session.
THEOREM ClientIndexIsSound == Spec => []ClientIndexSound
<1>1. IndInv => ClientIndexSound
  BY DEF IndInv
<1> QED
  BY <1>1, Inductive, PTL

\* Ports, tenant counts and indices agree with the sessions there are.
THEOREM TablesDoAgree == Spec => []TablesAgree
<1>1. TypeOK /\ PortsPartitioned /\ TenantCountsExact /\ ClientIndexSound => TablesAgree
  BY DEF TablesAgree
<1> QED
  BY <1>1, TypeCorrect, PortsArePartitioned, TenantCountsAreExact, ClientIndexIsSound, PTL

\* The tier forwards only between the two bound legs of one live session.
THEOREM ForwardsOnlyBetweenBound == Spec => ForwardOnlyBetweenBound
<1>1. IndInv /\ [Next]_vars =>
        [ /\ (cl.at = "looked" /\ cl'.at = "writing") =>
               /\ cl.sess \in tokens
               /\ clientAddr[cl.sess] = cl.from
               /\ serverAddr[cl.sess] = cl'.dst
          /\ \A p \in Ports : (sl[p].at = "looked" /\ sl'[p].at = "writing") =>
               /\ sl[p].sess \in tokens /\ port[sl[p].sess] = p
               /\ serverAddr[sl[p].sess] = sl[p].from
               /\ clientAddr[sl[p].sess] = sl'[p].dst ]_vars
  BY ForwardPermitted
<1> QED
  BY <1>1, Inductive, PTL DEF Spec, ForwardOnlyBetweenBound
=============================================================================
