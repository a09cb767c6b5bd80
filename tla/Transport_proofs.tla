-------------------------- MODULE Transport_proofs --------------------------
(***************************************************************************)
(* Proofs about what carries a session.  Multipath, for any set of         *)
(* datagram paths, any limits and any directions that may fail: types,     *)
(* that nothing unproven carries packets, and that a healthy flow is not   *)
(* moved.  WebSocketBind, which carries the WebSocket path: that the       *)
(* layers above know the carrier there is, and nothing is left behind.     *)
(* TransportUpgrade, which climbs from one to the other: that the rung in  *)
(* use has what carries it.  StreamRelay, for any length and window: that  *)
(* an answer neither cuts off its question nor loses its own end.          *)
(***************************************************************************)
EXTENDS Transport, TLAPS

(***************************************************************************)
(* What the two promises rest on: health is evidence, and an incumbent is  *)
(* a registered path that worked once.                                     *)
(***************************************************************************)
HealthIsEvidence == \A s \in Sides : healthy[s] \subseteq proven[s]

IncumbentProven ==
  \A s \in Sides : primary[s] # None => primary[s] \in registered[s] \cap proven[s]

IInv == TypeOK /\ HealthIsEvidence /\ IncumbentProven

\* The bookkeeping of a result keeps the types, the registrations and the
\* evidence, and never forgets that a path worked.
Kept ==
  /\ registered' = registered
  /\ healthy' \in [Sides -> SUBSET Paths]
  /\ proven' \in [Sides -> SUBSET Paths]
  /\ misses' \in [Sides -> [Paths -> 0..MissLimit]]
  /\ HealthIsEvidence'
  /\ \A s \in Sides : proven[s] \subseteq proven'[s]

\* On changes one entry of a table of a side's paths.
LEMMA OnEntry ==
  ASSUME NEW f \in [Sides -> [Paths -> 0..MissLimit]],
         NEW s \in Sides, NEW p \in Paths, NEW v \in 0..MissLimit
  PROVE  On(s, f, p, v) \in [Sides -> [Paths -> 0..MissLimit]]
BY DEF On

\* ProbeResult keeps what the schedulers know consistent.
LEMMA ProbeResultKeeps ==
  ASSUME IInv, NEW s \in Sides, NEW p \in Paths, NEW ok \in BOOLEAN, ProbeResult(s, p, ok)
  PROVE  Kept
<1>0. /\ healthy \in [Sides -> SUBSET Paths]
      /\ proven \in [Sides -> SUBSET Paths]
      /\ misses \in [Sides -> [Paths -> 0..MissLimit]]
      /\ \A t \in Sides : healthy[t] \subseteq proven[t]
  BY DEF IInv, TypeOK, HealthIsEvidence
<1>1. CASE p \notin registered[s]
  BY <1>0, <1>1 DEF ProbeResult, candidates, Kept, HealthIsEvidence
<1>2. CASE p \in registered[s] /\ ok
  <2>1. /\ healthy' = With(healthy, s, p) /\ proven' = With(proven, s, p)
        /\ misses' = On(s, misses, p, 0) /\ registered' = registered
    BY <1>2 DEF ProbeResult, Success
  <2>2. 0 \in 0..MissLimit
    BY Limits
  <2>3. misses' \in [Sides -> [Paths -> 0..MissLimit]]
    BY <1>0, <2>1, <2>2, OnEntry
  <2>4. healthy' \in [Sides -> SUBSET Paths] /\ proven' \in [Sides -> SUBSET Paths]
    BY <1>0, <2>1 DEF With, Without
  <2>5. \A t \in Sides : healthy'[t] \subseteq proven'[t] /\ proven[t] \subseteq proven'[t]
    BY <1>0, <2>1 DEF With, Without
  <2> QED BY <2>1, <2>3, <2>4, <2>5 DEF Kept, HealthIsEvidence
<1>3. CASE p \in registered[s] /\ ~ok
  <2> DEFINE n == IF misses[s][p] < MissLimit THEN misses[s][p] + 1 ELSE MissLimit
  <2>1. /\ misses' = On(s, misses, p, n)
        /\ healthy' = IF n < MissLimit THEN healthy ELSE Without(healthy, s, p)
        /\ registered' = registered /\ proven' = proven
    BY <1>3 DEF ProbeResult, Miss
  <2>2. n \in 0..MissLimit
    BY <1>0, Limits
  <2> HIDE DEF n
  <2>3. misses' \in [Sides -> [Paths -> 0..MissLimit]]
    BY <1>0, <2>1, <2>2, OnEntry
  <2>4. healthy' \in [Sides -> SUBSET Paths] /\ proven' \in [Sides -> SUBSET Paths]
    BY <1>0, <2>1 DEF Without
  <2>5. \A t \in Sides : healthy'[t] \subseteq proven'[t] /\ proven[t] \subseteq proven'[t]
    BY <1>0, <2>1 DEF Without
  <2> QED BY <2>1, <2>3, <2>4, <2>5 DEF Kept, HealthIsEvidence
<1> QED BY <1>1, <1>2, <1>3

\* CarrierFailure does too.
LEMMA CarrierFailureKeeps ==
  ASSUME IInv, NEW s \in Sides, NEW p \in Paths, CarrierFailure(s, p)
  PROVE  Kept
<1>0. /\ healthy \in [Sides -> SUBSET Paths]
      /\ proven \in [Sides -> SUBSET Paths]
      /\ misses \in [Sides -> [Paths -> 0..MissLimit]]
      /\ \A t \in Sides : healthy[t] \subseteq proven[t]
  BY DEF IInv, TypeOK, HealthIsEvidence
<1>1. CASE p \notin registered[s]
  BY <1>0, <1>1 DEF CarrierFailure, candidates, Kept, HealthIsEvidence
<1>2. CASE p \in registered[s]
  <2>1. /\ healthy' = Without(healthy, s, p) /\ proven' = proven
        /\ misses' = On(s, misses, p, MissLimit) /\ registered' = registered
    BY <1>2 DEF CarrierFailure
  <2>2. MissLimit \in 0..MissLimit
    BY Limits
  <2>3. misses' \in [Sides -> [Paths -> 0..MissLimit]]
    BY <1>0, <2>1, <2>2, OnEntry
  <2>4. healthy' \in [Sides -> SUBSET Paths] /\ proven' \in [Sides -> SUBSET Paths]
    BY <1>0, <2>1 DEF With, Without
  <2>5. \A t \in Sides : healthy'[t] \subseteq proven'[t] /\ proven[t] \subseteq proven'[t]
    BY <1>0, <2>1 DEF With, Without
  <2> QED BY <2>1, <2>3, <2>4, <2>5 DEF Kept, HealthIsEvidence
<1> QED BY <1>1, <1>2

\* A step that keeps the schedulers consistent and leaves the incumbents alone
\* keeps incumbents proven.
LEMMA KeptIncumbents ==
  ASSUME IInv, Kept, primary' = primary
  PROVE  IncumbentProven'
BY DEF IInv, TypeOK, Kept, IncumbentProven

\* Whatever Select returns is a registered path that worked once.
LEMMA SelectedProven ==
  ASSUME IInv, NEW s \in Sides, NEW p \in Selected(s)
  PROVE  p \in registered[s] \cap proven[s] /\ p \in Paths
<1> USE DEF IInv, TypeOK, HealthIsEvidence, IncumbentProven, Selected, Usable
<1>1. None \notin registered[s]
  BY NamesDistinct DEF Paths
<1> QED BY <1>1

\* The types of what is not the schedulers' own.
Surroundings ==
  /\ forced \in [Sides -> Paths \cup {None}]
  /\ probe \in [Sides -> [Datagram -> {"none", "flying", "lost"}]]
  /\ failing \in [Sides -> Paths \cup {None}]
  /\ data \subseteq Paths
  /\ up \in [Sides -> SUBSET Datagram]
  /\ link \in BOOLEAN
  /\ ws \in [Sides -> {"down", "opening", "up"}]

\* A step that keeps the schedulers consistent, leaves the incumbents alone
\* and is well typed elsewhere preserves the invariant.
LEMMA KeptInv ==
  ASSUME IInv, Kept, primary' = primary, Surroundings'
  PROVE  IInv'
<1>1. IncumbentProven'
  BY KeptIncumbents
<1>2. TypeOK'
  BY DEF IInv, TypeOK, Kept, Surroundings
<1> QED BY <1>1, <1>2 DEF IInv, Kept

\* A step that does not touch the candidates keeps them consistent.
LEMMA UnchangedKeeps ==
  ASSUME IInv, UNCHANGED candidates
  PROVE  Kept
BY DEF IInv, TypeOK, HealthIsEvidence, candidates, Kept

\* The probe table after a change of one entry.
LEMMA ProbeEntry ==
  ASSUME IInv, NEW s \in Sides, NEW p \in Datagram, NEW v \in {"none", "flying", "lost"},
         probe' = On(s, probe, p, v)
  PROVE  probe' \in [Sides -> [Datagram -> {"none", "flying", "lost"}]]
<1>1. probe \in [Sides -> [Datagram -> {"none", "flying", "lost"}]]
  BY DEF IInv, TypeOK
<1> QED BY <1>1 DEF On

\* The invariant holds initially.
LEMMA InitInv == Init => IInv
<1> SUFFICES ASSUME Init PROVE IInv
  OBVIOUS
<1>1. TypeOK
  BY Limits, NamesDistinct DEF Init, TypeOK, Sides, Paths
<1>2. HealthIsEvidence /\ IncumbentProven
  BY NamesDistinct DEF Init, HealthIsEvidence, IncumbentProven, Sides, Paths
<1> QED BY <1>1, <1>2 DEF IInv

\* Each action preserves it.
LEMMA NextInv == IInv /\ [Next]_vars => IInv'
<1> SUFFICES ASSUME IInv, [Next]_vars PROVE IInv'
  OBVIOUS
<1> USE DEF Surroundings
<1>0. Surroundings /\ TypeOK
  BY DEF IInv, TypeOK
<1>1. ASSUME NEW s \in Sides, Send(s) PROVE IInv'
  <2>1. PICK p \in Selected(s) : Commit(s, p) /\ failing' \in [Sides -> Paths \cup {None}] /\ data' \subseteq Paths
    <3>1. PICK p \in Selected(s) :
            /\ Commit(s, p)
            /\ \/ failing' = [failing EXCEPT ![s] = p] /\ UNCHANGED data
               \/ /\ UNCHANGED failing
                  /\ \E q \in Backups(s, p) \cup {p} : \E carried \in SUBSET Arriving({p, q}) :
                       data' = IF s = Client /\ data = {} THEN carried ELSE data
      BY <1>1 DEF Send
    <3>2. p \in Paths
      BY SelectedProven
    <3>3. \A q \in Backups(s, p) \cup {p} : Arriving({p, q}) \subseteq Paths
      BY <1>0, <3>2 DEF Backups, Usable, Arriving, TypeOK
    <3> QED BY <1>0, <3>1, <3>2, <3>3
  <2>2. p \in registered[s] \cap proven[s] /\ p \in Paths
    BY SelectedProven
  <2>3. UNCHANGED <<candidates, forced, probe, network>>
    BY <1>1 DEF Send
  <2>4. primary' \in [Sides -> Paths \cup {None}]
    BY <1>0, <2>1, <2>2 DEF Commit, TypeOK
  <2>5. IncumbentProven'
    BY <1>0, <2>1, <2>2, <2>3 DEF Commit, IInv, TypeOK, IncumbentProven, candidates
  <2>6. HealthIsEvidence'
    BY <2>3 DEF IInv, HealthIsEvidence, candidates
  <2> QED BY <1>0, <2>1, <2>3, <2>4, <2>5, <2>6 DEF IInv, TypeOK, candidates, network
<1>2. ASSUME NEW s \in Sides, SendFailed(s) PROVE IInv'
  <2>1. failing[s] \in Paths
    BY <1>0, <1>2 DEF SendFailed
  <2>2. Kept
    BY <1>2, <2>1, CarrierFailureKeeps DEF SendFailed
  <2> QED BY <1>0, <1>2, <2>2, KeptInv DEF SendFailed, network
<1>3. ASSUME NEW s \in Sides, Connected(s) PROVE IInv'
  <2> USE <1>0, <1>3 DEF Connected, ActivateCarrier, With, TypeOK
  <2>1. WSS \in Paths
    BY DEF Paths
  <2>2. 0 \in 0..MissLimit
    BY Limits
  <2>3. misses' \in [Sides -> [Paths -> 0..MissLimit]]
    BY <2>1, <2>2, OnEntry
  <2>4. HealthIsEvidence' /\ IncumbentProven'
    BY <2>1 DEF IInv, HealthIsEvidence, IncumbentProven
  <2>5. /\ registered' \in [Sides -> SUBSET Paths] /\ healthy' \in [Sides -> SUBSET Paths]
        /\ proven' \in [Sides -> SUBSET Paths] /\ primary' \in [Sides -> Paths \cup {None}]
    BY <2>1
  <2> QED BY <2>3, <2>4, <2>5 DEF IInv
<1>4. ASSUME NEW s \in Sides, Disconnected(s) PROVE IInv'
  <2>1. Kept
    BY <1>4, CarrierFailureKeeps DEF Disconnected, Paths
  <2> QED BY <1>0, <1>4, <2>1, KeptInv DEF Disconnected
<1>5. ASSUME NEW s \in Sides, WriteFailure(s) PROVE IInv'
  <2>1. Kept
    BY <1>5, CarrierFailureKeeps DEF WriteFailure, Paths
  <2> QED BY <1>0, <1>5, <2>1, KeptInv DEF WriteFailure
<1>6. ASSUME NEW s \in Sides, NEW p \in Datagram, RegisterPath(s, p) PROVE IInv'
  <2>1. p \in Paths
    BY DEF Paths
  <2>2. probe' \in [Sides -> [Datagram -> {"none", "flying", "lost"}]]
    BY <1>6, ProbeEntry DEF RegisterPath
  <2>3. registered' \in [Sides -> SUBSET Paths]
    BY <1>0, <1>6, <2>1 DEF RegisterPath, With, TypeOK
  <2>4. HealthIsEvidence' /\ IncumbentProven'
    BY <1>0, <1>6 DEF RegisterPath, With, TypeOK, IInv, HealthIsEvidence, IncumbentProven
  <2> QED BY <1>0, <1>6, <2>2, <2>3, <2>4 DEF RegisterPath, IInv, TypeOK, network
<1>7. ASSUME NEW s \in Sides, NEW p \in Datagram, Refresh(s, p) \/ ProbeOne(s, p) \/ LoseProbe(s, p) PROVE IInv'
  <2>1. PICK v \in {"none", "flying", "lost"} : probe' = On(s, probe, p, v)
    BY <1>7 DEF Refresh, ProbeOne, LoseProbe
  <2>2. probe' \in [Sides -> [Datagram -> {"none", "flying", "lost"}]]
    BY <2>1, ProbeEntry
  <2>3. UNCHANGED <<candidates, primary, forced, failing, data, network>>
    BY <1>7 DEF Refresh, ProbeOne, LoseProbe
  <2>4. Kept
    BY <2>3, UnchangedKeeps
  <2> QED BY <1>0, <2>2, <2>3, <2>4, KeptInv DEF network
<1>8. ASSUME NEW s \in Sides, NEW p \in Datagram, MissProbe(s, p) \/ PathAck(s, p) PROVE IInv'
  <2>1. PICK v \in {"none", "flying", "lost"}, ok \in BOOLEAN :
          probe' = On(s, probe, p, v) /\ ProbeResult(s, p, ok)
    BY <1>8 DEF MissProbe, PathAck
  <2>2. probe' \in [Sides -> [Datagram -> {"none", "flying", "lost"}]]
    BY <2>1, ProbeEntry
  <2>3. UNCHANGED <<primary, forced, failing, data, network>>
    BY <1>8 DEF MissProbe, PathAck
  <2>4. Kept
    BY <2>1, ProbeResultKeeps DEF Paths
  <2> QED BY <1>0, <2>2, <2>3, <2>4, KeptInv DEF network
<1>9. ASSUME NEW s \in Sides, NEW p \in Datagram, FlipLink(s, p) PROVE IInv'
  <2>1. Kept
    BY <1>9, UnchangedKeeps DEF FlipLink
  <2>2. up' \in [Sides -> SUBSET Datagram]
    BY <1>0, <1>9 DEF FlipLink, With, Without
  <2> QED BY <1>0, <1>9, <2>1, <2>2, KeptInv DEF FlipLink
<1>10. ASSUME NEW p \in Paths, Receive(p) PROVE IInv'
  <2>1. Kept
    BY <1>10, ProbeResultKeeps DEF Receive, Sides
  <2> QED BY <1>0, <1>10, <2>1, KeptInv DEF Receive, network
<1>11. ASSUME NEW f \in Forceable, SetForced(f) PROVE IInv'
  <2>1. Kept
    BY <1>11, UnchangedKeeps DEF SetForced
  <2>2. f \in Paths \cup {None}
    BY NamesDistinct DEF Paths
  <2> QED BY <1>0, <1>11, <2>1, <2>2, KeptInv DEF SetForced, network
<1>12. ASSUME Redial \/ LoseLink PROVE IInv'
  <2>1. Kept
    BY <1>12, UnchangedKeeps DEF Redial, LoseLink
  <2> QED BY <1>0, <1>12, <2>1, KeptInv DEF Redial, LoseLink
<1>13. CASE UNCHANGED vars
  <2>1. Kept
    BY <1>13, UnchangedKeeps DEF vars, candidates
  <2> QED BY <1>0, <1>13, <2>1, KeptInv DEF vars, network
<1> QED
  BY <1>1, <1>2, <1>3, <1>4, <1>5, <1>6, <1>7, <1>8, <1>9, <1>10, <1>11, <1>12, <1>13 DEF Next

\* The inductive invariant holds for any number of paths and any limit.
THEOREM Invariance == Spec => []IInv
BY InitInv, NextInv, PTL DEF Spec

\* The variables of both schedulers, the probes and the carriers keep their
\* types.
THEOREM TypeCorrect == Spec => []TypeOK
<1>1. IInv => TypeOK
  BY DEF IInv
<1> QED BY <1>1, Invariance, PTL

\* Select never returns a path that has not worked at least once, whatever is
\* registered, forced, lost or missed.
THEOREM ProvenCarries == Spec => []OnlyProvenCarries
<1>1. IInv => OnlyProvenCarries
  BY SelectedProven DEF OnlyProvenCarries, IInv
<1> QED BY <1>1, Invariance, PTL

\* In every step, a healthy incumbent is left only for a healthy forced path.
LEMMA StickyStep ==
  ASSUME IInv, [Next]_vars
  PROVE  \A s \in Sides :
           primary'[s] # primary[s] /\ primary[s] # None =>
             primary[s] \notin healthy[s] \/ (primary'[s] = forced[s] /\ forced[s] \in healthy[s])
<1> SUFFICES ASSUME NEW s \in Sides, primary'[s] # primary[s], primary[s] # None, primary[s] \in healthy[s]
             PROVE  primary'[s] = forced[s] /\ forced[s] \in healthy[s]
  OBVIOUS
<1>0. primary \in [Sides -> Paths \cup {None}] /\ primary[s] \in Usable(s)
  BY DEF IInv, TypeOK, IncumbentProven, Usable
<1>1. ASSUME NEW t \in Sides, Send(t) PROVE primary'[s] = forced[s] /\ forced[s] \in healthy[s]
  <2>1. PICK p \in Selected(t) : Commit(t, p)
    BY <1>1 DEF Send
  <2>2. t = s /\ primary'[s] = p
    BY <1>0, <2>1 DEF Commit
  <2>3. p = forced[s] /\ forced[s] \in Usable(s)
    BY <1>0, <2>1, <2>2 DEF Selected
  <2> QED BY <2>2, <2>3 DEF Usable
<1>2. ASSUME NEW t \in Sides, Connected(t) PROVE FALSE
  BY <1>0, <1>2 DEF Connected, ActivateCarrier
<1>3. CASE UNCHANGED primary
  BY <1>3
<1> QED
  BY <1>1, <1>2, <1>3 DEF Next, vars, SendFailed, Disconnected, WriteFailure, RegisterPath, Refresh,
     ProbeOne, MissProbe, PathAck, LoseProbe, FlipLink, Receive, SetForced, Redial, LoseLink

\* A live flow moves only off an unhealthy path or onto a forced healthy one.
THEOREM Sticky == Spec => StickyFlow
<1>1. IInv /\ [Next]_vars =>
        [\A s \in Sides :
           primary'[s] # primary[s] /\ primary[s] # None =>
             primary[s] \notin healthy[s] \/ (primary'[s] = forced[s] /\ forced[s] \in healthy[s])]_vars
  BY StickyStep
<1> QED BY <1>1, Invariance, PTL DEF Spec, StickyFlow

(***************************************************************************)
(* The bind under the path over the WebSocket (WebSocketBind): both ends,  *)
(* for any number of connections and faults and any depth of the queues.   *)
(***************************************************************************)
Ends == {"client", "server"}
Points == {"none", "accepted", "dialled", "reading", "gone"}

BindTyped ==
  /\ life \in [Ends -> {"new", "open", "closed"}]
  /\ table \in [Ends -> Conns \cup {0}] /\ view \in [Ends -> BOOLEAN]
  /\ pc \in [Ends -> [Conns -> Points]] /\ sock \in [Ends -> SUBSET Conns]
  /\ redial \in BOOLEAN /\ session \in BOOLEAN /\ waiting \in Conns \cup {0}

\* The carrier in the table of a bind, which is open, is being read.
CarrierRead ==
  \A e \in Ends : table[e] # 0 => life[e] = "open" /\ pc[e][table[e]] = "reading"

\* The number of a connection is free at both ends or at none.
Paired == \A k \in Conns : pc["client"][k] = "none" <=> pc["server"][k] = "none"

\* The handler that replaces a carrier has yet to register its connection.
Replaces == waiting # 0 => life["server"] = "open" /\ pc["server"][waiting] = "accepted"

\* The redial loop runs once, and only when there is no carrier.
RedialsAlone ==
  /\ redial => /\ table["client"] = 0 /\ life["client"] # "new"
               /\ \A k \in Conns : pc["client"][k] # "dialled"
  /\ \A k \in Conns : pc["client"][k] = "dialled" =>
       /\ table["client"] = 0 /\ life["client"] # "new"
       /\ \A j \in Conns : pc["client"][j] = "dialled" => j = k

BindInv ==
  /\ BindTyped /\ CarrierRead /\ Paired /\ Replaces /\ RedialsAlone
  /\ Bind!ViewFollowsTable /\ Bind!NothingLeftBehind

LEMMA OtherEnd == Bind!Other("client") = "server" /\ Bind!Other("server") = "client"
BY DEF Bind!Other, Bind!Ends

LEMMA BindInit == ASSUME 0 \notin Conns, Bind!Init PROVE BindInv
<1> USE DEF Ends, Bind!Ends, Bind!Open, Bind!Init
<1>1. BindTyped /\ CarrierRead /\ Paired
  BY DEF BindTyped, Points, CarrierRead, Paired
<1>2. Replaces /\ RedialsAlone
  BY DEF Replaces, RedialsAlone
<1>3. Bind!ViewFollowsTable /\ Bind!NothingLeftBehind
  BY DEF Bind!ViewFollowsTable, Bind!NothingLeftBehind
<1> QED BY <1>1, <1>2, <1>3 DEF BindInv

\* Finish: one end is done with a connection that is not in its table.
LEMMA FinishFacts ==
  ASSUME BindInv, NEW e \in Ends, NEW o \in Ends, o # e, NEW k \in Conns, pc[e][k] # "none",
         Bind!Finish(e, k)
  PROVE  /\ pc' \in [Ends -> [Conns -> Points]] /\ sock' \in [Ends -> SUBSET Conns]
         /\ sock'[e] = sock[e] \ {k} /\ sock'[o] = sock[o]
         /\ \A f \in Ends, j \in Conns : j # k => pc'[f][j] = pc[f][j]
         /\ pc'[e][k] \in {"none", "gone"}
         /\ pc'[o][k] = pc[o][k] \/ (pc[o][k] = "gone" /\ pc'[o][k] = "none")
         /\ Paired'
<1> USE DEF Ends
<1>1. Bind!Other(e) = o /\ Bind!Ends = Ends
  BY OtherEnd DEF Bind!Ends
<1>2. pc \in [Ends -> [Conns -> Points]] /\ sock \in [Ends -> SUBSET Conns] /\ Paired
  BY DEF BindInv, BindTyped
<1>3. /\ pc' = IF pc[o][k] = "gone" THEN [f \in Ends |-> [pc[f] EXCEPT ![k] = "none"]]
               ELSE [pc EXCEPT ![e][k] = "gone"]
      /\ sock' = [sock EXCEPT ![e] = @ \ {k}]
  BY <1>1 DEF Bind!Finish
<1>4. CASE pc[o][k] = "gone"
  <2>1. pc' = [f \in Ends |-> [pc[f] EXCEPT ![k] = "none"]]
    BY <1>3, <1>4
  <2>2. pc' \in [Ends -> [Conns -> Points]]
    BY <1>2, <2>1 DEF Points
  <2>3. /\ \A f \in Ends, j \in Conns : j # k => pc'[f][j] = pc[f][j]
        /\ \A f \in Ends : pc'[f][k] = "none"
    BY <1>2, <2>1
  <2> QED BY <1>2, <1>3, <1>4, <2>2, <2>3 DEF Paired
<1>5. CASE pc[o][k] # "gone"
  <2>1. pc' = [pc EXCEPT ![e][k] = "gone"]
    BY <1>3, <1>5
  <2>2. pc' \in [Ends -> [Conns -> Points]]
    BY <1>2, <2>1 DEF Points
  <2>3. /\ \A f \in Ends, j \in Conns : j # k => pc'[f][j] = pc[f][j]
        /\ pc'[e][k] = "gone" /\ pc'[o][k] = pc[o][k]
    BY <1>2, <2>1
  <2>4. pc[o][k] # "none"
    BY <1>2 DEF Paired
  <2> QED BY <1>2, <1>3, <2>2, <2>3, <2>4 DEF Paired
<1> QED BY <1>4, <1>5

\* A dial takes a number that is free at both ends.
LEMMA DialledFacts ==
  ASSUME 0 \notin Conns, BindInv, NEW k \in Conns, NEW point \in Points \ {"none"}, Bind!Dialled(k, point)
  PROVE  /\ pc' \in [Ends -> [Conns -> Points]] /\ sock' \in [Ends -> SUBSET Conns]
         /\ \A e \in Ends : sock'[e] = sock[e] \cup {k} /\ pc[e][k] = "none" /\ table[e] # k
         /\ \A e \in Ends, j \in Conns : j # k => pc'[e][j] = pc[e][j]
         /\ pc'["client"][k] = point /\ pc'["server"][k] = "accepted"
         /\ Paired'
<1> USE DEF Ends
<1>1. /\ pc["client"][k] = "none" /\ Bind!Ends = Ends
      /\ pc' = [pc EXCEPT !["client"][k] = point, !["server"][k] = "accepted"]
      /\ sock' = [e \in Ends |-> sock[e] \cup {k}]
  BY DEF Bind!Dialled, Bind!Ends
<1>2. pc \in [Ends -> [Conns -> Points]] /\ sock \in [Ends -> SUBSET Conns] /\ Paired
  BY DEF BindInv, BindTyped
<1>3. \A e \in Ends : pc[e][k] = "none"
  BY <1>1, <1>2 DEF Paired
<1>4. \A e \in Ends : table[e] # k
  BY <1>3 DEF BindInv, CarrierRead
<1>5. /\ pc' \in [Ends -> [Conns -> Points]]
      /\ \A e \in Ends, j \in Conns : j # k => pc'[e][j] = pc[e][j]
      /\ pc'["client"][k] = point /\ pc'["server"][k] = "accepted"
  BY <1>1, <1>2 DEF Points
<1>6. sock' \in [Ends -> SUBSET Conns] /\ \A e \in Ends : sock'[e] = sock[e] \cup {k}
  BY <1>1, <1>2
<1>7. Paired'
  BY <1>2, <1>5 DEF Paired
<1> QED BY <1>3, <1>4, <1>5, <1>6, <1>7

LEMMA DialInv ==
  ASSUME 0 \notin Conns, BindInv, NEW k \in Conns, Bind!OpenClient(k) \/ Bind!Redial(k)
  PROVE  BindInv'
<1> USE DEF Ends, Bind!Ends, Bind!Open
<1>1. CASE Bind!OpenClient(k)
  <2>1. /\ life["client"] = "new" /\ Bind!Dialled(k, "reading")
        /\ life' = [life EXCEPT !["client"] = "open"] /\ table' = [table EXCEPT !["client"] = k]
        /\ view' = [view EXCEPT !["client"] = TRUE]
        /\ UNCHANGED <<redial, session, waiting>>
    BY <1>1 DEF Bind!OpenClient, Bind!srvVars
  <2>2. /\ pc' \in [Ends -> [Conns -> Points]] /\ sock' \in [Ends -> SUBSET Conns]
        /\ \A e \in Ends : sock'[e] = sock[e] \cup {k} /\ pc[e][k] = "none" /\ table[e] # k
        /\ \A e \in Ends, j \in Conns : j # k => pc'[e][j] = pc[e][j]
        /\ pc'["client"][k] = "reading" /\ pc'["server"][k] = "accepted" /\ Paired'
    BY <2>1, DialledFacts DEF Points
  <2>3. BindTyped'
    BY <2>1, <2>2 DEF BindInv, BindTyped
  <2>4. /\ table'["client"] = k /\ table'["server"] = table["server"]
        /\ life'["client"] = "open" /\ life'["server"] = life["server"]
        /\ view'["client"] = TRUE /\ view'["server"] = view["server"]
        /\ table["server"] \in Conns \cup {0} /\ waiting \in Conns \cup {0}
    BY <2>1 DEF BindInv, BindTyped
  <2>5. CarrierRead' /\ Replaces'
    BY <2>1, <2>2, <2>4 DEF BindInv, CarrierRead, Replaces
  <2>6. RedialsAlone'
    BY <2>1, <2>2, <2>4 DEF BindInv, RedialsAlone
  <2>7. Bind!ViewFollowsTable'
    BY <2>1, <2>2, <2>4 DEF BindInv, Bind!ViewFollowsTable
  <2>8. Bind!NothingLeftBehind'
    BY <2>1, <2>2, <2>3, <2>4 DEF BindInv, BindTyped, Bind!NothingLeftBehind
  <2> QED BY <2>2, <2>3, <2>5, <2>6, <2>7, <2>8 DEF BindInv
<1>2. CASE Bind!Redial(k)
  <2>1. /\ redial /\ Bind!Dialled(k, "dialled") /\ redial' = FALSE
        /\ UNCHANGED <<life, table, view, session, waiting>>
    BY <1>2 DEF Bind!Redial, Bind!srvVars
  <2>2. /\ pc' \in [Ends -> [Conns -> Points]] /\ sock' \in [Ends -> SUBSET Conns]
        /\ \A e \in Ends : sock'[e] = sock[e] \cup {k} /\ pc[e][k] = "none" /\ table[e] # k
        /\ \A e \in Ends, j \in Conns : j # k => pc'[e][j] = pc[e][j]
        /\ pc'["client"][k] = "dialled" /\ pc'["server"][k] = "accepted" /\ Paired'
    BY <2>1, DialledFacts DEF Points
  <2>3. BindTyped'
    BY <2>1, <2>2 DEF BindInv, BindTyped
  <2>4. CarrierRead' /\ Replaces'
    <3>1. (\A e \in Ends : table[e] \in Conns \cup {0}) /\ waiting \in Conns \cup {0}
      BY DEF BindInv, BindTyped
    <3> QED BY <2>1, <2>2, <3>1 DEF BindInv, CarrierRead, Replaces
  <2>5. RedialsAlone'
    BY <2>1, <2>2 DEF BindInv, RedialsAlone
  <2>6. Bind!ViewFollowsTable'
    BY <2>1, <2>2 DEF BindInv, Bind!ViewFollowsTable
  <2>7. Bind!NothingLeftBehind'
    BY <2>1, <2>2, <2>3 DEF BindInv, BindTyped, Bind!NothingLeftBehind
  <2> QED BY <2>2, <2>3, <2>4, <2>5, <2>6, <2>7 DEF BindInv
<1> QED BY <1>1, <1>2

\* A connection is registered: the bind is open, and at the client no other is.
LEMMA RegisterInv ==
  ASSUME 0 \notin Conns, BindInv, NEW e \in Ends, NEW k \in Conns, Bind!Register(e, k),
         life[e] = "open", pc[e][k] = IF e = "client" THEN "dialled" ELSE "accepted",
         UNCHANGED <<life, redial, session, sock>>,
         waiting' = waiting \/ (e = "server" /\ waiting' = 0),
         e = "server" => waiting' = 0
  PROVE  BindInv'
<1> USE DEF Ends, Bind!Ends, Bind!Open
<1>1. /\ table' = [table EXCEPT ![e] = k] /\ pc' = [pc EXCEPT ![e][k] = "reading"]
      /\ view' = [view EXCEPT ![e] = (e = "server" => session)]
  BY DEF Bind!Register
<1>2. BindTyped
  BY DEF BindInv
<1>3. BindTyped'
  BY <1>1, <1>2 DEF BindTyped, Points
<1>4. /\ table'[e] = k /\ pc'[e][k] = "reading" /\ view'[e] = (e = "server" => session)
      /\ \A f \in Ends \ {e} : table'[f] = table[f] /\ pc'[f] = pc[f] /\ view'[f] = view[f]
      /\ \A j \in Conns \ {k} : pc'[e][j] = pc[e][j]
  BY <1>1, <1>2 DEF BindTyped
<1>5. CarrierRead'
  BY <1>2, <1>4 DEF BindInv, BindTyped, CarrierRead
<1>6. Paired'
  BY <1>4 DEF BindInv, Paired
<1>7. Replaces'
  BY <1>2, <1>4 DEF BindInv, BindTyped, Replaces
<1>8. RedialsAlone'
  BY <1>4 DEF BindInv, RedialsAlone
<1>9. Bind!ViewFollowsTable'
  BY <1>4 DEF BindInv, Bind!ViewFollowsTable
<1>10. Bind!NothingLeftBehind'
  BY <1>2, <1>4 DEF BindInv, BindTyped, Bind!NothingLeftBehind, RedialsAlone
<1> QED BY <1>3, <1>5, <1>6, <1>7, <1>8, <1>9, <1>10 DEF BindInv

\* An end is done with a connection that it does not, or no longer, use.
LEMMA FinishInv ==
  ASSUME 0 \notin Conns, BindInv, NEW e \in Ends, NEW k \in Conns, pc[e][k] # "none",
         Bind!Finish(e, k), UNCHANGED <<life, session, waiting>>,
         e = "server" => waiting = 0,
         table' = [table EXCEPT ![e] = IF table[e] = k THEN 0 ELSE table[e]],
         view' = [view EXCEPT ![e] = IF table[e] = k THEN FALSE ELSE view[e]],
         redial' = (redial \/ (e = "client" /\ table[e] = k))
  PROVE  BindInv'
<1> USE DEF Ends, Bind!Ends, Bind!Open
<1>1. PICK o \in Ends : o # e
  OBVIOUS
<1>2. /\ pc' \in [Ends -> [Conns -> Points]] /\ sock' \in [Ends -> SUBSET Conns]
      /\ sock'[e] = sock[e] \ {k} /\ sock'[o] = sock[o]
      /\ \A f \in Ends, j \in Conns : j # k => pc'[f][j] = pc[f][j]
      /\ pc'[e][k] \in {"none", "gone"}
      /\ pc'[o][k] = pc[o][k] \/ (pc[o][k] = "gone" /\ pc'[o][k] = "none")
      /\ Paired'
  BY <1>1, FinishFacts
<1>3. BindTyped
  BY DEF BindInv
<1>4. /\ table'[e] = (IF table[e] = k THEN 0 ELSE table[e]) /\ table'[o] = table[o]
      /\ view'[e] = (IF table[e] = k THEN FALSE ELSE view[e]) /\ view'[o] = view[o]
  BY <1>1, <1>3 DEF BindTyped
<1>5. BindTyped'
  BY <1>2, <1>3 DEF BindTyped
<1>6. CarrierRead'
  <2>1. table[e] \in Conns \cup {0} /\ table[o] \in Conns \cup {0}
    BY <1>3 DEF BindTyped
  <2>2. table'[e] # 0 => life'[e] = "open" /\ pc'[e][table'[e]] = "reading"
    BY <1>2, <1>4, <2>1 DEF BindInv, CarrierRead
  <2>3. table'[o] # 0 => life'[o] = "open" /\ pc'[o][table'[o]] = "reading"
    BY <1>2, <1>4, <2>1 DEF BindInv, CarrierRead
  <2> QED BY <1>1, <2>2, <2>3 DEF CarrierRead
<1>7. Replaces'
  BY <1>1, <1>2, <1>3 DEF BindInv, BindTyped, Replaces
<1>8. RedialsAlone'
  <2>1. \A j \in Conns : pc'["client"][j] = "dialled" => pc["client"][j] = "dialled"
    BY <1>1, <1>2
  <2>2. table["client"] = 0 => table'["client"] = 0
    BY <1>1, <1>4
  <2>3. table["client"] # 0 => life["client"] # "new"
    BY DEF BindInv, CarrierRead
  <2> QED BY <1>4, <2>1, <2>2, <2>3 DEF BindInv, RedialsAlone
<1>9. Bind!ViewFollowsTable'
  <2>1. ASSUME NEW f \in Ends, life[f] = "open", f = "server" => session
        PROVE  /\ view'[f] => table'[f] # 0
               /\ table'[f] # 0 /\ table'[f] \in sock'[f] => view'[f]
    <3>1. /\ view[f] => table[f] # 0
          /\ table[f] # 0 /\ table[f] \in sock[f] => view[f]
      BY <2>1 DEF BindInv, Bind!ViewFollowsTable
    <3>2. CASE f = e /\ table[e] = k
      BY <1>4, <3>2
    <3>3. CASE f = o \/ table[e] # k
      <4>1. table'[f] = table[f] /\ view'[f] = view[f] /\ sock'[f] \subseteq sock[f]
        BY <1>1, <1>2, <1>4, <3>3
      <4> QED BY <3>1, <4>1
    <3> QED BY <1>1, <3>2, <3>3
  <2> QED BY <2>1 DEF Bind!ViewFollowsTable
<1>10. Bind!NothingLeftBehind'
  <2> SUFFICES ASSUME NEW j \in sock'["client"]
               PROVE  \/ pc'["client"][j] = "dialled"
                      \/ life["client"] = "open" /\ table'["client"] = j
    BY DEF Bind!NothingLeftBehind
  <2>1. j \in sock["client"] /\ j \in Conns
    BY <1>1, <1>2, <1>3 DEF BindTyped
  <2>2. pc["client"][j] = "dialled" \/ (life["client"] = "open" /\ table["client"] = j)
    BY <2>1 DEF BindInv, Bind!NothingLeftBehind
  <2>3. CASE e = "client"
    <3>1. j # k
      BY <1>2, <2>3
    <3> QED BY <1>2, <1>4, <2>1, <2>2, <2>3, <3>1
  <2>4. CASE e = "server"
    BY <1>1, <1>2, <1>4, <2>1, <2>2, <2>4
  <2> QED BY <2>3, <2>4
<1> QED BY <1>2, <1>5, <1>6, <1>7, <1>8, <1>9, <1>10 DEF BindInv

\* Sockets are closed, and of a carrier that is, the layer above may be told.
LEMMA ShutInv ==
  ASSUME BindInv, UNCHANGED <<life, table, pc, session>>, Replaces',
         redial' \in BOOLEAN, redial' => redial, waiting' \in Conns \cup {0},
         sock' \in [Ends -> SUBSET Conns], view' \in [Ends -> BOOLEAN],
         \A e \in Ends : /\ sock'[e] \subseteq sock[e]
                         /\ view'[e] = view[e] \/ (~view'[e] /\ table[e] \notin sock'[e])
  PROVE  BindInv'
<1> USE DEF Ends, Bind!Ends, Bind!Open
<1>1. BindTyped'
  BY DEF BindInv, BindTyped
<1>2. CarrierRead' /\ Paired'
  BY DEF BindInv, CarrierRead, Paired
<1>3. RedialsAlone'
  BY DEF BindInv, RedialsAlone
<1>4. Bind!ViewFollowsTable'
  <2>1. ASSUME NEW f \in Ends, life[f] = "open", f = "server" => session
        PROVE  /\ view'[f] => table[f] # 0
               /\ table[f] # 0 /\ table[f] \in sock'[f] => view'[f]
    <3>1. /\ view[f] => table[f] # 0
          /\ table[f] # 0 /\ table[f] \in sock[f] => view[f]
      BY <2>1 DEF BindInv, Bind!ViewFollowsTable
    <3> QED BY <3>1
  <2> QED BY <2>1 DEF Bind!ViewFollowsTable
<1>5. Bind!NothingLeftBehind'
  BY DEF BindInv, Bind!NothingLeftBehind
<1> QED BY <1>1, <1>2, <1>3, <1>4, <1>5 DEF BindInv

\* The table of an end is emptied and its carrier closed: the end of the
\* session, or of the bind.
LEMMA EmptyInv ==
  ASSUME 0 \notin Conns, BindInv, NEW e \in Ends, e = "server" => waiting = 0,
         UNCHANGED <<pc, redial, waiting>>, table' = [table EXCEPT ![e] = 0],
         sock' = [sock EXCEPT ![e] = @ \ {table[e]}],
         \/ /\ e = "server" /\ session' = FALSE /\ life' = life
            /\ view' = [view EXCEPT ![e] = FALSE]
         \/ session' = session /\ view' = view /\ life' = [life EXCEPT ![e] = "closed"]
  PROVE  BindInv'
<1> USE DEF Ends, Bind!Ends, Bind!Open
<1>1. BindTyped
  BY DEF BindInv
<1>2. BindTyped'
  <2>1. life' \in [Ends -> {"new", "open", "closed"}] /\ session' \in BOOLEAN
    BY <1>1 DEF BindTyped
  <2>2. view' \in [Ends -> BOOLEAN]
    BY <1>1 DEF BindTyped
  <2>3. table' \in [Ends -> Conns \cup {0}] /\ sock' \in [Ends -> SUBSET Conns]
    BY <1>1 DEF BindTyped
  <2> QED BY <1>1, <2>1, <2>2, <2>3 DEF BindTyped
<1>3. /\ table'[e] = 0 /\ sock'[e] = sock[e] \ {table[e]}
      /\ \A f \in Ends \ {e} : /\ table'[f] = table[f] /\ sock'[f] = sock[f]
                                /\ life'[f] = life[f] /\ view'[f] = view[f]
  BY <1>1 DEF BindTyped
<1>4. /\ \A f \in Ends : life'[f] = life[f] \/ (f = e /\ life'[f] = "closed")
      /\ life'[e] = "open" => e = "server" /\ ~session'
  BY <1>1 DEF BindTyped
<1>5. CarrierRead' /\ Paired' /\ Replaces'
  BY <1>3, <1>4 DEF BindInv, CarrierRead, Paired, Replaces
<1>6. RedialsAlone'
  BY <1>3, <1>4 DEF BindInv, RedialsAlone
<1>7. Bind!ViewFollowsTable'
  <2>1. ASSUME NEW f \in Ends, life'[f] = "open", f = "server" => session'
        PROVE  /\ view'[f] => table'[f] # 0
               /\ table'[f] # 0 /\ table'[f] \in sock'[f] => view'[f]
    <3>1. f # e
      BY <1>4, <2>1
    <3>2. life[f] = "open" /\ (f = "server" => session)
      BY <1>3, <2>1, <3>1
    <3> QED BY <1>3, <3>1, <3>2 DEF BindInv, Bind!ViewFollowsTable
  <2> QED BY <2>1 DEF Bind!ViewFollowsTable
<1>8. Bind!NothingLeftBehind'
  BY <1>1, <1>3 DEF BindInv, BindTyped, Bind!NothingLeftBehind
<1> QED BY <1>2, <1>5, <1>6, <1>7, <1>8 DEF BindInv

\* Everything that at most closes a socket and reports it.
LEMMA QuietInv ==
  ASSUME 0 \notin Conns, BindInv,
         \/ \E k \in Conns : \/ Bind!Ping(k) \/ Bind!Reset(k) \/ Bind!Silence(k)
                             \/ \E e \in Ends : Bind!Spill(e, k) \/ Bind!Write(e, k)
         \/ \E e \in Ends : Bind!Send(e)
         \/ Bind!RedialEnds
         \/ UNCHANGED Bind!vars
  PROVE  BindInv'
<1> USE DEF Ends, Bind!Ends
<1>1. UNCHANGED <<life, table, pc, session, waiting>> /\ (redial' = redial \/ redial' = FALSE)
  BY DEF Bind!Ping, Bind!Reset, Bind!Silence, Bind!Spill, Bind!Write, Bind!Send, Bind!RedialEnds,
     Bind!srvVars, Bind!vars
<1>2. BindTyped /\ Replaces'
  BY <1>1 DEF BindInv, Replaces
<1>3. redial' \in BOOLEAN /\ (redial' => redial) /\ waiting' \in Conns \cup {0}
  <2>1. redial \in BOOLEAN /\ waiting \in Conns \cup {0}
    BY <1>2 DEF BindTyped
  <2>2. CASE redial' = redial
    BY <1>1, <2>1, <2>2
  <2>3. CASE redial' = FALSE
    BY <1>1, <2>1, <2>3
  <2> QED BY <1>1, <2>2, <2>3
<1>4. \/ UNCHANGED <<sock, view>>
      \/ view' = view /\ \E k \in Conns : sock' = [e \in Ends |-> sock[e] \ {k}]
      \/ \E e \in Ends, k \in Conns :
           /\ sock' = [sock EXCEPT ![e] = @ \ {k}]
           /\ view' = view \/ (table[e] = k /\ view' = [view EXCEPT ![e] = FALSE])
  <2>1. CASE \E k \in Conns : Bind!Ping(k)
    BY <2>1 DEF Bind!Ping, Bind!Shut
  <2>2. CASE \E k \in Conns : Bind!Reset(k) \/ Bind!Silence(k)
    BY <2>2 DEF Bind!Reset, Bind!Silence
  <2>3. ASSUME NEW k \in Conns, NEW e \in Ends, Bind!Spill(e, k) \/ Bind!Write(e, k)
        PROVE  \/ UNCHANGED <<sock, view>>
               \/ /\ sock' = [sock EXCEPT ![e] = @ \ {k}]
                  /\ view' = view \/ (table[e] = k /\ view' = [view EXCEPT ![e] = FALSE])
    BY <2>3 DEF Bind!Spill, Bind!Write, Bind!Fail, Bind!Shut
  <2>4. CASE (\E e \in Ends : Bind!Send(e)) \/ Bind!RedialEnds \/ UNCHANGED Bind!vars
    BY <2>4 DEF Bind!Send, Bind!RedialEnds, Bind!vars, Bind!netVars
  <2> QED BY <2>1, <2>2, <2>3, <2>4
<1>5. /\ sock' \in [Ends -> SUBSET Conns] /\ view' \in [Ends -> BOOLEAN]
      /\ \A e \in Ends : /\ sock'[e] \subseteq sock[e]
                         /\ view'[e] = view[e] \/ (~view'[e] /\ table[e] \notin sock'[e])
  <2>1. sock \in [Ends -> SUBSET Conns] /\ view \in [Ends -> BOOLEAN]
    BY <1>2 DEF BindTyped
  <2>2. CASE view' = view /\ \E k \in Conns : sock' = [e \in Ends |-> sock[e] \ {k}]
    BY <2>1, <2>2
  <2>3. ASSUME NEW e \in Ends, NEW k \in Conns, sock' = [sock EXCEPT ![e] = @ \ {k}],
               view' = view \/ (table[e] = k /\ view' = [view EXCEPT ![e] = FALSE])
        PROVE  /\ sock' \in [Ends -> SUBSET Conns] /\ view' \in [Ends -> BOOLEAN]
               /\ \A f \in Ends : /\ sock'[f] \subseteq sock[f]
                                  /\ view'[f] = view[f] \/ (~view'[f] /\ table[f] \notin sock'[f])
    BY <2>1, <2>3
  <2> QED BY <1>4, <2>1, <2>2, <2>3
<1> QED BY <1>1, <1>2, <1>3, <1>5, ShutInv

LEMMA ServeInv ==
  ASSUME 0 \notin Conns, BindInv, NEW k \in Conns, Bind!Serve(k) \/ Bind!ServeReplaces(k)
  PROVE  BindInv'
<1> USE DEF Ends, Bind!Ends, Bind!Open
<1>1. BindTyped
  BY DEF BindInv
<1>2. CASE Bind!ServeReplaces(k)
  <2>1. waiting = k /\ Bind!Register("server", k) /\ waiting' = 0 /\ UNCHANGED <<life, redial, session, sock>>
    BY <1>2 DEF Bind!ServeReplaces, Bind!netVars
  <2>2. life["server"] = "open" /\ pc["server"][k] = "accepted"
    BY <2>1 DEF BindInv, Replaces
  <2> QED BY <2>1, <2>2, RegisterInv
<1>3. CASE Bind!Serve(k)
  <2>1. pc["server"][k] = "accepted" /\ waiting = 0 /\ UNCHANGED <<life, redial, session>>
    BY <1>3 DEF Bind!Serve
  <2>2. CASE ~Bind!Open("server") /\ Bind!Finish("server", k) /\ UNCHANGED <<table, view, waiting>>
    <3>1. table["server"] = 0 /\ k # 0
      BY <2>2 DEF BindInv, CarrierRead
    <3>2. /\ table' = [table EXCEPT !["server"] = IF table["server"] = k THEN 0 ELSE table["server"]]
          /\ view' = [view EXCEPT !["server"] = IF table["server"] = k THEN FALSE ELSE view["server"]]
          /\ redial' = (redial \/ ("server" = "client" /\ table["server"] = k))
      BY <1>1, <2>1, <2>2, <3>1 DEF BindTyped
    <3> QED BY <2>1, <2>2, <3>2, FinishInv
  <2>3. CASE /\ Bind!Open("server") /\ Bind!Register("server", k)
             /\ UNCHANGED <<waiting, sock>>
    BY <2>1, <2>3, RegisterInv
  <2>4. CASE /\ Bind!Open("server") /\ Bind!Shut("server", table["server"]) /\ waiting' = k
             /\ UNCHANGED <<table, view, pc>>
    <3>1. sock' = [sock EXCEPT !["server"] = @ \ {table["server"]}]
      BY <2>4 DEF Bind!Shut
    <3>2. sock' \in [Ends -> SUBSET Conns] /\ \A e \in Ends : sock'[e] \subseteq sock[e]
      BY <1>1, <3>1 DEF BindTyped
    <3>3. Replaces'
      BY <2>1, <2>4 DEF Replaces
    <3> QED BY <1>1, <2>1, <2>4, <3>2, <3>3, ShutInv DEF BindTyped
  <2> QED BY <1>3, <2>2, <2>3, <2>4 DEF Bind!Serve, Bind!netVars
<1> QED BY <1>2, <1>3

LEMMA ReadEndsInv ==
  ASSUME 0 \notin Conns, BindInv, NEW e \in Ends, NEW k \in Conns, Bind!ReadEnds(e, k)
  PROVE  BindInv'
BY FinishInv DEF Bind!ReadEnds, Bind!Free, Bind!srvVars, Ends

LEMMA RedialRegistersInv ==
  ASSUME 0 \notin Conns, BindInv, NEW k \in Conns, Bind!RedialRegisters(k)
  PROVE  BindInv'
<1> USE DEF Ends, Bind!Ends, Bind!Open
<1>1. pc["client"][k] = "dialled" /\ UNCHANGED <<life, redial, session, waiting>>
  BY DEF Bind!RedialRegisters, Bind!srvVars
<1>2. CASE Bind!Open("client") /\ Bind!Register("client", k) /\ UNCHANGED sock
  BY <1>1, <1>2, RegisterInv
<1>3. CASE Bind!Finish("client", k) /\ UNCHANGED <<table, view>>
  <2>1. table["client"] = 0 /\ k # 0 /\ BindTyped
    BY <1>1 DEF BindInv, RedialsAlone
  <2>2. /\ table' = [table EXCEPT !["client"] = IF table["client"] = k THEN 0 ELSE table["client"]]
        /\ view' = [view EXCEPT !["client"] = IF table["client"] = k THEN FALSE ELSE view["client"]]
        /\ redial' = (redial \/ ("client" = "client" /\ table["client"] = k))
    BY <1>1, <1>3, <2>1 DEF BindTyped
  <2> QED BY <1>1, <1>3, <2>2, FinishInv
<1> QED BY <1>2, <1>3 DEF Bind!RedialRegisters, Bind!netVars

LEMMA CloseInv ==
  ASSUME 0 \notin Conns, BindInv, Bind!CloseSession \/ \E e \in Ends : Bind!Close(e)
  PROVE  BindInv'
<1> USE DEF Ends
<1>1. CASE Bind!CloseSession
  BY <1>1, EmptyInv DEF Bind!CloseSession, Bind!Shut
<1>2. ASSUME NEW e \in Ends, Bind!Close(e) PROVE BindInv'
  BY <1>2, EmptyInv DEF Bind!Close, Bind!Shut, Bind!Free, Bind!srvVars
<1> QED BY <1>1, <1>2

LEMMA BindNext == ASSUME 0 \notin Conns, BindInv, [Bind!Next]_Bind!vars PROVE BindInv'
<1> USE DEF Ends, Bind!Ends
<1>1. ASSUME NEW k \in Conns, Bind!Goroutine(k) \/ Bind!OpenClient(k) \/ Bind!Reset(k) \/ Bind!Silence(k)
      PROVE  BindInv'
  BY <1>1, QuietInv, ServeInv, ReadEndsInv, RedialRegistersInv, DialInv DEF Bind!Goroutine
<1>2. CASE \E e \in Ends : Bind!Send(e) \/ Bind!Close(e)
  BY <1>2, QuietInv, CloseInv
<1>3. CASE Bind!RedialEnds \/ Bind!CloseSession \/ UNCHANGED Bind!vars
  BY <1>3, QuietInv, CloseInv
<1> QED BY <1>1, <1>2, <1>3 DEF Bind!Next

\* However late the goroutines of an old connection end, read's deferred call
\* and reportWriteFailure take only the carrier in the table down: what the
\* layer above was told is what the table says, and every connection open at
\* the client is its carrier or the one that redial is about to register or
\* close. For any number of connections and faults and any depth of queue.
THEOREM BindIsSound == Bind!Spec => []BindSound
<1>1. Bind!Init => BindInv
  BY BindInit, BindConstants
<1>2. BindInv /\ [Bind!Next]_Bind!vars => BindInv'
  BY BindNext, BindConstants
<1>3. BindInv => BindSound
  BY DEF BindInv, BindSound, Bind!BindSound
<1> QED BY <1>1, <1>2, <1>3, PTL DEF Bind!Spec

(***************************************************************************)
(* The upgrade loop (TransportUpgrade): what its rung stands on.           *)
(***************************************************************************)
UpgradeTyped ==
  /\ multipath \in BOOLEAN /\ tier \in BOOLEAN /\ wss \in BOOLEAN /\ closed \in BOOLEAN
  /\ relayCandidate \in BOOLEAN /\ directCandidate \in BOOLEAN
  /\ relayStop \in BOOLEAN /\ stray \in BOOLEAN
  /\ works \subseteq Upgrade!UDPPaths /\ endpoint \in Upgrade!UDPPaths \cup {"wss"}
  /\ sound \subseteq seeded /\ seeded \subseteq Upgrade!UDPPaths
  /\ at \in Upgrade!Steps /\ state \in {"WSSRelay", "UDPRelay", "Direct"}

\* The rungs an attempt may be under way from.
AttemptFrom ==
  /\ at \in {"relay", "relayProbe"} => state = "WSSRelay"
  /\ at \in {"direct", "directSeed", "directProbe"} => state # "Direct"

\* The rung has its candidate in the middle of an attempt as well, and the
\* relay candidate its keepalive, until the loop ends.
LegKept ==
  /\ at # "done" =>
       /\ state = "UDPRelay" => relayCandidate
       /\ state = "Direct" => directCandidate
       /\ relayCandidate => relayStop
  /\ at = "done" => ~relayStop

\* Without multipath the keepalive runs for the candidate only, and never on
\* the WebSocket's rung: the next one to start is not a second one.
LegAlone ==
  ~multipath =>
    /\ ~stray
    /\ relayStop => relayCandidate /\ state # "WSSRelay"

UpgradeInv == UpgradeTyped /\ AttemptFrom /\ LegKept /\ LegAlone

LEMMA UpgradeInit == Upgrade!Init => UpgradeInv
BY DEF Upgrade!Init, Upgrade!UDPPaths, Upgrade!Steps, UpgradeInv, UpgradeTyped, AttemptFrom, LegKept, LegAlone

LEMMA UpgradeStep == UpgradeInv /\ [Upgrade!Next]_Upgrade!vars => UpgradeInv'
<1> SUFFICES ASSUME UpgradeInv, [Upgrade!Next]_Upgrade!vars PROVE UpgradeInv'
  OBVIOUS
<1> USE DEF UpgradeInv, UpgradeTyped, AttemptFrom, LegKept, LegAlone, Upgrade!UDPPaths, Upgrade!Steps,
            Upgrade!envVars, Upgrade!netVars, Upgrade!candVars, Upgrade!loopVars, Upgrade!Goto,
            Upgrade!NoRelay, Upgrade!Updates, Upgrade!NextState
<1>1. CASE Upgrade!Tick
  BY <1>1 DEF Upgrade!Tick
<1>2. CASE Upgrade!RequestRelay
  BY <1>2 DEF Upgrade!RequestRelay
<1>3. CASE Upgrade!RelayUnavailable
  BY <1>3 DEF Upgrade!RelayUnavailable
<1>4. CASE Upgrade!RelayRefused
  BY <1>4 DEF Upgrade!RelayRefused
<1>5. CASE Upgrade!SeedRelay
  BY <1>5 DEF Upgrade!SeedRelay
<1>6. CASE Upgrade!RelayEstablished
  BY <1>6 DEF Upgrade!RelayEstablished
<1>7. CASE Upgrade!RelayFails
  BY <1>7 DEF Upgrade!RelayFails
<1>8. CASE Upgrade!RequestDirect
  BY <1>8 DEF Upgrade!RequestDirect
<1>9. CASE Upgrade!DirectRefused
  BY <1>9 DEF Upgrade!DirectRefused
<1>10. CASE Upgrade!SeedDirect
  BY <1>10 DEF Upgrade!SeedDirect
<1>11. CASE Upgrade!DirectEstablished
  BY <1>11 DEF Upgrade!DirectEstablished
<1>12. CASE Upgrade!DirectFails
  BY <1>12 DEF Upgrade!DirectFails
<1>13. CASE Upgrade!RelayHealthy
  BY <1>13 DEF Upgrade!RelayHealthy
<1>14. CASE Upgrade!RelayLost
  BY <1>14 DEF Upgrade!RelayLost
<1>15. CASE Upgrade!DirectHealthy
  BY <1>15 DEF Upgrade!DirectHealthy
<1>16. CASE Upgrade!DirectLost
  BY <1>16 DEF Upgrade!DirectLost, Upgrade!RelayAvailable, Upgrade!Fallback
<1>17. CASE Upgrade!RevertFails
  BY <1>17 DEF Upgrade!RevertFails
<1>18. CASE Upgrade!Close
  BY <1>18 DEF Upgrade!Close
<1>19. CASE Upgrade!Probed
  <2>1. sound' \subseteq seeded' /\ seeded' \subseteq Upgrade!UDPPaths
    BY <1>19 DEF Upgrade!Probed
  <2>2. UNCHANGED <<Upgrade!envVars, endpoint, closed, Upgrade!loopVars>>
    BY <1>19 DEF Upgrade!Probed
  <2> QED BY <2>1, <2>2
<1>20. CASE Upgrade!WebSocketChanges \/ Upgrade!TierChanges
  <2>1. wss' \in BOOLEAN /\ tier' \in BOOLEAN
    BY <1>20 DEF Upgrade!WebSocketChanges, Upgrade!TierChanges
  <2>2. UNCHANGED <<multipath, works, Upgrade!netVars, closed, Upgrade!loopVars>>
    BY <1>20 DEF Upgrade!WebSocketChanges, Upgrade!TierChanges
  <2> QED BY <2>1, <2>2
<1>21. ASSUME NEW p \in Upgrade!UDPPaths, Upgrade!PathChanges(p) PROVE UpgradeInv'
  BY <1>21 DEF Upgrade!PathChanges
<1>22. ASSUME NEW e \in Upgrade!UDPPaths \cup {"wss"}, Upgrade!Roam(e) PROVE UpgradeInv'
  BY <1>22 DEF Upgrade!Roam
<1>23. CASE UNCHANGED Upgrade!vars
  BY <1>23 DEF Upgrade!vars
<1> HIDE DEF UpgradeInv
<1> QED
  BY <1>1, <1>2, <1>3, <1>4, <1>5, <1>6, <1>7, <1>8, <1>9, <1>10, <1>11, <1>12, <1>13, <1>14, <1>15,
     <1>16, <1>17, <1>18, <1>19, <1>20, <1>21, <1>22, <1>23 DEF Upgrade!Next, Upgrade!Loop

\* Between ticks the rung of the upgrade loop has what it stands on: the relay
\* leg its keepalive, the direct rung its candidate, and without multipath no
\* revert, retry or Close leaves a keepalive that nobody can stop.
THEOREM RungsAreBacked == Upgrade!Spec => []RungBacked
<1>1. UpgradeInv => RungBacked
  BY DEF UpgradeInv, UpgradeTyped, LegKept, LegAlone, RungBacked, Upgrade!TypeOK, Upgrade!RungBacked
<1> QED BY <1>1, UpgradeInit, UpgradeStep, PTL DEF Upgrade!Spec

(***************************************************************************)
(* A stream through the tunnel (StreamRelay).                              *)
(***************************************************************************)
StreamTyped ==
  /\ kind \in Stream!Chains
  /\ sent \in [Stream!Dirs -> Nat] /\ got \in [Stream!Dirs -> Nat]
  /\ flying \in [0 .. 2 -> [Stream!Dirs -> Nat]]
  /\ shut \subseteq (0 .. 2) \X Stream!Dirs
  /\ shutDown \subseteq (0 .. 2) \X {"near", "far"}
  /\ pump \in [Stream!Hops -> [Stream!Dirs -> {"copy", "ok", "failed", "done"}]]
  /\ active \subseteq Stream!Hops /\ gone \in BOOLEAN

\* Nothing is made up on the way: what was sent has arrived or is in one of
\* the three connections.
Conserved ==
  \A d \in Stream!Dirs : sent[d] = got[d] + flying[0][d] + flying[1][d] + flying[2][d]

\* A hop closes its two connections together, and ends what it writes only
\* after it has stopped writing.
EndsTogether ==
  \A h \in Stream!Hops : <<h - 1, "far">> \in shutDown <=> <<h, "near">> \in shutDown

ShutAfterCopy ==
  \A h \in Stream!Hops, d \in Stream!Dirs :
    <<Stream!To(h, d), d>> \in shut => pump[h][d] = "done"

HopClosed(h) == <<h, "near">> \in shutDown
NeighbourClosed(h) == <<h - 1, "near">> \in shutDown \/ <<h, "far">> \in shutDown

\* The directions of connections that are at their end, and those with
\* something to read.
Ended == {x \in (0 .. 2) \X Stream!Dirs : Stream!AtEnd(x[1], x[2])}
Unread == {x \in (0 .. 2) \X Stream!Dirs : flying[x[1]][x[2]] > 0}

\* What a copy that has returned says of what it read from: without an
\* error it read all of it, and with one the hop is closed already or the
\* neighbour it writes to.
CopyExplained ==
  \A h \in Stream!Hops, d \in Stream!Dirs :
    /\ pump[h][d] = "ok" => <<Stream!From(h, d), d>> \in Ended
    /\ pump[h][d] = "failed" =>
         HopClosed(h) \/ (/\ <<Stream!From(h, d), d>> \in Unread
                          /\ <<Stream!To(h, d), Stream!Reader(d)>> \in shutDown)
    /\ pump[h][d] = "done" =>
         HopClosed(h) \/ NeighbourClosed(h) \/ <<Stream!From(h, d), d>> \in Ended

\* Why a hop of a TCP tunnel, or of the SOCKS proxy, is closed.
CloseExplained ==
  \A h \in Stream!Hops :
    kind[h] \in {"forward", "socks"} /\ HopClosed(h) =>
      \/ gone \/ NeighbourClosed(h)
      \/ \A d \in Stream!Dirs : <<Stream!From(h, d), d>> \in Ended

\* A part of the question that hop 1 will not pass on any more, and an end
\* of the stream that is not the hops' own doing.
QuestionCut == pump[1]["up"] # "copy" /\ <<0, "up">> \in Unread
ClosedEarly == gone \/ <<0, "near">> \in shutDown \/ <<2, "far">> \in shutDown

\* The answer of a TCP tunnel: where a hop has ended it, everything before
\* has been read, unless part of the question was lost or somebody left.
AnswerRead ==
  kind[1] = "forward" =>
    /\ <<1, "down">> \notin shut
    /\ <<0, "down">> \in shut => <<1, "down">> \in Ended
    /\ pump[1]["down"] = "done" => <<1, "down">> \in Ended \/ HopClosed(1)
    /\ \A h \in Stream!Hops :
         HopClosed(h) => <<h, "down">> \in Ended \/ QuestionCut \/ ClosedEarly

StreamInv ==
  /\ StreamTyped /\ Conserved /\ EndsTogether /\ ShutAfterCopy
  /\ CopyExplained /\ CloseExplained /\ AnswerRead

LEMMA StreamInit == Stream!Init => StreamInv
<1> SUFFICES ASSUME Stream!Init PROVE StreamInv
  OBVIOUS
<1> USE DEF Stream!Init, Stream!Hops, Stream!Dirs
<1>1. StreamTyped /\ EndsTogether /\ ShutAfterCopy
  BY DEF StreamTyped, EndsTogether, ShutAfterCopy
<1>2. Conserved
  BY DEF Conserved
<1>3. CopyExplained /\ CloseExplained /\ AnswerRead
  BY DEF CopyExplained, CloseExplained, AnswerRead, HopClosed, Stream!Chains
<1> QED BY <1>1, <1>2, <1>3 DEF StreamInv

\* What every step leaves as it is, or only adds to.
Onward ==
  /\ kind' = kind /\ shut \subseteq shut' /\ shutDown \subseteq shutDown' /\ (gone => gone')

\* A chunk that is copied leaves one connection for the next.
LEMMA ChunkMoves ==
  ASSUME StreamTyped, NEW h \in Stream!Hops, NEW d \in Stream!Dirs, Stream!CopyChunk(h, d)
  PROVE  /\ flying' \in [0 .. 2 -> [Stream!Dirs -> Nat]]
         /\ \A c \in 0 .. 2, e \in Stream!Dirs :
              flying'[c][e] = IF e = d /\ c = Stream!From(h, d) THEN flying[c][e] - 1
                              ELSE IF e = d /\ c = Stream!To(h, d) THEN flying[c][e] + 1
                              ELSE flying[c][e]
<1> USE DEF Stream!Hops, Stream!Dirs, Stream!From, Stream!To
<1> DEFINE f == Stream!From(h, d)
           t == Stream!To(h, d)
<1>1. f \in 0 .. 2 /\ t \in 0 .. 2 /\ f # t
  OBVIOUS
<1>2. flying \in [0 .. 2 -> [Stream!Dirs -> Nat]] /\ flying[f][d] > 0
  BY DEF StreamTyped, Stream!CopyChunk
<1>3. flying' = [flying EXCEPT ![f][d] = @ - 1, ![t][d] = @ + 1]
  BY DEF Stream!CopyChunk
<1> HIDE DEF f, t
<1>5. flying' \in [0 .. 2 -> [Stream!Dirs -> Nat]]
  BY <1>1, <1>2, <1>3
<1>6. ASSUME NEW c \in 0 .. 2, NEW e \in Stream!Dirs
      PROVE  flying'[c][e] = IF e = d /\ c = f THEN flying[c][e] - 1
                             ELSE IF e = d /\ c = t THEN flying[c][e] + 1
                             ELSE flying[c][e]
  BY <1>1, <1>2, <1>3, <1>6
<1> QED BY <1>5, <1>6 DEF f, t

LEMMA StreamTypes == StreamTyped /\ Stream!Next => StreamTyped' /\ Onward
<1> SUFFICES ASSUME StreamTyped, Stream!Next PROVE StreamTyped' /\ Onward
  OBVIOUS
<1> USE DEF StreamTyped, Onward, Stream!Hops, Stream!Dirs, Stream!Done, Stream!Returns, Stream!Mine,
            Stream!CloseWrite, Stream!From, Stream!To, Stream!Writer, Stream!Reader, Stream!Flip
<1>1. ASSUME NEW h \in Stream!Hops, NEW d \in Stream!Dirs, Stream!CopyChunk(h, d)
      PROVE  StreamTyped' /\ Onward
  BY <1>1, ChunkMoves DEF Stream!CopyChunk
<1>2. ASSUME NEW h \in Stream!Hops, NEW d \in Stream!Dirs, Stream!CopyReturns(h, d)
      PROVE  StreamTyped' /\ Onward
  BY <1>2 DEF Stream!CopyReturns
<1>3. CASE Stream!ForwardEnds
  <2>1. ASSUME NEW d \in Stream!Dirs, Stream!EndsCopy(1, d), UNCHANGED active PROVE StreamTyped' /\ Onward
    BY <1>3, <2>1 DEF Stream!ForwardEnds, Stream!EndsCopy
  <2>2. CASE 1 \in active /\ Stream!Returns(1) /\ UNCHANGED <<pump, shut>>
    BY <1>3, <2>2 DEF Stream!ForwardEnds
  <2> QED BY <1>3, <2>1, <2>2 DEF Stream!ForwardEnds
<1>4. CASE Stream!SocksForwardEnds
  <2>1. CASE Stream!Done(1, "up") /\ UNCHANGED <<shut, shutDown, active>>
    BY <1>4, <2>1 DEF Stream!SocksForwardEnds
  <2>2. CASE Stream!Done(1, "down") /\ Stream!Returns(1) /\ UNCHANGED shut
    BY <1>4, <2>2 DEF Stream!SocksForwardEnds
  <2> QED BY <1>4, <2>1, <2>2 DEF Stream!SocksForwardEnds
<1>5. CASE Stream!FixedEnds
  <2>1. CASE Stream!EndsCopy(2, "up") /\ UNCHANGED active
    BY <1>5, <2>1 DEF Stream!FixedEnds, Stream!EndsCopy
  <2>2. CASE Stream!Done(2, "down") /\ Stream!Returns(2) /\ UNCHANGED shut
    BY <1>5, <2>2 DEF Stream!FixedEnds
  <2> QED BY <1>5, <2>1, <2>2 DEF Stream!FixedEnds
<1>6. CASE Stream!RelayEnds
  <2>1. ASSUME NEW d \in Stream!Dirs, Stream!Done(2, d), Stream!CloseWrite(Stream!To(2, d), d),
               UNCHANGED <<shutDown, active>>
        PROVE  StreamTyped' /\ Onward
    BY <1>6, <2>1 DEF Stream!RelayEnds
  <2>2. CASE Stream!Returns(2) /\ UNCHANGED <<pump, shut>>
    BY <1>6, <2>2 DEF Stream!RelayEnds
  <2> QED BY <1>6, <2>1, <2>2 DEF Stream!RelayEnds
<1>7. CASE Stream!TunnelStops
  BY <1>7 DEF Stream!TunnelStops
<1>8. CASE Stream!GivesUp
  BY <1>8 DEF Stream!GivesUp
<1>9. ASSUME NEW d \in Stream!Dirs, Stream!Send(d) PROVE StreamTyped' /\ Onward
  <2> USE DEF Stream!Send, Stream!Edge
  <2>1. flying' \in [0 .. 2 -> [Stream!Dirs -> Nat]]
    BY <1>9
  <2>2. sent' \in [Stream!Dirs -> Nat]
    BY <1>9
  <2> QED BY <1>9, <2>1, <2>2
<1>10. ASSUME NEW d \in Stream!Dirs, Stream!Receive(d) PROVE StreamTyped' /\ Onward
  <2> USE DEF Stream!Receive, Stream!Far
  <2>1. flying' \in [0 .. 2 -> [Stream!Dirs -> Nat]]
    BY <1>10
  <2>2. got' \in [Stream!Dirs -> Nat]
    BY <1>10
  <2> QED BY <1>10, <2>1, <2>2
<1>11. ASSUME NEW d \in Stream!Dirs, Stream!Finish(d) PROVE StreamTyped' /\ Onward
  BY <1>11 DEF Stream!Finish, Stream!Edge
<1>12. ASSUME NEW d \in Stream!Dirs, Stream!CloseAfterEnd(d) PROVE StreamTyped' /\ Onward
  BY <1>12 DEF Stream!CloseAfterEnd, Stream!Edge
<1> QED BY <1>1, <1>2, <1>3, <1>4, <1>5, <1>6, <1>7, <1>8, <1>9, <1>10, <1>11, <1>12
        DEF Stream!Next, Stream!HopStep, Stream!Copies

\* What was at its end stays there, and what a copy that has returned left
\* unread nobody else reads.
Steady ==
  /\ Ended \subseteq Ended'
  /\ \A k \in Stream!Hops, e \in Stream!Dirs :
       pump[k][e] # "copy" /\ <<Stream!From(k, e), e>> \in Unread => <<Stream!From(k, e), e>> \in Unread'

\* A step that touches no chunk.
LEMMA NothingFlies ==
  ASSUME StreamTyped, Conserved, Onward, UNCHANGED <<sent, got, flying>>
  PROVE  Conserved' /\ Steady
<1>1. Conserved'
  BY DEF Conserved
<1>2. Steady
  BY DEF Steady, Ended, Unread, Onward, Stream!AtEnd
<1> QED BY <1>1, <1>2

LEMMA StreamFlows ==
  ASSUME StreamTyped, Conserved, Onward, Stream!Next
  PROVE  Conserved' /\ Steady
<1> USE DEF Stream!Hops, Stream!Dirs, Stream!From, Stream!To
<1>1. ASSUME NEW h \in Stream!Hops, NEW d \in Stream!Dirs, Stream!CopyChunk(h, d)
      PROVE  Conserved' /\ Steady
  <2> DEFINE f == Stream!From(h, d)
             t == Stream!To(h, d)
  <2>1. /\ flying \in [0 .. 2 -> [Stream!Dirs -> Nat]] /\ flying' \in [0 .. 2 -> [Stream!Dirs -> Nat]]
        /\ \A c \in 0 .. 2, e \in Stream!Dirs :
             flying'[c][e] = IF e = d /\ c = f THEN flying[c][e] - 1
                             ELSE IF e = d /\ c = t THEN flying[c][e] + 1
                             ELSE flying[c][e]
    BY ONLY StreamTyped, <1>1, ChunkMoves DEF StreamTyped
  <2>2. /\ flying[f][d] > 0 /\ pump[h][d] = "copy" /\ UNCHANGED <<sent, got>>
        /\ <<t, d>> \notin shut /\ <<t, Stream!Writer(d)>> \notin shutDown
    BY ONLY <1>1 DEF Stream!CopyChunk, Stream!CannotWrite
  <2>3. f \in 0 .. 2 /\ t \in 0 .. 2 /\ f # t
    OBVIOUS
  <2>4. Conserved'
    <3>1. sent \in [Stream!Dirs -> Nat] /\ got \in [Stream!Dirs -> Nat]
      BY DEF StreamTyped
    <3>2. SUFFICES ASSUME NEW e \in Stream!Dirs
                   PROVE  sent[e] = got[e] + flying'[0][e] + flying'[1][e] + flying'[2][e]
      BY <2>2 DEF Conserved
    <3>3. sent[e] = got[e] + flying[0][e] + flying[1][e] + flying[2][e]
      BY DEF Conserved
    <3>4. sent[e] \in Nat /\ got[e] \in Nat /\ \A c \in 0 .. 2 : flying[c][e] \in Nat
      BY <2>1, <3>1
    <3>5. CASE e # d
      BY <2>1, <3>3, <3>5
    <3>6. CASE e = d
      <4>1. CASE d = "up" /\ h = 1
        BY <2>1, <3>3, <3>4, <3>6, <4>1
      <4>2. CASE d = "up" /\ h = 2
        BY <2>1, <3>3, <3>4, <3>6, <4>2
      <4>3. CASE d = "down" /\ h = 1
        BY <2>1, <3>3, <3>4, <3>6, <4>3
      <4>4. CASE d = "down" /\ h = 2
        BY <2>1, <3>3, <3>4, <3>6, <4>4
      <4> QED BY <4>1, <4>2, <4>3, <4>4
    <3> QED BY <3>5, <3>6
  <2> HIDE DEF f, t
  <2>5. ASSUME NEW c \in 0 .. 2, NEW e \in Stream!Dirs, Stream!AtEnd(c, e) PROVE Stream!AtEnd(c, e)'
    BY <2>1, <2>2, <2>3, <2>5 DEF Onward, Stream!AtEnd
  <2>6. ASSUME NEW k \in Stream!Hops, NEW e \in Stream!Dirs,
               pump[k][e] # "copy", flying[Stream!From(k, e)][e] > 0
        PROVE  flying'[Stream!From(k, e)][e] > 0
    BY <2>1, <2>2, <2>6 DEF f, t
  <2> QED BY <2>4, <2>5, <2>6 DEF Steady, Ended, Unread
<1>2. ASSUME NEW d \in Stream!Dirs, Stream!Send(d) PROVE Conserved' /\ Steady
  <2> USE DEF Stream!Send, Stream!Edge
  <2>1. Conserved'
    BY <1>2 DEF Conserved, StreamTyped
  <2>2. ASSUME NEW c \in 0 .. 2, NEW e \in Stream!Dirs, Stream!AtEnd(c, e) PROVE Stream!AtEnd(c, e)'
    BY <1>2, <2>2 DEF StreamTyped, Onward, Stream!AtEnd, Stream!CannotWrite
  <2>3. ASSUME NEW k \in Stream!Hops, NEW e \in Stream!Dirs,
               pump[k][e] # "copy", flying[Stream!From(k, e)][e] > 0
        PROVE  flying'[Stream!From(k, e)][e] > 0
    BY <1>2, <2>3 DEF StreamTyped
  <2> QED BY <2>1, <2>2, <2>3 DEF Steady, Ended, Unread
<1>3. ASSUME NEW d \in Stream!Dirs, Stream!Receive(d) PROVE Conserved' /\ Steady
  <2> USE DEF Stream!Receive, Stream!Far
  <2>1. Conserved'
    BY <1>3 DEF Conserved, StreamTyped
  <2>2. ASSUME NEW c \in 0 .. 2, NEW e \in Stream!Dirs, Stream!AtEnd(c, e) PROVE Stream!AtEnd(c, e)'
    BY <1>3, <2>2 DEF StreamTyped, Onward, Stream!AtEnd
  <2>3. ASSUME NEW k \in Stream!Hops, NEW e \in Stream!Dirs,
               pump[k][e] # "copy", flying[Stream!From(k, e)][e] > 0
        PROVE  flying'[Stream!From(k, e)][e] > 0
    BY <1>3, <2>3 DEF StreamTyped
  <2> QED BY <2>1, <2>2, <2>3 DEF Steady, Ended, Unread
<1>4. CASE UNCHANGED <<sent, got, flying>>
  BY <1>4, NothingFlies
<1> QED BY <1>1, <1>2, <1>3, <1>4 DEF Stream!Next, Stream!HopStep, Stream!Copies, Stream!CopyReturns,
           Stream!ForwardEnds, Stream!SocksForwardEnds, Stream!FixedEnds, Stream!RelayEnds,
           Stream!TunnelStops, Stream!GivesUp, Stream!Finish, Stream!CloseAfterEnd

LEMMA StreamStep == StreamInv /\ [Stream!Next]_Stream!streamVars => StreamInv'
<1> SUFFICES ASSUME StreamInv, Stream!Next PROVE StreamInv'
  <2>1. ASSUME StreamInv, UNCHANGED Stream!streamVars PROVE StreamInv'
    BY <2>1 DEF Stream!streamVars, StreamInv, StreamTyped, Conserved, EndsTogether, ShutAfterCopy,
         CopyExplained, CloseExplained, AnswerRead, HopClosed, NeighbourClosed, QuestionCut,
         ClosedEarly, Ended, Unread, Stream!AtEnd
  <2> QED BY <2>1
<1> DEFINE Rest == EndsTogether' /\ ShutAfterCopy' /\ CopyExplained' /\ CloseExplained' /\ AnswerRead'
<1>0. StreamTyped' /\ Onward /\ Conserved' /\ Steady
  BY StreamTypes, StreamFlows DEF StreamInv
<1>t. /\ kind[1] = "forward" => kind[2] = "fixed"
      /\ pump \in [Stream!Hops -> [Stream!Dirs -> {"copy", "ok", "failed", "done"}]]
  BY DEF StreamInv, StreamTyped, Stream!Chains
<1>i. EndsTogether /\ ShutAfterCopy /\ CopyExplained /\ CloseExplained /\ AnswerRead
  BY DEF StreamInv
<1> USE DEF EndsTogether, ShutAfterCopy, CopyExplained, CloseExplained, AnswerRead, Onward, Steady,
            HopClosed, NeighbourClosed, QuestionCut, ClosedEarly, Stream!Hops, Stream!Dirs,
            Stream!Mine, Stream!From, Stream!To, Stream!Writer, Stream!Reader, Stream!Flip
\* Chunks that are sent, passed on and received.
<1>1. ASSUME UNCHANGED <<pump, shut, shutDown>> PROVE Rest
  <2>1. EndsTogether' /\ ShutAfterCopy'
    BY <1>0, <1>t, <1>i, <1>1
  <2>2. CopyExplained'
    BY <1>0, <1>t, <1>i, <1>1
  <2>3. CloseExplained'
    BY <1>0, <1>t, <1>i, <1>1
  <2>4. AnswerRead'
    BY <1>0, <1>t, <1>i, <1>1
  <2> QED BY <2>1, <2>2, <2>3, <2>4
<1>2. ASSUME NEW h \in Stream!Hops, NEW d \in Stream!Dirs, Stream!CopyReturns(h, d) PROVE Rest
  <2>1. /\ UNCHANGED <<kind, shut, shutDown, gone>>
        /\ \/ /\ pump' = [pump EXCEPT ![h][d] = "failed"]
              /\ \/ <<Stream!From(h, d), Stream!Reader(d)>> \in shutDown
                 \/ <<Stream!From(h, d), d>> \in Unread /\ Stream!CannotWrite(Stream!To(h, d), d)
           \/ pump' = [pump EXCEPT ![h][d] = "ok"] /\ <<Stream!From(h, d), d>> \in Ended
    BY <1>2 DEF Stream!CopyReturns, Ended, Unread
  <2>2. pump[h][d] = "copy" /\ Unread' = Unread
    BY <1>2 DEF Stream!CopyReturns, Unread
  <2> USE DEF Stream!CannotWrite
  <2>3. EndsTogether' /\ ShutAfterCopy'
    BY <1>0, <1>t, <1>i, <2>1, <2>2
  <2>4. CopyExplained'
    BY <1>0, <1>t, <1>i, <2>1, <2>2
  <2>5. CloseExplained'
    BY <1>0, <1>t, <1>i, <2>1, <2>2
  <2>6. AnswerRead'
    BY <1>0, <1>t, <1>i, <2>1, <2>2
  <2> QED BY <2>3, <2>4, <2>5, <2>6
\* A copy's end is passed on, or closes both connections.
<1>3. ASSUME NEW h \in Stream!Hops, NEW d \in Stream!Dirs, Stream!EndsCopy(h, d),
             UNCHANGED <<kind, gone>>, h = 2 => d = "up" /\ kind[2] = "fixed", h = 1 => kind[1] = "forward"
      PROVE  Rest
  <2>1. CASE pump[h][d] = "ok" /\ <<Stream!To(h, d), Stream!Writer(d)>> \notin shutDown
    <3>1. /\ pump' = [pump EXCEPT ![h][d] = "done"] /\ shutDown' = shutDown
          /\ shut' = shut \cup {<<Stream!To(h, d), d>>}
      BY <1>3, <2>1 DEF Stream!EndsCopy, Stream!Done, Stream!CloseWrite
    <3>2. EndsTogether' /\ ShutAfterCopy'
      BY <1>0, <1>t, <1>i, <1>3, <2>1, <3>1
    <3>3. CopyExplained'
      BY <1>0, <1>t, <1>i, <1>3, <2>1, <3>1
    <3>4. CloseExplained'
      BY <1>0, <1>t, <1>i, <1>3, <2>1, <3>1
    <3>5. AnswerRead'
      BY <1>0, <1>t, <1>i, <1>3, <2>1, <3>1
    <3> QED BY <3>2, <3>3, <3>4, <3>5
  <2>2. CASE pump[h][d] = "failed" \/ <<Stream!To(h, d), Stream!Writer(d)>> \in shutDown
    <3>1. /\ pump' = [pump EXCEPT ![h][d] = "done"] /\ shut' = shut
          /\ shutDown' = shutDown \cup Stream!Mine(h) /\ pump[h][d] \in {"ok", "failed"}
      BY <1>3, <2>2 DEF Stream!EndsCopy, Stream!Done, Stream!CloseWrite, Stream!Returned
    <3>2. EndsTogether' /\ ShutAfterCopy'
      BY <1>0, <1>t, <1>i, <1>3, <2>2, <3>1
    <3>3. CopyExplained'
      BY <1>0, <1>t, <1>i, <1>3, <2>2, <3>1
    <3>4. CloseExplained'
      BY <1>0, <1>t, <1>i, <1>3, <2>2, <3>1
    <3>5. AnswerRead'
      BY <1>0, <1>t, <1>i, <1>3, <2>2, <3>1
    <3> QED BY <3>2, <3>3, <3>4, <3>5
  <2> QED BY <1>3, <2>1, <2>2 DEF Stream!EndsCopy
\* A handler whose copies are both done returns.
<1>4. ASSUME NEW h \in Stream!Hops, kind[h] \in {"forward", "socks"},
             \A d \in Stream!Dirs : pump[h][d] = "done", Stream!Returns(h),
             UNCHANGED <<kind, gone, pump, shut>>
      PROVE  Rest
  <2>1. shutDown' = shutDown \cup Stream!Mine(h)
    BY <1>4 DEF Stream!Returns
  <2>2. EndsTogether' /\ ShutAfterCopy'
    BY <1>0, <1>t, <1>i, <1>4, <2>1
  <2>3. CopyExplained'
    BY <1>0, <1>t, <1>i, <1>4, <2>1
  <2>4. CloseExplained'
    BY <1>0, <1>t, <1>i, <1>4, <2>1
  <2>5. AnswerRead'
    BY <1>0, <1>t, <1>i, <1>4, <2>1
  <2> QED BY <2>2, <2>3, <2>4, <2>5
\* A handler returns when its copy down does.
<1>5. ASSUME NEW h \in Stream!Hops, h = 1 => kind[1] = "socksfwd", h = 2 => kind[2] = "fixed",
             Stream!Returned(h, "down"), Stream!Done(h, "down"), Stream!Returns(h),
             UNCHANGED <<kind, gone, shut>>
      PROVE  Rest
  <2>1. /\ shutDown' = shutDown \cup Stream!Mine(h)
        /\ pump[h]["down"] \in {"ok", "failed"} /\ pump' = [pump EXCEPT ![h]["down"] = "done"]
    BY <1>5 DEF Stream!Returns, Stream!Returned, Stream!Done
  <2>2. <<1, "down">> \in Ended => <<1, "down">> \in shut \/ HopClosed(2)
    BY <1>i DEF Ended, Stream!AtEnd
  <2>3. EndsTogether' /\ ShutAfterCopy'
    BY <1>0, <1>t, <1>i, <1>5, <2>1, <2>2
  <2>4. CopyExplained'
    BY <1>0, <1>t, <1>i, <1>5, <2>1, <2>2
  <2>5. CloseExplained'
    BY <1>0, <1>t, <1>i, <1>5, <2>1, <2>2
  <2>6. AnswerRead'
    BY <1>0, <1>t, <1>i, <1>5, <2>1, <2>2
  <2> QED BY <2>3, <2>4, <2>5, <2>6
\* The copy up of the client's SOCKS forwarder, and either of the relay's.
<1>6. ASSUME NEW h \in Stream!Hops, NEW d \in Stream!Dirs, Stream!Returned(h, d), Stream!Done(h, d),
             kind[1] # "forward", shut' \in {shut, shut \cup {<<Stream!To(h, d), d>>}},
             UNCHANGED <<kind, gone, shutDown>>
      PROVE  Rest
  <2>1. pump[h][d] \in {"ok", "failed"} /\ pump' = [pump EXCEPT ![h][d] = "done"]
    BY <1>6 DEF Stream!Returned, Stream!Done
  <2>2. EndsTogether' /\ ShutAfterCopy'
    BY <1>0, <1>t, <1>i, <1>6, <2>1
  <2>3. CopyExplained'
    BY <1>0, <1>t, <1>i, <1>6, <2>1
  <2>4. CloseExplained'
    BY <1>0, <1>t, <1>i, <1>6, <2>1
  <2>5. AnswerRead'
    BY <1>0, <1>t, <1>i, <1>6, <2>1
  <2> QED BY <2>2, <2>3, <2>4, <2>5
<1>7. ASSUME Stream!TunnelStops PROVE Rest
  <2>1. /\ gone' /\ UNCHANGED <<kind, shut, pump>>
        /\ shutDown' \in {shutDown, shutDown \cup Stream!Mine(1)}
    BY <1>7 DEF Stream!TunnelStops
  <2>2. EndsTogether' /\ ShutAfterCopy'
    BY <1>0, <1>t, <1>i, <2>1
  <2>3. CopyExplained'
    BY <1>0, <1>t, <1>i, <2>1
  <2>4. CloseExplained'
    BY <1>0, <1>t, <1>i, <2>1
  <2>5. AnswerRead'
    BY <1>0, <1>t, <1>i, <2>1
  <2> QED BY <2>2, <2>3, <2>4, <2>5
\* What the application and the target do.
<1>8. ASSUME UNCHANGED <<kind, gone, pump>>,
             \/ shutDown' = shutDown /\ shut' \in {shut \cup {<<0, "up">>}, shut \cup {<<2, "down">>}}
             \/ shut' = shut /\ shutDown' \in {shutDown \cup {<<0, "near">>}, shutDown \cup {<<2, "far">>}}
      PROVE  Rest
  <2>1. EndsTogether' /\ ShutAfterCopy'
    BY <1>0, <1>t, <1>i, <1>8
  <2>2. CopyExplained'
    BY <1>0, <1>t, <1>i, <1>8
  <2>3. CloseExplained'
    BY <1>0, <1>t, <1>i, <1>8
  <2>4. AnswerRead'
    BY <1>0, <1>t, <1>i, <1>8
  <2> QED BY <2>1, <2>2, <2>3, <2>4
<1>9. Rest
  <2> USE DEF Stream!Edge
  <2> HIDE DEF Rest
  <2>1. CASE Stream!ForwardEnds
    BY <1>3, <1>4, <2>1 DEF Stream!ForwardEnds
  <2>2. CASE Stream!SocksForwardEnds
    BY <1>5, <1>6, <2>2 DEF Stream!SocksForwardEnds
  <2>3. CASE Stream!FixedEnds
    BY <1>3, <1>5, <2>3 DEF Stream!FixedEnds
  <2>4. CASE Stream!RelayEnds
    BY <1>t, <1>4, <1>6, <2>4 DEF Stream!RelayEnds, Stream!CloseWrite
  <2>5. CASE \E d \in Stream!Dirs : Stream!Send(d) \/ Stream!Receive(d)
    BY <1>1, <2>5 DEF Stream!Send, Stream!Receive
  <2>6. CASE Stream!GivesUp \/ \E d \in Stream!Dirs : Stream!Finish(d) \/ Stream!CloseAfterEnd(d)
    BY <1>8, <2>6 DEF Stream!GivesUp, Stream!Finish, Stream!CloseAfterEnd
  <2>7. CASE \E h \in Stream!Hops, d \in Stream!Dirs : Stream!CopyChunk(h, d)
    BY <1>1, <2>7 DEF Stream!CopyChunk
  <2> QED BY <1>2, <1>7, <2>1, <2>2, <2>3, <2>4, <2>5, <2>6, <2>7
          DEF Stream!Next, Stream!HopStep, Stream!Copies
<1> QED BY ONLY <1>0, <1>9 DEF StreamInv

\* However the ends of the two directions and failures of the copies meet, a
\* forwarder of a TCP tunnel or the SOCKS proxy closes before both directions
\* are through only when a neighbour has or the tunnel is gone; and an answer
\* to a question that arrived whole is delivered whole. For streams of any
\* length and any window (client.go forward, dataplane.go proxy, socks relay).
THEOREM StreamsAreSound == Stream!Spec => []StreamSound
<1>1. StreamInv => StreamSound
  <2> SUFFICES ASSUME StreamInv PROVE Stream!HalfCloseKept /\ Stream!AnswerComplete
    BY DEF StreamSound, Stream!StreamSound
  <2> USE DEF StreamInv, Stream!Hops, Stream!Dirs
  <2>1. Stream!HalfCloseKept
    <3> SUFFICES ASSUME NEW h \in {1, 2}, kind[h] \in {"forward", "socks"},
                        Stream!Mine(h) \subseteq shutDown, ~gone, ~NeighbourClosed(h), NEW d \in {"up", "down"}
                 PROVE  Stream!AtEnd(Stream!From(h, d), d)
      BY DEF NeighbourClosed, Stream!HalfCloseKept
    <3>1. <<Stream!From(h, d), d>> \in Ended
      BY DEF CloseExplained, HopClosed, Stream!Mine
    <3> QED BY <3>1 DEF Ended
  <2>2. SUFFICES ASSUME kind[1] = "forward", ~ClosedEarly, got["up"] = sent["up"],
                        Stream!AtEnd(0, "down")
                 PROVE  got["down"] = sent["down"]
    BY <2>1 DEF ClosedEarly, Stream!AnswerComplete
  <2>3. /\ \A c \in 0 .. 2, d \in {"up", "down"} : flying[c][d] \in Nat
        /\ \A d \in {"up", "down"} : sent[d] \in Nat /\ got[d] \in Nat
    BY DEF StreamTyped
  <2>4. flying[0]["up"] = 0
    <3>1. sent["up"] = got["up"] + flying[0]["up"] + flying[1]["up"] + flying[2]["up"]
      BY DEF Conserved
    <3>2. /\ flying[0]["up"] \in Nat /\ flying[1]["up"] \in Nat /\ flying[2]["up"] \in Nat
          /\ got["up"] \in Nat /\ got["up"] = sent["up"]
      BY <2>2, <2>3
    <3> QED BY ONLY <3>1, <3>2
  <2>5. ~QuestionCut
    BY <2>4 DEF QuestionCut, Unread
  <2>6. Stream!AtEnd(1, "down")
    BY <2>2, <2>5 DEF AnswerRead, EndsTogether, HopClosed, Ended, Stream!AtEnd, Stream!Writer
  <2>7. Stream!AtEnd(2, "down")
    BY <2>2, <2>5, <2>6 DEF AnswerRead, HopClosed, EndsTogether, Ended, Stream!AtEnd, Stream!Writer
  <2>8. flying[0]["down"] = 0 /\ flying[1]["down"] = 0 /\ flying[2]["down"] = 0
    BY <2>2, <2>6, <2>7 DEF Stream!AtEnd
  <2> QED BY <2>3, <2>8 DEF Conserved
<1> QED BY <1>1, StreamInit, StreamStep, PTL DEF Stream!Spec

=============================================================================
