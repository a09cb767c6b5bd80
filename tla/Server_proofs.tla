---------------------------- MODULE Server_proofs ----------------------------
(***************************************************************************)
(* Proofs about the server.  First its sessions, for any tokens, keys,     *)
(* principals, prefix and configurations: the session table, the addresses *)
(* and the WireGuard peers agree, traffic is taken for its own             *)
(* principal's, nobody holds more than the configuration in force grants,  *)
(* and paths follow sessions.  Then its relays: the server knows them as   *)
(* they are, every keepalive has its owner, and an allocation ends for a   *)
(* reason.                                                                 *)
(***************************************************************************)
EXTENDS Server, FiniteSetTheorems, WellFoundedInduction, TLAPS

(***************************************************************************)
(* What the promises rest on.                                              *)
(***************************************************************************)

Granted == UNION {cfg.grants[p] : p \in Principals}

AuthOps == [kind : {"auth"}, at : {"reap", "find", "peer", "create"}, who : Principals,
            key : Keys, tunnels : SUBSET Granted, ip : Pool \cup {None}]
RenewOps == [kind : {"renew"}, token : Tokens]
Requests == [kind : {"ws", "attached", "punch"}, key : Keys]

\* The types, with the domains and the shapes that TypeOK leaves open.
Typed ==
  /\ disk \in Configs /\ cfg \in Configs
  /\ changed \in BOOLEAN /\ loaded \in Configs \cup {None}
  /\ table \in [Tokens -> Sessions \cup {None}]
  /\ expired \subseteq Held
  /\ nextIP \in 0 .. PoolSize
  /\ peers \in [Keys -> Pool \cup {Bare, None}]
  /\ ws \subseteq Keys /\ paths \subseteq Keys /\ stranded \subseteq Keys
  /\ op \in {Free} \cup AuthOps \cup RenewOps
  /\ req \in [Handlers -> {Free} \cup Requests]

\* The device gives an address to one peer.
PeersInjective ==
  \A j, k \in Keys : j # k /\ peers[j] \in Pool => peers[j] # peers[k]

\* Where a peer comes from; an authentication answers for the peer of its key
\* only once it has taken the session of that key away.
PeersExplained ==
  \A k \in Keys : peers[k] # None =>
    \/ \E t \in Held : table[t].key = k
    \/ k \in stranded
    \/ cfg.native[k] # None
    \/ op.kind = "auth" /\ op.at \in {"peer", "create"} /\ op.key = k

PeersInstalled ==
  /\ \A t \in Held : peers[table[t].key] = table[t].ip
  /\ \A k \in Keys : cfg.native[k] # None => peers[k] = cfg.native[k]

\* The address that an authentication holds is nobody else's.
AuthReserved ==
  op.kind = "auth" =>
    /\ op.tunnels \subseteq cfg.grants[op.who]
    /\ op.at # "reap" => cfg.native[op.key] = None
    /\ op.at \in {"peer", "create"} =>
         /\ op.ip \in Pool /\ op.ip \notin Used({})
         /\ \A t \in Held : table[t].key # op.key /\ table[t].ip # op.ip
    /\ op.at = "create" => peers[op.key] = op.ip

\* A renewal is of a session that is still there.
RenewHeld == op.kind = "renew" => op.token \in Held

IInv ==
  /\ Typed /\ AddressesDistinct /\ WithinGrants
  /\ PeersInjective /\ PeersExplained /\ PeersInstalled
  /\ AuthReserved /\ RenewHeld

(***************************************************************************)
(* Facts about the operators.                                              *)
(***************************************************************************)

\* A set of numbers that has a member has a least one.
LEMMA LeastExists ==
  ASSUME NEW S, S \subseteq Nat, S # {}
  PROVE  \E i \in S : \A j \in S : i <= j
<1> DEFINE R == OpToRel(<, Nat)
<1>1. IsWellFoundedOn(R, Nat)
  BY NatLessThanWellFounded
<1>2. \A x, y \in Nat : <<y, x>> \in R <=> y < x
  BY DEF OpToRel
<1> HIDE DEF R
<1>3. PICK x \in S : \A y \in S : ~(<<y, x>> \in R)
  BY <1>1, WFMin
<1>4. \A y \in S : x <= y
  <2> TAKE y \in S
  <2>1. x \in Nat /\ y \in Nat
    OBVIOUS
  <2>2. ~(<<y, x>> \in R)
    BY <1>3
  <2>3. ~(y < x)
    BY <1>2, <2>1, <2>2
  <2> QED BY <2>1, <2>3
<1> QED BY <1>4

\* What a session in the table is.
LEMMA HeldSessions ==
  ASSUME Typed, NEW t \in Held
  PROVE  /\ t \in Tokens /\ table[t] \in Sessions
         /\ table[t].who \in Principals /\ table[t].key \in Keys /\ table[t].ip \in Pool
BY DEF Typed, Held, Sessions

\* A configuration in use is one of Configs.
LEMMA ConfigFacts ==
  ASSUME NEW c \in Configs
  PROVE  /\ c.grants \in [Principals -> SUBSET UNION {c.grants[p] : p \in Principals}]
         /\ c.native \in [Keys -> (Pool \ {1}) \cup {None}]
         /\ \A j, k \in Keys : j # k /\ c.native[j] # None => c.native[j] # c.native[k]
BY SessionConstants DEF ValidConfig

\* Used of no session: what no session may have.
LEMMA UsedOfSessions ==
  ASSUME NEW T, NEW i
  PROVE  i \in Used(T) <=> i \in Used({}) \/ \E t \in T : table[t].ip = i
BY DEF Used

LEMMA NativeUsed ==
  ASSUME NEW k \in Keys, cfg.native[k] # None
  PROVE  cfg.native[k] \in Used({})
BY DEF Used

\* A session's key is no native peer's.
LEMMA HeldNotNative ==
  ASSUME IInv, NEW t \in Held
  PROVE  cfg.native[table[t].key] = None
<1>1. table[t].key \in Keys
  BY HeldSessions DEF IInv
<1>2. peers[table[t].key] = table[t].ip /\ table[t].ip \notin Used({})
  BY DEF IInv, PeersInstalled, AddressesDistinct
<1> QED BY <1>1, <1>2, NativeUsed DEF IInv, PeersInstalled

(***************************************************************************)
(* Sessions leave.                                                         *)
(***************************************************************************)

\* The table without the sessions T.
LEMMA TableShrinks ==
  ASSUME IInv, NEW T, table' = [t \in Tokens |-> IF t \in T THEN None ELSE table[t]], cfg' = cfg
  PROVE  /\ table' \in [Tokens -> Sessions' \cup {None}]
         /\ Held' = Held \ T
         /\ \A t \in Held' : table'[t] = table[t]
         /\ AddressesDistinct' /\ WithinGrants'
<1>1. table \in [Tokens -> Sessions \cup {None}] /\ Sessions' = Sessions
  BY DEF IInv, Typed, Sessions
<1>2. table' \in [Tokens -> Sessions' \cup {None}]
  BY <1>1
<1>3. Held' = Held \ T /\ \A t \in Held' : table'[t] = table[t]
  BY DEF Held
<1>4. Used({})' = Used({})
  BY DEF Used
<1>5. AddressesDistinct' /\ WithinGrants'
  BY <1>3, <1>4 DEF IInv, AddressesDistinct, WithinGrants
<1> QED BY <1>2, <1>3, <1>5

\* The peers without those of the sessions T.
LEMMA PeersShrink ==
  ASSUME IInv, NEW T \in SUBSET Held,
         table' = [t \in Tokens |-> IF t \in T THEN None ELSE table[t]], cfg' = cfg,
         peers' = [k \in Keys |-> IF k \in KeysOf(T) THEN None ELSE peers[k]]
  PROVE  /\ peers' \in [Keys -> Pool \cup {Bare, None}]
         /\ PeersInjective' /\ PeersInstalled'
         /\ \A k \in Keys : peers'[k] # None =>
              /\ peers'[k] = peers[k]
              /\ (\E t \in Held : table[t].key = k) => \E t \in Held' : table'[t].key = k
<1>1. peers \in [Keys -> Pool \cup {Bare, None}] /\ None \notin Pool
  BY NoneDistinct DEF IInv, Typed
<1>2. peers' \in [Keys -> Pool \cup {Bare, None}] /\ PeersInjective'
  BY <1>1 DEF IInv, PeersInjective
<1>3. Held' = Held \ T /\ \A t \in Held' : table'[t] = table[t]
  BY TableShrinks
<1>4. \A t \in Held' : table[t].key \in Keys /\ table[t].key \notin KeysOf(T)
  BY <1>3, HeldSessions DEF IInv, AddressesDistinct, KeysOf
<1>5. \A k \in Keys : cfg.native[k] # None => k \notin KeysOf(T)
  BY HeldNotNative DEF KeysOf
<1>6. PeersInstalled'
  BY <1>3, <1>4, <1>5 DEF IInv, PeersInstalled
<1>7. ASSUME NEW k \in Keys, peers'[k] # None
      PROVE  /\ peers'[k] = peers[k]
             /\ (\E t \in Held : table[t].key = k) => \E t \in Held' : table'[t].key = k
  BY <1>3, <1>7 DEF KeysOf
<1> QED BY <1>2, <1>6, <1>7

\* dropSession for the sessions T, whatever becomes of the operation.
LEMMA DropKeeps ==
  ASSUME IInv, NEW T \in SUBSET Held, Drop(T), cfg' = cfg, stranded' = stranded,
         op'.kind # "auth" => op.kind # "auth" \/ op.at \notin {"peer", "create"},
         op'.kind = "auth" => op.kind = "auth" /\ op'.key = op.key
                              /\ (op.at \in {"peer", "create"} => op'.at \in {"peer", "create"})
  PROVE  /\ table' \in [Tokens -> Sessions' \cup {None}]
         /\ expired' \subseteq Held'
         /\ peers' \in [Keys -> Pool \cup {Bare, None}]
         /\ ws' \subseteq Keys /\ paths' \subseteq Keys
         /\ AddressesDistinct' /\ WithinGrants'
         /\ PeersInjective' /\ PeersInstalled' /\ PeersExplained'
<1>1. /\ table' \in [Tokens -> Sessions' \cup {None}] /\ Held' = Held \ T
      /\ AddressesDistinct' /\ WithinGrants'
  BY TableShrinks DEF Drop
<1>2. /\ peers' \in [Keys -> Pool \cup {Bare, None}]
      /\ PeersInjective' /\ PeersInstalled'
      /\ \A k \in Keys : peers'[k] # None =>
           /\ peers'[k] = peers[k]
           /\ (\E t \in Held : table[t].key = k) => \E t \in Held' : table'[t].key = k
  BY PeersShrink DEF Drop
<1>3. expired' \subseteq Held' /\ ws' \subseteq Keys /\ paths' \subseteq Keys
  BY <1>1 DEF Drop, IInv, Typed
<1>4. PeersExplained'
  BY <1>2 DEF IInv, PeersExplained
<1> QED BY <1>1, <1>2, <1>3, <1>4

(***************************************************************************)
(* The initial states and every step.                                      *)
(***************************************************************************)

\* The server starts with the native peers of its configuration.
LEMMA InitInv == Init => IInv
<1> SUFFICES ASSUME Init PROVE IInv
  OBVIOUS
<1> USE DEF Init
<1>1. cfg \in Configs /\ Held = {}
  BY DEF Held
<1>2. /\ cfg.native \in [Keys -> (Pool \ {1}) \cup {None}]
      /\ \A j, k \in Keys : j # k /\ cfg.native[j] # None => cfg.native[j] # cfg.native[k]
  BY <1>1, ConfigFacts
<1>3. Typed
  <2>1. table \in [Tokens -> Sessions \cup {None}] /\ req \in [Handlers -> {Free} \cup Requests]
    OBVIOUS
  <2>2. peers \in [Keys -> Pool \cup {Bare, None}]
    BY <1>2
  <2>3. nextIP \in 0 .. PoolSize
    BY SessionConstants
  <2> QED BY <1>1, <2>1, <2>2, <2>3 DEF Typed
<1>4. AddressesDistinct /\ WithinGrants /\ PeersExplained /\ PeersInstalled
  BY <1>1 DEF AddressesDistinct, WithinGrants, PeersExplained, PeersInstalled
<1>5. PeersInjective
  BY <1>2, NoneDistinct DEF PeersInjective
<1>6. AuthReserved /\ RenewHeld
  BY DEF AuthReserved, RenewHeld, Free
<1> QED BY <1>3, <1>4, <1>5, <1>6 DEF IInv

sessions == <<cfg, table, peers, stranded>>

\* A step that leaves the sessions and the peers alone and whose operation
\* does not let go of a peer.
LEMMA SessionsKept ==
  ASSUME IInv, UNCHANGED sessions, Typed', AuthReserved', RenewHeld',
         op.kind = "auth" /\ op.at \in {"peer", "create"} =>
           op'.kind = "auth" /\ op'.at \in {"peer", "create"} /\ op'.key = op.key
  PROVE  IInv'
<1> USE DEF sessions, IInv
<1>1. Held' = Held /\ Used({})' = Used({})
  BY DEF Held, Used
<1>2. AddressesDistinct' /\ WithinGrants'
  BY <1>1 DEF AddressesDistinct, WithinGrants
<1>3. PeersInjective' /\ PeersInstalled' /\ PeersExplained'
  BY <1>1 DEF PeersInjective, PeersInstalled, PeersExplained
<1> QED BY <1>2, <1>3

\* An operation takes the mutex.
LEMMA OperationStarts ==
  ASSUME IInv,
         \/ \E p \in Principals, k \in Keys : \E g \in SUBSET cfg.grants[p] : Authorize(p, k, g)
         \/ \E t \in Tokens : RenewStart(t)
  PROVE  IInv'
<1> USE DEF fileVars, sessVars, peerVars, carrVars
<1>0. Typed /\ cfg \in Configs
  BY DEF IInv, Typed
<1>1. ASSUME NEW p \in Principals, NEW k \in Keys, NEW g \in SUBSET cfg.grants[p],
             Authorize(p, k, g)
      PROVE  IInv'
  <2>1. UNCHANGED <<fileVars, sessVars, peerVars, carrVars, req>> /\ op.kind = "free"
    BY <1>1 DEF Authorize, Free
  <2>2. op' = [kind |-> "auth", at |-> "reap", who |-> p, key |-> k, tunnels |-> g, ip |-> None]
    BY <1>1 DEF Authorize
  <2>3. g \subseteq Granted
    BY DEF Granted
  <2>4. op' \in AuthOps'
    BY <2>1, <2>2, <2>3 DEF AuthOps, Granted
  <2>5. Typed'
    BY <1>0, <2>1, <2>4 DEF Typed, Sessions, Held
  <2>6. AuthReserved' /\ RenewHeld'
    BY <2>1, <2>2 DEF AuthReserved, RenewHeld
  <2> QED BY <2>1, <2>5, <2>6, SessionsKept DEF sessions
<1>2. ASSUME NEW t \in Tokens, RenewStart(t) PROVE IInv'
  <2>1. UNCHANGED <<fileVars, sessVars, peerVars, carrVars, req>> /\ op.kind = "free"
    BY <1>2 DEF RenewStart, Free
  <2>2. op' = [kind |-> "renew", token |-> t] /\ t \in Held
    BY <1>2 DEF RenewStart, Live
  <2>3. Typed'
    BY <1>0, <2>1, <2>2 DEF Typed, Sessions, Held, RenewOps
  <2>4. AuthReserved' /\ RenewHeld'
    BY <2>1, <2>2 DEF AuthReserved, RenewHeld, Held
  <2> QED BY <2>1, <2>3, <2>4, SessionsKept DEF sessions
<1> QED BY <1>1, <1>2

\* What AuthOps gives of an authentication.
LEMMA AuthTypes ==
  ASSUME IInv, op.kind = "auth"
  PROVE  op \in AuthOps /\ op.who \in Principals /\ op.key \in Keys
<1>1. op \in {Free} \cup AuthOps \cup RenewOps
  BY DEF IInv, Typed
<1> QED BY <1>1 DEF Free, RenewOps, AuthOps

LEMMA RenewTypes ==
  ASSUME IInv, op.kind = "renew"
  PROVE  op.token \in Held /\ op.token \in Tokens
BY DEF IInv, RenewHeld, Held

\* Sessions end: expiry, a denied renewal, a disconnect or a revocation.
LEMMA SessionsEnd ==
  ASSUME IInv, ReapSessions \/ RenewDenied \/ \E t \in Tokens : Disconnect(t)
  PROVE  IInv'
<1> USE DEF fileVars, sessVars
<1>1. PICK T \in SUBSET Held : Drop(T)
  <2>1. expired \subseteq Held
    BY DEF IInv, Typed
  <2> QED BY <2>1, RenewTypes DEF ReapSessions, RenewDenied, Disconnect, Live
<1>2. /\ UNCHANGED <<stranded, fileVars, nextIP, req>>
      /\ op' = Free /\ op.kind # "auth"
  <2>1. CASE RenewDenied
    BY <2>1 DEF RenewDenied
  <2>2. CASE ReapSessions \/ \E t \in Tokens : Disconnect(t)
    <3>1. UNCHANGED <<stranded, fileVars, nextIP, op, req>> /\ op = Free
      BY <2>2 DEF ReapSessions, Disconnect
    <3> QED BY <3>1 DEF Free
  <2> QED BY <2>1, <2>2
<1>3. /\ table' \in [Tokens -> Sessions' \cup {None}]
      /\ expired' \subseteq Held'
      /\ peers' \in [Keys -> Pool \cup {Bare, None}]
      /\ ws' \subseteq Keys /\ paths' \subseteq Keys
      /\ AddressesDistinct' /\ WithinGrants'
      /\ PeersInjective' /\ PeersInstalled' /\ PeersExplained'
  BY <1>1, <1>2, DropKeeps DEF Free
<1>4. Typed'
  BY <1>2, <1>3 DEF IInv, Typed
<1>5. AuthReserved' /\ RenewHeld'
  BY <1>2 DEF AuthReserved, RenewHeld, Free
<1> QED BY <1>3, <1>4, <1>5 DEF IInv

\* Reaping what has expired at the start of an authentication.
LEMMA AuthReapInv == ASSUME IInv, AuthReap PROVE IInv'
<1> USE DEF fileVars, sessVars
<1>1. /\ op.kind = "auth" /\ op.at = "reap" /\ Drop(expired) /\ expired \in SUBSET Held
      /\ UNCHANGED <<stranded, fileVars, nextIP, req>>
      /\ op' = IF cfg.native[op.key] # None THEN Free ELSE [op EXCEPT !.at = "find"]
  BY DEF AuthReap, Authenticating, IInv, Typed
<1>2. op \in AuthOps
  BY <1>1, AuthTypes
<1>3. /\ op' = Free \/ (op' \in AuthOps' /\ op'.at = "find" /\ op'.key = op.key
                        /\ op'.who = op.who /\ op'.tunnels = op.tunnels /\ op'.kind = "auth")
  BY <1>1, <1>2 DEF AuthOps, Granted
<1>4. /\ table' \in [Tokens -> Sessions' \cup {None}]
      /\ expired' \subseteq Held'
      /\ peers' \in [Keys -> Pool \cup {Bare, None}]
      /\ ws' \subseteq Keys /\ paths' \subseteq Keys
      /\ AddressesDistinct' /\ WithinGrants'
      /\ PeersInjective' /\ PeersInstalled' /\ PeersExplained'
  BY <1>1, <1>3, DropKeeps DEF Free
<1>5. Typed'
  BY <1>1, <1>3, <1>4 DEF IInv, Typed
<1>6. AuthReserved' /\ RenewHeld'
  BY <1>1, <1>3 DEF IInv, AuthReserved, RenewHeld, Free
<1> QED BY <1>4, <1>5, <1>6 DEF IInv

\* An authentication that has its address.
LEMMA AuthHasAddress ==
  ASSUME op \in AuthOps, cfg' = cfg, NEW i \in Pool, op' = [op EXCEPT !.at = "peer", !.ip = i]
  PROVE  /\ op' \in AuthOps' /\ op'.kind = "auth" /\ op'.at = "peer" /\ op'.key = op.key
         /\ op'.who = op.who /\ op'.tunnels = op.tunnels /\ op'.ip = i
<1>1. AuthOps' = AuthOps
  BY DEF AuthOps, Granted
<1>2. /\ op.who \in Principals /\ op.key \in Keys /\ op.tunnels \in SUBSET Granted
      /\ op.kind = "auth"
  BY DEF AuthOps
<1>3. op = [kind |-> op.kind, at |-> op.at, who |-> op.who, key |-> op.key,
            tunnels |-> op.tunnels, ip |-> op.ip]
  BY DEF AuthOps
<1>4. op' = [kind |-> "auth", at |-> "peer", who |-> op.who, key |-> op.key,
             tunnels |-> op.tunnels, ip |-> i]
  BY <1>2, <1>3
<1> QED BY <1>1, <1>2, <1>4 DEF AuthOps

\* Another principal's session is left alone.
LEMMA RefuseForeignKeyInv == ASSUME IInv, RefuseForeignKey PROVE IInv'
<1> USE DEF fileVars, sessVars, peerVars, carrVars
<1>1. /\ op.at = "find" /\ op' = Free
      /\ UNCHANGED <<fileVars, sessVars, peerVars, carrVars, req>>
  BY DEF RefuseForeignKey, Authenticating
<1>2. Typed'
  BY <1>1 DEF IInv, Typed, Sessions, Held
<1>3. AuthReserved' /\ RenewHeld'
  BY <1>1 DEF AuthReserved, RenewHeld, Free
<1> QED BY <1>1, <1>2, <1>3, SessionsKept DEF sessions

\* One's own session makes room, and its address and its peer are kept.
LEMMA ReplaceOwnSessionInv == ASSUME IInv, ReplaceOwnSession PROVE IInv'
<1> USE DEF fileVars, peerVars, carrVars
<1>1. PICK t \in OnKey :
        /\ table' = [table EXCEPT ![t] = None]
        /\ op' = [op EXCEPT !.at = "peer", !.ip = table[t].ip]
  BY DEF ReplaceOwnSession
<1>2. /\ op.kind = "auth" /\ op.at = "find" /\ op \in AuthOps
      /\ UNCHANGED <<fileVars, expired, nextIP, peerVars, carrVars, req>>
  BY AuthTypes DEF ReplaceOwnSession, Authenticating
<1>3. t \in Held /\ t \notin expired /\ table[t].key = op.key
  BY DEF OnKey, Live
<1>4. table[t].ip \in Pool /\ table[t].ip \notin Used({}) /\ table \in [Tokens -> Sessions \cup {None}]
  BY <1>3, HeldSessions DEF IInv, AddressesDistinct, Typed
<1>5. table' = [u \in Tokens |-> IF u \in {t} THEN None ELSE table[u]]
  BY <1>1, <1>4
<1>6. /\ table' \in [Tokens -> Sessions' \cup {None}] /\ Held' = Held \ {t}
      /\ \A u \in Held' : table'[u] = table[u]
      /\ AddressesDistinct' /\ WithinGrants'
  BY <1>2, <1>5, TableShrinks
<1>7. /\ op' \in AuthOps' /\ op'.kind = "auth" /\ op'.at = "peer" /\ op'.key = op.key
      /\ op'.who = op.who /\ op'.tunnels = op.tunnels /\ op'.ip = table[t].ip
  BY <1>1, <1>2, <1>4, AuthHasAddress
<1>8. Typed'
  BY <1>2, <1>3, <1>6, <1>7 DEF IInv, Typed
<1>9. PeersInjective' /\ PeersInstalled'
  BY <1>2, <1>6 DEF IInv, PeersInjective, PeersInstalled
<1>10. PeersExplained'
  BY <1>2, <1>3, <1>6, <1>7 DEF IInv, PeersExplained
<1>11. AuthReserved' /\ RenewHeld'
  <2>1. Used({})' = Used({})
    BY <1>2 DEF Used
  <2>2. \A u \in Held' : table'[u].key # op.key /\ table'[u].ip # table[t].ip
    BY <1>3, <1>6 DEF IInv, AddressesDistinct
  <2> QED BY <1>2, <1>4, <1>7, <2>1, <2>2 DEF IInv, AuthReserved, RenewHeld
<1> QED BY <1>6, <1>8, <1>9, <1>10, <1>11 DEF IInv

\* What the scan must avoid are addresses of the prefix.
LEMMA UsedInPool ==
  ASSUME IInv, NEW T \in SUBSET Held
  PROVE  Used(T) \subseteq Pool /\ Cardinality(Used(T)) \in Nat
<1>1. \A t \in T : table[t].ip \in Pool
  BY HeldSessions DEF IInv
<1>2. \A k \in Keys : cfg.native[k] \in Pool \cup {None}
  BY ConfigFacts DEF IInv, Typed
<1>3. {0, 1, PoolSize - 1} \subseteq Pool
  BY SessionConstants DEF Pool
<1>4. Used(T) \subseteq Pool
  BY <1>1, <1>2, <1>3 DEF Used
<1>5. IsFiniteSet(Pool)
  BY FS_Interval, SessionConstants DEF Pool
<1> QED BY <1>4, <1>5, FS_Subset, FS_CardinalityType

\* The scan stays in the prefix, and its first hit is free.
LEMMA ScanFindsFree ==
  ASSUME IInv, NEW T \in SUBSET Held
  PROVE  /\ \A i \in Nat : Candidate(i) \in Pool
         /\ Scan(T) # {} => Candidate(First(Scan(T))) \in Pool \ Used(T)
         /\ Cardinality(Used(T)) \in Nat
<1>1. nextIP \in Nat /\ PoolSize \in Nat \ {0}
  BY SessionConstants DEF IInv, Typed
<1>2. \A i \in Nat : Candidate(i) \in Pool
  BY <1>1 DEF Candidate, Pool
<1>3. Cardinality(Used(T)) \in Nat
  BY UsedInPool
<1>4. Scan(T) \subseteq Nat /\ \A i \in Scan(T) : Candidate(i) \notin Used(T)
  BY <1>3 DEF Scan
<1>5. ASSUME Scan(T) # {} PROVE First(Scan(T)) \in Scan(T)
  <2>1. \E i \in Scan(T) : \A j \in Scan(T) : i <= j
    BY <1>4, <1>5, LeastExists
  <2> HIDE DEF Scan
  <2> QED BY <2>1 DEF First
<1> QED BY <1>2, <1>3, <1>4, <1>5

\* A free address is found, after what has expired is gone.
LEMMA AllocateIPInv == ASSUME IInv, AllocateIP PROVE IInv'
<1> USE DEF fileVars
<1> DEFINE hits == Scan(Live)
           ip == Candidate(First(hits))
<1>1. /\ op.kind = "auth" /\ op.at = "find" /\ OnKey = {} /\ Drop(expired)
      /\ UNCHANGED <<stranded, fileVars, req>> /\ op \in AuthOps
      /\ expired \in SUBSET Held /\ Live \in SUBSET Held
  BY AuthTypes DEF AllocateIP, Authenticating, IInv, Typed, Live
<1>2. /\ \A i \in Nat : Candidate(i) \in Pool
      /\ hits # {} => ip \in Pool \ Used(Live)
      /\ Cardinality(Used(Live)) \in Nat
  BY <1>1, ScanFindsFree
<1>3. \/ /\ hits # {} /\ op' = [op EXCEPT !.at = "peer", !.ip = ip]
         /\ nextIP' = ip + 1
      \/ /\ op' = Free /\ nextIP' = Candidate(Cardinality(Used(Live))) + 1
  BY DEF AllocateIP
<1>4. nextIP' \in 0 .. PoolSize
  BY <1>2, <1>3, SessionConstants DEF Pool
<1> HIDE DEF hits, ip
<1>5. \/ op' = Free
      \/ /\ ip \in Pool \ Used(Live)
         /\ op' \in AuthOps' /\ op'.kind = "auth" /\ op'.at = "peer" /\ op'.key = op.key
         /\ op'.who = op.who /\ op'.tunnels = op.tunnels /\ op'.ip = ip
  BY <1>1, <1>2, <1>3, AuthHasAddress
<1>6. /\ table' \in [Tokens -> Sessions' \cup {None}]
      /\ expired' \subseteq Held'
      /\ peers' \in [Keys -> Pool \cup {Bare, None}]
      /\ ws' \subseteq Keys /\ paths' \subseteq Keys
      /\ AddressesDistinct' /\ WithinGrants'
      /\ PeersInjective' /\ PeersInstalled' /\ PeersExplained'
  BY <1>1, <1>5, DropKeeps DEF Free
<1>7. Typed'
  BY <1>1, <1>4, <1>5, <1>6 DEF IInv, Typed
<1>8. RenewHeld'
  BY <1>5 DEF RenewHeld, Free
<1>9. AuthReserved'
  <2>1. Held' = Live /\ \A t \in Held' : table'[t] = table[t]
    BY <1>1, TableShrinks DEF Drop, Live
  <2>2. \A t \in Live : table[t].key # op.key
    BY <1>1 DEF OnKey
  <2>3. Used({})' = Used({})
    BY <1>1 DEF Used
  <2>4. ip \in Pool \ Used(Live) => ip \notin Used({}) /\ \A t \in Live : table[t].ip # ip
    BY UsedOfSessions
  <2> QED BY <1>1, <1>5, <2>1, <2>2, <2>3, <2>4 DEF IInv, AuthReserved, Free
<1> QED BY <1>6, <1>7, <1>8, <1>9 DEF IInv

\* The device moves the address to the peer it is given, which may take it
\* from nobody who still has a use for it.
LEMMA PeerMoves ==
  ASSUME IInv, NEW k \in Keys, NEW i \in Pool, peers' = WithPeer(peers, k, i)
  PROVE  /\ peers' \in [Keys -> Pool \cup {Bare, None}] /\ PeersInjective'
         /\ peers'[k] = i
         /\ \A j \in Keys : j # k => /\ peers'[j] # None <=> peers[j] # None
                                     /\ peers[j] # i => peers'[j] = peers[j]
<1>1. peers \in [Keys -> Pool \cup {Bare, None}] /\ None \notin Pool \cup {Bare} /\ Bare \notin Pool
  BY NoneDistinct, SessionConstants DEF IInv, Typed, Bare, Pool
<1> HIDE DEF Bare
<1>2. peers' \in [Keys -> Pool \cup {Bare, None}] /\ peers'[k] = i
  BY <1>1 DEF WithPeer
<1>3. PeersInjective'
  BY <1>1 DEF WithPeer, IInv, PeersInjective
<1>4. \A j \in Keys : j # k => /\ peers'[j] # None <=> peers[j] # None
                               /\ peers[j] # i => peers'[j] = peers[j]
  BY <1>1 DEF WithPeer
<1> QED BY <1>2, <1>3, <1>4

LEMMA AddPeerInv == ASSUME IInv, AddPeer PROVE IInv'
<1> USE DEF fileVars, sessVars, carrVars
<1>1. /\ op.kind = "auth" /\ op.at = "peer" /\ op \in AuthOps /\ op.key \in Keys
      /\ peers' = WithPeer(peers, op.key, op.ip)
      /\ stranded' = stranded \ {op.key} /\ op' = [op EXCEPT !.at = "create"]
      /\ UNCHANGED <<fileVars, sessVars, carrVars, req>>
  BY AuthTypes DEF AddPeer, Authenticating
<1>2. /\ op.ip \in Pool /\ op.ip \notin Used({})
      /\ \A t \in Held : table[t].key # op.key /\ table[t].ip # op.ip
  BY <1>1 DEF IInv, AuthReserved
<1>3. /\ peers' \in [Keys -> Pool \cup {Bare, None}] /\ PeersInjective'
      /\ peers'[op.key] = op.ip
      /\ \A j \in Keys : j # op.key => /\ peers'[j] # None <=> peers[j] # None
                                       /\ peers[j] # op.ip => peers'[j] = peers[j]
  BY <1>1, <1>2, PeerMoves
<1>4. /\ op' \in AuthOps' /\ op'.kind = "auth" /\ op'.at = "create" /\ op'.key = op.key
      /\ op'.who = op.who /\ op'.tunnels = op.tunnels /\ op'.ip = op.ip
  BY <1>1 DEF AuthOps, Granted
<1>5. Held' = Held /\ Used({})' = Used({}) /\ table' = table /\ cfg' = cfg
  BY <1>1 DEF Held, Used
<1>6. Typed'
  BY <1>1, <1>3, <1>4, <1>5 DEF IInv, Typed, Sessions
<1>7. AddressesDistinct' /\ WithinGrants'
  BY <1>5 DEF IInv, AddressesDistinct, WithinGrants
<1>8. PeersInstalled'
  <2>1. \A t \in Held : peers'[table[t].key] = table[t].ip
    BY <1>2, <1>3, HeldSessions DEF IInv, PeersInstalled
  <2>2. \A k \in Keys : cfg.native[k] # None => peers'[k] = cfg.native[k]
    <3> SUFFICES ASSUME NEW k \in Keys, cfg.native[k] # None PROVE peers'[k] = cfg.native[k]
      OBVIOUS
    <3>1. peers[k] = cfg.native[k] /\ cfg.native[k] \in Used({})
      BY NativeUsed DEF IInv, PeersInstalled
    <3>2. k # op.key
      BY <1>1 DEF IInv, AuthReserved
    <3> QED BY <1>2, <1>3, <3>1, <3>2
  <2> QED BY <2>1, <2>2, <1>5 DEF PeersInstalled
<1>9. PeersExplained'
  BY <1>1, <1>3, <1>4, <1>5 DEF IInv, PeersExplained
<1>10. AuthReserved' /\ RenewHeld'
  BY <1>1, <1>2, <1>3, <1>4, <1>5 DEF IInv, AuthReserved, RenewHeld
<1> QED BY <1>3, <1>6, <1>7, <1>8, <1>9, <1>10 DEF IInv

\* The device refuses: the peer of the session that was replaced is stranded.
LEMMA AddPeerFailsInv == ASSUME IInv, AddPeerFails PROVE IInv'
<1> USE DEF fileVars, sessVars, carrVars
<1>1. /\ op.kind = "auth" /\ op.key \in Keys /\ op' = Free
      /\ stranded' = IF peers[op.key] = None THEN stranded ELSE stranded \cup {op.key}
      /\ UNCHANGED <<fileVars, sessVars, peers, carrVars, req>>
  BY AuthTypes DEF AddPeerFails, Authenticating
<1>2. Held' = Held /\ Used({})' = Used({}) /\ table' = table /\ cfg' = cfg
  BY <1>1 DEF Held, Used
<1>3. Typed'
  BY <1>1, <1>2 DEF IInv, Typed, Sessions
<1>4. AddressesDistinct' /\ WithinGrants' /\ PeersInjective' /\ PeersInstalled'
  BY <1>1, <1>2 DEF IInv, AddressesDistinct, WithinGrants, PeersInjective, PeersInstalled
<1>5. PeersExplained'
  BY <1>1, <1>2 DEF IInv, PeersExplained
<1>6. AuthReserved' /\ RenewHeld'
  BY <1>1 DEF AuthReserved, RenewHeld, Free
<1> QED BY <1>3, <1>4, <1>5, <1>6 DEF IInv

\* The session is in the table.
LEMMA CreateInv == ASSUME IInv, NEW t \in Tokens, Create(t) PROVE IInv'
<1> USE DEF fileVars, peerVars, carrVars
<1> DEFINE new == [who |-> op.who, key |-> op.key, ip |-> op.ip, tunnels |-> op.tunnels]
<1>1. /\ op.kind = "auth" /\ op.at = "create" /\ op \in AuthOps /\ op.key \in Keys
      /\ op.who \in Principals
      /\ t \notin Held /\ table' = [table EXCEPT ![t] = new] /\ op' = Free
      /\ UNCHANGED <<fileVars, expired, nextIP, peerVars, carrVars, req>>
  BY AuthTypes DEF Create, Authenticating, Held
<1>2. /\ op.ip \in Pool /\ op.ip \notin Used({}) /\ op.tunnels \subseteq cfg.grants[op.who]
      /\ \A u \in Held : table[u].key # op.key /\ table[u].ip # op.ip
      /\ peers[op.key] = op.ip
  BY <1>1 DEF IInv, AuthReserved
<1>3. new \in Sessions
  BY <1>1, <1>2 DEF Sessions, AuthOps, Granted
<1>4. new # None /\ table \in [Tokens -> Sessions \cup {None}] /\ cfg \in Configs
  BY <1>3, NoneDistinct DEF IInv, Typed, Sessions
<1>5. /\ new.who = op.who /\ new.key = op.key /\ new.ip = op.ip /\ new.tunnels = op.tunnels
  OBVIOUS
<1> HIDE DEF new
<1>6. /\ Held' = Held \cup {t} /\ table'[t] = new
      /\ \A u \in Held : table'[u] = table[u]
      /\ Used({})' = Used({}) /\ cfg' = cfg
  BY <1>1, <1>4 DEF Held, Used
<1>7. table' \in [Tokens -> Sessions' \cup {None}]
  BY <1>1, <1>3, <1>4, <1>6 DEF Sessions
<1>8. Typed'
  BY <1>1, <1>6, <1>7 DEF IInv, Typed
<1>9. AddressesDistinct' /\ WithinGrants'
  BY <1>2, <1>5, <1>6 DEF IInv, AddressesDistinct, WithinGrants
<1>10. PeersInjective' /\ PeersInstalled'
  BY <1>1, <1>2, <1>5, <1>6 DEF IInv, PeersInjective, PeersInstalled
<1>11. PeersExplained'
  BY <1>1, <1>5, <1>6 DEF IInv, PeersExplained
<1>12. AuthReserved' /\ RenewHeld'
  BY <1>1 DEF AuthReserved, RenewHeld, Free
<1> QED BY <1>8, <1>9, <1>10, <1>11, <1>12 DEF IInv

\* A renewal keeps key, address and principal, and may narrow the tunnels.
LEMMA RenewInv ==
  ASSUME IInv, NEW g \in SUBSET table[op.token].tunnels, Renew(g)
  PROVE  IInv'
<1> USE DEF fileVars, carrVars
<1> DEFINE t == op.token
           new == [table[t] EXCEPT !.tunnels = g]
<1>1. /\ op.kind = "renew" /\ t \in Held /\ t \in Tokens /\ op' = Free
      /\ table' = [table EXCEPT ![t] = new] /\ expired' = expired \ {t}
      /\ peers' = WithPeer(peers, table[t].key, table[t].ip)
      /\ UNCHANGED <<stranded, fileVars, nextIP, carrVars, req>>
  BY RenewTypes DEF Renew
<1> HIDE DEF t
<1>2. /\ table[t] \in Sessions /\ table[t].key \in Keys /\ table[t].ip \in Pool
      /\ table[t].who \in Principals
      /\ table[t].tunnels \subseteq cfg.grants[table[t].who]
  BY <1>1, HeldSessions DEF IInv, WithinGrants
<1>3. /\ new \in Sessions /\ new.who = table[t].who /\ new.key = table[t].key
      /\ new.ip = table[t].ip /\ new.tunnels = g /\ g \subseteq table[t].tunnels
  BY <1>2 DEF Sessions, t
<1>4. new # None /\ table \in [Tokens -> Sessions \cup {None}] /\ cfg \in Configs
  BY <1>3, NoneDistinct DEF IInv, Typed, Sessions
<1> HIDE DEF new
<1>5. /\ Held' = Held /\ table'[t] = new
      /\ \A u \in Held : u # t => table'[u] = table[u]
      /\ \A u \in Held : /\ table'[u].key = table[u].key /\ table'[u].ip = table[u].ip
                         /\ table'[u].who = table[u].who
                         /\ table'[u].tunnels \subseteq table[u].tunnels
      /\ Used({})' = Used({}) /\ cfg' = cfg
  BY <1>1, <1>3, <1>4 DEF Held, Used
<1>6. /\ peers' \in [Keys -> Pool \cup {Bare, None}] /\ PeersInjective'
      /\ peers'[table[t].key] = table[t].ip
      /\ \A j \in Keys : j # table[t].key => /\ peers'[j] # None <=> peers[j] # None
                                             /\ peers[j] # table[t].ip => peers'[j] = peers[j]
  BY <1>1, <1>2, PeerMoves
<1>7. table' \in [Tokens -> Sessions' \cup {None}]
  BY <1>1, <1>3, <1>4, <1>5 DEF Sessions
<1>8. Typed'
  BY <1>1, <1>5, <1>6, <1>7 DEF IInv, Typed
<1>9. AddressesDistinct' /\ WithinGrants'
  BY <1>5 DEF IInv, AddressesDistinct, WithinGrants
<1>10. PeersInstalled'
  <2>1. ASSUME NEW u \in Held PROVE peers'[table'[u].key] = table'[u].ip
    <3>1. table[u].key \in Keys /\ peers[table[u].key] = table[u].ip
      BY HeldSessions DEF IInv, PeersInstalled
    <3>2. CASE u = t
      BY <1>5, <1>6, <3>2
    <3>3. CASE u # t
      <4>1. table[u].key # table[t].key /\ table[u].ip # table[t].ip
        BY <1>1, <3>3 DEF IInv, AddressesDistinct
      <4> QED BY <1>5, <1>6, <3>1, <4>1
    <3> QED BY <3>2, <3>3
  <2>2. ASSUME NEW k \in Keys, cfg.native[k] # None PROVE peers'[k] = cfg.native[k]
    <3>1. peers[k] = cfg.native[k] /\ cfg.native[k] \in Used({})
      BY <2>2, NativeUsed DEF IInv, PeersInstalled
    <3>2. table[t].ip \notin Used({}) /\ cfg.native[table[t].key] = None
      BY <1>1, HeldNotNative DEF IInv, AddressesDistinct
    <3> QED BY <1>6, <2>2, <3>1, <3>2
  <2> QED BY <2>1, <2>2, <1>5 DEF PeersInstalled
<1>11. PeersExplained'
  BY <1>1, <1>5, <1>6 DEF IInv, PeersExplained
<1>12. AuthReserved' /\ RenewHeld'
  BY <1>1 DEF AuthReserved, RenewHeld, Free
<1> QED BY <1>6, <1>8, <1>9, <1>10, <1>11, <1>12 DEF IInv

\* Time, files, and the requests that do not hold the mutex.
LEMMA AsideInv ==
  ASSUME IInv,
         \/ \E t \in Tokens : Expire(t)
         \/ \E c \in Configs : EditFiles(c)
         \/ LoadConfig \/ ReloadRejected \/ Carriers
  PROVE  IInv'
<1> USE DEF fileVars, sessVars, peerVars, carrVars
<1>1. UNCHANGED <<cfg, table, nextIP, peers, stranded, op>>
  BY DEF Expire, EditFiles, LoadConfig, ReloadRejected, Carriers, Lookup, Attach, RegisterWSS,
         PunchRegister, Hangup, RegisterDirect
<1>2. Held' = Held /\ Sessions' = Sessions /\ Used({})' = Used({}) /\ AuthOps' = AuthOps
  BY <1>1 DEF Held, Sessions, Used, AuthOps, Granted
<1>3. Typed /\ \A t \in Live : t \in Held /\ table[t].key \in Keys
  BY HeldSessions DEF IInv, Live
<1>4. expired' \subseteq Held
  BY <1>3 DEF Typed, Expire, EditFiles, LoadConfig, ReloadRejected, Carriers, Lookup, Attach,
              RegisterWSS, PunchRegister, Hangup, RegisterDirect, Live
<1>5. disk' \in Configs /\ changed' \in BOOLEAN /\ loaded' \in Configs \cup {None}
  BY <1>3 DEF Typed, Expire, EditFiles, LoadConfig, ReloadRejected, Carriers, Lookup, Attach,
              RegisterWSS, PunchRegister, Hangup, RegisterDirect
<1>6. \A h \in Handlers : req[h].kind # "free" => req[h] \in Requests /\ req[h].key \in Keys
  BY <1>3 DEF Typed, Free, Requests
<1>7. req' \in [Handlers -> {Free} \cup Requests] /\ ws' \subseteq Keys /\ paths' \subseteq Keys
  <2>1. CASE Carriers
    <3>1. ASSUME NEW h \in Handlers, NEW t \in Tokens, NEW what \in {"ws", "punch"},
                 Lookup(h, t, what)
          PROVE  <1>7!:
      BY <1>3, <3>1 DEF Lookup, Typed, Requests
    <3>2. ASSUME NEW h \in Handlers, Attach(h) \/ RegisterWSS(h) \/ PunchRegister(h)
          PROVE  <1>7!:
      <4>1. req[h] \in Requests /\ req[h].key \in Keys
        BY <1>6, <3>2 DEF Attach, RegisterWSS, PunchRegister
      <4>2. [req[h] EXCEPT !.kind = "attached"] \in Requests
        BY <4>1 DEF Requests
      <4> QED BY <1>3, <3>2, <4>1, <4>2 DEF Attach, RegisterWSS, PunchRegister, Typed
    <3>3. CASE (\E k \in Keys : Hangup(k)) \/ (\E t \in Tokens : RegisterDirect(t))
      BY <1>3, <3>3 DEF Hangup, RegisterDirect, Typed
    <3> QED BY <2>1, <3>1, <3>2, <3>3 DEF Carriers
  <2>2. CASE ~Carriers
    BY <1>3, <2>2 DEF Typed, Expire, EditFiles, LoadConfig, ReloadRejected
  <2> QED BY <2>1, <2>2
<1>8. Typed'
  BY <1>1, <1>2, <1>3, <1>4, <1>5, <1>7 DEF Typed
<1>9. AuthReserved' /\ RenewHeld'
  BY <1>1, <1>2 DEF IInv, AuthReserved, RenewHeld
<1> QED BY <1>1, <1>8, <1>9, SessionsKept DEF sessions

\* The peers a reload leaves, key by key: the new native peers, nothing for the
\* sessions it drops and the native peers it removes, and otherwise the peer
\* there was, unless a native peer has taken its address.
LEMMA ReloadPeers ==
  ASSUME IInv, loaded \in Configs, NEW k \in Keys
  PROVE  LET first == Conflicting(loaded)
             last  == Revoked(loaded) \ first
             now   == IF cfg.native = loaded.native THEN Without(peers, first)
                        ELSE NativePeers(Without(peers, first), cfg.native, loaded.native)
             after == Without(now, last)[k]
         IN  \/ loaded.native[k] # None /\ after = loaded.native[k]
             \/ loaded.native[k] = None /\ after = None
             \/ /\ loaded.native[k] = None /\ k \notin KeysOf(first \cup last)
                /\ cfg.native[k] = None
                /\ \/ after = peers[k] /\ \A j \in Keys : loaded.native[j] = peers[k] => peers[k] = None
                   \/ after = Bare /\ peers[k] \in Pool /\ \E j \in Keys : loaded.native[j] = peers[k]
<1> DEFINE first == Conflicting(loaded)
           last  == Revoked(loaded) \ first
           left  == Without(peers, first)
           now   == IF cfg.native = loaded.native THEN left
                      ELSE NativePeers(left, cfg.native, loaded.native)
           after == Without(now, last)[k]
<1>1. \A t \in first : t \in Held
  BY DEF Conflicting
<1>2. \A t \in last : t \in Held /\ loaded.native[table[t].key] = None
  BY DEF Conflicting, Revoked
<1>3. k \in KeysOf(first) \/ k \in KeysOf(last) => cfg.native[k] = None
  BY <1>1, <1>2, HeldNotNative DEF KeysOf
<1>4. k \in KeysOf(last) => loaded.native[k] = None
  BY <1>2 DEF KeysOf
<1>5. cfg.native[k] # None => peers[k] = cfg.native[k]
  BY DEF IInv, PeersInstalled
<1>6. /\ loaded.native[k] \in Pool \cup {None}
      /\ cfg.native \in [Keys -> (Pool \ {1}) \cup {None}] /\ None \notin Pool
      /\ \A j \in Keys : loaded.native[j] \in Pool \cup {None}
  BY ConfigFacts, NoneDistinct DEF IInv, Typed
<1>7. KeysOf(first \cup last) = KeysOf(first) \cup KeysOf(last)
  BY DEF KeysOf
<1>8. after = IF k \in KeysOf(last) THEN None ELSE now[k]
  BY DEF Without
<1>9. left[k] = IF k \in KeysOf(first) THEN None ELSE peers[k]
  BY DEF Without
<1> HIDE DEF first, last, after, left
<1>10. CASE cfg.native = loaded.native
  <2>1. now[k] = left[k]
    BY <1>10
  <2>2. \A j \in Keys : cfg.native[j] # None /\ cfg.native[j] = peers[k] => j = k
    <3> SUFFICES ASSUME NEW j \in Keys, cfg.native[j] # None, cfg.native[j] = peers[k], j # k
                 PROVE  FALSE
      OBVIOUS
    <3>1. peers[j] = peers[k] /\ peers[j] \in Pool
      BY <1>6 DEF IInv, PeersInstalled
    <3> QED BY <3>1 DEF IInv, PeersInjective
  <2> HIDE DEF now
  <2> QED BY <1>3, <1>5, <1>6, <1>7, <1>8, <1>9, <1>10, <2>1, <2>2
               DEF first, last, after, left, now
<1>11. CASE cfg.native # loaded.native
  <2>1. now = NativePeers(left, cfg.native, loaded.native)
    BY <1>11
  <2> HIDE DEF now
  <2>2. now[k] = IF loaded.native[k] # None THEN loaded.native[k]
                 ELSE IF cfg.native[k] # None THEN None
                 ELSE IF left[k] \in {loaded.native[j] : j \in Keys} \ {None} THEN Bare ELSE left[k]
    BY <2>1 DEF NativePeers
  <2> QED BY <1>3, <1>4, <1>6, <1>7, <1>8, <1>9, <2>2 DEF first, last, after, left, now
<1> QED BY <1>10, <1>11

\* A reload: what conflicts with the new native peers and what is revoked goes,
\* and everybody else keeps address and peer.
LEMMA ReloadInv == ASSUME IInv, Reload PROVE IInv'
<1> USE DEF fileVars
<1> DEFINE first == Conflicting(loaded)
           last  == Revoked(loaded) \ first
           gone  == first \cup last
           now   == IF cfg.native = loaded.native THEN Without(peers, first)
                      ELSE NativePeers(Without(peers, first), cfg.native, loaded.native)
<1>1. Apply(gone, Without(now, last)) /\ loaded # None
  BY DEF Reload
<1>2. loaded \in Configs
  BY <1>1 DEF IInv, Typed
<1>3. /\ op = Free /\ op' = Free /\ cfg' = loaded /\ loaded' = None
      /\ table' = [t \in Tokens |-> IF t \in gone THEN None ELSE table[t]]
      /\ expired' = expired \ gone /\ peers' = Without(now, last)
      /\ ws' = ws \ KeysOf(gone) /\ paths' = paths \ KeysOf(gone)
      /\ UNCHANGED <<stranded, disk, changed, nextIP, req>>
  BY <1>1 DEF Apply
<1>4. ASSUME NEW k \in Keys
      PROVE  \/ loaded.native[k] # None /\ peers'[k] = loaded.native[k]
             \/ loaded.native[k] = None /\ peers'[k] = None
             \/ /\ loaded.native[k] = None /\ k \notin KeysOf(gone) /\ cfg.native[k] = None
                /\ \/ peers'[k] = peers[k] /\ \A j \in Keys : loaded.native[j] = peers[k] => peers[k] = None
                   \/ peers'[k] = Bare /\ peers[k] \in Pool /\ \E j \in Keys : loaded.native[j] = peers[k]
  BY <1>2, <1>3, ReloadPeers
<1>5. ASSUME NEW t \in Held \ gone
      PROVE  /\ loaded.native[table[t].key] = None
             /\ \A k \in Keys : loaded.native[k] # table[t].ip
             /\ table[t].tunnels \subseteq loaded.grants[table[t].who]
  BY DEF Conflicting, Revoked
<1>6. DOMAIN peers' = Keys /\ peers' = [k \in Keys |-> peers'[k]]
  BY <1>3 DEF Without
<1> HIDE DEF gone, first, last, now
<1>7. Held' = Held \ gone /\ \A t \in Held' : table'[t] = table[t]
  BY <1>3 DEF Held
<1>8. ASSUME NEW t \in Held' PROVE table'[t] \in Sessions'
  <2>1. t \in Held \ gone /\ table'[t] = table[t]
    BY <1>7
  <2>2. table[t] \in Sessions /\ table[t].who \in Principals
    BY <2>1, HeldSessions DEF IInv
  <2>3. table[t].tunnels \subseteq UNION {loaded.grants[p] : p \in Principals}
    BY <1>5, <2>1, <2>2
  <2> QED BY <1>3, <2>1, <2>2, <2>3 DEF Sessions
<1>9. table' \in [Tokens -> Sessions' \cup {None}]
  BY <1>3, <1>8 DEF Held
<1>10. /\ loaded.native \in [Keys -> (Pool \ {1}) \cup {None}] /\ None \notin Pool
       /\ \A j, k \in Keys : j # k /\ loaded.native[j] # None => loaded.native[j] # loaded.native[k]
       /\ peers \in [Keys -> Pool \cup {Bare, None}] /\ Bare \notin Pool
  BY <1>2, ConfigFacts, NoneDistinct, SessionConstants DEF IInv, Typed, Bare, Pool
<1> HIDE DEF Bare
<1>11. peers' \in [Keys -> Pool \cup {Bare, None}]
  <2>1. \A k \in Keys : peers'[k] \in Pool \cup {Bare, None}
    BY <1>4, <1>10
  <2> QED BY <1>6, <2>1
<1>12. Typed'
  BY <1>2, <1>3, <1>7, <1>9, <1>11 DEF IInv, Typed
<1>13. AddressesDistinct' /\ WithinGrants'
  <2>1. \A t \in Held' : table[t].ip \notin Used({})'
    <3> SUFFICES ASSUME NEW t \in Held', table[t].ip \in Used({})' PROVE FALSE
      OBVIOUS
    <3>1. table[t].ip \notin Used({})
      BY <1>7 DEF IInv, AddressesDistinct
    <3>2. PICK k \in Keys : table[t].ip = loaded.native[k]
      BY <1>3, <3>1 DEF Used
    <3> QED BY <1>5, <1>7, <3>2
  <2>2. AddressesDistinct'
    BY <1>7, <2>1 DEF IInv, AddressesDistinct
  <2>3. WithinGrants'
    BY <1>3, <1>5, <1>7 DEF WithinGrants
  <2> QED BY <2>2, <2>3
<1>14. PeersInjective'
  <2> SUFFICES ASSUME NEW j \in Keys, NEW k \in Keys, j # k, peers'[j] \in Pool,
                      peers'[j] = peers'[k]
               PROVE  FALSE
    BY DEF PeersInjective
  <2>1. peers[j] \in Pool /\ peers[k] \in Pool => peers[j] # peers[k]
    BY DEF IInv, PeersInjective
  <2> QED BY <1>4, <1>10, <2>1
<1>15. PeersInstalled'
  <2>1. ASSUME NEW t \in Held' PROVE peers'[table'[t].key] = table'[t].ip
    <3>1. t \in Held \ gone /\ table'[t] = table[t]
      BY <1>7
    <3>2. /\ table[t].key \in Keys /\ table[t].ip \in Pool
          /\ peers[table[t].key] = table[t].ip
      BY <3>1, HeldSessions DEF IInv, PeersInstalled
    <3>3. table[t].key \notin KeysOf(gone)
      <4>1. \A u \in gone : u \in Held
        BY DEF gone, first, last, Conflicting, Revoked
      <4> QED BY <3>1, <4>1 DEF IInv, AddressesDistinct, KeysOf
    <3>4. cfg.native[table[t].key] = None
      BY <3>1, HeldNotNative
    <3>5. loaded.native[table[t].key] = None /\ \A k \in Keys : loaded.native[k] # table[t].ip
      BY <1>5, <3>1
    <3>6. peers'[table[t].key] # None
      <4>1. Without(Without(peers, first), last)[table[t].key] = peers[table[t].key]
        BY <3>2, <3>3 DEF Without, gone, KeysOf
      <4>2. now[table[t].key] = Without(peers, first)[table[t].key]
        BY <3>2, <3>3, <3>4, <3>5 DEF now, NativePeers, Without, gone, KeysOf
      <4>3. peers'[table[t].key] = peers[table[t].key]
        BY <1>3, <3>2, <3>3, <4>1, <4>2 DEF Without, gone, KeysOf
      <4> QED BY <1>10, <3>2, <4>3
    <3> QED BY <1>4, <3>1, <3>2, <3>5, <3>6
  <2>2. \A k \in Keys : loaded.native[k] # None => peers'[k] = loaded.native[k]
    BY <1>4
  <2> QED BY <1>3, <2>1, <2>2 DEF PeersInstalled
<1>16. PeersExplained'
  <2> SUFFICES ASSUME NEW k \in Keys, peers'[k] # None, loaded.native[k] = None
               PROVE  (\E t \in Held' : table'[t].key = k) \/ k \in stranded'
    BY <1>3 DEF PeersExplained
  <2>1. k \notin KeysOf(gone) /\ cfg.native[k] = None /\ peers[k] # None
    BY <1>4, <1>10
  <2>2. (\E t \in Held : table[t].key = k) \/ k \in stranded
    BY <1>3, <2>1 DEF IInv, PeersExplained, Free
  <2> QED BY <1>3, <1>7, <2>1, <2>2 DEF KeysOf
<1>17. AuthReserved' /\ RenewHeld'
  BY <1>3 DEF AuthReserved, RenewHeld, Free
<1> QED BY <1>12, <1>13, <1>14, <1>15, <1>16, <1>17 DEF IInv

(***************************************************************************)
(* The invariant holds.                                                    *)
(***************************************************************************)

LEMMA StutterInv == ASSUME IInv, UNCHANGED vars PROVE IInv'
<1>1. UNCHANGED <<disk, cfg, changed, loaded, table, expired, nextIP, peers, stranded, ws, paths,
                  op, req>>
  BY DEF vars, fileVars, sessVars, peerVars, carrVars
<1>2. Held' = Held /\ Used({})' = Used({}) /\ Sessions' = Sessions /\ AuthOps' = AuthOps
  BY <1>1 DEF Held, Used, Sessions, AuthOps, Granted
<1>3. Typed' /\ AddressesDistinct' /\ WithinGrants'
  BY <1>1, <1>2 DEF IInv, Typed, AddressesDistinct, WithinGrants
<1>4. PeersInjective' /\ PeersExplained' /\ PeersInstalled' /\ AuthReserved' /\ RenewHeld'
  BY <1>1, <1>2 DEF IInv, PeersInjective, PeersExplained, PeersInstalled, AuthReserved, RenewHeld
<1> QED BY <1>3, <1>4 DEF IInv

LEMMA NextInv == IInv /\ [Next]_vars => IInv'
<1> SUFFICES ASSUME IInv, [Next]_vars PROVE IInv'
  OBVIOUS
<1>1. CASE UNCHANGED vars
  BY <1>1, StutterInv
<1>2. CASE \/ \E p \in Principals, k \in Keys : \E g \in SUBSET cfg.grants[p] : Authorize(p, k, g)
           \/ \E t \in Tokens : RenewStart(t)
  BY <1>2, OperationStarts
<1>3. CASE AuthStep
  BY <1>3, AuthReapInv, RefuseForeignKeyInv, ReplaceOwnSessionInv, AllocateIPInv, AddPeerInv,
     AddPeerFailsInv, CreateInv DEF AuthStep
<1>4. CASE RenewStep
  BY <1>4, SessionsEnd, RenewInv DEF RenewStep
<1>5. CASE ReapSessions \/ \E t \in Tokens : Disconnect(t) \/ RevokeSession(t)
  BY <1>5, SessionsEnd DEF RevokeSession
<1>6. CASE \/ \E t \in Tokens : Expire(t)
           \/ \E c \in Configs : EditFiles(c)
           \/ LoadConfig \/ ReloadRejected \/ Carriers
  BY <1>6, AsideInv
<1>7. CASE Reload
  BY <1>7, ReloadInv
<1> QED BY <1>1, <1>2, <1>3, <1>4, <1>5, <1>6, <1>7 DEF Next

\* The inductive invariant: between the critical sections of an authentication,
\* a renewal or a reload, what each of them left behind is explained by where
\* it is.
THEOREM SessionsInvariant == Spec => []IInv
BY InitInv, NextInv, PTL DEF Spec

LEMMA SoundSessions == IInv => SessionsSound
<1> SUFFICES ASSUME IInv PROVE SessionsSound
  OBVIOUS
<1>1. op.kind \in {"free", "auth", "renew"}
  BY DEF IInv, Typed, Free, AuthOps, RenewOps
<1>2. \A h \in Handlers : req[h].kind \in {"free", "ws", "attached", "punch"}
  BY DEF IInv, Typed, Free, Requests
<1>3. TypeOK
  BY <1>1, <1>2 DEF IInv, Typed, TypeOK
<1>4. PeersFollowSessions
  BY DEF IInv, PeersInstalled, PeersExplained, PeersFollowSessions, KeysOf
<1> QED BY <1>3, <1>4 DEF IInv, SessionsSound

\* The session table, the tunnel addresses and the WireGuard peers agree
\* whatever order authentication, renewal, disconnect, revocation, expiry and
\* reload take: no two sessions share a key or an address, none has a reserved
\* address, each has its peer, and no peer is left without a reason.
THEOREM SessionsAreSound == Spec => []SessionsSound
BY SessionsInvariant, SoundSessions, PTL

LEMMA OwnTraffic == IInv => TrafficHasItsPrincipal
<1> SUFFICES ASSUME IInv, NEW k \in Keys, peers[k] \in Pool
             PROVE  KeyForIP(peers[k]) \in {k, None}
  BY DEF TrafficHasItsPrincipal
<1> DEFINE ip == peers[k]
<1>1. \A t \in Live : table[t].key \in Keys /\ peers[table[t].key] = table[t].ip
  BY HeldSessions DEF IInv, PeersInstalled, Live
<1>2. \A j \in Keys : peers[j] = ip => j = k
  BY DEF IInv, PeersInjective
<1>3. ip # None
  BY NoneDistinct
<1>4. CASE \E t \in Live : table[t].ip = ip
  <2>1. \E s \in {table[t] : t \in Live} : s.ip = ip
    BY <1>4
  <2>2. PICK t \in Live : /\ (CHOOSE s \in {table[u] : u \in Live} : s.ip = ip) = table[t]
                          /\ table[t].ip = ip
    BY <2>1
  <2>3. table[t].key = k
    BY <1>1, <1>2, <2>2
  <2> QED BY <1>4, <2>2, <2>3 DEF KeyForIP
<1>5. CASE /\ ~\E t \in Live : table[t].ip = ip
           /\ \E j \in Keys : cfg.native[j] = ip
  <2>1. PICK j \in Keys : (CHOOSE i \in Keys : cfg.native[i] = ip) = j /\ cfg.native[j] = ip
    BY <1>5
  <2>2. peers[j] = ip
    BY <1>3, <2>1 DEF IInv, PeersInstalled
  <2>3. j = k
    BY <1>2, <2>2
  <2> QED BY <1>5, <2>1, <2>3 DEF KeyForIP
<1>6. CASE /\ ~\E t \in Live : table[t].ip = ip
           /\ ~\E j \in Keys : cfg.native[j] = ip
  BY <1>6 DEF KeyForIP
<1> QED BY <1>4, <1>5, <1>6

\* principalForIP takes what a WireGuard key sends for that key's own session
\* or native peer, or for nobody's.
THEOREM TrafficIsItsPrincipals == Spec => []TrafficHasItsPrincipal
BY SessionsInvariant, OwnTraffic, PTL

LEMMA HeldWithinGrants == IInv => WithinGrants
BY DEF IInv

\* A reload leaves no session with a tunnel that the configuration no longer
\* grants its principal, not even one that an authentication or a renewal
\* was about to create.
THEOREM SessionsStayWithinGrants == Spec => []WithinGrants
BY SessionsInvariant, HeldWithinGrants, PTL

(***************************************************************************)
(* Paths and carriers.                                                     *)
(***************************************************************************)

PathStep ==
  /\ \A k \in paths' \ paths :
       \/ k \in KeysOf(Live)
       \/ \E h \in Handlers : req[h] = [kind |-> "punch", key |-> k] /\ req'[h] = Free
  /\ \A k \in KeysOf(Held) \ KeysOf(Held)' :
       k \notin paths' \cup ws' \/ op'.kind = "auth"

\* Sessions that end take their paths and carriers along.
LEMMA EndingPaths ==
  ASSUME IInv, NEW T, table' = [t \in Tokens |-> IF t \in T THEN None ELSE table[t]],
         ws' = ws \ KeysOf(T), paths' = paths \ KeysOf(T)
  PROVE  PathStep
<1>1. \A t \in Held \ T : t \in Held' /\ table'[t] = table[t]
  BY DEF Held
<1>2. \A k \in KeysOf(Held) \ KeysOf(Held)' : k \in KeysOf(T)
  BY <1>1 DEF KeysOf
<1> QED BY <1>2 DEF PathStep

\* Sessions that keep their keys keep what hangs on them.
LEMMA KeptPaths ==
  ASSUME paths' = paths, \A t \in Held : t \in Held' /\ table'[t].key = table[t].key
  PROVE  PathStep
BY DEF PathStep, KeysOf

LEMMA SamePaths == ASSUME UNCHANGED <<table, paths>> PROVE PathStep
BY KeptPaths DEF Held

LEMMA PathSteps == IInv /\ [Next]_vars => PathStep
<1> SUFFICES ASSUME IInv, [Next]_vars PROVE PathStep
  OBVIOUS
<1>1. CASE UNCHANGED vars
  BY <1>1, SamePaths DEF vars, sessVars, carrVars
<1>2. CASE \/ \E p \in Principals, k \in Keys : \E g \in SUBSET cfg.grants[p] : Authorize(p, k, g)
           \/ \E t \in Tokens : RenewStart(t) \/ Expire(t)
           \/ RefuseForeignKey \/ AddPeer \/ AddPeerFails
           \/ \E c \in Configs : EditFiles(c)
           \/ LoadConfig \/ ReloadRejected
           \/ \E h \in Handlers, t \in Tokens, what \in {"ws", "punch"} : Lookup(h, t, what)
           \/ \E h \in Handlers : Attach(h)
           \/ \E k \in Keys : Hangup(k)
  <2>1. UNCHANGED <<table, paths>>
    BY <1>2 DEF Authorize, RenewStart, Expire, RefuseForeignKey, AddPeer, AddPeerFails, EditFiles,
       LoadConfig, ReloadRejected, Lookup, Attach, Hangup, sessVars, carrVars
  <2> QED BY <2>1, SamePaths
<1>3. CASE AuthReap \/ AllocateIP \/ RenewDenied \/ ReapSessions
           \/ \E t \in Tokens : Disconnect(t) \/ RevokeSession(t)
  <2>1. PICK T : Drop(T)
    BY <1>3 DEF AuthReap, AllocateIP, RenewDenied, ReapSessions, Disconnect, RevokeSession
  <2> QED BY <2>1, EndingPaths DEF Drop
<1>4. CASE ReplaceOwnSession
  <2>1. op'.kind = "auth" /\ paths' = paths
    BY <1>4, AuthTypes DEF ReplaceOwnSession, Authenticating, carrVars, AuthOps
  <2> QED BY <2>1 DEF PathStep
<1>5. ASSUME NEW t \in Tokens, Create(t) PROVE PathStep
  <2>1. paths' = paths /\ \A u \in Held : u \in Held' /\ table'[u].key = table[u].key
    BY <1>5 DEF Create, carrVars, Held, IInv, Typed
  <2> QED BY <2>1, KeptPaths
<1>6. ASSUME NEW g \in SUBSET table[op.token].tunnels, Renew(g) PROVE PathStep
  <2>1. op.token \in Held /\ table[op.token] \in Sessions
    BY <1>6, RenewTypes, HeldSessions DEF Renew, IInv
  <2>2. /\ paths' = paths /\ table \in [Tokens -> Sessions \cup {None}]
        /\ table' = [table EXCEPT ![op.token] = [table[op.token] EXCEPT !.tunnels = g]]
    BY <1>6 DEF Renew, carrVars, IInv, Typed
  <2>3. /\ [table[op.token] EXCEPT !.tunnels = g] \in [who : Principals, key : Keys, ip : Pool, tunnels : SUBSET UNION {cfg.grants[p] : p \in Principals}]
        /\ [table[op.token] EXCEPT !.tunnels = g].key = table[op.token].key
    BY <2>1, HeldSessions DEF Sessions
  <2>4. [table[op.token] EXCEPT !.tunnels = g] # None
    BY <2>3, NoneDistinct DEF IInv, Typed
  <2>5. \A u \in Held : u \in Held' /\ table'[u].key = table[u].key
    BY <2>2, <2>3, <2>4 DEF Held
  <2> QED BY <2>2, <2>5, KeptPaths
<1>7. CASE Reload
  <2>1. PICK gone, now : Apply(gone, now)
    BY <1>7 DEF Reload
  <2> QED BY <2>1, EndingPaths DEF Apply
<1>8. ASSUME NEW h \in Handlers, RegisterWSS(h) \/ PunchRegister(h) PROVE PathStep
  <2>1. table' = table /\ req' = [req EXCEPT ![h] = Free]
    BY <1>8 DEF RegisterWSS, PunchRegister, sessVars
  <2>2. KeysOf(Held)' = KeysOf(Held)
    BY <2>1 DEF KeysOf, Held
  <2>3. CASE RegisterWSS(h)
    BY <2>2, <2>3 DEF RegisterWSS, PathStep, KeysOf
  <2>4. CASE PunchRegister(h)
    <3>1. req[h].kind = "punch" /\ paths' = paths \cup {req[h].key}
      BY <2>4 DEF PunchRegister
    <3>2. req \in [Handlers -> {Free} \cup Requests]
      BY DEF IInv, Typed
    <3>3. req[h] = [kind |-> "punch", key |-> req[h].key] /\ req'[h] = Free
      BY <2>1, <3>1, <3>2 DEF Requests, Free
    <3> QED BY <2>2, <3>1, <3>3 DEF PathStep
  <2> QED BY <1>8, <2>3, <2>4
<1>9. ASSUME NEW t \in Tokens, RegisterDirect(t) PROVE PathStep
  <2>1. KeysOf(Held)' = KeysOf(Held)
    BY <1>9 DEF RegisterDirect, sessVars, KeysOf, Held
  <2> QED BY <1>9, <2>1 DEF RegisterDirect, PathStep, KeysOf
<1> QED BY <1>1, <1>2, <1>3, <1>4, <1>5, <1>6, <1>7, <1>8, <1>9
     DEF Next, AuthStep, RenewStep, Carriers

\* The multipath bind keeps a path only for a key whose session was there when
\* it was registered, and dropSession takes the paths and the carrier along,
\* unless the same client is replacing its session; punch alone may be late.
THEOREM PathsGoWithSessions == Spec => PathsFollowSessions
<1>1. IInv /\ [Next]_vars => [PathStep]_vars
  BY PathSteps
<1> QED BY <1>1, SessionsInvariant, PTL DEF Spec, PathsFollowSessions, PathStep

-----------------------------------------------------------------------------
(***************************************************************************)
(* The server behind its relays (ServerRelay), for any relays, clients and *)
(* tokens. First the pool: what the server was told is what there is.      *)
(***************************************************************************)
Flags == {"preferred", "set"}
Snaps == [agent : Members \cup {None}, udp : BOOLEAN, set : SUBSET (Members \X (0 .. 1))]
Updates ==
  {[at |-> "idle"], [at |-> "done"]}
    \cup [at : {"snapped"}, latest : BOOLEAN, snap : Snaps]
    \cup [at : {"publish"}, flags : SUBSET Flags, snap : Snaps]

PoolTyped ==
  /\ ctl \in [Members -> {"down", "joining", "up", "dropped", "leaving"}]
  /\ relayWs \subseteq Members /\ reg \subseteq Members
  /\ resp \in [Members -> Responses \cup {Relay!NoResponse}] /\ serial \in [Members -> 0 .. 1]
  /\ preferred \in Members \cup {None} /\ cb \in Members \cup {None}
  /\ pending \subseteq Flags /\ upd \in [Members -> Updates]
  /\ pub \in Snaps /\ closed \in BOOLEAN

\* What the server should know.
Truth == [agent |-> preferred, udp |-> preferred # None /\ resp[preferred].udp,
          set |-> Relay!NativeSet(reg, resp, serial)]

\* What it will have been told by whoever holds callbacksMu.
Overlay(old, flags, new) ==
  [agent |-> IF "preferred" \in flags THEN new.agent ELSE old.agent,
   udp   |-> IF "preferred" \in flags THEN new.udp ELSE old.udp,
   set   |-> IF "set" \in flags THEN new.set ELSE old.set]
Told == IF cb = None THEN pub ELSE Overlay(pub, upd[cb].flags, upd[cb].snap)

\* A member's Run goroutine is in update only while it joins or leaves.
RunsOne == \A m \in Members : ctl[m] \in {"down", "up", "dropped"} => upd[m].at = "idle"

OnePublisher == \A m \in Members : upd[m].at = "publish" <=> cb = m

\* The latest snapshot is the truth, and is there while something is pending.
LatestIsTrue ==
  \A m \in Members : upd[m].at = "snapped" /\ upd[m].latest => upd[m].snap = Truth
PendingHasSnapshot ==
  pending # {} => \E m \in Members : upd[m].at = "snapped" /\ upd[m].latest

\* What nobody has promised to tell is told, or is being told.
ToldOrPending ==
  /\ "preferred" \in pending \/ (Told.agent = Truth.agent /\ Told.udp = Truth.udp)
  /\ "set" \in pending \/ Told.set = Truth.set

ClosedIsQuiet == closed => cb = None /\ pub = Relay!Nothing /\ udpr = None

PoolInv ==
  /\ PoolTyped /\ RunsOne /\ OnePublisher /\ ClosedIsQuiet
  /\ ~closed => LatestIsTrue /\ PendingHasSnapshot /\ ToldOrPending

LEMMA PoolInit == ASSUME Relay!Init PROVE PoolInv
<1> USE DEF Relay!Init, Relay!Idle, Relay!Nothing
<1>1. PoolTyped
  <2>1. upd \in [Members -> Updates]
    BY DEF Updates
  <2>2. pub \in Snaps
    BY DEF Snaps
  <2>3. /\ ctl \in [Members -> {"down", "joining", "up", "dropped", "leaving"}]
        /\ resp \in [Members -> Responses \cup {Relay!NoResponse}] /\ serial \in [Members -> 0 .. 1]
    OBVIOUS
  <2>4. /\ relayWs = {} /\ reg = {} /\ preferred = None /\ cb = None /\ pending = {} /\ closed = FALSE
    OBVIOUS
  <2> HIDE DEF Relay!Init
  <2> QED BY <2>1, <2>2, <2>3, <2>4 DEF PoolTyped
<1>2. RunsOne /\ OnePublisher /\ ClosedIsQuiet
  BY RelayConstants DEF RunsOne, OnePublisher, ClosedIsQuiet
<1>3. LatestIsTrue /\ PendingHasSnapshot
  BY DEF LatestIsTrue, PendingHasSnapshot
<1>4. ToldOrPending
  BY DEF ToldOrPending, Told, Truth, Relay!NativeSet
<1> QED BY <1>1, <1>2, <1>3, <1>4 DEF PoolInv

\* The records of update keep their shape.
LEMMA UpdateShapes ==
  ASSUME NEW u \in Updates
  PROVE  /\ u.at \in {"idle", "done", "snapped", "publish"}
         /\ u.at = "snapped" => /\ u \in [at : {"snapped"}, latest : BOOLEAN, snap : Snaps]
                                /\ [u EXCEPT !.latest = FALSE] \in Updates
                                /\ [u EXCEPT !.latest = FALSE].at = "snapped"
                                /\ [u EXCEPT !.latest = FALSE].latest = FALSE
         /\ u.at = "publish" => u \in [at : {"publish"}, flags : SUBSET Flags, snap : Snaps]
<1>1. u.at \in {"idle", "done", "snapped", "publish"}
  BY DEF Updates
<1>2. u.at = "snapped" => u \in [at : {"snapped"}, latest : BOOLEAN, snap : Snaps]
  BY DEF Updates
<1>3. u.at = "publish" => u \in [at : {"publish"}, flags : SUBSET Flags, snap : Snaps]
  BY DEF Updates
<1>4. ASSUME u.at = "snapped"
      PROVE  /\ [u EXCEPT !.latest = FALSE] \in Updates
             /\ [u EXCEPT !.latest = FALSE].at = "snapped"
             /\ [u EXCEPT !.latest = FALSE].latest = FALSE
  <2>1. /\ [u EXCEPT !.latest = FALSE] \in [at : {"snapped"}, latest : BOOLEAN, snap : Snaps]
        /\ [u EXCEPT !.latest = FALSE].at = "snapped"
        /\ [u EXCEPT !.latest = FALSE].latest = FALSE
    BY <1>2, <1>4
  <2> QED BY <2>1 DEF Updates
<1> QED BY <1>1, <1>2, <1>3, <1>4

\* The association of a member has its number.
LEMMA NativeSets ==
  ASSUME NEW rs \in SUBSET Members, NEW pr, NEW sn \in [Members -> 0 .. 1]
  PROVE  Relay!NativeSet(rs, pr, sn) \subseteq Members \X (0 .. 1)
BY DEF Relay!NativeSet

LEMMA ResponseUDP ==
  ASSUME NEW q \in Responses \cup {Relay!NoResponse}
  PROVE  q.udp \in BOOLEAN
<1>1. CASE q \in Responses
  BY <1>1, RelayConstants
<1>2. CASE q = [udp |-> FALSE, native |-> FALSE, domain |-> None]
  BY <1>2
<1> QED BY <1>1, <1>2 DEF Relay!NoResponse

\* The first critical section of update.
LEMMA UpdateInv ==
  ASSUME PoolInv, NEW m \in Members, NEW registered \in BOOLEAN,
         NEW r \in Responses \cup {Relay!NoResponse}, Relay!Update(m, registered, r),
         ctl[m] \in {"down", "dropped"}, NEW l \in {"joining", "leaving"},
         ctl' = [ctl EXCEPT ![m] = l], relayWs' \subseteq Members, udpr' = udpr
  PROVE  PoolInv'
<1>1. PoolTyped /\ RunsOne /\ OnePublisher /\ ClosedIsQuiet
  BY DEF PoolInv
<1>2. upd[m].at = "idle" /\ cb # m
  BY <1>1 DEF RunsOne, OnePublisher
<1>3. ctl' \in [Members -> {"down", "joining", "up", "dropped", "leaving"}] /\ ctl'[m] = l
      /\ \A n \in Members \ {m} : ctl'[n] = ctl[n]
  BY <1>1 DEF PoolTyped
<1>4. [at |-> "done"] \in Updates /\ [at |-> "done"].at = "done"
  BY DEF Updates
<1>5. CASE closed
  <2>1. /\ upd' = [upd EXCEPT ![m] = [at |-> "done"]]
        /\ UNCHANGED <<resp, serial, reg, domain, preferred, pending, cb, closed, pub>>
    BY <1>5 DEF Relay!Update
  <2>2. /\ upd' \in [Members -> Updates] /\ upd'[m].at = "done"
        /\ \A n \in Members \ {m} : upd'[n] = upd[n]
    BY <1>1, <1>4, <2>1 DEF PoolTyped
  <2>3. PoolTyped'
    BY <1>1, <1>3, <2>1, <2>2 DEF PoolTyped
  <2>4. RunsOne' /\ OnePublisher' /\ ClosedIsQuiet'
    BY <1>1, <1>2, <1>3, <2>1, <2>2 DEF RunsOne, OnePublisher, ClosedIsQuiet
  <2> QED BY <1>5, <2>1, <2>3, <2>4 DEF PoolInv
<1>6. CASE ~closed
  <2> DEFINE ok     == registered /\ (None \in {r.domain, domain} \/ r.domain = domain)
             sn     == [serial EXCEPT ![m] = IF registered THEN 1 - @ ELSE @]
             rs     == IF ok THEN reg \cup {m} ELSE reg \ {m}
             pr     == [resp EXCEPT ![m] = r]
             newSet == Relay!NativeSet(rs, pr, sn)
             moved(best) ==
               (IF best # preferred \/ (best = m /\ ok /\ Relay!Differs(resp[m], r))
                  THEN {"preferred"} ELSE {})
               \cup (IF newSet # Relay!NativeSet(reg, resp, serial) THEN {"set"} ELSE {})
             snap(best) == [agent |-> best, udp |-> best # None /\ pr[best].udp, set |-> newSet]
             new(best) == [at |-> "snapped", latest |-> TRUE, snap |-> snap(best)]
  <2>1. PICK best \in Relay!ChoosePreferred(rs) :
          /\ resp' = pr /\ serial' = sn /\ reg' = rs /\ preferred' = best
          /\ pending' = Relay!Flags(moved(best))
          /\ upd' = IF moved(best) = {} THEN [upd EXCEPT ![m] = [at |-> "done"]]
                    ELSE [n \in Members |->
                            IF n = m THEN new(best)
                            ELSE IF upd[n].at = "snapped" THEN [upd[n] EXCEPT !.latest = FALSE]
                            ELSE upd[n]]
          /\ UNCHANGED <<cb, closed, pub>>
    BY <1>6 DEF Relay!Update
  <2>2. rs \in SUBSET Members /\ pr \in [Members -> Responses \cup {Relay!NoResponse}]
        /\ sn \in [Members -> 0 .. 1]
    BY <1>1 DEF PoolTyped
  <2>3. newSet \subseteq Members \X (0 .. 1)
    BY <2>2, NativeSets
  <2>4. (best = None \/ best \in rs) /\ (best = m => ok)
    BY <2>1, <1>1, RelayConstants DEF Relay!ChoosePreferred
  <2>5. \A n \in Members : pr[n].udp \in BOOLEAN
    <3> HIDE DEF pr
    <3> QED BY <2>2, ResponseUDP
  <2>6. snap(best) \in Snaps
    BY <2>2, <2>3, <2>4, <2>5 DEF Snaps
  <2>7. Truth' = snap(best)
    BY <2>1 DEF Truth, Relay!NativeSet
  <2>8. /\ "preferred" \notin moved(best) => /\ Truth'.agent = Truth.agent
                                              /\ Truth'.udp = Truth.udp
        /\ "set" \notin moved(best) => Truth'.set = Truth.set
    <3>1. "set" \notin moved(best) => Truth'.set = Truth.set
      BY <2>7 DEF Truth
    <3>2. ASSUME "preferred" \notin moved(best)
          PROVE  best = preferred /\ (best # None => pr[best].udp = resp[best].udp)
      <4>1. best = preferred /\ ~(best = m /\ ok /\ Relay!Differs(resp[m], r))
        BY <3>2
      <4>2. CASE best = m
        <5>1. resp[m].udp = r.udp
          BY <2>4, <4>1, <4>2 DEF Relay!Differs
        <5> QED BY <1>1, <4>1, <4>2, <5>1 DEF PoolTyped
      <4>3. CASE best # m
        BY <1>1, <2>2, <2>4, <4>1, <4>3 DEF PoolTyped
      <4> QED BY <4>2, <4>3
    <3>3. ASSUME "preferred" \notin moved(best)
          PROVE  Truth'.agent = Truth.agent /\ Truth'.udp = Truth.udp
      BY <2>7, <3>2, <3>3 DEF Truth
    <3> QED BY <3>1, <3>3
  <2>9. pending' = pending \cup moved(best) /\ moved(best) \subseteq Flags
    BY <2>1 DEF Relay!Flags, Flags
  <2> DEFINE ch == moved(best)
             nu == new(best)
             tr == snap(best)
  <2>10. /\ nu \in Updates /\ nu.at = "snapped" /\ nu.latest = TRUE /\ nu.snap = tr
    BY <2>6 DEF Updates
  <2>11. ch # {} => tr = Truth'
    BY <2>7
  <2>12. Truth \in Snaps
    <3>1. \A n \in Members : resp[n].udp \in BOOLEAN
      BY <1>1, ResponseUDP DEF PoolTyped
    <3>2. Relay!NativeSet(reg, resp, serial) \subseteq Members \X (0 .. 1)
      BY <1>1, NativeSets DEF PoolTyped
    <3> QED BY <1>1, <3>1, <3>2 DEF Truth, Snaps, PoolTyped
  <2>13. /\ upd' = IF ch = {} THEN [upd EXCEPT ![m] = [at |-> "done"]]
                   ELSE [n \in Members |->
                           IF n = m THEN nu
                           ELSE IF upd[n].at = "snapped" THEN [upd[n] EXCEPT !.latest = FALSE]
                           ELSE upd[n]]
         /\ Truth' \in Snaps
    BY <2>1, <2>6, <2>7
  <2> HIDE DEF ch, nu, tr, new, snap, moved
  <2>14. /\ upd' \in [Members -> Updates]
         /\ upd'[m].at \in {"done", "snapped"}
         /\ \A n \in Members \ {m} : /\ upd'[n].at = upd[n].at
                                     /\ upd[n].at = "publish" => upd'[n] = upd[n]
                                     /\ upd'[n].at = "snapped" /\ upd'[n].latest =>
                                          ch = {} /\ upd'[n] = upd[n]
                                     /\ ch = {} => upd'[n] = upd[n]
         /\ ch # {} => upd'[m] = nu
         /\ ch = {} => upd'[m].at = "done"
    <3>1. \A n \in Members : upd[n] \in Updates
      BY <1>1 DEF PoolTyped
    <3>2. CASE ch = {}
      <4>1. upd' = [upd EXCEPT ![m] = [at |-> "done"]]
        BY <2>13, <3>2
      <4> QED BY <1>1, <1>4, <3>2, <4>1 DEF PoolTyped
    <3>3. CASE ch # {}
      <4>1. upd' = [n \in Members |->
                      IF n = m THEN nu
                      ELSE IF upd[n].at = "snapped" THEN [upd[n] EXCEPT !.latest = FALSE]
                      ELSE upd[n]]
        BY <2>13, <3>3
      <4>2. upd'[m] = nu /\ \A n \in Members \ {m} :
              upd'[n] = IF upd[n].at = "snapped" THEN [upd[n] EXCEPT !.latest = FALSE] ELSE upd[n]
        BY <4>1
      <4>3. \A n \in Members \ {m} :
              /\ upd'[n] \in Updates /\ upd'[n].at = upd[n].at
              /\ upd[n].at # "snapped" => upd'[n] = upd[n]
              /\ upd[n].at = "snapped" => upd'[n].latest = FALSE
        <5> TAKE n \in Members \ {m}
        <5>1. CASE upd[n].at = "snapped"
          <6> DEFINE u == upd[n]
                     w == [u EXCEPT !.latest = FALSE]
          <6>1. upd'[n] = w /\ u \in Updates /\ u.at = "snapped"
            BY <3>1, <4>2, <5>1
          <6>2. w \in Updates /\ w.at = "snapped" /\ w.latest = FALSE
            <7> HIDE DEF u
            <7> QED BY <6>1, UpdateShapes
          <6> HIDE DEF w
          <6> QED BY <6>1, <6>2
        <5>2. CASE upd[n].at # "snapped"
          BY <3>1, <4>2, <5>2
        <5> QED BY <5>1, <5>2
      <4>4. upd' \in [Members -> Updates]
        BY <2>10, <4>1, <4>2, <4>3
      <4> QED BY <2>10, <3>3, <4>2, <4>3, <4>4
    <3> QED BY <3>2, <3>3
  <2>15. PoolTyped'
    <3>1. preferred' \in Members \cup {None} /\ reg' \in SUBSET Members
          /\ resp' \in [Members -> Responses \cup {Relay!NoResponse}] /\ serial' \in [Members -> 0 .. 1]
      BY <2>1, <2>2, <2>4
    <3>2. pending' \subseteq Flags
      BY <1>1, <2>9 DEF PoolTyped
    <3> QED BY <1>1, <1>3, <2>1, <2>14, <3>1, <3>2 DEF PoolTyped
  <2>16. RunsOne' /\ OnePublisher' /\ ClosedIsQuiet'
    BY <1>1, <1>2, <1>3, <1>6, <2>1, <2>14 DEF RunsOne, OnePublisher, ClosedIsQuiet
  <2>17. LatestIsTrue /\ PendingHasSnapshot /\ ToldOrPending
    BY <1>6 DEF PoolInv
  <2>18. ch = {} => Truth' = Truth
    BY <2>8, <2>12, <2>13 DEF Snaps, ch
  <2>19. LatestIsTrue'
    <3> SUFFICES ASSUME NEW n \in Members, upd'[n].at = "snapped", upd'[n].latest
                 PROVE  upd'[n].snap = Truth'
      BY DEF LatestIsTrue
    <3>1. CASE n = m
      BY <2>10, <2>11, <2>14, <3>1
    <3>2. CASE n # m
      BY <2>14, <2>17, <2>18, <3>2 DEF LatestIsTrue
    <3> QED BY <3>1, <3>2
  <2>20. PendingHasSnapshot'
    <3>1. CASE ch = {}
      <4>1. pending' = pending
        BY <2>9, <3>1 DEF ch
      <4> QED BY <1>2, <2>14, <2>17, <3>1, <4>1 DEF PendingHasSnapshot
    <3>2. CASE ch # {}
      BY <2>10, <2>14, <3>2 DEF PendingHasSnapshot
    <3> QED BY <3>1, <3>2
  <2>21. ToldOrPending'
    <3>1. Told' = Told
      <4>1. CASE cb = None
        BY <2>1, <4>1 DEF Told
      <4>2. CASE cb # None
        <5>1. cb \in Members \ {m} /\ upd[cb].at = "publish"
          BY <1>1, <1>2, <4>2 DEF PoolTyped, OnePublisher
        <5>2. upd'[cb] = upd[cb]
          BY <2>14, <5>1
        <5> QED BY <2>1, <4>2, <5>2 DEF Told
      <4> QED BY <4>1, <4>2
    <3> QED BY <2>8, <2>9, <2>17, <3>1 DEF ToldOrPending
  <2> QED BY <2>15, <2>16, <2>19, <2>20, <2>21 DEF PoolInv
<1> QED BY <1>5, <1>6

\* Only the entry of the member whose goroutine moves changes.
LEMMA EntryKept ==
  ASSUME PoolTyped, NEW m \in Members, NEW u \in Updates, upd' = [upd EXCEPT ![m] = u]
  PROVE  /\ upd' \in [Members -> Updates] /\ upd'[m] = u
         /\ \A n \in Members \ {m} : upd'[n] = upd[n]
BY DEF PoolTyped

\* The second critical section of update.
LEMMA AcquireInv ==
  ASSUME PoolInv, NEW m \in Members, Relay!Acquire(m)
  PROVE  PoolInv'
<1>1. PoolTyped /\ RunsOne /\ OnePublisher /\ ClosedIsQuiet
  BY DEF PoolInv
<1>2. /\ cb = None /\ upd[m].at = "snapped" /\ upd[m] \in Updates /\ m # None
      /\ UNCHANGED <<ctl, relayWs, resp, serial, reg, preferred, closed, pub, udpr>>
  BY <1>1, RelayConstants DEF Relay!Acquire, Relay!ctlVars, Relay!tierVars, PoolTyped
<1>3. upd[m].snap \in Snaps
  BY <1>2, UpdateShapes
<1>4. Truth' = Truth
  BY <1>2 DEF Truth, Relay!NativeSet
<1>5. CASE ~closed /\ upd[m].latest
  <2> DEFINE u == [at |-> "publish", flags |-> pending, snap |-> upd[m].snap]
  <2>1. cb' = m /\ upd' = [upd EXCEPT ![m] = u] /\ pending' = {}
    BY <1>5 DEF Relay!Acquire
  <2>2. u \in Updates /\ u.at = "publish" /\ u.flags = pending /\ u.snap = Truth
    <3>1. u \in Updates
      BY <1>1, <1>3 DEF Updates, PoolTyped
    <3>2. upd[m].snap = Truth
      BY <1>2, <1>5 DEF PoolInv, LatestIsTrue
    <3> QED BY <3>1, <3>2
  <2> HIDE DEF u
  <2>3. /\ upd' \in [Members -> Updates] /\ upd'[m] = u
        /\ \A n \in Members \ {m} : upd'[n] = upd[n]
    BY <1>1, <2>1, <2>2, EntryKept
  <2>4. PoolTyped'
    BY <1>1, <1>2, <2>1, <2>3 DEF PoolTyped
  <2>5. RunsOne' /\ OnePublisher' /\ ClosedIsQuiet'
    BY <1>1, <1>2, <1>5, <2>1, <2>2, <2>3, RelayConstants DEF RunsOne, OnePublisher, ClosedIsQuiet
  <2>6. LatestIsTrue' /\ PendingHasSnapshot'
    BY <1>4, <1>5, <2>1, <2>2, <2>3 DEF PoolInv, LatestIsTrue, PendingHasSnapshot
  <2>7. ToldOrPending'
    <3>1. Told = pub /\ Told' = Overlay(pub, pending, Truth)
      BY <1>2, <2>1, <2>2, <2>3 DEF Told
    <3> QED BY <1>4, <1>5, <3>1 DEF PoolInv, ToldOrPending, Overlay
  <2> QED BY <2>4, <2>5, <2>6, <2>7 DEF PoolInv
<1>6. CASE ~(~closed /\ upd[m].latest)
  <2>1. cb' = cb /\ upd' = [upd EXCEPT ![m] = [at |-> "done"]] /\ pending' = pending
    BY <1>6 DEF Relay!Acquire
  <2>2. [at |-> "done"] \in Updates
    BY DEF Updates
  <2>3. /\ upd' \in [Members -> Updates] /\ upd'[m] = [at |-> "done"]
        /\ \A n \in Members \ {m} : upd'[n] = upd[n]
    BY <1>1, <2>1, <2>2, EntryKept
  <2>4. upd'[m].at = "done"
    BY <2>3
  <2>5. PoolTyped'
    BY <1>1, <1>2, <2>1, <2>3 DEF PoolTyped
  <2>6. RunsOne' /\ OnePublisher' /\ ClosedIsQuiet'
    BY <1>1, <1>2, <2>1, <2>3, <2>4 DEF RunsOne, OnePublisher, ClosedIsQuiet
  <2>7. ASSUME ~closed PROVE LatestIsTrue' /\ PendingHasSnapshot' /\ ToldOrPending'
    <3>1. LatestIsTrue' /\ PendingHasSnapshot'
      BY <1>4, <1>6, <2>1, <2>3, <2>4, <2>7 DEF PoolInv, LatestIsTrue, PendingHasSnapshot
    <3>2. Told' = Told
      BY <1>2, <2>1 DEF Told
    <3> QED BY <1>4, <2>1, <2>7, <3>1, <3>2 DEF PoolInv, ToldOrPending
  <2> QED BY <1>2, <2>5, <2>6, <2>7 DEF PoolInv
<1> QED BY <1>5, <1>6

\* The callbacks tell what callbacksMu was taken for.
LEMMA DeliverInv ==
  ASSUME PoolInv, NEW m \in Members, Relay!Deliver(m)
  PROVE  PoolInv'
<1>1. PoolTyped /\ RunsOne /\ OnePublisher /\ ClosedIsQuiet
  BY DEF PoolInv
<1>2. /\ cb = m /\ upd[m].at = "publish" /\ upd[m] \in Updates /\ m # None /\ ~closed
      /\ UNCHANGED <<ctl, relayWs, resp, serial, reg, preferred, pending, closed>>
      /\ cb' = None /\ upd' = [upd EXCEPT ![m] = [at |-> "done"]]
  BY <1>1, RelayConstants DEF Relay!Deliver, Relay!ctlVars, PoolTyped, ClosedIsQuiet
<1>3. upd[m].snap \in Snaps /\ upd[m].flags \in SUBSET Flags
  BY <1>2, UpdateShapes
<1>4. pub' = Overlay(pub, upd[m].flags, upd[m].snap)
  BY DEF Relay!Deliver, Overlay
<1>5. pub' \in Snaps
  BY <1>1, <1>3, <1>4 DEF Overlay, Snaps, PoolTyped
<1>6. Truth' = Truth /\ Told' = Told
  BY <1>2, <1>4 DEF Truth, Relay!NativeSet, Told
<1>7. [at |-> "done"] \in Updates /\ [at |-> "done"].at = "done"
  BY DEF Updates
<1>8. /\ upd' \in [Members -> Updates] /\ upd'[m] = [at |-> "done"]
      /\ \A n \in Members \ {m} : upd'[n] = upd[n]
  BY <1>1, <1>2, <1>7, EntryKept
<1>9. PoolTyped'
  BY <1>1, <1>2, <1>5, <1>8 DEF PoolTyped
<1>10. RunsOne' /\ OnePublisher' /\ ClosedIsQuiet'
  BY <1>1, <1>2, <1>7, <1>8, RelayConstants DEF RunsOne, OnePublisher, ClosedIsQuiet, PoolTyped
<1>11. LatestIsTrue' /\ PendingHasSnapshot'
  BY <1>2, <1>6, <1>7, <1>8 DEF PoolInv, LatestIsTrue, PendingHasSnapshot
<1>12. ToldOrPending'
  BY <1>2, <1>6 DEF PoolInv, ToldOrPending
<1> QED BY <1>9, <1>10, <1>11, <1>12 DEF PoolInv

\* Run has come back from update, or has lost the connection.
LEMMA MemberInv ==
  ASSUME PoolInv, NEW m \in Members,
         Relay!Joined(m) \/ Relay!Left(m) \/ Relay!Drop(m)
  PROVE  PoolInv'
<1>1. PoolTyped /\ RunsOne /\ OnePublisher /\ ClosedIsQuiet
  BY DEF PoolInv
<1>2. /\ UNCHANGED <<resp, serial, reg, preferred, pending, cb, closed, pub, udpr>>
      /\ relayWs' \subseteq Members
      /\ \E l \in {"down", "up", "dropped"} : ctl' = [ctl EXCEPT ![m] = l]
  BY <1>1 DEF Relay!Joined, Relay!Left, Relay!Drop, Relay!poolVars, Relay!tierVars, PoolTyped
<1>3. /\ upd[m].at \in {"done", "idle"}
      /\ \/ upd' = [upd EXCEPT ![m] = [at |-> "idle"]]
         \/ upd' = upd /\ upd[m].at = "idle"
  BY <1>1 DEF Relay!Joined, Relay!Left, Relay!Drop, Relay!poolVars, Relay!Idle, RunsOne
<1>4. [at |-> "idle"] \in Updates /\ [at |-> "idle"].at = "idle"
  BY DEF Updates
<1>5. /\ upd' \in [Members -> Updates] /\ upd'[m].at = "idle"
      /\ \A n \in Members \ {m} : upd'[n] = upd[n]
  <2>1. CASE upd' = upd /\ upd[m].at = "idle"
    BY <1>1, <2>1 DEF PoolTyped
  <2>2. CASE upd' = [upd EXCEPT ![m] = [at |-> "idle"]]
    BY <1>1, <1>4, <2>2, EntryKept
  <2> QED BY <1>3, <2>1, <2>2
<1>6. PoolTyped'
  BY <1>1, <1>2, <1>5 DEF PoolTyped
<1>7. RunsOne' /\ OnePublisher' /\ ClosedIsQuiet'
  BY <1>1, <1>2, <1>3, <1>5 DEF RunsOne, OnePublisher, ClosedIsQuiet, PoolTyped
<1>8. Truth' = Truth
  BY <1>2 DEF Truth, Relay!NativeSet
<1>9. Told' = Told
  BY <1>1, <1>2, <1>3, <1>5 DEF Told, OnePublisher, PoolTyped
<1>10. ASSUME ~closed PROVE LatestIsTrue' /\ PendingHasSnapshot' /\ ToldOrPending'
  <2>1. LatestIsTrue' /\ PendingHasSnapshot'
    BY <1>2, <1>3, <1>5, <1>8, <1>10 DEF PoolInv, LatestIsTrue, PendingHasSnapshot
  <2> QED BY <1>2, <1>8, <1>9, <1>10, <2>1 DEF PoolInv, ToldOrPending
<1> QED BY <1>2, <1>6, <1>7, <1>10 DEF PoolInv

LEMMA PoolCloseInv ==
  ASSUME PoolInv, Relay!PoolClose PROVE PoolInv'
<1>1. PoolTyped /\ RunsOne /\ OnePublisher /\ ClosedIsQuiet
  BY DEF PoolInv
<1>2. /\ UNCHANGED <<ctl, relayWs, resp, serial, pending, upd, cb>>
      /\ cb = None /\ closed' = TRUE /\ preferred' = None /\ reg' = {}
      /\ pub' = Relay!Nothing /\ udpr' = None
  BY DEF Relay!PoolClose, Relay!ctlVars, Relay!EnableUDPRelay
<1>3. Relay!Nothing \in Snaps
  BY DEF Relay!Nothing, Snaps
<1>4. PoolTyped'
  BY <1>1, <1>2, <1>3 DEF PoolTyped
<1>5. RunsOne' /\ OnePublisher' /\ ClosedIsQuiet'
  BY <1>1, <1>2 DEF RunsOne, OnePublisher, ClosedIsQuiet
<1> QED BY <1>2, <1>4, <1>5 DEF PoolInv

\* Everything else leaves the pool alone, and opens no tier once it is closed.
LEMMA PoolAlone ==
  ASSUME PoolInv, UNCHANGED <<ctl, relayWs, Relay!poolVars>>, udpr' \in {udpr, None}
  PROVE  PoolInv'
<1>1. UNCHANGED <<ctl, relayWs, resp, serial, reg, domain, preferred, pending, upd, cb, closed, pub>>
  BY DEF Relay!poolVars
<1>2. PoolTyped'
  BY <1>1 DEF PoolInv, PoolTyped
<1>3. RunsOne' /\ OnePublisher' /\ ClosedIsQuiet'
  BY <1>1 DEF PoolInv, RunsOne, OnePublisher, ClosedIsQuiet
<1>4. Truth' = Truth /\ Told' = Told
  BY <1>1 DEF Truth, Told, Relay!NativeSet
<1>5. ASSUME ~closed PROVE LatestIsTrue' /\ PendingHasSnapshot' /\ ToldOrPending'
  BY <1>1, <1>4, <1>5 DEF PoolInv, LatestIsTrue, PendingHasSnapshot, ToldOrPending
<1> QED BY <1>1, <1>2, <1>3, <1>5 DEF PoolInv

LEMMA PoolStep ==
  ASSUME PoolInv, [Relay!Next]_Relay!vars PROVE PoolInv'
<1> USE DEF Relay!ctlVars, Relay!tierVars
<1>1. CASE UNCHANGED Relay!vars
  BY <1>1, PoolAlone DEF Relay!vars
<1>2. ASSUME NEW m \in Members, Relay!RunStep(m) PROVE PoolInv'
  <2>1. CASE Relay!Acquire(m)
    BY <2>1, AcquireInv
  <2>2. CASE Relay!Deliver(m)
    BY <2>2, DeliverInv
  <2>3. CASE Relay!Joined(m) \/ Relay!Left(m)
    BY <2>3, MemberInv
  <2>4. CASE Relay!Leave(m)
    <3>1. /\ ctl[m] = "dropped" /\ ctl' = [ctl EXCEPT ![m] = "leaving"]
          /\ Relay!Update(m, FALSE, Relay!NoResponse) /\ relayWs' = relayWs /\ udpr' = udpr
      BY <2>4 DEF Relay!Leave
    <3>2. relayWs' \subseteq Members
      BY <3>1 DEF PoolInv, PoolTyped
    <3> QED BY <3>1, <3>2, UpdateInv
  <2> QED BY <1>2, <2>1, <2>2, <2>3, <2>4 DEF Relay!RunStep
<1>3. ASSUME NEW m \in Members, Relay!Drop(m) PROVE PoolInv'
  BY <1>3, MemberInv
<1>4. ASSUME NEW m \in Members, NEW r \in Responses, Relay!Register(m, r) PROVE PoolInv'
  <2>1. /\ ctl[m] = "down" /\ ctl' = [ctl EXCEPT ![m] = "joining"]
        /\ Relay!Update(m, TRUE, r) /\ relayWs' = relayWs \cup {m} /\ udpr' = udpr
    BY <1>4 DEF Relay!Register
  <2>2. relayWs' \subseteq Members
    BY <2>1 DEF PoolInv, PoolTyped
  <2> QED BY <2>1, <2>2, UpdateInv
<1>5. CASE Relay!PoolClose
  BY <1>5, PoolCloseInv
<1>6. CASE Relay!ServerClose
  BY <1>6, PoolAlone DEF Relay!ServerClose, Relay!EnableUDPRelay
<1>7. ASSUME NEW k \in Clients, Relay!Request(k) \/ Relay!Release(k) PROVE PoolInv'
  BY <1>7, PoolAlone DEF Relay!Request, Relay!Release
<1>8. CASE Relay!CallStep
  BY <1>8, PoolAlone DEF Relay!CallStep, Relay!Enter, Relay!ReadConnection, Relay!Ask,
       Relay!HandleReply, Relay!TakeReply, Relay!GiveUp, Relay!Refuse, Relay!Publish
<1>9. CASE Relay!RelayAnswers \/ Relay!RecordStats
  BY <1>9, PoolAlone DEF Relay!RelayAnswers, Relay!RecordStats
<1>10. ASSUME NEW m \in Members, Relay!SendReport(m) PROVE PoolInv'
  BY <1>10, PoolAlone DEF Relay!SendReport
<1>11. ASSUME NEW t \in RelayTokens,
              Relay!Age(t) \/ Relay!KeepaliveExit(t) \/ \E m \in Members : Relay!RelayForgets(m, t)
       PROVE  PoolInv'
  BY <1>11, PoolAlone DEF Relay!Age, Relay!KeepaliveExit, Relay!RelayForgets
<1> QED BY <1>1, <1>2, <1>3, <1>4, <1>5, <1>6, <1>7, <1>8, <1>9, <1>10, <1>11 DEF Relay!Next

LEMMA PoolCurrent == ASSUME PoolInv PROVE Relay!PublicationCurrent
<1>1. ASSUME Relay!Quiet, ~closed
      PROVE  /\ pub.agent = preferred
             /\ pub.udp = (preferred # None /\ resp[preferred].udp)
             /\ pub.set = Relay!NativeSet(reg, resp, serial)
  <2>1. cb = None /\ pending = {}
    BY <1>1 DEF Relay!Quiet, PoolInv, PendingHasSnapshot
  <2>2. Told = pub
    BY <2>1 DEF Told
  <2> QED BY <1>1, <2>1, <2>2 DEF PoolInv, ToldOrPending, Truth
<1>2. closed /\ cb = None => pub = Relay!Nothing /\ udpr = None
  BY DEF PoolInv, ClosedIsQuiet
<1> QED BY <1>1, <1>2 DEF Relay!PublicationCurrent

\* What the server was told about its relays is what there is, however the
\* updates of the members overtake each other, and nothing is told after Close.
THEOREM PublishesTheLatest == Relay!Spec => []PublicationCurrent
<1>1. Relay!Init => PoolInv
  BY PoolInit
<1>2. PoolInv /\ [Relay!Next]_Relay!vars => PoolInv'
  BY PoolStep
<1>3. PoolInv => PublicationCurrent
  BY PoolCurrent DEF PublicationCurrent
<1> QED BY <1>1, <1>2, <1>3, PTL DEF Relay!Spec

(***************************************************************************)
(* Then the UDP-relay tier: who owns a keepalive loop.                     *)
(***************************************************************************)
Slots == [agent : Members \cup {None}, open : BOOLEAN, sess : [Clients -> RelayTokens \cup {None}]]
Calls == [at : {"loaded", "read", "ask", "wait", "answer"}, client : Clients, tier : Tiers,
          agent : Members \cup {None}, cancelled : BOOLEAN, live : BOOLEAN,
          wire : RelayTokens \cup {"request", "declined", None},
          ch : RelayTokens \cup {"nothing", None}, tok : RelayTokens \cup {None}]

TierTyped ==
  /\ udpr \in Tiers \cup {None} /\ tier \in [Tiers -> Slots] /\ shut \in BOOLEAN
  /\ call \in Calls \cup {Relay!Idle}
  /\ loop \in [RelayTokens -> {"none", "run", "stop"}]
  /\ held \in [Members -> SUBSET RelayTokens]
  /\ report = None \/ report.from \in Members

OpenIsCurrent == \A g \in Tiers : tier[g].open => udpr = g

\* No session of any tier has the token.
InNoTier(t) == \A g \in Tiers, k \in Clients : tier[g].sess[k] # t

\* The token a request has on its way is nobody's yet, ...
CallFresh ==
  call # Relay!Idle =>
    \A t \in RelayTokens : t \in {call.wire, call.ch, call.tok} => InNoTier(t)

\* ... and nobody else has given the client an allocation: operationMu.
CallAlone ==
  call # Relay!Idle /\ call.at # "loaded" => tier[call.tier].sess[call.client] = None

\* What a report on its way does not name is young, or is in no tier.
ReportCovers ==
  report # None =>
    \A t \in held[report.from] : t \in report.toks \/ t \in young \/ InNoTier(t)

TierInv ==
  /\ TierTyped /\ Relay!KeepalivesOwned /\ OpenIsCurrent
  /\ CallFresh /\ CallAlone /\ ReportCovers

LEMMA SlotShapes ==
  ASSUME TierTyped, NEW g \in Tiers
  PROVE  /\ tier[g].agent \in Members \cup {None} /\ tier[g].open \in BOOLEAN
         /\ tier[g].sess \in [Clients -> RelayTokens \cup {None}]
BY DEF TierTyped, Slots

LEMMA TierInit == ASSUME Relay!Init PROVE TierInv
<1> USE DEF Relay!Init
<1>1. tier = [g \in Tiers |-> Relay!NoTier] /\ Relay!NoTier \in Slots
  BY DEF Relay!NoTier, Slots
<1>2. TierTyped
  BY <1>1 DEF TierTyped
<1>3. \A g \in Tiers, k \in Clients : tier[g].sess[k] = None /\ ~tier[g].open
  BY <1>1 DEF Relay!NoTier
<1>4. Relay!KeepalivesOwned /\ OpenIsCurrent
  <2>1. \A g \in Tiers : ~tier[g].open
    BY <1>1 DEF Relay!NoTier
  <2> QED BY <1>3, <2>1 DEF Relay!KeepalivesOwned, OpenIsCurrent
<1>5. CallFresh /\ CallAlone /\ ReportCovers
  BY DEF CallFresh, CallAlone, ReportCovers
<1> QED BY <1>2, <1>4, <1>5 DEF TierInv

\* Only the tier in use has allocations.
LEMMA OthersEmpty ==
  ASSUME TierInv, NEW g \in Tiers, NEW k \in Clients, tier[g].sess[k] # None
  PROVE  g = udpr /\ loop[tier[g].sess[k]] = "run" /\ tier[g].sess[k] \in RelayTokens
<1>1. tier[g].sess[k] \in RelayTokens
  BY SlotShapes DEF TierInv
<1>2. loop[tier[g].sess[k]] = "run"
  BY DEF TierInv, Relay!KeepalivesOwned
<1>3. udpr # None /\ tier[g].sess[k] \in Relay!TokensOf(udpr)
  BY <1>1, <1>2 DEF TierInv, Relay!KeepalivesOwned
<1>4. PICK j \in Clients : tier[udpr].sess[j] = tier[g].sess[k]
  BY <1>3 DEF Relay!TokensOf
<1>5. udpr \in Tiers
  BY <1>3 DEF TierInv, TierTyped
<1>6. <<udpr, j>> = <<g, k>>
  BY <1>4, <1>5 DEF TierInv, Relay!KeepalivesOwned
<1> QED BY <1>1, <1>2, <1>6

\* stopAll of EnableUDPRelay leaves no allocation and no loop that runs, and
\* a request that is under way is cancelled or is in the tier that stays.
LEMMA EnableInv ==
  ASSUME TierInv, NEW agent \in Members \cup {None}, NEW udp \in BOOLEAN,
         Relay!EnableUDPRelay(agent, udp), shut' \in BOOLEAN, UNCHANGED <<held, young, report>>
  PROVE  TierInv'
<1> DEFINE old     == IF udpr = None THEN {} ELSE {udpr}
           stopped == UNION {Relay!TokensOf(g) : g \in old}
           left    == [g \in Tiers |-> IF g \in old THEN Relay!NoTier ELSE tier[g]]
           fresh   == [Relay!NoTier EXCEPT !.agent = agent, !.open = TRUE]
<1>1. /\ loop' = [t \in RelayTokens |-> IF t \in stopped THEN "stop" ELSE loop[t]]
      /\ call' = IF call # Relay!Idle /\ call.tier \in old THEN [call EXCEPT !.cancelled = TRUE] ELSE call
      /\ \/ udpr' = None /\ tier' = left
         \/ \E g \in Tiers : udpr' = g /\ tier' = [left EXCEPT ![g] = fresh]
  BY DEF Relay!EnableUDPRelay
<1>2. TierTyped
  BY DEF TierInv
<1>3. /\ Relay!NoTier \in Slots /\ ~Relay!NoTier.open
      /\ Relay!NoTier.sess = [k \in Clients |-> None]
  BY DEF Relay!NoTier, Slots
<1>4. fresh \in Slots /\ fresh.sess = [k \in Clients |-> None]
  BY DEF Relay!NoTier, Slots
<1> HIDE DEF fresh
<1>5. left \in [Tiers -> Slots]
  BY <1>2, <1>3 DEF TierTyped
<1>6. \A g \in Tiers : ~left[g].open /\ \A k \in Clients : left[g].sess[k] = None
  <2> TAKE g \in Tiers
  <2>1. CASE g \in old
    BY <1>3, <2>1
  <2>2. CASE g \notin old
    <3>1. left[g] = tier[g] /\ g # udpr
      BY <2>2, RelayConstants
    <3>2. ~tier[g].open
      BY <3>1 DEF TierInv, OpenIsCurrent
    <3>3. \A k \in Clients : tier[g].sess[k] = None
      BY <3>1, OthersEmpty
    <3> QED BY <3>1, <3>2, <3>3
  <2> QED BY <2>1, <2>2
<1> HIDE DEF left
<1>7. /\ tier' \in [Tiers -> Slots] /\ udpr' \in Tiers \cup {None}
      /\ \A g \in Tiers : tier'[g].open => udpr' = g
      /\ \A g \in Tiers, k \in Clients : tier'[g].sess[k] = None
  <2>1. CASE udpr' = None /\ tier' = left
    BY <1>5, <1>6, <2>1
  <2>2. ASSUME NEW g \in Tiers, udpr' = g, tier' = [left EXCEPT ![g] = fresh]
        PROVE  /\ tier' \in [Tiers -> Slots] /\ udpr' \in Tiers \cup {None}
               /\ \A h \in Tiers : tier'[h].open => udpr' = h
               /\ \A h \in Tiers, k \in Clients : tier'[h].sess[k] = None
    BY <1>4, <1>5, <1>6, <2>2
  <2> QED BY <1>1, <2>1, <2>2
<1>8. loop' \in [RelayTokens -> {"none", "run", "stop"}] /\ \A t \in RelayTokens : loop'[t] # "run"
  <2>1. \A t \in RelayTokens : loop[t] = "run" => t \in stopped
    <3> SUFFICES ASSUME NEW t \in RelayTokens, loop[t] = "run" PROVE t \in stopped
      OBVIOUS
    <3>1. udpr # None /\ t \in Relay!TokensOf(udpr)
      BY DEF TierInv, Relay!KeepalivesOwned
    <3> QED BY <3>1
  <2> HIDE DEF stopped
  <2>2. \A t \in RelayTokens : loop'[t] = IF t \in stopped THEN "stop" ELSE loop[t]
    BY <1>1
  <2>3. \A t \in RelayTokens : loop[t] \in {"none", "run", "stop"}
    BY <1>2 DEF TierTyped
  <2>4. \A t \in RelayTokens : loop'[t] \in {"none", "stop"}
    BY <2>1, <2>2, <2>3
  <2> QED BY <1>1, <2>4
<1>9. \/ call' = call
      \/ call \in Calls /\ call' = [call EXCEPT !.cancelled = TRUE]
  BY <1>1, <1>2 DEF TierTyped
<1>10. call' \in Calls \cup {Relay!Idle}
  BY <1>2, <1>9 DEF TierTyped, Calls
<1>11. TierTyped'
  BY <1>2, <1>7, <1>8, <1>10 DEF TierTyped
<1>12. call' # Relay!Idle => call'.tier \in Tiers /\ call'.client \in Clients
  BY <1>10 DEF Calls
<1>13. \A t \in RelayTokens : InNoTier(t)'
  BY <1>7, RelayConstants DEF InNoTier
<1>14. CallFresh' /\ CallAlone' /\ OpenIsCurrent'
  BY <1>7, <1>12, <1>13 DEF CallFresh, CallAlone, OpenIsCurrent
<1>15. ReportCovers'
  <2>1. report # None => held[report.from] \subseteq RelayTokens
    BY <1>2 DEF TierTyped
  <2> QED BY <1>13, <2>1 DEF ReportCovers
<1>16. Relay!KeepalivesOwned'
  BY <1>7, <1>8 DEF Relay!KeepalivesOwned
<1> QED BY <1>11, <1>14, <1>15, <1>16 DEF TierInv

\* A step of the request leaves the tiers and the loops alone.
LEMMA CallMoves ==
  ASSUME TierInv, UNCHANGED <<udpr, tier, shut, loop, young, report>>,
         call' \in Calls \cup {Relay!Idle}, CallFresh', CallAlone',
         held' \in [Members -> SUBSET RelayTokens],
         \A m \in Members : \A t \in held'[m] : t \in held[m] \/ InNoTier(t)
  PROVE  TierInv'
<1>1. TierTyped'
  BY DEF TierInv, TierTyped
<1>2. Relay!KeepalivesOwned'
  BY DEF TierInv, Relay!KeepalivesOwned, Relay!TokensOf
<1>3. OpenIsCurrent'
  BY DEF TierInv, OpenIsCurrent
<1>4. ReportCovers'
  BY DEF TierInv, ReportCovers, InNoTier, TierTyped
<1> QED BY <1>1, <1>2, <1>3, <1>4 DEF TierInv

\* A request that keeps its tier and client, and gets no token that it had not.
LEMMA CallKeeps ==
  ASSUME TierInv, UNCHANGED <<udpr, tier, shut, loop, held, young, report>>,
         call \in Calls, call' \in Calls,
         call'.tier = call.tier, call'.client = call.client,
         call.at # "loaded" \/ tier[call.tier].sess[call.client] = None,
         \A t \in RelayTokens : t \in {call'.wire, call'.ch, call'.tok} =>
                                t \in {call.wire, call.ch, call.tok}
  PROVE  TierInv'
<1>1. call # Relay!Idle /\ call' # Relay!Idle
  BY DEF Calls, Relay!Idle
<1>2. CallFresh'
  BY <1>1 DEF TierInv, CallFresh, InNoTier
<1>3. CallAlone'
  BY <1>1 DEF TierInv, CallAlone
<1>4. /\ held' \in [Members -> SUBSET RelayTokens]
      /\ \A m \in Members : \A t \in held'[m] : t \in held[m]
  BY DEF TierInv, TierTyped
<1> QED BY <1>2, <1>3, <1>4, CallMoves

\* A request that has ended.
LEMMA CallEnds ==
  ASSUME TierInv, UNCHANGED <<udpr, tier, shut, loop, young, report>>,
         call' = Relay!Idle, held' \in [Members -> SUBSET RelayTokens],
         \A m \in Members : held'[m] \subseteq held[m]
  PROVE  TierInv'
<1>1. CallFresh' /\ CallAlone'
  BY DEF CallFresh, CallAlone
<1> QED BY <1>1, CallMoves

\* Whoever is not idle is a request.
LEMMA CallIs ==
  ASSUME TierInv, call.at # "idle" \/ call # Relay!Idle PROVE call \in Calls /\ call # Relay!Idle
BY DEF TierInv, TierTyped, Relay!Idle

\* Steps of the request that end it or only move it on.
LEMMA CallStepInv ==
  ASSUME TierInv,
         \/ Relay!Enter \/ Relay!ReadConnection \/ Relay!Ask
         \/ Relay!HandleReply \/ Relay!TakeReply \/ Relay!GiveUp
  PROVE  TierInv'
<1>1. /\ call \in Calls
      /\ UNCHANGED <<udpr, tier, shut, loop, held, young, report>>
  <2>1. call.at # "idle"
    BY DEF Relay!Enter, Relay!ReadConnection, Relay!Ask, Relay!HandleReply, Relay!TakeReply,
           Relay!GiveUp
  <2>2. UNCHANGED <<udpr, tier, shut, loop, held, young, report>>
    BY DEF Relay!Enter, Relay!ReadConnection, Relay!Ask, Relay!HandleReply, Relay!TakeReply,
           Relay!GiveUp, Relay!tierVars, Relay!tokVars
  <2> QED BY <2>1, <2>2, CallIs
<1>2. /\ held' \in [Members -> SUBSET RelayTokens]
      /\ \A m \in Members : held'[m] \subseteq held[m]
  BY <1>1 DEF TierInv, TierTyped
<1>3. ASSUME NEW t \in {None, call.ch} \cap (RelayTokens \cup {None}), call.at # "loaded",
             call' = Relay!Answer(t)
      PROVE  TierInv'
  <2>1. /\ call' \in Calls /\ call'.tier = call.tier /\ call'.client = call.client
        /\ call'.wire = call.wire /\ call'.ch = call.ch /\ call'.tok = t
    BY <1>1, <1>3 DEF Relay!Answer, Calls
  <2>2. None \notin RelayTokens
    BY RelayConstants
  <2> QED BY <1>1, <1>3, <2>1, <2>2, CallKeeps
<1>4. CASE Relay!Enter
  <2>1. CASE call' = Relay!Idle
    BY <1>1, <1>2, <2>1, CallEnds
  <2>2. CASE call' = [call EXCEPT !.at = "read"] /\ tier[call.tier].sess[call.client] = None
    <3>1. /\ call' \in Calls /\ call'.tier = call.tier /\ call'.client = call.client
          /\ call'.wire = call.wire /\ call'.ch = call.ch /\ call'.tok = call.tok
      BY <1>1, <2>2 DEF Calls
    <3> QED BY <1>1, <2>2, <3>1, CallKeeps
  <2> QED BY <1>4, <2>1, <2>2 DEF Relay!Enter
<1>5. CASE Relay!ReadConnection
  <2>1. CASE call' = [call EXCEPT !.at = "ask", !.live = TRUE]
    <3>1. /\ call' \in Calls /\ call'.tier = call.tier /\ call'.client = call.client
          /\ call'.wire = call.wire /\ call'.ch = call.ch /\ call'.tok = call.tok
      BY <1>1, <2>1 DEF Calls
    <3>2. call.at = "read"
      BY <1>5 DEF Relay!ReadConnection
    <3> QED BY <1>1, <3>1, <3>2, CallKeeps
  <2> QED BY <1>3, <1>5, <2>1 DEF Relay!ReadConnection
<1>6. CASE Relay!Ask
  <2>1. ASSUME NEW w \in {"request", None}, call' = [call EXCEPT !.at = "wait", !.wire = w]
        PROVE  TierInv'
    <3>1. /\ call' \in Calls /\ call'.tier = call.tier /\ call'.client = call.client
          /\ call'.wire = w /\ call'.ch = call.ch /\ call'.tok = call.tok
      BY <1>1, <2>1 DEF Calls
    <3>2. call.at = "ask" /\ w \notin RelayTokens
      BY <1>6, <2>1, RelayConstants DEF Relay!Ask
    <3> QED BY <1>1, <3>1, <3>2, CallKeeps
  <2> QED BY <1>3, <1>6, <2>1 DEF Relay!Ask
<1>7. CASE Relay!HandleReply
  <2>1. PICK h : call' = [call EXCEPT !.wire = None, !.ch = h]
                 /\ h = IF call.wire \in RelayTokens THEN call.wire ELSE "nothing"
    BY <1>7 DEF Relay!HandleReply
  <2>2. /\ call' \in Calls /\ call'.tier = call.tier /\ call'.client = call.client
        /\ call'.wire = None /\ call'.ch = h /\ call'.tok = call.tok
    BY <1>1, <2>1 DEF Calls
  <2>3. call.at = "wait"
    BY <1>7 DEF Relay!HandleReply
  <2>4. None \notin RelayTokens /\ "nothing" \notin RelayTokens
    BY RelayConstants
  <2> QED BY <1>1, <2>1, <2>2, <2>3, <2>4, CallKeeps
<1>8. CASE Relay!TakeReply
  BY <1>3, <1>8 DEF Relay!TakeReply
<1>9. CASE Relay!GiveUp
  BY <1>3, <1>9 DEF Relay!GiveUp
<1> QED BY <1>4, <1>5, <1>6, <1>7, <1>8, <1>9

LEMMA RequestInv ==
  ASSUME TierInv, NEW k \in Clients, Relay!Request(k) PROVE TierInv'
<1> DEFINE c == [at |-> "loaded", client |-> k, tier |-> udpr, agent |-> tier[udpr].agent,
                 cancelled |-> FALSE, live |-> FALSE, wire |-> None, ch |-> None, tok |-> None]
<1>1. /\ call' = c /\ udpr \in Tiers
      /\ UNCHANGED <<udpr, tier, shut, loop, held, young, report>>
  BY DEF Relay!Request, Relay!tierVars, Relay!tokVars, TierInv, TierTyped
<1>2. tier[udpr].agent \in Members \cup {None}
  BY <1>1, SlotShapes DEF TierInv
<1>3. c \in Calls
  BY <1>1, <1>2 DEF Calls
<1>4. c.at = "loaded" /\ c.wire = None /\ c.ch = None /\ c.tok = None
  OBVIOUS
<1> HIDE DEF c
<1>5. CallFresh' /\ CallAlone'
  BY <1>1, <1>4, RelayConstants DEF CallFresh, CallAlone
<1>6. /\ held' \in [Members -> SUBSET RelayTokens]
      /\ \A m \in Members : \A t \in held'[m] : t \in held[m]
  BY <1>1 DEF TierInv, TierTyped
<1> QED BY <1>1, <1>3, <1>5, <1>6, CallMoves

\* What the relay allocates is a token nobody knows.
LEMMA RelayAnswersInv ==
  ASSUME TierInv, Relay!RelayAnswers PROVE TierInv'
<1>1. /\ call \in Calls /\ call # Relay!Idle /\ call.at = "wait"
      /\ UNCHANGED <<udpr, tier, shut, loop, young, report>>
  BY CallIs DEF Relay!RelayAnswers, Relay!tierVars
<1>2. ASSUME call' = [call EXCEPT !.wire = "declined"], held' = held PROVE TierInv'
  <2>1. /\ call' \in Calls /\ call'.tier = call.tier /\ call'.client = call.client
        /\ call'.wire = "declined" /\ call'.ch = call.ch /\ call'.tok = call.tok
    BY <1>1, <1>2 DEF Calls
  <2>2. "declined" \notin RelayTokens
    BY RelayConstants
  <2> QED BY <1>1, <1>2, <2>1, <2>2, CallKeeps
<1>3. ASSUME NEW t \in RelayTokens, Relay!Unused(t), call' = [call EXCEPT !.wire = t],
             held' = [held EXCEPT ![call.agent] = @ \cup {t}]
      PROVE  TierInv'
  <2>1. /\ call' \in Calls /\ call'.tier = call.tier /\ call'.client = call.client
        /\ call'.wire = t /\ call'.ch = call.ch /\ call'.tok = call.tok /\ call'.at = "wait"
    BY <1>1, <1>3 DEF Calls
  <2>2. InNoTier(t)
    BY <1>3, RelayConstants DEF Relay!Unused, Relay!TokensOf, InNoTier
  <2>3. held \in [Members -> SUBSET RelayTokens]
    BY DEF TierInv, TierTyped
  <2>4. /\ held' \in [Members -> SUBSET RelayTokens]
        /\ \A m \in Members : held'[m] \subseteq held[m] \cup {t}
    BY <1>3, <2>3
  <2>5. CallFresh' /\ CallAlone'
    BY <1>1, <2>1, <2>2 DEF TierInv, CallFresh, CallAlone, InNoTier
  <2>6. \A m \in Members : \A u \in held'[m] : u \in held[m] \/ InNoTier(u)
    BY <2>2, <2>4
  <2> QED BY <1>1, <2>1, <2>4, <2>5, <2>6, CallMoves
<1> QED BY <1>2, <1>3 DEF Relay!RelayAnswers

\* The hint to the relay only takes tokens from what it holds.
LEMMA HintShrinks ==
  ASSUME TierInv, NEW m, NEW t, Relay!ReleaseUDPSession(m, t) \/ held' = held
  PROVE  /\ held' \in [Members -> SUBSET RelayTokens]
         /\ \A n \in Members : held'[n] \subseteq held[n]
BY DEF Relay!ReleaseUDPSession, TierInv, TierTyped

LEMMA RefuseInv == ASSUME TierInv, Relay!Refuse PROVE TierInv'
<1>1. /\ UNCHANGED <<udpr, tier, shut, loop, young, report>> /\ call' = Relay!Idle
      /\ Relay!ReleaseUDPSession(call.agent, call.tok) \/ held' = held
  BY DEF Relay!Refuse, Relay!tierVars
<1>2. /\ held' \in [Members -> SUBSET RelayTokens]
      /\ \A n \in Members : held'[n] \subseteq held[n]
  BY <1>1, HintShrinks
<1> QED BY <1>1, <1>2, CallEnds

LEMMA FailInv ==
  ASSUME TierInv, NEW m \in Members, Relay!FailPendingAllocs(m),
         UNCHANGED <<udpr, tier, shut, loop, held, young, report>>
  PROVE  TierInv'
<1>1. CASE call' = call
  <2>1. CallFresh' /\ CallAlone'
    BY <1>1 DEF TierInv, CallFresh, CallAlone, InNoTier
  <2>2. /\ held' \in [Members -> SUBSET RelayTokens]
        /\ \A n \in Members : \A t \in held'[n] : t \in held[n]
    BY DEF TierInv, TierTyped
  <2>3. call' \in Calls \cup {Relay!Idle}
    BY <1>1 DEF TierInv, TierTyped
  <2> QED BY <2>1, <2>2, <2>3, CallMoves
<1>2. CASE call # Relay!Idle /\ call' = [call EXCEPT !.live = FALSE]
  <2>1. call \in Calls
    BY <1>2, CallIs
  <2>2. /\ call' \in Calls /\ call'.tier = call.tier /\ call'.client = call.client /\ call'.at = call.at
        /\ call'.wire = call.wire /\ call'.ch = call.ch /\ call'.tok = call.tok
    BY <1>2, <2>1 DEF Calls
  <2>3. CallFresh' /\ CallAlone'
    BY <1>2, <2>2 DEF TierInv, CallFresh, CallAlone, InNoTier
  <2>4. /\ held' \in [Members -> SUBSET RelayTokens]
        /\ \A n \in Members : \A t \in held'[n] : t \in held[n]
    BY DEF TierInv, TierTyped
  <2> QED BY <2>2, <2>3, <2>4, CallMoves
<1>3. CASE call # Relay!Idle /\ call.at = "wait" /\ call' = [call EXCEPT !.live = FALSE, !.ch = "nothing"]
  <2>1. call \in Calls
    BY <1>3, CallIs
  <2>2. /\ call' \in Calls /\ call'.tier = call.tier /\ call'.client = call.client
        /\ call'.wire = call.wire /\ call'.ch = "nothing" /\ call'.tok = call.tok
    BY <1>3, <2>1 DEF Calls
  <2>3. "nothing" \notin RelayTokens
    BY RelayConstants
  <2> QED BY <1>3, <2>1, <2>2, <2>3, CallKeeps
<1> QED BY <1>1, <1>2, <1>3 DEF Relay!FailPendingAllocs, Relay!Asking

\* A request publishes in the tier in use, and for a client that has nothing.
LEMMA PublishInv ==
  ASSUME TierInv, Relay!Publish
  PROVE  TierInv'
<1>1. TierTyped /\ OpenIsCurrent /\ CallFresh /\ CallAlone /\ ReportCovers /\ Relay!KeepalivesOwned
  BY DEF TierInv
<1> DEFINE g == call.tier
           k == call.client
           t == call.tok
<1>2. /\ call \in Calls /\ call # Relay!Idle /\ call.at = "answer" /\ t # None
  BY CallIs DEF Relay!Publish
<1>3. g \in Tiers /\ k \in Clients /\ t \in RelayTokens
  BY <1>2 DEF Calls
<1>4. /\ tier' = [tier EXCEPT ![g].sess[k] = t] /\ loop' = [loop EXCEPT ![t] = "run"]
      /\ young' = young \cup {t} /\ call' = Relay!Idle
      /\ UNCHANGED <<udpr, shut, held, report>> /\ tier[g].open
  BY DEF Relay!Publish
<1>5. udpr = g /\ tier[g].sess[k] = None /\ InNoTier(t)
  BY <1>1, <1>2, <1>3, <1>4 DEF OpenIsCurrent, CallAlone, CallFresh
<1> HIDE DEF g, k, t
<1>6. tier \in [Tiers -> Slots] /\ loop \in [RelayTokens -> {"none", "run", "stop"}]
  BY <1>1 DEF TierTyped
<1>7. [tier[g] EXCEPT !.sess[k] = t] \in Slots
  BY <1>3, <1>6 DEF Slots
<1>8. /\ tier' \in [Tiers -> Slots] /\ tier'[g] = [tier[g] EXCEPT !.sess[k] = t]
      /\ \A h \in Tiers \ {g} : tier'[h] = tier[h]
  BY <1>3, <1>4, <1>6, <1>7
<1>9. tier'[g].sess[k] = t /\ tier'[g].open = tier[g].open
      /\ \A j \in Clients \ {k} : tier'[g].sess[j] = tier[g].sess[j]
  BY <1>3, <1>6, <1>8 DEF Slots
<1>10. /\ loop' \in [RelayTokens -> {"none", "run", "stop"}] /\ loop'[t] = "run"
       /\ \A u \in RelayTokens \ {t} : loop'[u] = loop[u]
  BY <1>3, <1>4, <1>6
<1>11. TierTyped'
  BY <1>1, <1>4, <1>8, <1>10 DEF TierTyped
<1>12. OpenIsCurrent' /\ CallFresh' /\ CallAlone'
  BY <1>1, <1>4, <1>5, <1>8, <1>9 DEF OpenIsCurrent, CallFresh, CallAlone
<1>13. ReportCovers'
  <2>1. ASSUME NEW u \in RelayTokens \ {t}, InNoTier(u) PROVE InNoTier(u)'
    <3>1. \A j \in Clients : tier'[g].sess[j] # u
      BY <1>3, <1>9, <2>1 DEF InNoTier
    <3>2. \A h \in Tiers \ {g}, j \in Clients : tier'[h].sess[j] # u
      <4>1. \A h \in Tiers \ {g} : tier'[h] = tier[h]
        BY <1>8
      <4> QED BY <2>1, <4>1 DEF InNoTier
    <3> QED BY <3>1, <3>2 DEF InNoTier
  <2>2. report # None => held[report.from] \subseteq RelayTokens
    BY <1>1 DEF TierTyped
  <2> QED BY <1>1, <1>4, <2>1, <2>2 DEF ReportCovers
<1>14. ASSUME NEW u \in RelayTokens, loop'[u] = "run" PROVE udpr' # None /\ (u \in Relay!TokensOf(udpr))'
  <2>1. CASE u = t
    <3>1. u \in {tier'[g].sess[j] : j \in Clients} /\ u # None
      BY <1>3, <1>9, <2>1, RelayConstants
    <3> QED BY <1>3, <1>4, <1>5, <3>1, RelayConstants DEF Relay!TokensOf
  <2>2. CASE u # t
    <3>1. udpr # None /\ u \in Relay!TokensOf(udpr)
      BY <1>1, <1>10, <1>14, <2>2 DEF Relay!KeepalivesOwned
    <3>2. PICK j \in Clients : tier[g].sess[j] = u /\ u # None
      BY <1>5, <3>1 DEF Relay!TokensOf
    <3>3. tier'[g].sess[j] = u
      BY <1>5, <1>9, <3>2
    <3> QED BY <1>4, <1>5, <3>1, <3>2, <3>3 DEF Relay!TokensOf
  <2> QED BY <2>1, <2>2
<1>15. ASSUME NEW h \in Tiers, NEW j \in Clients, tier'[h].sess[j] # None
       PROVE  h = g /\ loop'[tier'[h].sess[j]] = "run"
  <2>1. CASE h = g /\ j = k
    BY <1>9, <1>10, <2>1
  <2>2. CASE ~(h = g /\ j = k)
    <3>1. tier'[h].sess[j] = tier[h].sess[j]
      BY <1>8, <1>9, <2>2
    <3>2. h = udpr /\ loop[tier[h].sess[j]] = "run" /\ tier[h].sess[j] \in RelayTokens
      BY <1>15, <3>1, OthersEmpty
    <3>3. loop'[tier[h].sess[j]] = "run"
      BY <1>10, <3>2
    <3> QED BY <1>5, <3>1, <3>2, <3>3
  <2> QED BY <2>1, <2>2
<1>16. ASSUME NEW i \in Clients, NEW j \in Clients, tier'[g].sess[i] # None,
              tier'[g].sess[i] = tier'[g].sess[j]
       PROVE  i = j
  <2>1. \A a, b \in Clients : tier[g].sess[a] # None /\ tier[g].sess[a] = tier[g].sess[b] => a = b
    BY <1>1, <1>3 DEF Relay!KeepalivesOwned
  <2>2. \A a \in Clients : tier[g].sess[a] # t
    BY <1>3, <1>5 DEF InNoTier
  <2> QED BY <1>9, <1>16, <2>1, <2>2
<1>17. Relay!KeepalivesOwned'
  <2>1. \A h \in Tiers : \A j \in Clients : (tier'[h].sess[j] # None =>
           /\ loop'[tier'[h].sess[j]] = "run"
           /\ \A i \in Tiers, l \in Clients :
                tier'[i].sess[l] = tier'[h].sess[j] => <<i, l>> = <<h, j>>)
    <3> SUFFICES ASSUME NEW h \in Tiers, NEW j \in Clients, tier'[h].sess[j] # None
                 PROVE  /\ loop'[tier'[h].sess[j]] = "run"
                        /\ \A i \in Tiers, l \in Clients :
                             tier'[i].sess[l] = tier'[h].sess[j] => i = h /\ l = j
      OBVIOUS
    <3> QED BY <1>15, <1>16
  <2> QED BY <1>14, <2>1 DEF Relay!KeepalivesOwned
<1> QED BY <1>11, <1>12, <1>13, <1>17 DEF TierInv

\* Allocations that end stop their loops and stay in no tier.
LEMMA AllocationsEnd ==
  ASSUME TierInv, NEW gone \in SUBSET RelayTokens,
         tier' \in [Tiers -> Slots], \A g \in Tiers : tier'[g].open = tier[g].open,
         \A g \in Tiers, k \in Clients :
           tier'[g].sess[k] = IF tier[g].sess[k] \in gone THEN None ELSE tier[g].sess[k],
         loop' \in [RelayTokens -> {"none", "run", "stop"}],
         \A t \in RelayTokens : loop'[t] = IF t \in gone THEN "stop" ELSE loop[t],
         held' \in [Members -> SUBSET RelayTokens], \A m \in Members : held'[m] \subseteq held[m],
         UNCHANGED <<udpr, shut, call, young>>, report' \in {report, None}
  PROVE  TierInv'
<1>1. TierTyped /\ OpenIsCurrent /\ CallFresh /\ CallAlone /\ ReportCovers /\ Relay!KeepalivesOwned
  BY DEF TierInv
<1>2. TierTyped'
  BY <1>1 DEF TierTyped
<1>3. \A t \in RelayTokens : InNoTier(t) => InNoTier(t)'
  BY RelayConstants DEF InNoTier
<1>4. OpenIsCurrent' /\ CallFresh'
  BY <1>1, <1>3 DEF OpenIsCurrent, CallFresh
<1>5. CallAlone'
  <2>1. call # Relay!Idle => call.tier \in Tiers /\ call.client \in Clients
    BY <1>1 DEF TierTyped, Calls
  <2> QED BY <1>1, <2>1 DEF CallAlone
<1>6. ReportCovers'
  <2>1. report # None => report.from \in Members /\ held[report.from] \subseteq RelayTokens
    BY <1>1 DEF TierTyped
  <2> QED BY <1>1, <1>3, <2>1 DEF ReportCovers
<1>7. ASSUME NEW u \in RelayTokens, loop'[u] = "run" PROVE udpr' # None /\ (u \in Relay!TokensOf(udpr))'
  <2>1. loop[u] = "run" /\ u \notin gone
    BY <1>7
  <2>2. udpr # None /\ u \in Relay!TokensOf(udpr)
    BY <1>1, <2>1 DEF Relay!KeepalivesOwned
  <2>3. PICK j \in Clients : tier[udpr].sess[j] = u /\ u # None
    BY <2>2 DEF Relay!TokensOf
  <2>4. udpr \in Tiers
    BY <1>1, <2>2 DEF TierTyped
  <2>5. tier'[udpr].sess[j] = u
    BY <2>1, <2>3, <2>4
  <2> QED BY <2>2, <2>3, <2>5 DEF Relay!TokensOf
<1>8. ASSUME NEW h \in Tiers, NEW j \in Clients, tier'[h].sess[j] # None
      PROVE  tier'[h].sess[j] = tier[h].sess[j] /\ loop'[tier'[h].sess[j]] = "run"
  <2>1. tier'[h].sess[j] = tier[h].sess[j] /\ tier[h].sess[j] \notin gone
    BY <1>8
  <2>2. loop[tier[h].sess[j]] = "run" /\ tier[h].sess[j] \in RelayTokens
    BY <1>8, <2>1, OthersEmpty
  <2>3. loop'[tier[h].sess[j]] = "run"
    BY <2>1, <2>2
  <2> QED BY <2>1, <2>3
<1>9. Relay!KeepalivesOwned'
  <2>1. \A h \in Tiers : \A j \in Clients : (tier'[h].sess[j] # None =>
           /\ loop'[tier'[h].sess[j]] = "run"
           /\ \A i \in Tiers, l \in Clients :
                tier'[i].sess[l] = tier'[h].sess[j] => <<i, l>> = <<h, j>>)
    <3> SUFFICES ASSUME NEW h \in Tiers, NEW j \in Clients, tier'[h].sess[j] # None
                 PROVE  /\ loop'[tier'[h].sess[j]] = "run"
                        /\ \A i \in Tiers, l \in Clients :
                             tier'[i].sess[l] = tier'[h].sess[j] => <<i, l>> = <<h, j>>
      OBVIOUS
    <3>1. loop'[tier'[h].sess[j]] = "run" /\ tier[h].sess[j] = tier'[h].sess[j]
      BY <1>8
    <3>2. ASSUME NEW i \in Tiers, NEW l \in Clients, tier'[i].sess[l] = tier'[h].sess[j]
          PROVE  <<i, l>> = <<h, j>>
      <4>1. tier[i].sess[l] = tier[h].sess[j] /\ tier[h].sess[j] # None
        BY <1>8, <3>1, <3>2
      <4> QED BY <1>1, <4>1 DEF Relay!KeepalivesOwned
    <3> QED BY <3>1, <3>2
  <2> QED BY <1>7, <2>1 DEF Relay!KeepalivesOwned
<1> QED BY <1>2, <1>4, <1>5, <1>6, <1>9 DEF TierInv

LEMMA ReleaseInv ==
  ASSUME TierInv, NEW k \in Clients, Relay!Release(k) PROVE TierInv'
<1>1. TierTyped /\ Relay!KeepalivesOwned
  BY DEF TierInv
<1> DEFINE g == udpr
           t == tier[udpr].sess[k]
<1>2. /\ g \in Tiers /\ t # None
      /\ loop' = [loop EXCEPT ![t] = "stop"] /\ tier' = [tier EXCEPT ![g].sess[k] = None]
      /\ Relay!ReleaseUDPSession(tier[g].agent, t)
      /\ UNCHANGED <<udpr, shut, call, young, report>>
  BY <1>1 DEF Relay!Release, TierTyped
<1>3. t \in RelayTokens
  BY <1>2, OthersEmpty
<1>4. \A h \in Tiers, j \in Clients : tier[h].sess[j] = t => h = g /\ j = k
  BY <1>1, <1>2 DEF Relay!KeepalivesOwned
<1>5. tier[g].sess[k] = t
  OBVIOUS
<1>6. tier \in [Tiers -> Slots] /\ loop \in [RelayTokens -> {"none", "run", "stop"}]
  BY <1>1 DEF TierTyped
<1> HIDE DEF g, t
<1>7. [tier[g] EXCEPT !.sess[k] = None] \in Slots
  BY <1>2, <1>6 DEF Slots
<1>8. /\ tier' \in [Tiers -> Slots] /\ tier'[g] = [tier[g] EXCEPT !.sess[k] = None]
      /\ \A h \in Tiers \ {g} : tier'[h] = tier[h]
  BY <1>2, <1>6, <1>7
<1>9. tier'[g].sess[k] = None /\ tier'[g].open = tier[g].open
      /\ \A j \in Clients \ {k} : tier'[g].sess[j] = tier[g].sess[j]
  BY <1>2, <1>6, <1>8 DEF Slots
<1>10. /\ loop' \in [RelayTokens -> {"none", "run", "stop"}]
       /\ \A u \in RelayTokens : loop'[u] = IF u \in {t} THEN "stop" ELSE loop[u]
  BY <1>2, <1>3, <1>6
<1>11. /\ held' \in [Members -> SUBSET RelayTokens]
       /\ \A n \in Members : held'[n] \subseteq held[n]
  BY <1>2, HintShrinks
<1>12. \A h \in Tiers, j \in Clients :
         tier'[h].sess[j] = IF tier[h].sess[j] \in {t} THEN None ELSE tier[h].sess[j]
  <2> TAKE h \in Tiers, j \in Clients
  <2>1. CASE h = g
    BY <1>4, <1>5, <1>9, <2>1
  <2>2. CASE h # g
    BY <1>4, <1>8, <2>2
  <2> QED BY <2>1, <2>2
<1>13. \A h \in Tiers : tier'[h].open = tier[h].open
  BY <1>8, <1>9
<1> DEFINE gone == {t}
<1>14. /\ gone \in SUBSET RelayTokens
       /\ \A u \in RelayTokens : loop'[u] = IF u \in gone THEN "stop" ELSE loop[u]
       /\ \A h \in Tiers, j \in Clients :
            tier'[h].sess[j] = IF tier[h].sess[j] \in gone THEN None ELSE tier[h].sess[j]
  BY <1>3, <1>10, <1>12
<1> HIDE DEF gone
<1> QED BY <1>2, <1>8, <1>10, <1>11, <1>13, <1>14, AllocationsEnd

\* What recordStats forgets: the allocations overdue in two reports in a row.
Forgotten == {t \in Relay!TokensOf(udpr) : Relay!Overdue(t)} \cap miss

LEMMA RecordStatsForgets ==
  ASSUME TierInv, Relay!RecordStats, udpr # None, tier[udpr].agent = report.from
  PROVE  /\ Forgotten \subseteq RelayTokens /\ udpr \in Tiers
         /\ tier' \in [Tiers -> Slots] /\ \A h \in Tiers : tier'[h].open = tier[h].open
         /\ \A h \in Tiers, j \in Clients :
              tier'[h].sess[j] = IF tier[h].sess[j] \in Forgotten THEN None ELSE tier[h].sess[j]
         /\ loop' = [t \in RelayTokens |-> IF t \in Forgotten THEN "stop" ELSE loop[t]]
<1>1. TierTyped
  BY DEF TierInv
<1> DEFINE new == [j \in Clients |-> IF tier[udpr].sess[j] \in Forgotten THEN None ELSE tier[udpr].sess[j]]
<1>2. /\ tier' = [tier EXCEPT ![udpr].sess = new]
      /\ loop' = [t \in RelayTokens |-> IF t \in Forgotten THEN "stop" ELSE loop[t]]
  BY DEF Relay!RecordStats, Forgotten
<1>3. udpr \in Tiers /\ tier \in [Tiers -> Slots]
  BY <1>1 DEF TierTyped
<1>4. Forgotten \subseteq RelayTokens \ {None}
  BY <1>1, <1>3, SlotShapes DEF Forgotten, Relay!TokensOf
<1>5. new \in [Clients -> RelayTokens \cup {None}]
  BY <1>1, <1>3, SlotShapes
<1>6. \A j \in Clients : new[j] = IF tier[udpr].sess[j] \in Forgotten THEN None ELSE tier[udpr].sess[j]
  OBVIOUS
<1> HIDE DEF new
<1>7. /\ [tier[udpr] EXCEPT !.sess = new] \in Slots
      /\ [tier[udpr] EXCEPT !.sess = new].sess = new
      /\ [tier[udpr] EXCEPT !.sess = new].open = tier[udpr].open
  BY <1>3, <1>5 DEF Slots
<1>8. /\ tier' \in [Tiers -> Slots] /\ tier'[udpr].sess = new /\ tier'[udpr].open = tier[udpr].open
      /\ \A h \in Tiers \ {udpr} : tier'[h] = tier[h]
  BY <1>2, <1>3, <1>7
<1>9. \A h \in Tiers, j \in Clients :
        tier'[h].sess[j] = IF tier[h].sess[j] \in Forgotten THEN None ELSE tier[h].sess[j]
  <2> TAKE h \in Tiers, j \in Clients
  <2>1. CASE h = udpr
    BY <1>6, <1>8, <2>1
  <2>2. CASE h # udpr
    <3>1. tier[h].sess[j] = None
      BY <2>2, OthersEmpty
    <3> QED BY <1>4, <1>8, <2>2, <3>1
  <2> QED BY <2>1, <2>2
<1> QED BY <1>2, <1>3, <1>4, <1>8, <1>9

LEMMA RecordStatsInv ==
  ASSUME TierInv, Relay!RecordStats PROVE TierInv'
<1>1. UNCHANGED <<udpr, shut, call, held, young>> /\ report' = None
  BY DEF Relay!RecordStats
<1>2. /\ loop \in [RelayTokens -> {"none", "run", "stop"}] /\ held' \in [Members -> SUBSET RelayTokens]
      /\ \A m \in Members : held'[m] \subseteq held[m]
  BY <1>1 DEF TierInv, TierTyped
<1>3. CASE udpr # None /\ tier[udpr].agent = report.from
  <2>1. /\ Forgotten \subseteq RelayTokens
        /\ tier' \in [Tiers -> Slots] /\ \A h \in Tiers : tier'[h].open = tier[h].open
        /\ \A h \in Tiers, j \in Clients :
             tier'[h].sess[j] = IF tier[h].sess[j] \in Forgotten THEN None ELSE tier[h].sess[j]
        /\ loop' = [t \in RelayTokens |-> IF t \in Forgotten THEN "stop" ELSE loop[t]]
    BY <1>3, RecordStatsForgets
  <2> DEFINE gone == Forgotten
  <2>2. /\ loop' \in [RelayTokens -> {"none", "run", "stop"}]
        /\ \A t \in RelayTokens : loop'[t] = IF t \in gone THEN "stop" ELSE loop[t]
    BY <1>2, <2>1
  <2> QED BY <1>1, <1>2, <2>1, <2>2, AllocationsEnd
<1>4. CASE ~(udpr # None /\ tier[udpr].agent = report.from)
  <2>1. UNCHANGED <<tier, loop>>
    BY <1>4 DEF Relay!RecordStats
  <2> DEFINE gone == {}
  <2>2. /\ gone \in SUBSET RelayTokens
        /\ \A t \in RelayTokens : loop'[t] = IF t \in gone THEN "stop" ELSE loop[t]
        /\ \A h \in Tiers, j \in Clients :
             tier'[h].sess[j] = IF tier[h].sess[j] \in gone THEN None ELSE tier[h].sess[j]
    BY <2>1
  <2> HIDE DEF gone
  <2>3. tier \in [Tiers -> Slots]
    BY DEF TierInv, TierTyped
  <2> QED BY <1>1, <1>2, <2>1, <2>2, <2>3, AllocationsEnd
<1> QED BY <1>3, <1>4

LEMMA TierStep ==
  ASSUME PoolInv, TierInv, [Relay!Next]_Relay!vars PROVE TierInv'
<1>1. TierTyped
  BY DEF TierInv
<1>2. ASSUME UNCHANGED <<udpr, tier, shut, call, loop, held, young, report>> PROVE TierInv'
  <2>1. CallFresh' /\ CallAlone'
    BY <1>2 DEF TierInv, CallFresh, CallAlone, InNoTier
  <2>2. /\ held' \in [Members -> SUBSET RelayTokens]
        /\ \A n \in Members : \A t \in held'[n] : t \in held[n]
    BY <1>1, <1>2 DEF TierTyped
  <2>3. call' \in Calls \cup {Relay!Idle}
    BY <1>1, <1>2 DEF TierTyped
  <2> QED BY <1>2, <2>1, <2>2, <2>3, CallMoves
<1>3. CASE UNCHANGED Relay!vars
  BY <1>2, <1>3 DEF Relay!vars, Relay!tierVars, Relay!tokVars
<1>4. ASSUME NEW m \in Members, Relay!RunStep(m) PROVE TierInv'
  <2>1. CASE Relay!Acquire(m) \/ Relay!Joined(m) \/ Relay!Left(m)
    BY <1>2, <2>1 DEF Relay!Acquire, Relay!Joined, Relay!Left, Relay!tierVars, Relay!tokVars
  <2>2. CASE Relay!Leave(m)
    <3>1. Relay!FailPendingAllocs(m) /\ UNCHANGED <<udpr, tier, shut, loop, held, young, report>>
      BY <2>2 DEF Relay!Leave, Relay!tierVars, Relay!tokVars
    <3> QED BY <3>1, FailInv
  <2>3. CASE Relay!Deliver(m)
    <3>1. CASE "preferred" \in upd[m].flags
      <4>1. /\ Relay!EnableUDPRelay(upd[m].snap.agent, upd[m].snap.udp)
            /\ UNCHANGED <<shut, held, young, report>>
        BY <2>3, <3>1 DEF Relay!Deliver
      <4>2. upd[m] \in Updates /\ upd[m].at = "publish"
        BY <2>3 DEF Relay!Deliver, PoolInv, PoolTyped
      <4>3. upd[m].snap \in Snaps
        BY <4>2, UpdateShapes
      <4>4. upd[m].snap.agent \in Members \cup {None} /\ upd[m].snap.udp \in BOOLEAN
        BY <4>3 DEF Snaps
      <4>5. shut' \in BOOLEAN
        BY <1>1, <4>1 DEF TierTyped
      <4> QED BY <4>1, <4>4, <4>5, EnableInv
    <3>2. CASE "preferred" \notin upd[m].flags
      BY <1>2, <2>3, <3>2 DEF Relay!Deliver
    <3> QED BY <3>1, <3>2
  <2> QED BY <1>4, <2>1, <2>2, <2>3 DEF Relay!RunStep
<1>5. ASSUME NEW m \in Members, Relay!Drop(m) PROVE TierInv'
  BY <1>2, <1>5 DEF Relay!Drop, Relay!tierVars, Relay!tokVars
<1>6. ASSUME NEW m \in Members, NEW r \in Responses, Relay!Register(m, r) PROVE TierInv'
  BY <1>2, <1>6 DEF Relay!Register, Relay!tierVars, Relay!tokVars
<1>7. CASE Relay!PoolClose \/ Relay!ServerClose
  <2>1. /\ Relay!EnableUDPRelay(None, FALSE) /\ UNCHANGED <<held, young, report>>
        /\ shut' \in BOOLEAN
    BY <1>1, <1>7 DEF Relay!PoolClose, Relay!ServerClose, TierTyped
  <2> QED BY <2>1, EnableInv
<1>8. ASSUME NEW k \in Clients, Relay!Request(k) \/ Relay!Release(k) PROVE TierInv'
  BY <1>8, RequestInv, ReleaseInv
<1>9. CASE Relay!CallStep
  BY <1>9, CallStepInv, RefuseInv, PublishInv DEF Relay!CallStep
<1>10. CASE Relay!RelayAnswers \/ Relay!RecordStats
  BY <1>10, RelayAnswersInv, RecordStatsInv
<1>11. ASSUME NEW m \in Members, Relay!SendReport(m) PROVE TierInv'
  <2>1. /\ UNCHANGED <<udpr, tier, shut, call, loop, held, young>>
        /\ report' = [from |-> m, toks |-> held[m]]
    BY <1>11 DEF Relay!SendReport, Relay!tierVars
  <2>2. TierTyped' /\ ReportCovers'
    BY <1>1, <2>1 DEF TierTyped, ReportCovers
  <2>3. Relay!KeepalivesOwned' /\ OpenIsCurrent' /\ CallFresh' /\ CallAlone'
    BY <2>1 DEF TierInv, Relay!KeepalivesOwned, Relay!TokensOf, OpenIsCurrent, CallFresh, CallAlone, InNoTier
  <2> QED BY <2>2, <2>3 DEF TierInv
<1>12. ASSUME NEW t \in RelayTokens, Relay!Age(t) PROVE TierInv'
  <2>1. UNCHANGED <<udpr, tier, shut, call, loop, held, report>> /\ report = None
    BY <1>12 DEF Relay!Age, Relay!tierVars
  <2>2. TierTyped' /\ ReportCovers'
    BY <1>1, <2>1 DEF TierTyped, ReportCovers
  <2>3. Relay!KeepalivesOwned' /\ OpenIsCurrent' /\ CallFresh' /\ CallAlone'
    BY <2>1 DEF TierInv, Relay!KeepalivesOwned, Relay!TokensOf, OpenIsCurrent, CallFresh, CallAlone, InNoTier
  <2> QED BY <2>2, <2>3 DEF TierInv
<1>13. ASSUME NEW t \in RelayTokens, Relay!KeepaliveExit(t) PROVE TierInv'
  <2>1. /\ UNCHANGED <<udpr, tier, shut, call, held, young, report>>
        /\ loop[t] = "stop" /\ loop' = [loop EXCEPT ![t] = "none"]
    BY <1>13 DEF Relay!KeepaliveExit, Relay!tierVars
  <2>2. /\ loop' \in [RelayTokens -> {"none", "run", "stop"}]
        /\ \A u \in RelayTokens : loop'[u] = "run" <=> loop[u] = "run"
    BY <1>1, <2>1 DEF TierTyped
  <2>3. TierTyped' /\ ReportCovers'
    BY <1>1, <2>1, <2>2 DEF TierInv, TierTyped, ReportCovers, InNoTier
  <2>4. OpenIsCurrent' /\ CallFresh' /\ CallAlone'
    BY <2>1 DEF TierInv, OpenIsCurrent, CallFresh, CallAlone, InNoTier
  <2>5. \A h \in Tiers, j \in Clients : tier[h].sess[j] # None => tier[h].sess[j] \in RelayTokens
    BY OthersEmpty
  <2>6. Relay!KeepalivesOwned'
    BY <2>1, <2>2, <2>5 DEF TierInv, Relay!KeepalivesOwned, Relay!TokensOf
  <2> QED BY <2>3, <2>4, <2>6 DEF TierInv
<1>14. ASSUME NEW t \in RelayTokens, NEW m \in Members, Relay!RelayForgets(m, t) PROVE TierInv'
  <2>1. /\ UNCHANGED <<udpr, tier, shut, call, loop, young, report>>
        /\ held' = [held EXCEPT ![m] = @ \ {t}]
    BY <1>14 DEF Relay!RelayForgets, Relay!tierVars
  <2>2. /\ held' \in [Members -> SUBSET RelayTokens]
        /\ \A n \in Members : \A u \in held'[n] : u \in held[n]
    BY <1>1, <2>1 DEF TierTyped
  <2>3. CallFresh' /\ CallAlone'
    BY <2>1 DEF TierInv, CallFresh, CallAlone, InNoTier
  <2>4. call' \in Calls \cup {Relay!Idle}
    BY <1>1, <2>1 DEF TierTyped
  <2> QED BY <2>1, <2>2, <2>3, <2>4, CallMoves
<1> QED BY <1>3, <1>4, <1>5, <1>6, <1>7, <1>8, <1>9, <1>10, <1>11, <1>12, <1>13, <1>14 DEF Relay!Next

LEMMA RelayTypes == ASSUME PoolInv, TierInv PROVE Relay!TypeOK
<1>1. \A m \in Members : upd[m].at \in {"idle", "snapped", "publish", "done"}
  BY UpdateShapes DEF PoolInv, PoolTyped
<1>2. pub.agent \in Members \cup {None} /\ pub.set \subseteq Members \X (0 .. 1)
  BY DEF PoolInv, PoolTyped, Snaps
<1>3. \A g \in Tiers : Relay!TokensOf(g) \subseteq RelayTokens
  BY SlotShapes DEF TierInv, Relay!TokensOf
<1>4. pending \subseteq {"preferred", "set"}
  BY DEF PoolInv, PoolTyped, Flags
<1> QED BY <1>1, <1>2, <1>3, <1>4 DEF Relay!TypeOK, PoolInv, TierInv, PoolTyped, TierTyped

\* An allocation of the tier in use ends as EndsForAReason says.
LEMMA EndStep ==
  ASSUME PoolInv, TierInv, Relay!Next, NEW k \in Clients,
         udpr # None, tier[udpr].sess[k] # None, tier'[udpr].sess[k] # tier[udpr].sess[k]
  PROVE  \/ Relay!Release(k)
         \/ tier[udpr].sess[k] \notin held[tier[udpr].agent]
         \/ cb # None /\ "preferred" \in upd[cb].flags
         \/ closed' \/ shut'
<1>1. udpr \in Tiers /\ TierTyped /\ tier' # tier
  BY DEF TierInv, TierTyped
<1>2. ASSUME NEW m \in Members, Relay!RunStep(m)
      PROVE  cb # None /\ "preferred" \in upd[cb].flags
  <2>1. Relay!Deliver(m)
    BY <1>1, <1>2 DEF Relay!RunStep, Relay!Acquire, Relay!Joined, Relay!Leave, Relay!Left, Relay!tierVars
  <2>2. cb = m /\ m # None
    BY <2>1, RelayConstants DEF Relay!Deliver
  <2> QED BY <1>1, <2>1, <2>2 DEF Relay!Deliver
<1>3. ASSUME NEW m \in Members, Relay!Drop(m) \/ Relay!SendReport(m) PROVE FALSE
  BY <1>1, <1>3 DEF Relay!Drop, Relay!SendReport, Relay!tierVars
<1>4. ASSUME NEW m \in Members, NEW r \in Responses, Relay!Register(m, r) PROVE FALSE
  BY <1>1, <1>4 DEF Relay!Register, Relay!tierVars
<1>5. CASE Relay!PoolClose \/ Relay!ServerClose
  BY <1>5 DEF Relay!PoolClose, Relay!ServerClose
<1>6. ASSUME NEW j \in Clients, Relay!Request(j) PROVE FALSE
  BY <1>1, <1>6 DEF Relay!Request, Relay!tierVars
<1>7. ASSUME NEW j \in Clients, Relay!Release(j) PROVE j = k
  <2>1. tier' = [tier EXCEPT ![udpr].sess[j] = None]
    BY <1>7 DEF Relay!Release
  <2> QED BY <1>1, <2>1 DEF TierTyped, Slots
<1>8. ASSUME Relay!CallStep PROVE FALSE
  <2>1. Relay!Publish
    BY <1>1, <1>8 DEF Relay!CallStep, Relay!Enter, Relay!ReadConnection, Relay!Ask, Relay!HandleReply,
         Relay!TakeReply, Relay!GiveUp, Relay!Refuse, Relay!tierVars
  <2>2. /\ call \in Calls /\ call # Relay!Idle /\ call.at = "answer"
        /\ tier' = [tier EXCEPT ![call.tier].sess[call.client] = call.tok]
    BY <2>1, CallIs DEF Relay!Publish
  <2>3. call.tier \in Tiers /\ call.client \in Clients
    BY <2>2 DEF Calls
  <2>4. call.tier = udpr /\ call.client = k
    BY <1>1, <2>2, <2>3 DEF TierTyped, Slots
  <2>5. tier[call.tier].sess[call.client] = None
    BY <2>2 DEF TierInv, CallAlone
  <2> QED BY <2>4, <2>5
<1>9. ASSUME Relay!RelayAnswers PROVE FALSE
  BY <1>1, <1>9 DEF Relay!RelayAnswers, Relay!tierVars
<1>10. ASSUME Relay!RecordStats PROVE tier[udpr].sess[k] \notin held[tier[udpr].agent]
  <2>1. udpr # None /\ tier[udpr].agent = report.from /\ report # None
    BY <1>1, <1>10 DEF Relay!RecordStats
  <2>2. tier[udpr].sess[k] \in Forgotten
    BY <1>1, <1>10, <2>1, RecordStatsForgets
  <2>3. tier[udpr].sess[k] \notin report.toks /\ tier[udpr].sess[k] \notin young
    BY <2>2 DEF Forgotten, Relay!Overdue
  <2>4. ~InNoTier(tier[udpr].sess[k])
    BY <1>1 DEF InNoTier
  <2> QED BY <2>1, <2>3, <2>4 DEF TierInv, ReportCovers
<1>11. ASSUME NEW t \in RelayTokens,
              Relay!Age(t) \/ Relay!KeepaliveExit(t) \/ \E m \in Members : Relay!RelayForgets(m, t)
       PROVE  FALSE
  BY <1>1, <1>11 DEF Relay!Age, Relay!KeepaliveExit, Relay!RelayForgets, Relay!tierVars
<1> QED BY <1>2, <1>3, <1>4, <1>5, <1>6, <1>7, <1>8, <1>9, <1>10, <1>11 DEF Relay!Next

\* A keepalive runs for an allocation of the tier in use and for no other, and
\* an allocation is one client's and has its keepalive, whatever reconnects,
\* late answers and releases come together (udprelay.go).
THEOREM KeepalivesAreOwned == Relay!Spec => []KeepalivesOwned
<1>1. Relay!Init => PoolInv /\ TierInv
  BY PoolInit, TierInit
<1>2. PoolInv /\ TierInv /\ [Relay!Next]_Relay!vars => PoolInv' /\ TierInv'
  BY PoolStep, TierStep
<1>3. PoolInv /\ TierInv => KeepalivesOwned
  BY RelayTypes DEF TierInv, KeepalivesOwned
<1> QED BY <1>1, <1>2, <1>3, PTL DEF Relay!Spec

\* An established allocation ends only because its session was dropped, the
\* relay no longer has it, a change of the preferred relay is published or
\* everything is closing: recordStats never forgets what the relay holds.
THEOREM AllocationsEndForAReason == Relay!Spec => EndsForAReason
<1> DEFINE Reason ==
      \A k \in Clients :
        udpr # None /\ tier[udpr].sess[k] # None /\ tier'[udpr].sess[k] # tier[udpr].sess[k] =>
          \/ Relay!Release(k)
          \/ tier[udpr].sess[k] \notin held[tier[udpr].agent]
          \/ cb # None /\ "preferred" \in upd[cb].flags
          \/ closed' \/ shut'
<1>1. Relay!Init => PoolInv /\ TierInv
  BY PoolInit, TierInit
<1>2. PoolInv /\ TierInv /\ [Relay!Next]_Relay!vars => PoolInv' /\ TierInv'
  BY PoolStep, TierStep
<1>3. PoolInv /\ TierInv /\ [Relay!Next]_Relay!vars => [Reason]_Relay!vars
  BY EndStep
<1> QED BY <1>1, <1>2, <1>3, PTL DEF Relay!Spec, EndsForAReason, Relay!EndsForAReason
=============================================================================
