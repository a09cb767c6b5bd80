--------------------------- MODULE ServerSessions ---------------------------
(***************************************************************************)
(* The sessions of ntwire-server and what hangs on them: the bearer-token  *)
(* table (session.go), the tunnel addresses and the WireGuard peers        *)
(* (dataplane.go), the WebSocket and multipath registrations of a peer,    *)
(* and the handlers that create, renew, end, expire and revoke sessions    *)
(* (server.go, metrics.go, reload.go).                                     *)
(*                                                                         *)
(* operationMu serialises authentication, renewal, disconnect, revocation, *)
(* reload and the reaper; op is the operation that holds it. The clock,    *)
(* the WebSocket upgrade and the punch handler do not wait for it.         *)
(*                                                                         *)
(* Left out: signatures, nonces, rate limits and the authorizer's policy   *)
(* decide which requests are refused, and here any may be; a refused       *)
(* request changes nothing.                                                *)
(***************************************************************************)
EXTENDS Integers, FiniteSets

CONSTANTS
  Tokens,             \* slots for bearer tokens
  Keys,               \* WireGuard public keys, canonical
  Principals,         \* (method, identity, issuer)
  SSHPrincipals,      \* those an authorized_keys file vouches for
  IdentityOf,         \* principal -> (method, identity), which the cap counts
  Configs,            \* the contents the operator gives the files on disk
  Handlers,           \* requests of /v1/wg and /v1/punch in flight
  PoolSize,           \* addresses in network.tunnel_cidr, from 0
  BroadcastReserved,  \* an IPv4 prefix keeps its last address
  MaxSessionsPerKey,  \* auth.max_sessions_per_key
  None

Pool == 0 .. PoolSize - 1

\* LoadConfig rejects two native peers with one address, and the server's own.
ValidConfig(c) ==
  /\ c.known \in SUBSET Principals
  /\ c.grants \in [Principals -> SUBSET UNION {c.grants[p] : p \in Principals}]
  /\ c.native \in [Keys -> (Pool \ {1}) \cup {None}]
  /\ \A j, k \in Keys : j # k /\ c.native[j] # None => c.native[j] # c.native[k]

ASSUME SessionConstants ==
  /\ PoolSize \in Nat \ {0, 1}
  /\ BroadcastReserved \in BOOLEAN
  /\ MaxSessionsPerKey \in Nat
  /\ SSHPrincipals \subseteq Principals
  /\ IsFiniteSet(Tokens) /\ IsFiniteSet(Keys)
  /\ Configs # {} /\ \A c \in Configs : ValidConfig(c)

\* None is no value of any of these.
ASSUME NoneDistinct ==
  /\ None \notin Tokens \cup Keys \cup Principals
  /\ None \notin Pool \cup {-1} /\ None \notin Configs
  /\ \A c \in Configs :
       None \notin [who : Principals, key : Keys, ip : Pool,
                   tunnels : SUBSET UNION {c.grants[p] : p \in Principals}]

VARIABLES
  disk,      \* the configuration file and the authorized-key directory
  cfg,       \* Server.Config: what the last reload read
  changed,   \* the watcher has seen a change it has not acted on
  loaded,    \* the configuration the watcher has read and not yet applied
  table,     \* Sessions.byToken
  expired,   \* tokens whose time is over
  nextIP,    \* dataPlane.nextIP
  peers,     \* the WireGuard device: key -> allowed address
  ws,        \* keys with a WebSocket carrier
  paths,     \* keys the multipath bind keeps a peer for
  stranded,  \* history: keys whose replacement ended in a failing AddPeer
  op,        \* the operation that holds operationMu
  req        \* handler -> its request, which looked its session up already

fileVars == <<disk, cfg, changed, loaded>>
sessVars == <<table, expired, nextIP>>
carrVars == <<ws, paths>>
peerVars == <<peers, stranded>>
vars == <<fileVars, sessVars, peerVars, carrVars, op, req>>

Bare == -1   \* a peer whose allowed address went to another peer
Free == [kind |-> "free"]
Held == {t \in Tokens : table[t] # None}
Live == Held \ expired

Init ==
  /\ disk \in Configs
  /\ cfg = disk
  /\ changed = FALSE
  /\ loaded = None
  /\ table = [t \in Tokens |-> None]
  /\ expired = {}
  /\ nextIP = 0
  /\ peers = cfg.native
  /\ stranded = {}
  /\ ws = {}
  /\ paths = {}
  /\ op = Free
  /\ req = [h \in Handlers |-> Free]

-----------------------------------------------------------------------------
(* Helpers of the handlers.                                                *)

\* Stack.AddPeer: the device moves the address from whoever had it.
WithPeer(ps, k, ip) ==
  [j \in Keys |-> IF j = k THEN ip ELSE IF ps[j] = ip THEN Bare ELSE ps[j]]

KeysOf(T) == {table[t].key : t \in T}

\* Deleting the sessions T and dropSession for each of them.
Drop(T) ==
  /\ table' = [t \in Tokens |-> IF t \in T THEN None ELSE table[t]]
  /\ expired' = expired \ T
  /\ peers' = [k \in Keys |-> IF k \in KeysOf(T) THEN None ELSE peers[k]]
  /\ ws' = ws \ KeysOf(T)
  /\ paths' = paths \ KeysOf(T)

CountIdentity(p) ==
  Cardinality({t \in Live : IdentityOf[table[t].who] = IdentityOf[p]})

\* authorizedEntry reads the key files anew; the OIDC issuers are those of c.
Known(c, p) == p \in (IF p \in SSHPrincipals THEN disk.known ELSE c.known)

Used(T) ==
  {0, 1} \cup (IF BroadcastReserved THEN {PoolSize - 1} ELSE {})
         \cup ({cfg.native[k] : k \in Keys} \ {None})
         \cup {table[t].ip : t \in T}

\* A scan that does not wrap at the end of the prefix.
MutCandidate(i) == nextIP + i

\* The i-th candidate of allocateIP's scan, which wraps at the end of the prefix.
Candidate(i) == (nextIP + i) % PoolSize

\* allocateIP: at most len(used)+1 tries, from where the last scan stopped.
MutScan(T) == {i \in 0 .. Cardinality(Used(T)) : TRUE}
Scan(T) == {i \in 0 .. Cardinality(Used(T)) : Candidate(i) \notin Used(T)}

First(S) == CHOOSE i \in S : \A j \in S : i <= j

-----------------------------------------------------------------------------
(* Authentication: establishSession, step by step.                         *)

\* The session cap and the authorizer, which grants some of the tunnels.
Authorize(p, k, granted) ==
  /\ op = Free
  /\ Held # Tokens
  /\ Known(cfg, p)
  /\ MaxSessionsPerKey > 0 => CountIdentity(p) < MaxSessionsPerKey
  /\ granted \subseteq cfg.grants[p]
  /\ op' = [kind |-> "auth", at |-> "reap", who |-> p, key |-> k,
            tunnels |-> granted, ip |-> None]
  /\ UNCHANGED <<fileVars, sessVars, peerVars, carrVars, req>>

Authenticating(stage) == op.kind = "auth" /\ op.at = stage

\* Retire what has expired; a native peer's key is refused.
AuthReap ==
  /\ Authenticating("reap")
  /\ Drop(expired)
  /\ op' = IF cfg.native[op.key] # None THEN Free ELSE [op EXCEPT !.at = "find"]
  /\ UNCHANGED <<stranded, fileVars, nextIP, req>>

OnKey == {t \in Live : table[t].key = op.key}

\* A session with this key: another principal's is left alone ...
RefuseForeignKey ==
  /\ Authenticating("find")
  /\ \E t \in OnKey : table[t].who # op.who
  /\ op' = Free
  /\ UNCHANGED <<fileVars, sessVars, peerVars, carrVars, req>>

\* ... and one's own is replaced and its address kept; its peer stays.
ReplaceOwnSession ==
  /\ Authenticating("find")
  /\ \E t \in OnKey :
       /\ table[t].who = op.who
       /\ table' = [table EXCEPT ![t] = None]
       /\ op' = [op EXCEPT !.at = "peer", !.ip = table[t].ip]
  /\ UNCHANGED <<fileVars, expired, nextIP, peerVars, carrVars, req>>

\* No session: reap what has expired since, then allocate an address.
MutAllocateIP ==
  /\ Authenticating("find")
  /\ OnKey = {}
  /\ LET hits == Scan(Held)
     IN  IF hits # {}
           THEN /\ op' = [op EXCEPT !.at = "peer", !.ip = Candidate(First(hits))]
                /\ nextIP' = Candidate(First(hits)) + 1
           ELSE /\ op' = Free
                /\ nextIP' = Candidate(Cardinality(Used(Held))) + 1
  /\ UNCHANGED <<fileVars, table, expired, peerVars, carrVars, req>>

AllocateIP ==
  /\ Authenticating("find")
  /\ OnKey = {}
  /\ Drop(expired)
  /\ LET hits == Scan(Live)
     IN  IF hits # {}
           THEN /\ op' = [op EXCEPT !.at = "peer", !.ip = Candidate(First(hits))]
                /\ nextIP' = Candidate(First(hits)) + 1
           ELSE /\ op' = Free
                /\ nextIP' = Candidate(Cardinality(Used(Live))) + 1
  /\ UNCHANGED <<stranded, fileVars, req>>

AddPeer ==
  /\ Authenticating("peer")
  /\ peers' = WithPeer(peers, op.key, op.ip)
  /\ stranded' = stranded \ {op.key}
  /\ op' = [op EXCEPT !.at = "create"]
  /\ UNCHANGED <<fileVars, sessVars, carrVars, req>>

\* The device refuses the peer, and the request ends here.
AddPeerFails ==
  /\ Authenticating("peer")
  /\ stranded' = IF peers[op.key] = None THEN stranded ELSE stranded \cup {op.key}
  /\ op' = Free
  /\ UNCHANGED <<fileVars, sessVars, peers, carrVars, req>>

Create(t) ==
  /\ Authenticating("create")
  /\ table[t] = None
  /\ table' = [table EXCEPT ![t] =
                 [who |-> op.who, key |-> op.key, ip |-> op.ip, tunnels |-> op.tunnels]]
  /\ op' = Free
  /\ UNCHANGED <<fileVars, expired, nextIP, peerVars, carrVars, req>>

-----------------------------------------------------------------------------
(* Renewal, disconnect, revocation and expiry.                             *)

\* The session is looked up and the authorizer asked, which takes its time.
RenewStart(t) ==
  /\ op = Free
  /\ t \in Live
  /\ op' = [kind |-> "renew", token |-> t]
  /\ UNCHANGED <<fileVars, sessVars, peerVars, carrVars, req>>

\* The renewed session has a new token, and the peer and the address of the
\* old one, which dropSession must not touch.
Renew(granted) ==
  /\ op.kind = "renew"
  /\ granted \subseteq table[op.token].tunnels
  /\ table' = [table EXCEPT ![op.token].tunnels = granted]
  /\ expired' = expired \ {op.token}
  /\ peers' = WithPeer(peers, table[op.token].key, table[op.token].ip)
  /\ op' = Free
  /\ UNCHANGED <<stranded, fileVars, nextIP, carrVars, req>>

RenewDenied ==
  /\ op.kind = "renew"
  /\ Drop({op.token})
  /\ op' = Free
  /\ UNCHANGED <<stranded, fileVars, nextIP, req>>

\* POST /v1/disconnect by the client, or an operator's revoke.
Disconnect(t) ==
  /\ op = Free
  /\ t \in Live
  /\ Drop({t})
  /\ UNCHANGED <<stranded, fileVars, nextIP, op, req>>

RevokeSession(t) == Disconnect(t)

\* The reaper's tick.
\* A reaper that stops at the first session that is still alive.
MutReapSessions ==
  /\ op = Free
  /\ expired # {} /\ Live = {}
  /\ Drop(expired)
  /\ UNCHANGED <<stranded, fileVars, nextIP, op, req>>

ReapSessions ==
  /\ op = Free
  /\ expired # {}
  /\ Drop(expired)
  /\ UNCHANGED <<stranded, fileVars, nextIP, op, req>>

\* Time passes, whoever holds operationMu.
Expire(t) ==
  /\ t \in Live
  /\ expired' = expired \cup {t}
  /\ UNCHANGED <<fileVars, table, nextIP, peerVars, carrVars, op, req>>

-----------------------------------------------------------------------------
(* Configuration.                                                          *)

\* The operator edits the files; the watcher notices.
EditFiles(c) ==
  /\ c # disk
  /\ disk' = c
  /\ changed' = TRUE
  /\ UNCHANGED <<cfg, loaded, sessVars, peerVars, carrVars, op, req>>

\* The watcher reads the file, and waits for operationMu with what it read ...
LoadConfig ==
  /\ changed /\ loaded = None
  /\ changed' = FALSE
  /\ loaded' = disk
  /\ UNCHANGED <<disk, cfg, sessVars, peerVars, carrVars, op, req>>

\* ... unless LoadConfig fails on some other part of it: the old one stays.
ReloadRejected ==
  /\ changed /\ loaded = None
  /\ changed' = FALSE
  /\ UNCHANGED <<disk, cfg, loaded, sessVars, peerVars, carrVars, op, req>>

MutConflicting(c) == {t \in Held : c.native[table[t].key] # None}

\* Sessions whose key or address a native peer of c takes.
Conflicting(c) ==
  {t \in Held : \/ c.native[table[t].key] # None
                \/ \E k \in Keys : c.native[k] = table[t].ip}

\* Sessions whose principal is gone, or which hold a tunnel they lost.
Revoked(c) ==
  {t \in Held : \/ ~Known(c, table[t].who)
                \/ ~(table[t].tunnels \subseteq c.grants[table[t].who])}

\* reconcileNativePeers: remove the old native peers, install the new ones.
NativePeers(ps, old, new) ==
  [k \in Keys |-> CASE new[k] # None -> new[k]
                    [] new[k] = None /\ old[k] # None -> None
                    [] OTHER -> IF ps[k] \in {new[j] : j \in Keys} \ {None} THEN Bare ELSE ps[k]]

\* The effect of Reload(loaded) that drops the sessions gone and leaves the
\* peers now.
Apply(gone, now) ==
  /\ op = Free
  /\ loaded # None
  /\ cfg' = loaded
  /\ loaded' = None
  /\ table' = [t \in Tokens |-> IF t \in gone THEN None ELSE table[t]]
  /\ expired' = expired \ gone
  /\ peers' = now
  /\ ws' = ws \ KeysOf(gone)
  /\ paths' = paths \ KeysOf(gone)
  /\ UNCHANGED <<stranded, disk, changed, nextIP, op, req>>

Without(ps, T) == [k \in Keys |-> IF k \in KeysOf(T) THEN None ELSE ps[k]]

\* Looking only at who is known, and not at the tunnels a session holds.
MutReloadGrants ==
  loaded # None /\
  LET gone == Conflicting(loaded) \cup {t \in Held : ~Known(loaded, table[t].who)}
  IN  Apply(gone, NativePeers(Without(peers, gone), cfg.native, loaded.native))

\* Reload: conflicting sessions go before the native peers come, so that
\* dropSession cannot remove the peer that replaces them; then the native
\* peers, if they changed; then the sessions the configuration revokes.
Reload ==
  loaded # None /\
  LET first == Conflicting(loaded)
      last  == Revoked(loaded) \ first
      now   == IF cfg.native = loaded.native THEN Without(peers, first)
                 ELSE NativePeers(Without(peers, first), cfg.native, loaded.native)
  IN  Apply(first \cup last, Without(now, last))

-----------------------------------------------------------------------------
(* Carriers: requests that look their session up without operationMu.      *)

Lookup(h, t, what) ==
  /\ req[h] = Free
  /\ t \in Live
  /\ req' = [req EXCEPT ![h] = [kind |-> what, key |-> table[t].key]]
  /\ UNCHANGED <<fileVars, sessVars, peerVars, carrVars, op>>

\* callbacksMu: from the attachment of a carrier to the end of its callback.
Publishing == \E h \in Handlers : req[h].kind = "attached"

\* websocket: the carrier is attached under the key the session had then.
Attach(h) ==
  /\ req[h].kind = "ws"
  /\ ~Publishing
  /\ ws' = ws \cup {req[h].key}
  /\ req' = [req EXCEPT ![h].kind = "attached"]
  /\ UNCHANGED <<fileVars, sessVars, peerVars, paths, op>>

MutRegisterWSS(h) ==
  /\ op = Free
  /\ req[h].kind = "attached"
  /\ paths' = paths \cup {req[h].key}
  /\ req' = [req EXCEPT ![h] = Free]
  /\ UNCHANGED <<fileVars, sessVars, peerVars, ws, op>>

\* OnPeerConnected takes operationMu and looks again.
RegisterWSS(h) ==
  /\ op = Free
  /\ req[h].kind = "attached"
  /\ paths' = IF \E t \in Live : table[t].key = req[h].key
                THEN paths \cup {req[h].key} ELSE paths
  /\ req' = [req EXCEPT ![h] = Free]
  /\ UNCHANGED <<fileVars, sessVars, peerVars, ws, op>>

Hangup(k) ==
  /\ k \in ws
  /\ ~Publishing
  /\ ws' = ws \ {k}
  /\ UNCHANGED <<fileVars, sessVars, peerVars, paths, op, req>>

\* punch registers the direct path of the session it looked up.
PunchRegister(h) ==
  /\ req[h].kind = "punch"
  /\ paths' = paths \cup {req[h].key}
  /\ req' = [req EXCEPT ![h] = Free]
  /\ UNCHANGED <<fileVars, sessVars, peerVars, ws, op>>

\* registerDirectTransport looks its session up under operationMu.
RegisterDirect(t) ==
  /\ op = Free
  /\ t \in Live
  /\ paths' = paths \cup {table[t].key}
  /\ UNCHANGED <<fileVars, sessVars, peerVars, ws, op, req>>

-----------------------------------------------------------------------------
AuthStep ==
  \/ AuthReap \/ RefuseForeignKey \/ ReplaceOwnSession \/ AllocateIP
  \/ AddPeer \/ AddPeerFails \/ \E t \in Tokens : Create(t)

RenewStep ==
  /\ op.kind = "renew"
  /\ RenewDenied \/ \E g \in SUBSET table[op.token].tunnels : Renew(g)

Carriers ==
  \/ \E h \in Handlers, t \in Tokens, what \in {"ws", "punch"} : Lookup(h, t, what)
  \/ \E h \in Handlers : Attach(h) \/ RegisterWSS(h) \/ PunchRegister(h)
  \/ \E k \in Keys : Hangup(k)
  \/ \E t \in Tokens : RegisterDirect(t)

Next ==
  \/ \E p \in Principals, k \in Keys : \E g \in SUBSET cfg.grants[p] : Authorize(p, k, g)
  \/ AuthStep \/ RenewStep
  \/ \E t \in Tokens : RenewStart(t) \/ Disconnect(t) \/ RevokeSession(t) \/ Expire(t)
  \/ ReapSessions
  \/ \E c \in Configs : EditFiles(c)
  \/ LoadConfig \/ ReloadRejected \/ Reload
  \/ Carriers

\* An operation that holds the mutex goes on. The reaper's ticker waits for it
\* again and again, and Go's mutex hands itself to a waiter that starves.
Fairness == WF_vars(AuthStep) /\ WF_vars(RenewStep) /\ SF_vars(ReapSessions)

Spec == Init /\ [][Next]_vars /\ Fairness

-----------------------------------------------------------------------------
(* Properties.                                                             *)

Sessions == [who : Principals, key : Keys, ip : Pool,
             tunnels : SUBSET UNION {cfg.grants[p] : p \in Principals}]

TypeOK ==
  /\ disk \in Configs /\ cfg \in Configs
  /\ changed \in BOOLEAN /\ loaded \in Configs \cup {None}
  /\ \A t \in Tokens : table[t] = None \/ table[t] \in Sessions
  /\ expired \subseteq Held
  /\ nextIP \in 0 .. PoolSize
  /\ peers \in [Keys -> Pool \cup {Bare, None}]
  /\ ws \subseteq Keys /\ paths \subseteq Keys /\ stranded \subseteq Keys
  /\ op.kind \in {"free", "auth", "renew"}
  /\ \A h \in Handlers : req[h].kind \in {"free", "ws", "attached", "punch"}

\* Sessions never share a key or an address, and none has an address that
\* the prefix, the server or a native peer needs: not even one that expired
\* and still waits for the reaper.
AddressesDistinct ==
  /\ \A t, u \in Held : t # u => table[t].key # table[u].key /\ table[t].ip # table[u].ip
  /\ \A t \in Held : table[t].ip \notin Used({})

\* Every session and every native peer of the configuration in force has its
\* WireGuard peer, with its address. No clean-up of an expired, replaced,
\* revoked or conflicting session takes the peer of a later owner away.
\* Conversely a peer is there for a session, a native peer or the operation
\* under way; the one exception is a reconnect whose AddPeer the device
\* refused, after the old session was deleted.
PeersFollowSessions ==
  /\ \A t \in Held : peers[table[t].key] = table[t].ip
  /\ \A k \in Keys :
       /\ cfg.native[k] # None => peers[k] = cfg.native[k]
       /\ peers[k] # None => \/ k \in KeysOf(Held) \cup stranded
                             \/ cfg.native[k] # None
                             \/ op.kind = "auth" /\ op.key = k

\* Together: the session table, the addresses and the WireGuard peers agree.
SessionsSound == TypeOK /\ AddressesDistinct /\ PeersFollowSessions

\* principalForIP: whose traffic the data plane takes an address for.
KeyForIP(ip) ==
  IF \E t \in Live : table[t].ip = ip
    THEN (CHOOSE s \in {table[t] : t \in Live} : s.ip = ip).key
    ELSE IF \E k \in Keys : cfg.native[k] = ip
           THEN CHOOSE k \in Keys : cfg.native[k] = ip ELSE None

\* What a WireGuard key sends is taken for that key's own session or native
\* peer, or for nobody's: never for another principal's.
TrafficHasItsPrincipal ==
  \A k \in Keys : peers[k] \in Pool => KeyForIP(peers[k]) \in {k, None}

\* Whatever a session holds the configuration in force grants its principal.
WithinGrants ==
  \A t \in Held : table[t].tunnels \subseteq cfg.grants[table[t].who]

\* A path is registered for a key that has a session at that moment, and the
\* end of a session takes its paths and its carrier along, unless the same
\* client is taking its place. Only punch, which looked its session up
\* before, may be late.
PathsFollowSessions ==
  [][/\ \A k \in paths' \ paths :
          \/ k \in KeysOf(Live)
          \/ \E h \in Handlers : req[h] = [kind |-> "punch", key |-> k] /\ req'[h] = Free
     /\ \A k \in KeysOf(Held) \ KeysOf(Held)' :
          k \notin paths' \cup ws' \/ op'.kind = "auth"]_vars

\* An expired session is cleaned up, although authentications keep taking
\* the mutex.
ExpiredIsReaped ==
  \A t \in Tokens : t \in expired ~> t \notin expired
=============================================================================
