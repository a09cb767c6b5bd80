-------------------------- MODULE NativeWireGuard --------------------------
(***************************************************************************)
(* The relay's forwarder of unmodified WireGuard packets                   *)
(* (pkg/relay/nativewg.go): one UDP socket of one tenant, a server address *)
(* that proves itself with a token, and two bounded tables by which the    *)
(* answers find the client, however it roams.                              *)
(*                                                                         *)
(* Every WireGuard peer draws its 32-bit index afresh for each handshake:  *)
(* here a client owns some indices, and the server some for each client.   *)
(* The socket is a sequence of datagrams; each is one call of handle.      *)
(***************************************************************************)
EXTENDS Integers, Sequences, SequencesExt

CONSTANTS
  Clients,
  ClientIndex,   \* index -> the client that drew it
  ServerIndex,   \* index -> the client the server drew it for
  AddrsOf,       \* client -> the addresses it sends from
  ServerAddrs,
  MaxTokens,     \* bound on registrations
  MaxIndices,    \* nativeWGMaxIndices
  Nobody

VARIABLES
  issued,    \* tokens issued so far: 1..issued
  token,     \* the tenant's token, 0 without
  server,    \* servers[tenant], or Nobody
  indices,   \* index -> client address, or Nobody
  live,      \* the indices whose route has not expired
  ring,      \* indexOrder
  at,        \* nextIndex
  pairs,     \* server's index -> client's index, or Nobody
  pairRing, pairAt

nativeVars == <<issued, token, server, indices, live, ring, at, pairs, pairRing, pairAt>>
regVars == <<issued, token, server>>
tableVars == <<indices, live, ring, at, pairs, pairRing, pairAt>>
-----------------------------------------------------------------------------
CIdx == DOMAIN ClientIndex
SIdx == DOMAIN ServerIndex

Init ==
  /\ issued = 0 /\ token = 0 /\ server = Nobody
  /\ indices = [i \in CIdx |-> Nobody] /\ live = {} /\ ring = <<>> /\ at = 1
  /\ pairs = [j \in SIdx |-> Nobody] /\ pairRing = <<>> /\ pairAt = 1

(* A registration takes the tenant's token and its association over.       *)
Issue ==
  /\ issued < MaxTokens
  /\ issued' = issued + 1 /\ token' = issued' /\ server' = Nobody
  /\ UNCHANGED tableVars

(* A control connection ends, perhaps after its successor registered.      *)
RemoveToken(t) ==
  /\ t \in 1..issued /\ token = t
  /\ token' = 0 /\ server' = Nobody
  /\ UNCHANGED issued /\ UNCHANGED tableVars

(* handle, association frames: a token that is not current is ignored.     *)
Associate(t, from) ==
  /\ t \in 1..issued /\ token = t
  /\ server' = from
  /\ UNCHANGED <<issued, token>> /\ UNCHANGED tableVars

(* A slot of a bounded FIFO for key: the ring with it, the next position,  *)
(* and the key that loses its place.                                       *)
MutSlot(r, pos, key) ==
  IF Len(r) = MaxIndices
    THEN [ring |-> [r EXCEPT ![pos] = key], pos |-> (pos % Len(r)) + 1, out |-> Nobody]
    ELSE [ring |-> Append(r, key), pos |-> pos, out |-> Nobody]

Slot(r, pos, key) ==
  IF Len(r) = MaxIndices
    THEN [ring |-> [r EXCEPT ![pos] = key], pos |-> (pos % Len(r)) + 1, out |-> r[pos]]
    ELSE [ring |-> Append(r, key), pos |-> pos, out |-> Nobody]

(* Writes table[key] = v, in a slot of its own if key is new.              *)
Put(table, r, pos, key, v) ==
  LET s == IF table[key] /= Nobody THEN [ring |-> r, pos |-> pos, out |-> Nobody]
                                   ELSE Slot(r, pos, key)
  IN  [ring |-> s.ring, pos |-> s.pos, out |-> s.out,
       table |-> [k \in DOMAIN table |-> IF k = key THEN v
                                         ELSE IF k = s.out THEN Nobody ELSE table[k]]]

(* handle, from the server's address: forwarded along a live route only; a *)
(* handshake response (type 2) pairs the two indices.                      *)
FromServer(typ, i, j) ==
  /\ server /= Nobody /\ i \in live
  /\ ServerIndex[j] = ClientIndex[i]
  /\ \/ /\ typ = 2
        /\ LET p == Put(pairs, pairRing, pairAt, j, i)
           IN  pairs' = p.table /\ pairRing' = p.ring /\ pairAt' = p.pos
     \/ typ \in {3, 4} /\ UNCHANGED <<pairs, pairRing, pairAt>>
  /\ UNCHANGED <<indices, live, ring, at>> /\ UNCHANGED regVars

(* handle, from a client: an initiation (type 1) learns its index.         *)
Initiation(c, from, i) ==
  /\ server /= Nobody /\ from \in AddrsOf[c] /\ ClientIndex[i] = c
  /\ LET p == Put(indices, ring, at, i, from)
     IN  /\ indices' = p.table /\ ring' = p.ring /\ at' = p.pos
         /\ live' = (live \ {p.out}) \cup {i}
  /\ UNCHANGED <<pairs, pairRing, pairAt>> /\ UNCHANGED regVars

MutTransport(c, from, j) ==
  /\ server /= Nobody /\ from \in AddrsOf[c] /\ ServerIndex[j] = c
  /\ pairs[j] /= Nobody
  /\ indices' = [indices EXCEPT ![pairs[j]] = from]
  /\ live' = live \cup {pairs[j]}
  /\ UNCHANGED <<ring, at, pairs, pairRing, pairAt>> /\ UNCHANGED regVars

(* ... and a transport packet (types 3 and 4) moves the route of the index *)
(* it is paired with, revived if it had expired.                           *)
Transport(c, from, j) ==
  /\ server /= Nobody /\ from \in AddrsOf[c] /\ ServerIndex[j] = c
  /\ pairs[j] /= Nobody /\ indices[pairs[j]] /= Nobody
  /\ indices' = [indices EXCEPT ![pairs[j]] = from]
  /\ live' = live \cup {pairs[j]}
  /\ UNCHANGED <<ring, at, pairs, pairRing, pairAt>> /\ UNCHANGED regVars

(* nativeWGRouteTTL passes without traffic.                                *)
Expire(i) ==
  /\ i \in live
  /\ live' = live \ {i}
  /\ UNCHANGED <<indices, ring, at, pairs, pairRing, pairAt>> /\ UNCHANGED regVars

Next ==
  \/ Issue
  \/ \E t \in 1..MaxTokens : RemoveToken(t) \/ \E a \in ServerAddrs : Associate(t, a)
  \/ \E i \in CIdx : Expire(i) \/ \E j \in SIdx, typ \in 2..4 : FromServer(typ, i, j)
  \/ \E c \in Clients : \E from \in AddrsOf[c] :
       \/ \E i \in CIdx : Initiation(c, from, i)
       \/ \E j \in SIdx : Transport(c, from, j)

Spec == Init /\ [][Next]_nativeVars
-----------------------------------------------------------------------------
Known(table) == {k \in DOMAIN table : table[k] /= Nobody}

(* "The bounded, expiring map": however handshakes evict one another's     *)
(* slots, each table holds exactly the keys of its ring, each once, never  *)
(* more than its bound, so that no route outlives its slot.                *)
RingsAgree ==
  /\ \A r \in {ring, pairRing} : Len(r) <= MaxIndices /\ IsInjective(r)
  /\ Known(indices) = ToSet(ring) /\ live \subseteq Known(indices)
  /\ Known(pairs) = ToSet(pairRing)
  /\ at \in 1..MaxIndices /\ pairAt \in 1..MaxIndices

(* Answers find their client: across eviction, expiry, roaming and a pair  *)
(* that outlives its index, the route of an index leads to an address its  *)
(* own client has sent from.                                               *)
AnswersFindClient ==
  \A i \in Known(indices) : indices[i] \in AddrsOf[ClientIndex[i]]

(* A server address is associated only under the token that is current.    *)
AssociationOwned == server /= Nobody => token /= 0

NativeSound == RingsAgree /\ AnswersFindClient /\ AssociationOwned
=============================================================================
