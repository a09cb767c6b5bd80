----------------------------- MODULE AuthLimits -----------------------------
(***************************************************************************)
(* What an unauthenticated caller can make a server remember               *)
(* (pkg/authlimit): the nonces of accepted requests and the requests of    *)
(* each source.  The server's /v1/auth, the relay's agent listener and its *)
(* UDP tier each have their own.  A call is one action, made under the     *)
(* structure's mutex; time passes between calls.                           *)
(***************************************************************************)
EXTENDS Integers, Sequences, FiniteSets, FiniteSetsExt

CONSTANTS
  Nonces, TTL, MaxNonces,
  Sources, Limit, Window, MaxSources,
  Watched,  \* the source whose requests are followed
  Share,    \* the part of a full table an eviction frees; 10 in the code
  MaxTime   \* bound on the clock

VARIABLES
  now,
  seen,      \* NonceCache.seen: nonce -> time, or Never
  accepted,  \* ghost: nonce -> when it was last accepted
  sources,   \* SourceLimiter.sources: source -> [n, since]; n = 0 for none
  sweepAt,
  allowed,   \* ghost: when the requests of Watched that got through came
  evicted    \* ghost: Watched lost its count to a full table

limitVars == <<now, seen, accepted, sources, sweepAt, allowed, evicted>>
nonceVars == <<seen, accepted>>
sourceVars == <<sources, sweepAt, allowed, evicted>>
-----------------------------------------------------------------------------
Never == -1
Fresh == [n |-> 0, since |-> 0]

Init ==
  /\ now = 0
  /\ seen = [n \in Nonces |-> Never] /\ accepted = [n \in Nonces |-> Never]
  /\ sources = [s \in Sources |-> Fresh] /\ sweepAt = Never
  /\ allowed = <<>> /\ evicted = FALSE

Tick ==
  /\ now < MaxTime /\ now' = now + 1
  /\ UNCHANGED nonceVars /\ UNCHANGED sourceVars

Held(table) == {n \in Nonces : table[n] /= Never}

MutSweepNonces(table) ==
  LET fresh == {n \in Held(table) : now - table[n] <= TTL} IN
  [n \in Nonces |-> IF n \in fresh THEN table[n] ELSE Never]

(* sweepLocked: expired nonces, and if none was the oldest one.            *)
SweepNonces(table) ==
  LET fresh == {n \in Held(table) : now - table[n] <= TTL}
      oldest == CHOOSE n \in fresh : \A m \in fresh : table[n] <= table[m]
      kept == IF Cardinality(fresh) >= MaxNonces THEN fresh \ {oldest} ELSE fresh
  IN  [n \in Nonces |-> IF n \in kept THEN table[n] ELSE Never]

(* NonceCache.Use                                                          *)
Use(n) ==
  /\ seen[n] = Never \/ now - seen[n] > TTL
  /\ LET swept == IF Cardinality(Held(seen)) >= MaxNonces THEN SweepNonces(seen) ELSE seen
     IN  seen' = [swept EXCEPT ![n] = now]
  /\ accepted' = [accepted EXCEPT ![n] = now]
  /\ UNCHANGED now /\ UNCHANGED sourceVars
-----------------------------------------------------------------------------
Tracked(table) == {s \in Sources : table[s].n /= 0}

(* sweepLocked of the limiter: sources whose window is over, and of a full *)
(* table any of the others, down to the target.                            *)
Sweeps(table) ==
  LET within == {s \in Tracked(table) : now - table[s].since <= Window}
      target == MaxSources - MaxSources \div Share
  IN  {[s \in Sources |-> IF s \in kept THEN table[s] ELSE Fresh] :
         kept \in IF Cardinality(within) <= target THEN {within} ELSE kSubset(target, within)}

MutCount(table, s) ==
  IF table[s].n = 0 \/ now - table[s].since >= Window
    THEN [n |-> 1, since |-> now] ELSE [table[s] EXCEPT !.n = @ + 1]

(* The source's count: a new window, or one request more of this one.      *)
Count(table, s) ==
  IF table[s].n = 0 \/ now - table[s].since > Window
    THEN [n |-> 1, since |-> now] ELSE [table[s] EXCEPT !.n = @ + 1]

(* SourceLimiter.Allow                                                     *)
Allow(s) ==
  LET sweep == now > sweepAt \/ Cardinality(Tracked(sources)) >= MaxSources IN
  /\ sweepAt' = IF sweep THEN now + Window ELSE sweepAt
  /\ \E table \in IF sweep THEN Sweeps(sources) ELSE {sources} :
       LET count == Count(table, s) IN
       /\ count.n <= Limit + 1
       /\ sources' = [table EXCEPT ![s] = count]
       /\ evicted' = (evicted \/ /\ Watched \in Tracked(sources) \ Tracked(table)
                                 /\ now - sources[Watched].since <= Window)
       /\ allowed' = IF s = Watched /\ count.n <= Limit /\ ~evicted'
                       THEN Append(allowed, now) ELSE allowed
  /\ UNCHANGED now /\ UNCHANGED nonceVars

NonceNext == Tick \/ \E n \in Nonces : Use(n)
SourceNext == Tick \/ \E s \in Sources : Allow(s)
Next == NonceNext \/ SourceNext

Spec == Init /\ [][Next]_limitVars
-----------------------------------------------------------------------------
(* "so a signed request cannot be replayed": a nonce accepted within the   *)
(* TTL is still known, unless so many were accepted since then that they   *)
(* fill the cache, and the cache never outgrows its bound.                 *)
NoncesRemembered ==
  /\ Cardinality(Held(seen)) <= MaxNonces
  /\ \A n \in Nonces : accepted[n] /= Never /\ now - accepted[n] <= TTL =>
       \/ seen[n] = accepted[n]
       \/ Cardinality({m \in Nonces \ {n} : accepted[m] >= accepted[n]}) >= MaxNonces

(* A source that was not evicted gets less than twice its limit through in *)
(* any span as long as the window (the count starts anew with the first    *)
(* request after a window, so the limit itself is no bound for a span that *)
(* begins in the middle): of so many requests in a row the last comes more *)
(* than a window after the first.  The table never outgrows its bound.     *)
SourcesLimited ==
  /\ Cardinality(Tracked(sources)) <= MaxSources
  /\ \A i, j \in DOMAIN allowed : j - i + 1 = 2 * Limit => allowed[j] - allowed[i] > Window

LimitsHold == NoncesRemembered /\ SourcesLimited
=============================================================================
