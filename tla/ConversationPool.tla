--------------------------- MODULE ConversationPool ---------------------------
(***************************************************************************)
(* Cascades kept between turns (src/conversation-pool.js): a Map from the   *)
(* fingerprint of a conversation to the upstream cascade that holds it.     *)
(* This module is the data structure, by itself; CascadeTurn is its users.  *)
(*                                                                         *)
(* A fingerprint is a value that determines its caller, as the hash does.   *)
(* The pool is kept in the order of lastAccess, the least recent first.     *)
(* That an entry's time is over is the user's choice (CascadeTurn!Expire).  *)
(* The secondary index of CASCADE_REUSE_BY_CALLER (off by default) and the  *)
(* statistics are left out.                                                *)
(***************************************************************************)
EXTENDS Integers, Sequences, FiniteSets, Listing

CONSTANTS Fps,          \* fingerprints
          TenantOf,     \* TenantOf[f]: the API key behind the caller of f
          PoolMax,      \* POOL_MAX
          NoEntry, NoGen

ASSUME PoolAssumption == PoolMax \in Nat \ {0}

VARIABLE pool

Find(f) ==
    IF \E i \in DOMAIN pool : pool[i].fp = f
    THEN pool[CHOOSE i \in DOMAIN pool : pool[i].fp = f]
    ELSE NoEntry

Cleared(s, F) == OnlyOf(s, {e \in AllOf(s) : e.fp \notin F})
CountOf(s, t) == Cardinality({i \in DOMAIN s : TenantOf[s[i].fp] = t})
Tenants(s)    == {TenantOf[s[i].fp] : i \in DOMAIN s}

FairShare(s) ==
    LET n == PoolMax \div Cardinality(Tenants(s)) IN IF n > 1 THEN n ELSE 1

\* The owner of e is in T and has more than its share of what is left.
Pays(rest, e, T, share) ==
    LET t == TenantOf[e.fp] IN
    Len(rest) > PoolMax /\ t \in T /\ CountOf(rest, t) > share

\* Oldest first while there are too many: the entries of those who pay.
Evict(s, T, share) ==
    LET left[i \in 0 .. Len(s)] ==
          IF i = 0 THEN s
          ELSE LET rest == left[i - 1]
               IN  IF Pays(rest, s[i], T, share) THEN Cleared(rest, {s[i].fp}) ELSE rest
    IN  left[Len(s)]

\* Mistake: one least-recently-used order for all tenants.
PrunedGlobally(s, t) == Evict(s, Tenants(s), 0)

\* Tenants above their share pay first; if all have at most one share, the
\* one that is admitted gives way.
Pruned(s, t) == Evict(Evict(s, Tenants(s), FairShare(s)), {t}, 0)

CheckedOut(f) == Cleared(pool, {f})

\* One object for each fingerprint, all with the same contents.
CheckedIn(fps, e) ==
    Pruned(Cleared(pool, AllOf(fps))
               \o [i \in DOMAIN fps |-> [e EXCEPT !.fp = fps[i]]],
           TenantOf[fps[1]])

\* An account key that is gone, or a process: its port and its generation.
Concerns(x, e) ==
    IF x.kind = "key" THEN e.key = x.key
    ELSE e.port = x.port /\ e.gen \in {NoGen, x.gen}

\* Everything of x, and every other entry for the same cascades.
Invalidated(x) ==
    LET cascades == {e.casc : e \in {d \in AllOf(pool) : Concerns(x, d)}}
    IN  OnlyOf(pool, {e \in AllOf(pool) : ~Concerns(x, e) /\ e.casc \notin cascades})

-----------------------------------------------------------------------------
\* The pool by itself: any turn may store or take what it likes.

CacheInit == pool = <<>>

CacheStore(fps) == pool' = CheckedIn(fps, [fp |-> fps[1]])

CacheTake(f) == Find(f) # NoEntry /\ pool' = CheckedOut(f)

CacheExpire(f) == Find(f) # NoEntry /\ pool' = Cleared(pool, {f})

\* The fingerprints one turn stores under belong to one caller.
CacheNext ==
    \/ \E f \in Fps : CacheStore(<<f>>)
    \/ \E f, g \in Fps : f # g /\ TenantOf[f] = TenantOf[g] /\ CacheStore(<<f, g>>)
    \/ \E f \in Fps : CacheTake(f) \/ CacheExpire(f)

CacheSpec == CacheInit /\ [][CacheNext]_pool

\* A tenant that stores a cascade never takes the last one of another, however
\* many it stores (conversation-pool.js: one tenant cannot evict the others).
OthersKeepOne ==
    [][ Len(pool') >= Len(pool) => Tenants(pool) \subseteq Tenants(pool') ]_pool
=============================================================================
