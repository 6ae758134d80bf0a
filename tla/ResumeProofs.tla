---------------------------- MODULE ResumeProofs ----------------------------
(***************************************************************************)
(* Theorems of what is kept to go on with: the cascades of finished turns   *)
(* (ConversationPool, CascadeTurn) and the turns that were detached from    *)
(* their clients (DetachedRegistry), for any requests, accounts,            *)
(* fingerprints and limits, which are lists (ListingProofs has their        *)
(* facts); and the answer of one turn, frozen and gone on with in between   *)
(* (CascadePoll), for any overlap, steps and pieces.                        *)
(***************************************************************************)
EXTENDS DetachedRegistry, CascadeTurn, CascadePoll, ListingProofs, FiniteSetTheorems

USE PoolAssumption, TurnAssumption, RegistryAssumption

\* The entries of the fingerprints F go, the others stay as they are.
LEMMA AllOfCleared ==
  ASSUME NEW S, NEW s \in Seq(S), NEW F
  PROVE  /\ Cleared(s, F) \in Seq(S)
         /\ AllOf(Cleared(s, F)) = {e \in AllOf(s) : e.fp \notin F}
<1> DEFINE T == {e \in AllOf(s) : e.fp \notin F}
<1>1. AllOf(s) \cap T = T
  OBVIOUS
<1> HIDE DEF T
<1>2. AllOf(OnlyOf(s, T)) = T /\ OnlyOf(s, T) \in Seq(S)
  BY <1>1, AllOfKept, OnlyOfIn
<1> QED BY <1>2 DEF Cleared, T

\* What is left after each entry was asked to pay.
EvictRun(f, s, T, share, S) ==
    /\ f[Len(s)] = Evict(s, T, share) /\ f[0] = s
    /\ \A i \in 0 .. Len(s) : f[i] \in Seq(S)
    /\ \A i \in 1 .. Len(s) :
          f[i] = IF Pays(f[i - 1], s[i], T, share) THEN Cleared(f[i - 1], {s[i].fp}) ELSE f[i - 1]

\* Evict is the last of the lists that its recursion goes through.
LEMMA EvictRuns ==
  ASSUME NEW S, NEW s \in Seq(S), NEW T, NEW share
  PROVE  \E f : EvictRun(f, s, T, share, S)
<1> DEFINE V == Seq(S)
           n == Len(s)
           Next1(v, i) == IF Pays(v, s[i], T, share) THEN Cleared(v, {s[i].fp}) ELSE v
           step == [p \in V \X (1 .. n) |-> Next1(p[1], p[2])]
           Is(f) == f = [i \in 0 .. n |-> IF i = 0 THEN s ELSE Next1(f[i - 1], i)]
<1>1. s \in V /\ n \in Nat
  OBVIOUS
<1>2. \A v \in V, i \in 1 .. n : Next1(v, i) \in V
  BY AllOfCleared
<1>4. \A v \in V, i \in 1 .. n : step[<<v, i>>] = Next1(v, i)
  OBVIOUS
<1>3. step \in [V \X (1 .. n) -> V]
  <2> HIDE DEF Next1
  <2>1. \A p \in V \X (1 .. n) : Next1(p[1], p[2]) \in V
    BY <1>2
  <2> QED BY <2>1
<1> HIDE DEF step, V, n, Next1
<1>5. PICK f : f \in [0 .. n -> V] /\ Steps(f, s, step, n)
  BY <1>1, <1>3, Recursion
<1>6. f[0] = s /\ \A i \in 1 .. n : f[i] = step[<<f[i - 1], i>>]
  <2>1. 0 \in 0 .. n /\ \A i \in 1 .. n : i \in 0 .. n /\ i # 0
    BY <1>1
  <2> QED BY <1>5, <2>1 DEF Steps
<1>7. \A i \in 1 .. n : f[i] = Next1(f[i - 1], i)
  <2> SUFFICES ASSUME NEW i \in 1 .. n PROVE f[i] = Next1(f[i - 1], i)
    OBVIOUS
  <2>1. i - 1 \in 0 .. n
    BY <1>1
  <2>2. f[i - 1] \in V
    BY <1>5, <2>1
  <2> QED BY <1>4, <1>6, <2>2
<1>8. Is(f)
  <2>1. \A i \in 0 .. n : i # 0 => i \in 1 .. n
    BY <1>1
  <2> QED BY <1>5, <1>6, <1>7, <2>1
<1>9. ASSUME NEW g, Is(g) PROVE g[n] = f[n]
  <2>1. 0 \in 0 .. n /\ \A i \in 1 .. n : i \in 0 .. n /\ i # 0
    BY <1>1
  <2>2. g[0] = s
    BY <1>9, <2>1
  <2>3. \A i \in 1 .. n : g[i] = Next1(g[i - 1], i)
    BY <1>9, <2>1
  <2>4. \A i \in 1 .. n : g[i - 1] \in V => g[i] = step[<<g[i - 1], i>>]
    BY <1>4, <2>3
  <2> HIDE DEF Is
  <2>5. Follows(g, s, V, step, n)
    BY <2>2, <2>4 DEF Follows
  <2>6. BothRun(f, g, s, V, step, n)
    BY <1>1, <1>3, <1>5, <2>5 DEF BothRun
  <2> QED BY <2>6, OneResult
<1>10. Is(CHOOSE g : Is(g))
  BY <1>8
<1>11. Evict(s, T, share) = (CHOOSE g : Is(g))[n]
  BY DEF Evict, n, Next1
<1> HIDE DEF Is
<1>12. f[n] = Evict(s, T, share)
  BY <1>9, <1>10, <1>11
<1>13. \A i \in 0 .. n : f[i] \in V
  BY <1>5
<1> QED BY <1>6, <1>7, <1>12, <1>13 DEF n, V, Next1, EvictRun

\* And it is a part of the list, in its order.
LEMMA EvictTrims ==
  ASSUME NEW S, NEW s \in Seq(S), NEW T, NEW share
  PROVE  \E U : Evict(s, T, share) = OnlyOf(s, U)
<1> DEFINE n == Len(s)
<1>1. PICK f : EvictRun(f, s, T, share, S)
  BY EvictRuns
<1>2. n \in Nat /\ f[n] = Evict(s, T, share)
  BY <1>1 DEF EvictRun
<1> DEFINE N == {m \in Nat : m <= n => \E U : f[m] = OnlyOf(s, U)}
<1>3. 0 \in N
  <2>1. OnlyOf(s, S) = s
    BY OnlyOfAll
  <2>2. f[0] = s
    BY <1>1 DEF EvictRun
  <2> QED BY <2>1, <2>2
<1>4. ASSUME NEW m \in Nat, m \in N PROVE m + 1 \in N
  <2> SUFFICES ASSUME m + 1 <= n PROVE \E U : f[m + 1] = OnlyOf(s, U)
    OBVIOUS
  <2>1. PICK U : f[m] = OnlyOf(s, U)
    BY <1>2, <1>4
  <2>2. PICK i : i = m + 1 /\ i - 1 = m /\ i \in 1 .. n
    BY <1>2
  <2>3. f[i] = f[m] \/ f[i] = Cleared(f[m], {s[i].fp})
    BY <1>1, <2>2 DEF EvictRun
  <2> DEFINE W == {e \in AllOf(f[m]) : e.fp \notin {s[i].fp}}
  <2>4. OnlyOf(f[m], W) = OnlyOf(s, U \cap W)
    <3> HIDE DEF W
    <3> QED BY <2>1, OnlyOfTwice
  <2>5. Cleared(f[m], {s[i].fp}) = OnlyOf(f[m], W)
    BY DEF Cleared
  <2> HIDE DEF W
  <2> QED BY <2>1, <2>2, <2>3, <2>4, <2>5
<1> HIDE DEF N
<1>5. n \in N
  BY <1>2, <1>3, <1>4, NatSetInduction
<1> QED BY <1>2, <1>5 DEF N

\* Pruning drops entries, and does nothing else.
LEMMA PrunedTrims ==
  ASSUME NEW S, NEW s \in Seq(S), NEW t
  PROVE  \E U : Pruned(s, t) = OnlyOf(s, U)
<1> DEFINE r == Evict(s, Tenants(s), FairShare(s))
           A == {t}
           no == 0
<1>1. PICK U : r = OnlyOf(s, U)
  BY EvictTrims
<1>2. r \in Seq(S)
  BY <1>1, OnlyOfIn
<1> HIDE DEF r, A, no
<1>3. PICK W : Evict(r, A, no) = OnlyOf(r, W)
  BY <1>2, EvictTrims
<1>4. OnlyOf(r, W) = OnlyOf(s, U \cap W)
  BY <1>1, OnlyOfTwice
<1> QED BY <1>3, <1>4 DEF Pruned, r, A, no

-----------------------------------------------------------------------------
PoolEntry == [fp : Fps, casc : Cascade, key : Keys, port : Ports, gen : Nat \cup {NoGen}]

TurnState ==
    [pc : {"idle", "admit", "held", "run"}, fp : Fps \cup {NoKey},
     entry : PoolEntry \cup {NoEntry}, reuse : BOOLEAN, told : BOOLEAN, first : BOOLEAN,
     tried : SUBSET Keys, key : Keys \cup {NoKey}, casc : Cascade \cup {NoCascade},
     gen : Nat \cup {NoGen}, emitted : BOOLEAN]

\* What request r, with the local variables t, may rely on at each point.
TurnOK(r, t) ==
    /\ t \in TurnState
    /\ t.pc # "idle" => t.fp \in Fps
    /\ t.pc \in {"held", "run"} => t.key \in Keys
    /\ t.pc = "run" => t.casc \in Cascade
    /\ t.reuse => t.entry # NoEntry
    /\ t.pc = "run" /\ t.reuse => t.casc = t.entry.casc
    /\ t.emitted => t.pc = "run" /\ r \in Streaming

Typed ==
    /\ pool \in Seq(PoolEntry)
    /\ turn \in [Requests -> TurnState]
    /\ \A r \in Requests : TurnOK(r, turn[r])
    /\ gen \in [Ports -> Nat]

\* The cascades that a request has in its hands.
Owned(t) ==
    {c \in {t.casc} \cup (IF t.entry = NoEntry THEN {} ELSE {t.entry.casc}) : c # NoCascade}

\* Wherever one cascade is in two places, or has an unfinished turn and is in
\* one, it was stored under two fingerprints.
Told ==
    /\ \A d, e \in AllOf(pool) : d.fp # e.fp /\ d.casc = e.casc => d.casc.id \in twice
    /\ \A e \in AllOf(pool), r \in Requests : e.casc \in Owned(turn[r]) => e.casc.id \in twice
    /\ \A r, q \in Requests : r # q =>
          \A c \in Owned(turn[r]) : c \in Owned(turn[q]) => c.id \in twice
    /\ \A e \in AllOf(pool) : e.casc \in half => e.casc.id \in twice
    /\ \A r \in Requests : \A c \in Owned(turn[r]) : c \in half => c.id \in twice

CascInv == Typed /\ Told

\* The invariant says of what is driven and what is pooled what is claimed.
LEMMA InvIsSound == CascInv => CascadesSound
<1> SUFFICES ASSUME CascInv PROVE CascadesSound
  OBVIOUS
<1>1. ExclusiveCascade
  <2> SUFFICES ASSUME NEW r \in Requests, NEW q \in Requests, r # q,
                      turn[r].pc = "run", turn[q].pc = "run", turn[r].casc = turn[q].casc
               PROVE  turn[r].casc.id \in twice
    BY DEF ExclusiveCascade
  <2>1. turn[r].casc \in Cascade /\ turn[r].casc # NoCascade
    BY DEF CascInv, Typed, TurnOK, NoCascade
  <2>2. turn[r].casc \in Owned(turn[r]) /\ turn[r].casc \in Owned(turn[q])
    BY <2>1 DEF Owned
  <2> QED BY <2>2 DEF CascInv, Told
<1>2. NoHalfTurnPooled
  BY DEF NoHalfTurnPooled, CascInv, Told, AllOf
<1> QED BY <1>1, <1>2 DEF CascadesSound

\* At the start nothing is pooled and nobody drives anything.
LEMMA CascInitInv == Init => CascInv
<1> SUFFICES ASSUME Init PROVE CascInv
  OBVIOUS
<1>1. Idle \in TurnState /\ Idle.pc = "idle" /\ ~Idle.reuse /\ ~Idle.emitted
  BY DEF Idle, TurnState, NoCascade
<1>2. \A r \in Requests : TurnOK(r, Idle)
  BY <1>1 DEF TurnOK
<1>3. turn = [r \in Requests |-> Idle] /\ pool = <<>> /\ gen = [p \in Ports |-> 1]
  BY DEF Init
<1>4. AllOf(pool) = {}
  BY <1>3 DEF AllOf
<1>5. Owned(Idle) = {}
  BY DEF Owned, Idle, NoCascade
<1>6. \A r \in Requests : turn[r] = Idle
  BY <1>3
<1>7. Typed
  BY <1>1, <1>2, <1>3, <1>6 DEF Typed
<1>8. Told
  BY <1>4, <1>5, <1>6 DEF Told
<1> QED BY <1>7, <1>8 DEF CascInv

-----------------------------------------------------------------------------

\* The pool's operations, entry by entry.
LEMMA FindIs ==
  ASSUME NEW f
  PROVE  Find(f) = NoEntry \/ (Find(f) \in AllOf(pool) /\ Find(f).fp = f)
BY DEF Find, AllOf

\* A checkout takes the entry of its fingerprint, and no other.
LEMMA CheckedOutIs ==
  ASSUME NEW S, pool \in Seq(S), NEW f
  PROVE  CheckedOut(f) \in Seq(S) /\ AllOf(CheckedOut(f)) = {e \in AllOf(pool) : e.fp # f}
<1> DEFINE F == {f}
<1>0. \A e : e.fp \notin F <=> e.fp # f
  OBVIOUS
<1> HIDE DEF F
<1>1. /\ Cleared(pool, F) \in Seq(S)
      /\ AllOf(Cleared(pool, F)) = {e \in AllOf(pool) : e.fp \notin F}
  BY AllOfCleared
<1> QED BY <1>0, <1>1 DEF CheckedOut, F

\* An invalidation only takes entries away.
LEMMA InvalidatedIs ==
  ASSUME NEW S, pool \in Seq(S), NEW x
  PROVE  Invalidated(x) \in Seq(S) /\ AllOf(Invalidated(x)) \subseteq AllOf(pool)
<1> DEFINE cascades == {e.casc : e \in {d \in AllOf(pool) : Concerns(x, d)}}
           T == {e \in AllOf(pool) : ~Concerns(x, e) /\ e.casc \notin cascades}
<1>1. Invalidated(x) = OnlyOf(pool, T)
  BY DEF Invalidated
<1> HIDE DEF T
<1>2. OnlyOf(pool, T) \in Seq(S) /\ AllOf(OnlyOf(pool, T)) = AllOf(pool) \cap T
  BY OnlyOfIn, AllOfKept
<1> QED BY <1>1, <1>2

\* What is pooled after a checkin was pooled before under another fingerprint,
\* or is the cascade that was put in.
LEMMA CheckedInIs ==
  ASSUME pool \in Seq(PoolEntry), NEW fps \in Seq(Fps), NEW e \in PoolEntry
  PROVE  /\ CheckedIn(fps, e) \in Seq(PoolEntry)
         /\ \A d \in AllOf(CheckedIn(fps, e)) :
               \/ d \in AllOf(pool) /\ d.fp \notin AllOf(fps)
               \/ d.fp \in AllOf(fps) /\ d.casc = e.casc
<1> DEFINE F == AllOf(fps)
           old == Cleared(pool, F)
           new == [i \in DOMAIN fps |-> [e EXCEPT !.fp = fps[i]]]
           s == old \o new
<1>1. old \in Seq(PoolEntry) /\ AllOf(old) = {d \in AllOf(pool) : d.fp \notin F}
  BY AllOfCleared
<1>2. \A i \in 1 .. Len(fps) : /\ [e EXCEPT !.fp = fps[i]] \in PoolEntry
                               /\ [e EXCEPT !.fp = fps[i]].fp = fps[i]
                               /\ [e EXCEPT !.fp = fps[i]].casc = e.casc
  BY DEF PoolEntry
<1>3. /\ new \in Seq(PoolEntry) /\ Len(new) = Len(fps)
      /\ \A i \in 1 .. Len(new) : new[i].fp = fps[i] /\ new[i].casc = e.casc
  <2> DEFINE Put(i) == [e EXCEPT !.fp = fps[i]]
  <2>1. /\ DOMAIN fps = 1 .. Len(fps) /\ Len(fps) \in Nat
        /\ \A i \in 1 .. Len(fps) :
              Put(i) \in PoolEntry /\ Put(i).fp = fps[i] /\ Put(i).casc = e.casc
    BY <1>2
  <2>2. new = [i \in DOMAIN fps |-> Put(i)]
    OBVIOUS
  <2> HIDE DEF Put, new
  <2>3. new \in Seq(PoolEntry) /\ Len(new) = Len(fps)
    BY <2>1, <2>2
  <2>4. \A i \in 1 .. Len(fps) : new[i] = Put(i)
    BY <2>1, <2>2
  <2> QED BY <2>1, <2>3, <2>4
<1> HIDE DEF old, new
<1>4. s \in Seq(PoolEntry)
  <2>1. old \in Seq(PoolEntry) /\ new \in Seq(PoolEntry)
    BY <1>1, <1>3
  <2> QED BY <2>1
<1>5. \A i \in 1 .. Len(s) : \/ \E j \in 1 .. Len(old) : s[i] = old[j]
                             \/ \E j \in 1 .. Len(new) : s[i] = new[j]
  <2>1. old \in Seq(PoolEntry) /\ new \in Seq(PoolEntry)
    BY <1>1, <1>3
  <2> SUFFICES ASSUME NEW i \in 1 .. Len(s)
               PROVE  \/ \E j \in 1 .. Len(old) : s[i] = old[j]
                      \/ \E j \in 1 .. Len(new) : s[i] = new[j]
    OBVIOUS
  <2>2. CASE i <= Len(old)
    <3>1. i \in 1 .. Len(old) /\ s[i] = old[i]
      BY <2>1, <2>2
    <3> QED BY <3>1
  <2>3. CASE ~(i <= Len(old))
    <3>1. i - Len(old) \in 1 .. Len(new) /\ s[i] = new[i - Len(old)]
      BY <2>1, <2>3
    <3> QED BY <3>1
  <2> QED BY <2>2, <2>3
<1>6. \A d \in AllOf(s) : d \in AllOf(old) \/ (d.fp \in F /\ d.casc = e.casc)
  <2> SUFFICES ASSUME NEW i \in 1 .. Len(s)
               PROVE  s[i] \in AllOf(old) \/ (s[i].fp \in F /\ s[i].casc = e.casc)
    BY <1>4 DEF AllOf
  <2>1. CASE \E j \in 1 .. Len(old) : s[i] = old[j]
    BY <1>1, <2>1 DEF AllOf
  <2>2. CASE \E j \in 1 .. Len(new) : s[i] = new[j]
    <3>1. PICK j \in 1 .. Len(fps) : s[i] = new[j]
      BY <1>3, <2>2
    <3>2. fps[j] \in F
      BY DEF AllOf
    <3> QED BY <1>3, <3>1, <3>2
  <2> QED BY <1>5, <2>1, <2>2
<1> HIDE DEF s, F
<1>7. PICK U : Pruned(s, TenantOf[fps[1]]) = OnlyOf(s, U)
  BY <1>4, PrunedTrims
<1>8. OnlyOf(s, U) \in Seq(PoolEntry) /\ AllOf(OnlyOf(s, U)) \subseteq AllOf(s)
  BY <1>4, OnlyOfIn, AllOfKept
<1>9. CheckedIn(fps, e) = OnlyOf(s, U)
  BY <1>7 DEF CheckedIn, s, old, new, F
<1> QED BY <1>1, <1>6, <1>8, <1>9 DEF F

-----------------------------------------------------------------------------
\* What a step does to the places of cascades.  The other requests keep theirs.
OthersKeep(r) == \A q \in Requests : q # r => Owned(turn'[q]) \subseteq Owned(turn[q])

\* Nothing comes to a new place.
LEMMA ToldWhenLess ==
  ASSUME Told, AllOf(pool') \subseteq AllOf(pool), half' \subseteq half, twice' = twice,
         \A q \in Requests : Owned(turn'[q]) \subseteq Owned(turn[q])
  PROVE  Told'
BY DEF Told

\* A request opens a cascade that is nowhere else.
LEMMA ToldWhenOpened ==
  ASSUME Told, NEW r \in Requests, NEW c, pool' = pool, half' \subseteq half, twice' = twice,
         OthersKeep(r), Owned(turn'[r]) \subseteq Owned(turn[r]) \cup {c},
         \A e \in AllOf(pool) : e.casc # c,
         \A q \in Requests : c \notin Owned(turn[q]),
         c \notin half
  PROVE  Told'
BY DEF Told, OthersKeep

\* A request takes an entry of the pool into its hands.
LEMMA ToldWhenTaken ==
  ASSUME Told, NEW r \in Requests, NEW x \in AllOf(pool), half' \subseteq half, twice' = twice,
         AllOf(pool') = {e \in AllOf(pool) : e.fp # x.fp},
         OthersKeep(r), Owned(turn'[r]) \subseteq {x.casc}
  PROVE  Told'
BY DEF Told, OthersKeep

\* A request ends, and what it had in its hands is stored, under one
\* fingerprint unless that is known.
LEMMA ToldWhenPut ==
  ASSUME Told, NEW r \in Requests, NEW c \in Owned(turn[r]), NEW F, half' \subseteq half,
         OthersKeep(r), Owned(turn'[r]) = {},
         \A d \in AllOf(pool') : \/ d \in AllOf(pool) /\ d.fp \notin F
                                 \/ d.fp \in F /\ d.casc = c,
         (\E f : F = {f}) \/ c.id \in twice',
         \A d \in AllOf(pool') : d.casc.id \in twice => d.casc.id \in twice',
         \A q \in Requests : \A b \in Owned(turn'[q]) : b.id \in twice => b.id \in twice'
  PROVE  Told'
<1> DEFINE A == AllOf(pool)
           B == AllOf(pool')
           O(q) == Owned(turn[q])
           P(q) == Owned(turn'[q])
<1>1. \A d \in B : (d \in A /\ d.fp \notin F) \/ (d.fp \in F /\ d.casc = c)
  OBVIOUS
<1>2. \A q \in Requests : P(q) \subseteq O(q) /\ (P(q) # {} => q # r)
  BY DEF OthersKeep
<1>3. /\ \A d, e \in A : d.fp # e.fp /\ d.casc = e.casc => d.casc.id \in twice
      /\ \A e \in A, q \in Requests : e.casc \in O(q) => e.casc.id \in twice
      /\ \A p, q \in Requests : p # q => \A b \in O(p) : b \in O(q) => b.id \in twice
      /\ \A e \in A : e.casc \in half => e.casc.id \in twice
      /\ \A q \in Requests : \A b \in O(q) : b \in half => b.id \in twice
  BY DEF Told
<1>4. /\ \A d \in B : d.casc.id \in twice => d.casc.id \in twice'
      /\ \A q \in Requests : \A b \in P(q) : b.id \in twice => b.id \in twice'
  OBVIOUS
<1> HIDE DEF A, B, O, P
<1>5. \A d, e \in B : d.fp # e.fp /\ d.casc = e.casc => d.casc.id \in twice'
  <2> SUFFICES ASSUME NEW d \in B, NEW e \in B, d.fp # e.fp, d.casc = e.casc
               PROVE  d.casc.id \in twice'
    OBVIOUS
  <2>1. CASE d \in A /\ e \in A
    BY <1>3, <1>4, <2>1
  <2>2. CASE d.fp \in F /\ e.fp \in F /\ d.casc = c
    BY <2>2
  <2>3. CASE d.casc = c /\ (d \in A \/ e \in A)
    <3>1. c.id \in twice
      BY <1>3, <2>3 DEF O
    <3> QED BY <1>4, <2>3, <3>1
  <2> QED BY <1>1, <2>1, <2>2, <2>3
<1>6. \A e \in B, q \in Requests : e.casc \in P(q) => e.casc.id \in twice'
  <2> SUFFICES ASSUME NEW e \in B, NEW q \in Requests, e.casc \in P(q)
               PROVE  e.casc.id \in twice
    BY <1>4
  <2>1. q # r /\ e.casc \in O(q)
    BY <1>2
  <2>2. c \in O(r)
    BY DEF O
  <2> QED BY <1>1, <1>3, <2>1, <2>2
<1>7. \A p, q \in Requests : p # q => \A b \in P(p) : b \in P(q) => b.id \in twice'
  BY <1>2, <1>3, <1>4
<1>8. \A e \in B : e.casc \in half' => e.casc.id \in twice'
  <2> SUFFICES ASSUME NEW e \in B, e.casc \in half PROVE e.casc.id \in twice
    BY <1>4
  <2>1. c \in O(r)
    BY DEF O
  <2> QED BY <1>1, <1>3, <2>1
<1>9. \A q \in Requests : \A b \in P(q) : b \in half' => b.id \in twice'
  BY <1>2, <1>3, <1>4
<1> QED BY <1>5, <1>6, <1>7, <1>8, <1>9 DEF Told, B, P

\* A request ends, and leaves what it drove with an unfinished turn.
LEMMA ToldWhenTorn ==
  ASSUME Told, NEW r \in Requests, NEW c \in Owned(turn[r]), half' \subseteq half \cup {c},
         twice' = twice, AllOf(pool') \subseteq AllOf(pool),
         OthersKeep(r), Owned(turn'[r]) = {}
  PROVE  Told'
BY DEF Told, OthersKeep

-----------------------------------------------------------------------------

\* Each action.  First what all of those of one request have in common.
LEMMA Mine ==
  ASSUME Typed, NEW r \in Requests, NEW new, TurnOK(r, new), Local(r, new),
         pool' \in Seq(PoolEntry), gen' = gen
  PROVE  /\ Typed' /\ turn'[r] = new
         /\ \A q \in Requests : q # r => turn'[q] = turn[q]
         /\ OthersKeep(r)
<1>1. turn' = [turn EXCEPT ![r] = new] /\ new \in TurnState
  BY DEF Local, TurnOK
<1>2. turn'[r] = new /\ \A q \in Requests : q # r => turn'[q] = turn[q]
  BY <1>1 DEF Typed
<1>3. turn' \in [Requests -> TurnState]
  BY <1>1 DEF Typed
<1>4. \A q \in Requests : TurnOK(q, turn'[q])
  BY <1>2 DEF Typed
<1> QED BY <1>2, <1>3, <1>4 DEF Typed, OthersKeep

\* The entries of a pool that is typed.
LEMMA PoolTyped ==
  ASSUME Typed
  PROVE  AllOf(pool) \subseteq PoolEntry
BY DEF Typed, AllOf

\* A request that is at rest has nothing in its hands.
LEMMA IdleOK ==
  ASSUME NEW r \in Requests
  PROVE  TurnOK(r, Idle) /\ Owned(Idle) = {}
<1>1. Idle \in TurnState /\ Idle.pc = "idle" /\ ~Idle.reuse /\ ~Idle.emitted
  BY DEF Idle, TurnState, NoCascade
<1> QED BY <1>1 DEF TurnOK, Owned, Idle, NoCascade

\* A request comes and takes the cascade of its conversation out of the pool.
LEMMA BeginInv ==
  ASSUME CascInv, NEW r \in Requests, NEW f \in Fps, Begin(r, f)
  PROVE  CascInv'
<1> DEFINE e == Find(f)
           new == [Idle EXCEPT !.pc = "admit", !.fp = f, !.entry = e, !.reuse = e # NoEntry]
<1>1. Typed /\ Told
  BY DEF CascInv
<1>2. e = NoEntry \/ (e \in AllOf(pool) /\ e.fp = f /\ e \in PoolEntry)
  BY <1>1, FindIs, PoolTyped
<1> HIDE DEF e
<1>3. TurnOK(r, new) /\ new.casc = NoCascade /\ new.entry = e
  <2>1. (e # NoEntry) \in BOOLEAN
    OBVIOUS
  <2>2. new \in TurnState /\ new.pc = "admit" /\ new.fp = f /\ new.entry = e /\ ~new.emitted
        /\ new.casc = NoCascade
    BY <1>2, <2>1 DEF Idle, TurnState, NoCascade
  <2>3. new.reuse => e # NoEntry
    BY DEF Idle
  <2> QED BY <1>2, <2>2, <2>3 DEF TurnOK
<1>4. Local(r, new) /\ pool' = CheckedOut(f) /\ half' \subseteq half /\ twice' = twice
      /\ gen' = gen
  BY DEF Begin, e, Upstream, Elsewhere
<1>5. pool \in Seq(PoolEntry)
  BY <1>1 DEF Typed
<1>6. pool' \in Seq(PoolEntry) /\ AllOf(pool') = {d \in AllOf(pool) : d.fp # f}
  BY <1>4, <1>5, CheckedOutIs
<1>7. Typed' /\ turn'[r] = new /\ OthersKeep(r)
  BY <1>1, <1>3, <1>4, <1>6, Mine
<1> HIDE DEF new
<1>8. CASE e = NoEntry
  <2>1. Owned(turn'[r]) = {}
    BY <1>3, <1>7, <1>8 DEF Owned
  <2>2. \A q \in Requests : Owned(turn'[q]) \subseteq Owned(turn[q])
    BY <1>7, <2>1 DEF OthersKeep
  <2>3. AllOf(pool') \subseteq AllOf(pool)
    BY <1>6
  <2> QED BY <1>1, <1>4, <1>7, <2>2, <2>3, ToldWhenLess DEF CascInv
<1>9. CASE e # NoEntry
  <2>1. Owned(turn'[r]) \subseteq {e.casc}
    BY <1>3, <1>7, <1>9 DEF Owned
  <2>2. e \in AllOf(pool) /\ AllOf(pool') = {d \in AllOf(pool) : d.fp # e.fp}
    BY <1>2, <1>6, <1>9
  <2>3. Told'
    BY <1>1, <1>4, <1>7, <2>1, <2>2, ToldWhenTaken
  <2> QED BY <1>7, <2>3 DEF CascInv
<1> QED BY <1>8, <1>9

\* A step that opens and stores nothing.
LEMMA GoesOn ==
  ASSUME CascInv, NEW r \in Requests, NEW new, TurnOK(r, new), Local(r, new),
         Owned(new) \subseteq Owned(turn[r]),
         pool' = pool, half' \subseteq half, twice' = twice, gen' = gen
  PROVE  CascInv'
<1>1. Typed /\ Told /\ pool' \in Seq(PoolEntry)
  BY DEF CascInv, Typed
<1>2. Typed' /\ turn'[r] = new /\ OthersKeep(r)
  BY <1>1, Mine
<1>3. \A q \in Requests : Owned(turn'[q]) \subseteq Owned(turn[q])
  BY <1>2 DEF OthersKeep
<1>4. AllOf(pool') \subseteq AllOf(pool)
  OBVIOUS
<1> QED BY <1>1, <1>2, <1>3, <1>4, ToldWhenLess DEF CascInv

\* It gets an account.
LEMMA HoldInv ==
  ASSUME CascInv, NEW r \in Requests, NEW k \in Keys, turn[r].pc = "admit", Hold(r, k)
  PROVE  CascInv'
<1> DEFINE t == turn[r]
           new == [t EXCEPT !.pc = "held", !.key = k, !.tried = @ \cup {k}]
<1>1. TurnOK(r, t)
  BY DEF CascInv, Typed
<1>2. t \in TurnState /\ t.pc = "admit"
  BY <1>1 DEF TurnOK
<1> HIDE DEF t
<1>3. /\ new \in TurnState /\ new.pc = "held" /\ new.key = k /\ new.fp = t.fp
      /\ new.entry = t.entry /\ new.reuse = t.reuse /\ new.casc = t.casc
      /\ new.emitted = t.emitted
  BY <1>2 DEF TurnState
<1>4. TurnOK(r, new) /\ Owned(new) \subseteq Owned(t)
  BY <1>1, <1>2, <1>3 DEF TurnOK, Owned
<1>5. Local(r, new) /\ pool' = pool /\ half' \subseteq half /\ twice' = twice /\ gen' = gen
  BY DEF Hold, t, Elsewhere
<1> HIDE DEF new
<1> QED BY <1>4, <1>5, GoesOn DEF t

\* It ends, and gives back the cascade it took.
LEMMA RestoredInv ==
  ASSUME CascInv, NEW r \in Requests, turn[r].pc # "idle", pool' = Restored(r), Local(r, Idle),
         half' \subseteq half, twice' = twice, gen' = gen
  PROVE  CascInv'
<1> DEFINE e == turn[r].entry
           fps == <<turn[r].fp>>
<1>1. Typed /\ Told /\ TurnOK(r, turn[r]) /\ pool \in Seq(PoolEntry)
  BY DEF CascInv, Typed
<1>2. CASE ~Restorable(r)
  <2>1. pool' = pool
    BY <1>2 DEF Restored
  <2>2. TurnOK(r, Idle) /\ Owned(Idle) \subseteq Owned(turn[r])
    BY IdleOK
  <2> QED BY <2>1, <2>2, GoesOn
<1>3. CASE Restorable(r)
  <2>1. e \in PoolEntry /\ turn[r].fp \in Fps /\ e # NoEntry
    BY <1>1, <1>3 DEF Restorable, TurnOK, TurnState
  <2>2. fps \in Seq(Fps) /\ AllOf(fps) = {turn[r].fp}
    BY <2>1 DEF AllOf
  <2>3. pool' = CheckedIn(fps, e)
    BY <1>3 DEF Restored
  <2>4. e.casc \in Owned(turn[r])
    BY <2>1 DEF PoolEntry, Owned, NoCascade
  <2> HIDE DEF fps, e
  <2>5. /\ pool' \in Seq(PoolEntry)
        /\ \A d \in AllOf(pool') : \/ d \in AllOf(pool) /\ d.fp \notin AllOf(fps)
                                   \/ d.fp \in AllOf(fps) /\ d.casc = e.casc
    BY <1>1, <2>1, <2>2, <2>3, CheckedInIs
  <2>6. TurnOK(r, Idle) /\ Owned(Idle) = {}
    BY IdleOK
  <2>7. Typed' /\ turn'[r] = Idle /\ OthersKeep(r)
    BY <1>1, <2>5, <2>6, Mine
  <2>8. \E f : AllOf(fps) = {f}
    BY <2>2
  <2>9. Told'
    BY <1>1, <2>4, <2>5, <2>6, <2>7, <2>8, ToldWhenPut
  <2> QED BY <2>7, <2>9 DEF CascInv
<1> QED BY <1>2, <1>3

\* So it does where it ends with an error before it is dispatched.
LEMMA GiveUpInv ==
  ASSUME CascInv, NEW r \in Requests, turn[r].pc # "idle", GiveUp(r)
  PROVE  CascInv'
<1>1. pool' = Restored(r) /\ Local(r, Idle) /\ half' \subseteq half /\ twice' = twice /\ gen' = gen
  BY DEF GiveUp, Upstream, Elsewhere
<1> QED BY <1>1, RestoredInv

\* The owner of the cascade is not to be had.
LEMMA OwnerUnavailableInv ==
  ASSUME CascInv, NEW r \in Requests, OwnerUnavailable(r)
  PROVE  CascInv'
<1> DEFINE t == turn[r]
           new == [t EXCEPT !.reuse = FALSE]
<1>1. TurnOK(r, t) /\ t.pc = "admit"
  BY DEF CascInv, Typed, OwnerUnavailable, WantsOwner
<1>2. CASE GiveUp(r)
  BY <1>1, <1>2, GiveUpInv
<1>3. CASE ~(t.fp \in Strict)
  <2>1. Local(r, new) /\ pool' = pool /\ half' = half /\ twice' = twice /\ gen' = gen
    BY <1>3 DEF OwnerUnavailable, Elsewhere
  <2> HIDE DEF t
  <2>2. /\ new \in TurnState /\ new.pc = "admit" /\ new.key = t.key /\ new.fp = t.fp
        /\ new.entry = t.entry /\ ~new.reuse /\ new.casc = t.casc /\ new.emitted = t.emitted
    BY <1>1 DEF TurnState, TurnOK
  <2>3. TurnOK(r, new) /\ Owned(new) \subseteq Owned(t)
    BY <1>1, <2>2 DEF TurnOK, Owned
  <2> HIDE DEF new
  <2> QED BY <2>1, <2>3, GoesOn DEF t
<1> QED BY <1>2, <1>3 DEF OwnerUnavailable

\* The account is left for another one.
LEMMA SkipAccountInv ==
  ASSUME CascInv, NEW r \in Requests, SkipAccount(r)
  PROVE  CascInv'
<1> DEFINE t == turn[r]
           new == [t EXCEPT !.pc = "admit", !.first = FALSE, !.key = NoKey]
<1>1. TurnOK(r, t) /\ t.pc = "held"
  BY DEF CascInv, Typed, SkipAccount
<1>2. CASE GiveUp(r)
  BY <1>1, <1>2, GiveUpInv
<1>3. CASE Local(r, new) /\ UNCHANGED <<pool, known, half, twice>> /\ Elsewhere
  <2>1. Local(r, new) /\ pool' = pool /\ half' = half /\ twice' = twice /\ gen' = gen
    BY <1>3 DEF Elsewhere
  <2> HIDE DEF t
  <2>2. /\ new \in TurnState /\ new.pc = "admit" /\ new.key = NoKey /\ new.fp = t.fp
        /\ new.entry = t.entry /\ new.reuse = t.reuse /\ new.casc = t.casc
        /\ new.emitted = t.emitted
    BY <1>1 DEF TurnState, TurnOK
  <2>3. TurnOK(r, new) /\ Owned(new) \subseteq Owned(t)
    BY <1>1, <2>2 DEF TurnOK, Owned
  <2> HIDE DEF new
  <2> QED BY <2>1, <2>3, GoesOn DEF t
<1> QED BY <1>2, <1>3 DEF SkipAccount

\* An attempt fails and another account is tried.
LEMMA RetryInv ==
  ASSUME CascInv, NEW r \in Requests, Retry(r)
  PROVE  CascInv'
<1> DEFINE t == turn[r]
           new == [t EXCEPT !.pc = "admit", !.reuse = FALSE, !.key = NoKey,
                            !.casc = NoCascade, !.gen = NoGen]
<1>1. TurnOK(r, t) /\ t.pc = "run" /\ ~t.emitted
  BY DEF CascInv, Typed, Retry
<1>2. Local(r, new) /\ pool' = pool /\ half' \subseteq half /\ twice' = twice /\ gen' = gen
  BY DEF Retry, Elsewhere, Upstream
<1> HIDE DEF t
<1>3. /\ new \in TurnState /\ new.pc = "admit" /\ new.fp = t.fp /\ new.entry = t.entry
      /\ ~new.reuse /\ new.casc = NoCascade /\ ~new.emitted
  BY <1>1 DEF TurnState, TurnOK
<1>4. TurnOK(r, new) /\ Owned(new) \subseteq Owned(t)
  BY <1>1, <1>3 DEF TurnOK, Owned
<1> HIDE DEF new
<1> QED BY <1>2, <1>4, GoesOn DEF t

\* The first byte goes out.
LEMMA EmitInv ==
  ASSUME CascInv, NEW r \in Requests, Emit(r)
  PROVE  CascInv'
<1> DEFINE t == turn[r]
           new == [t EXCEPT !.emitted = TRUE]
<1>1. TurnOK(r, t) /\ t.pc = "run" /\ r \in Streaming
  BY DEF CascInv, Typed, Emit
<1>2. Local(r, new) /\ pool' = pool /\ half' \subseteq half /\ twice' = twice /\ gen' = gen
  BY DEF Emit, Elsewhere
<1> HIDE DEF t
<1>3. /\ new \in TurnState /\ new.pc = "run" /\ new.fp = t.fp /\ new.entry = t.entry
      /\ new.reuse = t.reuse /\ new.casc = t.casc /\ new.key = t.key
  BY <1>1 DEF TurnState, TurnOK
<1>4. TurnOK(r, new) /\ Owned(new) \subseteq Owned(t)
  BY <1>1, <1>3 DEF TurnOK, Owned
<1> HIDE DEF new
<1> QED BY <1>2, <1>4, GoesOn DEF t

\* What a free name names is nowhere.
LEMMA FreshIsNew ==
  ASSUME CascInv, NEW i \in Free, NEW c \in Cascade, c.id = i
  PROVE  /\ \A e \in AllOf(pool) : e.casc # c
         /\ \A q \in Requests : c \notin Owned(turn[q])
         /\ c \notin half
<1>1. c \notin Named /\ c \notin half
  BY DEF Free
<1>2. c # NoCascade
  BY DEF NoCascade
<1>3. ASSUME NEW e \in AllOf(pool) PROVE e.casc # c
  BY <1>1, <1>2 DEF Named
<1>4. ASSUME NEW q \in Requests PROVE c \notin Owned(turn[q])
  BY <1>1, <1>2 DEF Named, Owned
<1> QED BY <1>1, <1>3, <1>4

\* A step that opens a cascade under a free name.
LEMMA Opens ==
  ASSUME CascInv, NEW r \in Requests, NEW new, TurnOK(r, new), Local(r, new),
         NEW i \in Free, NEW c \in Cascade, c.id = i,
         Owned(new) \subseteq Owned(turn[r]) \cup {c},
         pool' = pool, half' \subseteq half, twice' = twice, gen' = gen
  PROVE  CascInv'
<1>1. Typed /\ Told /\ pool' \in Seq(PoolEntry)
  BY DEF CascInv, Typed
<1>2. Typed' /\ turn'[r] = new /\ OthersKeep(r)
  BY <1>1, Mine
<1>3. /\ \A e \in AllOf(pool) : e.casc # c
      /\ \A q \in Requests : c \notin Owned(turn[q])
      /\ c \notin half
  BY FreshIsNew
<1>4. Owned(turn'[r]) \subseteq Owned(turn[r]) \cup {c}
  BY <1>2
<1>5. Told'
  BY <1>1, <1>2, <1>3, <1>4, ToldWhenOpened
<1> QED BY <1>2, <1>5 DEF CascInv

\* The request is driven, on its cascade or on a fresh one.
LEMMA DispatchInv ==
  ASSUME CascInv, NEW r \in Requests, NEW p \in Ports, Dispatch(r, p)
  PROVE  CascInv'
<1> DEFINE t     == turn[r]
           moved == t.reuse /\ t.entry.port # p
           reuse == t.reuse /\ ~moved
           fresh(i) == [id |-> i, key |-> t.key, port |-> p]
           new(i) == [t EXCEPT !.pc = "run", !.reuse = reuse,
                               !.casc = IF reuse THEN t.entry.casc ELSE fresh(i),
                               !.entry = IF moved THEN NoEntry ELSE @,
                               !.gen = IF r \in Streaming THEN gen[p] ELSE NoGen]
<1>1. PICK i \in Free : t.pc = "held" /\ Local(r, new(i))
  BY DEF Dispatch
<1>2. pool' = pool /\ twice' = twice /\ gen' = gen /\ half' \subseteq half
  BY DEF Dispatch, Elsewhere, Upstream
<1>3. TurnOK(r, t) /\ gen \in [Ports -> Nat]
  BY DEF CascInv, Typed
<1> DEFINE n == new(i)
           c == fresh(i)
<1>4. c \in Cascade /\ c.id = i
  BY <1>1, <1>3 DEF Cascade, Free, TurnOK
<1>5. t.reuse \in BOOLEAN /\ reuse \in BOOLEAN /\ moved \in BOOLEAN
  BY <1>3 DEF TurnOK, TurnState
<1>6. t.reuse => t.entry \in PoolEntry /\ t.entry.casc \in Cascade /\ t.entry # NoEntry
  BY <1>3 DEF TurnOK, PoolEntry, TurnState
<1>7. gen[p] \in Nat
  BY <1>3
<1>8. t \in TurnState /\ t.pc = "held" /\ t.fp \in Fps /\ t.key \in Keys /\ ~t.emitted
  BY <1>1, <1>3 DEF TurnOK
<1> HIDE DEF t, c
<1>9. CASE ~reuse /\ n = [t EXCEPT !.pc = "run", !.reuse = FALSE, !.casc = c,
                                   !.entry = n.entry, !.gen = n.gen]
           /\ n.entry \in {t.entry, NoEntry} /\ n.gen \in Nat \cup {NoGen}
  <2>1. n.entry \in PoolEntry \cup {NoEntry}
    BY <1>8, <1>9 DEF TurnState
  <2> DEFINE en == n.entry
             g  == n.gen
  <2>2. n = [t EXCEPT !.pc = "run", !.reuse = FALSE, !.casc = c, !.entry = en, !.gen = g]
        /\ en \in PoolEntry \cup {NoEntry} /\ en \in {t.entry, NoEntry} /\ g \in Nat \cup {NoGen}
    BY <1>9, <2>1
  <2> HIDE DEF en, g, n
  <2>3. /\ n \in TurnState /\ n.pc = "run" /\ n.fp = t.fp /\ n.key = t.key /\ ~n.reuse
        /\ n.casc = c /\ ~n.emitted /\ n.entry = en
    BY <1>4, <1>8, <2>2 DEF TurnState
  <2>4. TurnOK(r, n)
    BY <1>4, <1>8, <2>3 DEF TurnOK
  <2>5. Owned(n) \subseteq Owned(t) \cup {c}
    BY <2>2, <2>3 DEF Owned
  <2>6. Local(r, n)
    BY <1>1 DEF n
  <2> QED BY <1>1, <1>2, <1>4, <2>4, <2>5, <2>6, Opens DEF t
<1>10. CASE reuse /\ n = [t EXCEPT !.pc = "run", !.reuse = TRUE, !.casc = t.entry.casc,
                                   !.entry = t.entry, !.gen = n.gen]
            /\ n.gen \in Nat \cup {NoGen}
  <2> DEFINE g  == n.gen
  <2>2. n = [t EXCEPT !.pc = "run", !.reuse = TRUE, !.casc = t.entry.casc,
                      !.entry = t.entry, !.gen = g]
        /\ g \in Nat \cup {NoGen} /\ t.reuse
    BY <1>10
  <2> HIDE DEF g, n
  <2>3. /\ n \in TurnState /\ n.pc = "run" /\ n.fp = t.fp /\ n.key = t.key /\ n.reuse
        /\ n.casc = t.entry.casc /\ ~n.emitted /\ n.entry = t.entry
    BY <1>6, <1>8, <2>2 DEF TurnState
  <2>4. TurnOK(r, n)
    BY <1>6, <1>8, <2>2, <2>3 DEF TurnOK
  <2>5. Owned(n) \subseteq Owned(t)
    BY <1>6, <2>2, <2>3 DEF Owned
  <2>6. Local(r, n)
    BY <1>1 DEF n
  <2> QED BY <1>2, <2>4, <2>5, <2>6, GoesOn DEF t
<1>11. n.gen \in Nat \cup {NoGen}
  BY <1>7, <1>8 DEF TurnState
<1>12. CASE ~reuse
  <2>1. n.entry \in {t.entry, NoEntry}
    BY <1>8 DEF TurnState
  <2>2. n = [t EXCEPT !.pc = "run", !.reuse = FALSE, !.casc = c,
                      !.entry = n.entry, !.gen = n.gen]
    BY <1>5, <1>8, <1>12 DEF TurnState, c
  <2> QED BY <1>9, <1>11, <1>12, <2>1, <2>2
<1>13. CASE reuse
  <2>1. n = [t EXCEPT !.pc = "run", !.reuse = TRUE, !.casc = t.entry.casc,
                      !.entry = t.entry, !.gen = n.gen]
    BY <1>5, <1>8, <1>13 DEF TurnState
  <2> QED BY <1>10, <1>11, <1>13, <2>1
<1> QED BY <1>12, <1>13

\* The upstream does not know the cascade.
LEMMA NotFoundInv ==
  ASSUME CascInv, NEW r \in Requests, NotFound(r)
  PROVE  CascInv'
<1> DEFINE t == turn[r]
           fresh(i) == [id |-> i, key |-> t.key, port |-> t.entry.port]
           new(i) == [t EXCEPT !.casc = fresh(i), !.reuse = FALSE, !.told = TRUE]
<1>1. TurnOK(r, t) /\ t.pc = "run" /\ t.reuse
  BY DEF CascInv, Typed, NotFound
<1>2. pool' = pool /\ twice' = twice /\ gen' = gen /\ half' \subseteq half
  BY DEF NotFound, Elsewhere, Upstream
<1>3. CASE Local(r, Idle)
  <2>1. TurnOK(r, Idle) /\ Owned(Idle) \subseteq Owned(t)
    BY IdleOK
  <2> QED BY <1>2, <1>3, <2>1, GoesOn
<1>4. ASSUME NEW i \in Free, Local(r, new(i)) PROVE CascInv'
  <2> DEFINE n == new(i)
             c == fresh(i)
  <2>1. c \in Cascade /\ c.id = i
    BY <1>1 DEF Cascade, Free, TurnOK, TurnState, PoolEntry
  <2> HIDE DEF t, c
  <2>2. n = [t EXCEPT !.casc = c, !.reuse = FALSE, !.told = TRUE]
    BY DEF c
  <2> HIDE DEF n
  <2>3. /\ n \in TurnState /\ n.pc = "run" /\ n.fp = t.fp /\ n.key = t.key /\ ~n.reuse
        /\ n.casc = c /\ n.emitted = t.emitted /\ n.entry = t.entry
    BY <1>1, <2>1, <2>2 DEF TurnState, TurnOK
  <2>4. TurnOK(r, n)
    BY <1>1, <2>1, <2>3 DEF TurnOK
  <2>5. Owned(n) \subseteq Owned(t) \cup {c}
    BY <2>3 DEF Owned
  <2>6. Local(r, n)
    BY <1>4 DEF n
  <2> QED BY <1>2, <2>1, <2>4, <2>5, <2>6, Opens DEF t
<1> QED BY <1>3, <1>4 DEF NotFound

\* What is pooled and what requests have in their hands has a name, here after
\* a step.
LEMMA NamedHas ==
  ASSUME Typed'
  PROVE  /\ \A d \in AllOf(pool') : d.casc \in Named'
         /\ \A q \in Requests : \A b \in Owned(turn'[q]) : b \in Named'
<1>1. \A d \in AllOf(pool') : d \in PoolEntry
  BY DEF Typed, AllOf
<1>2. \A d \in AllOf(pool') : d.casc # NoCascade
  BY <1>1 DEF PoolEntry, NoCascade
<1>3. \A d \in AllOf(pool') : d.casc \in Named'
  BY <1>2 DEF Named
<1>4. ASSUME NEW q \in Requests, NEW b \in Owned(turn'[q]) PROVE b \in Named'
  <2>1. b # NoCascade
    BY <1>4 DEF Owned
  <2>2. CASE b = turn'[q].casc
    BY <2>1, <2>2 DEF Named
  <2>3. CASE turn'[q].entry # NoEntry /\ b = turn'[q].entry.casc
    BY <2>1, <2>3 DEF Named
  <2> QED BY <1>4, <2>2, <2>3 DEF Owned
<1> QED BY <1>3, <1>4

\* The request succeeds, and its cascade is stored, under one fingerprint or two.
LEMMA SucceedInv ==
  ASSUME CascInv, NEW r \in Requests, NEW fps \in Stores, Succeed(r, fps)
  PROVE  CascInv'
<1> DEFINE t == turn[r]
           e == [fp |-> t.fp, casc |-> t.casc, key |-> t.key, port |-> t.casc.port, gen |-> t.gen]
           c == t.casc
<1>1. Typed /\ Told /\ TurnOK(r, t) /\ t.pc = "run" /\ pool \in Seq(PoolEntry)
  BY DEF CascInv, Typed, Succeed
<1>2. /\ pool' = CheckedIn(fps, e) /\ Local(r, Idle) /\ half' \subseteq half /\ gen' = gen
      /\ twice' = (twice \cap {b.id : b \in Named'}) \cup (IF Len(fps) > 1 THEN {c.id} ELSE {})
  BY DEF Succeed, Upstream, Elsewhere
<1>3. c \in Cascade /\ c # NoCascade /\ c \in Owned(t)
  BY <1>1 DEF TurnOK, NoCascade, Owned
<1>4. e \in PoolEntry /\ e.casc = c
  BY <1>1, <1>3 DEF TurnOK, TurnState, PoolEntry, Cascade
<1>5. fps \in Seq(Fps) /\ (Len(fps) > 1 \/ \E f : AllOf(fps) = {f})
  <2>1. ASSUME NEW f \in Fps, fps = <<f>> PROVE fps \in Seq(Fps) /\ AllOf(fps) = {f}
    BY <2>1 DEF AllOf
  <2>2. ASSUME NEW f \in Fps, NEW g \in Fps, fps = <<f, g>>
        PROVE  fps \in Seq(Fps) /\ Len(fps) > 1
    BY <2>2
  <2>3. (\E f \in Fps : fps = <<f>>) \/ fps \in Fps \X Fps
    BY DEF Stores
  <2>4. (\E f \in Fps : fps = <<f>>) \/ \E f, g \in Fps : fps = <<f, g>>
    BY <2>3
  <2> QED BY <2>1, <2>2, <2>4
<1> HIDE DEF e
<1>6. /\ pool' \in Seq(PoolEntry)
      /\ \A d \in AllOf(pool') : \/ d \in AllOf(pool) /\ d.fp \notin AllOf(fps)
                                 \/ d.fp \in AllOf(fps) /\ d.casc = c
  BY <1>1, <1>2, <1>4, <1>5, CheckedInIs
<1>7. TurnOK(r, Idle) /\ Owned(Idle) = {}
  BY IdleOK
<1>8. Typed' /\ turn'[r] = Idle /\ OthersKeep(r)
  BY <1>1, <1>2, <1>6, <1>7, Mine
<1>9. /\ \A d \in AllOf(pool') : d.casc \in Named'
      /\ \A q \in Requests : \A b \in Owned(turn'[q]) : b \in Named'
  BY <1>8, NamedHas
<1>10. /\ \A d \in AllOf(pool') : d.casc.id \in twice => d.casc.id \in twice'
       /\ \A q \in Requests : \A b \in Owned(turn'[q]) : b.id \in twice => b.id \in twice'
  BY <1>2, <1>9
<1>11. (\E f : AllOf(fps) = {f}) \/ c.id \in twice'
  BY <1>2, <1>5
<1>12. Owned(turn'[r]) = {}
  BY <1>7, <1>8
<1> DEFINE F == AllOf(fps)
<1>13. /\ \A d \in AllOf(pool') : \/ d \in AllOf(pool) /\ d.fp \notin F
                                  \/ d.fp \in F /\ d.casc = c
       /\ (\E f : F = {f}) \/ c.id \in twice'
  BY <1>6, <1>11
<1> HIDE DEF F, c
<1>14. c \in Owned(turn[r])
  BY <1>3 DEF t
<1>15. Told'
  BY <1>1, <1>2, <1>8, <1>10, <1>12, <1>13, <1>14, ToldWhenPut
<1> QED BY <1>8, <1>15 DEF CascInv

\* The request ends in the middle of an answer.
LEMMA TornInv ==
  ASSUME CascInv, NEW r \in Requests, turn[r].pc = "run", pool' = pool, Local(r, Idle),
         Torn(r), twice' = twice, gen' = gen
  PROVE  CascInv'
<1> DEFINE c == turn[r].casc
<1>1. Typed /\ Told /\ pool' \in Seq(PoolEntry)
  BY DEF CascInv, Typed
<1>2. TurnOK(r, Idle) /\ Owned(Idle) = {}
  BY IdleOK
<1>3. Typed' /\ turn'[r] = Idle /\ OthersKeep(r)
  BY <1>1, <1>2, Mine
<1>4. c \in Owned(turn[r])
  BY <1>1 DEF Typed, TurnOK, Owned, NoCascade
<1>5. half' \subseteq half \cup {c}
  BY DEF Torn
<1>6. AllOf(pool') \subseteq AllOf(pool) /\ Owned(turn'[r]) = {}
  BY <1>2, <1>3
<1> HIDE DEF c
<1>7. Told'
  BY <1>1, <1>3, <1>4, <1>5, <1>6, ToldWhenTorn
<1> QED BY <1>3, <1>7 DEF CascInv

\* What goes on around the requests: entries leave the pool, names leave the
\* upstream, and nothing comes.
LEMMA AroundInv ==
  ASSUME CascInv, pool' \in Seq(PoolEntry), AllOf(pool') \subseteq AllOf(pool),
         turn' = turn, half' \subseteq half, twice' = twice, gen' \in [Ports -> Nat]
  PROVE  CascInv'
<1>1. Typed'
  BY DEF CascInv, Typed
<1>2. Told'
  BY ToldWhenLess DEF CascInv
<1> QED BY <1>1, <1>2 DEF CascInv

\* Accounts, processes and time.
LEMMA ChangeInv ==
  ASSUME CascInv, Change
  PROVE  CascInv'
<1>1. pool \in Seq(PoolEntry) /\ gen \in [Ports -> Nat]
  BY DEF CascInv, Typed
<1>2. ASSUME NEW k \in Keys, RemoveAccount(k) \/ Rekey(k) \/ AddAccount(k) PROVE CascInv'
  BY <1>1, <1>2, AroundInv DEF RemoveAccount, Rekey, AddAccount, Environment
<1>3. ASSUME NEW p \in Ports, RestartServer(p) PROVE CascInv'
  <2>1. gen' \in [Ports -> Nat]
    BY <1>1, <1>3 DEF RestartServer
  <2> QED BY <1>1, <1>3, <2>1, AroundInv DEF RestartServer, Environment, Upstream
<1>4. ASSUME NEW x \in stale, Invalidate(x) PROVE CascInv'
  <2>1. Invalidated(x) \in Seq(PoolEntry) /\ AllOf(Invalidated(x)) \subseteq AllOf(pool)
    BY <1>1, InvalidatedIs
  <2> QED BY <1>1, <1>4, <2>1, AroundInv DEF Invalidate, Environment, Upstream
<1>5. ASSUME NEW f \in Fps, Expire(f) PROVE CascInv'
  <2>1. CheckedOut(f) \in Seq(PoolEntry) /\ AllOf(CheckedOut(f)) \subseteq AllOf(pool)
    BY <1>1, CheckedOutIs
  <2>2. pool' = CheckedOut(f)
    BY <1>5 DEF Expire, CheckedOut
  <2> QED BY <1>1, <1>5, <2>1, <2>2, AroundInv DEF Expire, Environment, Elsewhere, Upstream
<1> QED BY <1>2, <1>3, <1>4, <1>5 DEF Change

\* Every step keeps the invariant.
LEMMA CascNextInv ==
  ASSUME CascInv, [Next]_vars
  PROVE  CascInv'
<1>1. CASE UNCHANGED vars
  BY <1>1 DEF vars, CascInv, Typed, Told
<1>2. ASSUME NEW r \in Requests, TurnStep(r) \/ SkipAccount(r) PROVE CascInv'
  <2>1. CASE \E f \in Fps : Begin(r, f)
    BY <2>1, BeginInv
  <2>2. CASE AcquireOwner(r)
    <3>1. turn[r].pc = "admit" /\ turn[r].entry.key \in Keys /\ Hold(r, turn[r].entry.key)
      BY <2>2 DEF AcquireOwner, WantsOwner, CascInv, Typed, TurnOK, TurnState, PoolEntry
    <3> QED BY <3>1, HoldInv
  <2>3. CASE OwnerUnavailable(r)
    BY <2>3, OwnerUnavailableInv
  <2>4. CASE \E k \in Keys : Acquire(r, k)
    BY <2>4, HoldInv DEF Acquire
  <2>5. CASE NoAccount(r)
    BY <2>5, GiveUpInv DEF NoAccount
  <2>6. CASE NoServer(r)
    BY <2>6, GiveUpInv DEF NoServer
  <2>7. CASE \E p \in Ports : Dispatch(r, p)
    BY <2>7, DispatchInv
  <2>8. CASE NotFound(r)
    BY <2>8, NotFoundInv
  <2>9. CASE Emit(r)
    BY <2>9, EmitInv
  <2>10. CASE \E s \in Stores : Succeed(r, s)
    BY <2>10, SucceedInv
  <2>11. CASE BreakOff(r)
    BY <2>11, TornInv DEF BreakOff, Elsewhere
  <2>12. CASE LeftAtTheEnd(r)
    BY <2>12, RestoredInv DEF LeftAtTheEnd, Elsewhere, Upstream
  <2>13. CASE Retry(r)
    BY <2>13, RetryInv
  <2>14. CASE Fail(r)
    <3>1. CASE turn[r].emitted
      <4>1. pool' = pool
        BY <2>14, <3>1 DEF Fail, Restored, Restorable
      <4> QED BY <2>14, <3>1, <4>1, TornInv DEF Fail, Elsewhere
    <3>2. CASE ~turn[r].emitted
      BY <2>14, <3>2, RestoredInv DEF Fail, Elsewhere, Upstream
    <3> QED BY <3>1, <3>2
  <2>15. CASE SkipAccount(r)
    BY <2>15, SkipAccountInv
  <2> QED BY <1>2, <2>1, <2>2, <2>3, <2>4, <2>5, <2>6, <2>7, <2>8, <2>9, <2>10, <2>11,
             <2>12, <2>13, <2>14, <2>15 DEF TurnStep
<1>3. CASE Change
  BY <1>3, ChangeInv
<1> QED BY <1>1, <1>2, <1>3 DEF Next

\* Two requests drive one cascade, or one with an unfinished turn is pooled,
\* only if it was stored under two fingerprints: for any requests, accounts,
\* ports and fingerprints, whatever is removed, replaced or restarted.
THEOREM CascadesStaySound == Spec => []CascadesSound
BY CascInitInv, CascNextInv, InvIsSound, PTL DEF Spec

\* The fingerprint that an entry of the pool, of whatever kind S, is found by.
FpIn(S) == [e \in S |-> e.fp]

\* The entry of one fingerprint goes: the list keeps its fingerprints apart, and
\* loses one entry at most.
LEMMA ClearedOne ==
  ASSUME NEW S, NEW s \in Seq(S), NEW f, Apart(s, FpIn(S))
  PROVE  /\ Cleared(s, {f}) \in Seq(S) /\ Apart(Cleared(s, {f}), FpIn(S))
         /\ Len(s) <= Len(Cleared(s, {f})) + 1
         /\ Len(Cleared(s, {f})) <= Len(s) /\ Len(Cleared(s, {f})) \in Nat
<1> DEFINE key == FpIn(S)
           T == {e \in AllOf(s) : e.fp \notin {f}}
           U == OtherKeys(S, key, f)
<1>1. AllOf(s) \cap T = AllOf(s) \cap U
  BY DEF AllOf, FpIn, OtherKeys
<1>5. Apart(s, key)
  OBVIOUS
<1> HIDE DEF T, key
<1>2. Len(s) <= Len(OnlyOf(s, U)) + 1
  BY <1>5, OnlyOfButOne
<1>3. OnlyOf(s, T) = OnlyOf(s, U)
  BY <1>1, OnlyOfAgrees
<1>4. OnlyOf(s, T) \in Seq(S) /\ Apart(OnlyOf(s, T), key)
      /\ Len(OnlyOf(s, T)) <= Len(s) /\ Len(OnlyOf(s, T)) \in Nat
  BY OnlyOfIn, OnlyOfApart, OnlyOfShorter DEF key
<1> QED BY <1>2, <1>3, <1>4 DEF Cleared, T, key

\* Eviction takes entries away only while there are too many.
LEMMA EvictStops ==
  ASSUME NEW S, NEW s \in Seq(S), NEW T, NEW share, Apart(s, FpIn(S))
  PROVE  LET r == Evict(s, T, share) IN
         /\ r \in Seq(S) /\ Apart(r, FpIn(S))
         /\ Len(r) = Len(s) \/ Len(r) >= PoolMax
<1> DEFINE n == Len(s)
<1>1. PICK f : EvictRun(f, s, T, share, S)
  BY EvictRuns
<1>2. n \in Nat /\ f[n] = Evict(s, T, share) /\ f[0] = s
  BY <1>1 DEF EvictRun
<1> DEFINE Good(r) == r \in Seq(S) /\ Apart(r, FpIn(S)) /\ (Len(r) = n \/ Len(r) >= PoolMax)
           N == {m \in Nat : m <= n => Good(f[m])}
<1>3. 0 \in N
  BY <1>2
<1>4. ASSUME NEW m \in Nat, m \in N PROVE m + 1 \in N
  <2> SUFFICES ASSUME m + 1 <= n PROVE Good(f[m + 1])
    OBVIOUS
  <2>1. Good(f[m])
    BY <1>2, <1>4
  <2>2. PICK i : i = m + 1 /\ i - 1 = m /\ i \in 1 .. n
    BY <1>2
  <2>3. f[i] = IF Pays(f[m], s[i], T, share) THEN Cleared(f[m], {s[i].fp}) ELSE f[m]
    BY <1>1, <2>2 DEF EvictRun
  <2>4. CASE Pays(f[m], s[i], T, share)
    <3>1. Len(f[m]) > PoolMax /\ f[i] = Cleared(f[m], {s[i].fp}) /\ Len(f[m]) \in Nat
      BY <2>1, <2>3, <2>4 DEF Pays
    <3>2. /\ f[i] \in Seq(S) /\ Apart(f[i], FpIn(S))
          /\ Len(f[m]) <= Len(f[i]) + 1 /\ Len(f[i]) \in Nat
      BY <2>1, <3>1, ClearedOne
    <3>3. Len(f[i]) >= PoolMax
      BY <3>1, <3>2
    <3> QED BY <2>2, <3>2, <3>3
  <2> QED BY <2>1, <2>2, <2>3, <2>4
<1> HIDE DEF N
<1>5. n \in N
  BY <1>2, <1>3, <1>4, NatSetInduction
<1> QED BY <1>2, <1>5 DEF N

\* A tenant with an entry in a list is counted there.
LEMMA CountsThere ==
  ASSUME NEW S, NEW s \in Seq(S), NEW e \in AllOf(s)
  PROVE  CountOf(s, TenantOf[e.fp]) \in Nat \ {0}
<1> DEFINE I == {i \in DOMAIN s : TenantOf[s[i].fp] = TenantOf[e.fp]}
<1>1. DOMAIN s = 1 .. Len(s) /\ Len(s) \in Nat
  OBVIOUS
<1>2. IsFiniteSet(DOMAIN s)
  BY <1>1, FS_Interval
<1>3. I \subseteq DOMAIN s /\ I # {}
  BY DEF AllOf
<1>4. IsFiniteSet(I)
  BY <1>2, <1>3, FS_Subset
<1>5. Cardinality(I) \in Nat /\ Cardinality(I) # 0
  BY <1>3, <1>4, FS_CardinalityType, FS_EmptySet
<1> QED BY <1>5 DEF CountOf

\* What is asked of one tenant ends when there are few enough, or when that
\* tenant has no entry left.
LEMMA EvictSuffices ==
  ASSUME NEW S, NEW s \in Seq(S), NEW t, Apart(s, FpIn(S))
  PROVE  LET r == Evict(s, {t}, 0) IN
         \/ Len(r) <= PoolMax
         \/ \A e \in AllOf(r) : TenantOf[e.fp] # t
<1> DEFINE n == Len(s)
           T == {t}
           none == 0
<1>0. t \in T /\ \A u \in T : u = t
  OBVIOUS
<1>01. none = 0
  OBVIOUS
<1> HIDE DEF T, none
<1>1. PICK f : EvictRun(f, s, T, none, S)
  BY EvictRuns
<1>2. n \in Nat /\ f[n] = Evict(s, T, none) /\ f[0] = s
  BY <1>1 DEF EvictRun
<1> DEFINE Good(m) == /\ f[m] \in Seq(S) /\ AllOf(f[m]) \subseteq AllOf(s)
                      /\ \/ Len(f[m]) <= PoolMax
                         \/ \A i \in 1 .. m : TenantOf[s[i].fp] = t => s[i] \notin AllOf(f[m])
           N == {m \in Nat : m <= n => Good(m)}
<1>3. 0 \in N
  BY <1>2
<1>4. ASSUME NEW m \in Nat, m \in N PROVE m + 1 \in N
  <2> SUFFICES ASSUME m + 1 <= n PROVE Good(m + 1)
    OBVIOUS
  <2>1. Good(m)
    BY <1>2, <1>4
  <2>2. PICK i : i = m + 1 /\ i - 1 = m /\ i \in 1 .. n
    BY <1>2
  <2>3. f[i] = IF Pays(f[m], s[i], T, none) THEN Cleared(f[m], {s[i].fp}) ELSE f[m]
    BY <1>1, <2>2 DEF EvictRun
  <2> DEFINE F == {s[i].fp}
  <2>40. s[i].fp \in F
    OBVIOUS
  <2> HIDE DEF F
  <2>4. /\ Cleared(f[m], F) \in Seq(S)
        /\ AllOf(Cleared(f[m], F)) = {e \in AllOf(f[m]) : e.fp \notin F}
    BY <2>1, AllOfCleared
  <2>5. f[i] \in Seq(S) /\ AllOf(f[i]) \subseteq AllOf(f[m])
    BY <2>1, <2>3, <2>4 DEF F
  <2>6. CASE Len(f[m]) <= PoolMax
    <3>1. f[i] = f[m]
      <4>1. Len(f[m]) \in Nat
        BY <2>1
      <4>2. ~Pays(f[m], s[i], T, none)
        BY <2>6, <4>1 DEF Pays
      <4> QED BY <2>3, <4>2
    <3> QED BY <2>1, <2>2, <2>6, <3>1
  <2>7. CASE ~(Len(f[m]) <= PoolMax)
    <3>1. \A j \in 1 .. m : TenantOf[s[j].fp] = t => s[j] \notin AllOf(f[i])
      BY <2>1, <2>5, <2>7
    <3>2. TenantOf[s[i].fp] = t => s[i] \notin AllOf(f[i])
      <4> SUFFICES ASSUME TenantOf[s[i].fp] = t, s[i] \in AllOf(f[m])
                   PROVE  s[i] \notin AllOf(f[i])
        BY <2>5
      <4>1. CountOf(f[m], t) \in Nat \ {0}
        BY <2>1, CountsThere
      <4>2. Len(f[m]) > PoolMax /\ CountOf(f[m], t) > none
        <5>1. Len(f[m]) \in Nat
          BY <2>1
        <5> QED BY <1>01, <2>7, <4>1, <5>1
      <4>3. Pays(f[m], s[i], T, none)
        BY <1>0, <4>2 DEF Pays
      <4>4. f[i] = Cleared(f[m], F)
        BY <2>3, <4>3 DEF F
      <4> QED BY <2>4, <2>40, <4>4
    <3>3. \A j \in 1 .. i : j \in 1 .. m \/ j = i
      BY <2>2
    <3>4. \A j \in 1 .. i : TenantOf[s[j].fp] = t => s[j] \notin AllOf(f[i])
      BY <3>1, <3>2, <3>3
    <3> QED BY <2>1, <2>2, <2>5, <3>4
  <2> QED BY <2>6, <2>7
<1> HIDE DEF N
<1>5. n \in N
  BY <1>2, <1>3, <1>4, NatSetInduction
<1>6. Good(n)
  BY <1>2, <1>5 DEF N
<1>7. AllOf(f[n]) \subseteq {s[i] : i \in 1 .. n}
  <2>1. AllOf(f[n]) \subseteq AllOf(s) /\ DOMAIN s = 1 .. n
    BY <1>6
  <2> QED BY <2>1 DEF AllOf
<1>8. \/ Len(f[n]) <= PoolMax
      \/ \A e \in AllOf(f[n]) : TenantOf[e.fp] # t
  BY <1>6, <1>7
<1>9. Evict(s, {t}, 0) = f[n]
  BY <1>2 DEF T, none
<1> HIDE DEF Good
<1> QED BY <1>8, <1>9

\* A set that holds nothing of tenant t.
NotOf(S, t) == {e \in S : TenantOf[e.fp] # t}

\* Where the tenant t has nothing left, what is left is not more than the others
\* had.
LEMMA PrunedWithout ==
  ASSUME NEW S, NEW s \in Seq(S), NEW t, \A e \in AllOf(Pruned(s, t)) : TenantOf[e.fp] # t
  PROVE  Len(Pruned(s, t)) <= Len(OnlyOf(s, NotOf(S, t)))
<1> DEFINE U == NotOf(S, t)
           r == Pruned(s, t)
<1>1. PICK W : r = OnlyOf(s, W)
  BY PrunedTrims
<1> HIDE DEF r
<1>2. r \in Seq(S)
  BY <1>1, OnlyOfIn
<1>3. AllOf(r) \subseteq U
  BY <1>2 DEF NotOf, AllOf, r
<1> HIDE DEF U
<1>4. OnlyOf(r, U) = r
  BY <1>2, <1>3, OnlyOfWhole
<1>5. Len(OnlyOf(OnlyOf(s, W), U)) <= Len(OnlyOf(s, U))
  BY OnlyOfCounts
<1> QED BY <1>1, <1>4, <1>5 DEF U, r

\* What was pruned for tenant t is not more than the pool may hold, or it is not
\* more than what the others had; and nothing is gone unless it is full.
LEMMA PrunedFits ==
  ASSUME NEW S, NEW s \in Seq(S), NEW t, Apart(s, FpIn(S))
  PROVE  LET r == Pruned(s, t) IN
         /\ r \in Seq(S) /\ Apart(r, FpIn(S)) /\ Len(r) \in Nat
         /\ r = s \/ Len(r) >= PoolMax
         /\ Len(r) <= PoolMax \/ Len(r) <= Len(OnlyOf(s, NotOf(S, t)))
<1> DEFINE q == Evict(s, Tenants(s), FairShare(s))
           r == Pruned(s, t)
<1>1. q \in Seq(S) /\ Apart(q, FpIn(S)) /\ (Len(q) = Len(s) \/ Len(q) >= PoolMax)
  BY EvictStops
<1>2. r = Evict(q, {t}, 0)
  BY DEF Pruned
<1> HIDE DEF q
<1>3. r \in Seq(S) /\ Apart(r, FpIn(S)) /\ (Len(r) = Len(q) \/ Len(r) >= PoolMax)
  <2> DEFINE T == {t}
             none == 0
  <2>1. r = Evict(q, T, none)
    BY <1>2
  <2> HIDE DEF T, none, r
  <2> QED BY <1>1, <2>1, EvictStops
<1>4. Len(r) <= PoolMax \/ \A e \in AllOf(r) : TenantOf[e.fp] # t
  <2> HIDE DEF r
  <2> QED BY <1>1, <1>2, EvictSuffices
<1>5. PICK W : r = OnlyOf(s, W)
  BY PrunedTrims
<1> HIDE DEF r
<1>6. Len(r) \in Nat /\ Len(s) \in Nat /\ Len(q) \in Nat /\ PoolMax \in Nat
  BY <1>1, <1>3
<1>7. r = s \/ Len(r) >= PoolMax
  <2>1. Len(r) = Len(s) => r = s
    BY <1>5, OnlyOfKeepsAll
  <2> QED BY <1>1, <1>3, <1>6, <2>1
<1>8. ASSUME \A e \in AllOf(r) : TenantOf[e.fp] # t
      PROVE  Len(r) <= Len(OnlyOf(s, NotOf(S, t)))
  BY <1>8, PrunedWithout DEF r
<1> QED BY <1>3, <1>4, <1>6, <1>7, <1>8 DEF r

\* The new entry for the fingerprint f.
Renamed(e, f) == [e EXCEPT !.fp = f]

\* The fingerprints that one turn stores under: apart, and all of one tenant.
Storable(fps) ==
    /\ fps \in Seq(Fps) /\ fps # <<>>
    /\ \A i, j \in DOMAIN fps : fps[i] = fps[j] => i = j
    /\ \A i \in DOMAIN fps : TenantOf[fps[i]] = TenantOf[fps[1]]

\* Whatever the entries are made of, what is stored is the rest of the pool and
\* the new entries behind it, pruned for their tenant.
StoredAs(fps, e, S, old, new) ==
    /\ old \in Seq(S) /\ AllOf(old) = {d \in AllOf(pool) : d.fp \notin AllOf(fps)}
    /\ Apart(old, FpIn(S)) /\ Len(old) <= Len(pool) /\ Len(old) \in Nat
    /\ \E T : old = OnlyOf(pool, T)
    /\ new \in Seq(S) /\ Len(new) = Len(fps) /\ \A i \in 1 .. Len(fps) : new[i] = Renamed(e, fps[i])
    /\ old \o new \in Seq(S) /\ Apart(old \o new, FpIn(S))
    /\ CheckedIn(fps, e) = Pruned(old \o new, TenantOf[fps[1]])

\* A checkin of any kind of entry consists of these parts.
LEMMA CheckedInParts ==
  ASSUME NEW S, pool \in Seq(S), Apart(pool, FpIn(S)), NEW fps, Storable(fps), NEW e,
         \A f \in Fps : Renamed(e, f) \in S /\ Renamed(e, f).fp = f
  PROVE  \E old, new : StoredAs(fps, e, S, old, new)
<1> DEFINE F == AllOf(fps)
           T == {d \in AllOf(pool) : d.fp \notin F}
           old == Cleared(pool, F)
           new == [i \in DOMAIN fps |-> Renamed(e, fps[i])]
           s == old \o new
<1>0. /\ fps \in Seq(Fps) /\ fps # <<>> /\ DOMAIN fps = 1 .. Len(fps) /\ Len(fps) \in Nat
      /\ \A i \in 1 .. Len(fps) : fps[i] \in Fps /\ fps[i] \in F
      /\ \A i, j \in 1 .. Len(fps) : fps[i] = fps[j] => i = j
  BY DEF Storable, AllOf
<1>1. old \in Seq(S) /\ AllOf(old) = {d \in AllOf(pool) : d.fp \notin F}
  BY AllOfCleared
<1>2. old = OnlyOf(pool, T)
  BY DEF Cleared
<1>3. CheckedIn(fps, e) = Pruned(s, TenantOf[fps[1]])
  BY DEF CheckedIn, Renamed
<1> HIDE DEF F, T, old
<1>4. Apart(old, FpIn(S)) /\ Len(old) <= Len(pool) /\ Len(old) \in Nat
  BY <1>2, OnlyOfApart, OnlyOfShorter
<1>5. /\ new \in Seq(S) /\ Len(new) = Len(fps)
      /\ \A i \in 1 .. Len(fps) : new[i] = Renamed(e, fps[i])
  <2> HIDE DEF new
  <2>0. new = [i \in 1 .. Len(fps) |-> Renamed(e, fps[i])]
    BY <1>0 DEF new
  <2>1. new \in [1 .. Len(fps) -> S]
    BY <1>0, <2>0
  <2>2. new \in Seq(S) /\ Len(new) = Len(fps)
    BY <1>0, <2>0, <2>1
  <2> QED BY <2>0, <2>2
<1> HIDE DEF new
<1>6. /\ s \in Seq(S) /\ Len(s) = Len(old) + Len(fps)
      /\ \A i \in 1 .. Len(old) : s[i] = old[i]
      /\ \A i \in 1 .. Len(fps) : s[Len(old) + i] = Renamed(e, fps[i])
  <2>0. old \in Seq(S) /\ new \in Seq(S)
    BY <1>1, <1>5
  <2>1. s \in Seq(S) /\ Len(s) = Len(old) + Len(new)
    BY <2>0
  <2>2. \A i \in 1 .. Len(old) : s[i] = old[i]
    BY <2>0
  <2>3. ASSUME NEW i \in 1 .. Len(new) PROVE s[Len(old) + i] = new[i]
    <3>1. PICK k : k = Len(old) + i /\ k \in 1 .. Len(s) /\ k > Len(old) /\ k - Len(old) = i
      BY <1>4, <2>1
    <3>2. s[k] = new[k - Len(old)]
      BY <2>0, <3>1
    <3> QED BY <3>1, <3>2
  <2> QED BY <1>5, <2>1, <2>2, <2>3
<1> HIDE DEF s
<1>7. \A i \in 1 .. Len(s) : FpIn(S)[s[i]] = s[i].fp
  BY <1>6 DEF FpIn
<1>8. \A i \in 1 .. Len(old) : s[i].fp \notin F
  <2>1. \A i \in 1 .. Len(old) : old[i] \in AllOf(old)
    BY <1>1 DEF AllOf
  <2> QED BY <1>1, <1>6, <2>1
<1>9. \A i \in 1 .. Len(fps) : s[Len(old) + i].fp = fps[i]
  BY <1>0, <1>6
<1>10. Apart(s, FpIn(S))
  <2> SUFFICES ASSUME NEW i \in 1 .. Len(s), NEW j \in 1 .. Len(s), s[i].fp = s[j].fp
               PROVE  i = j
    BY <1>7 DEF Apart
  <2>1. CASE i <= Len(old) /\ j <= Len(old)
    <3>1. i \in 1 .. Len(old) /\ j \in 1 .. Len(old)
      BY <1>4, <2>1
    <3>2. old[i] = s[i] /\ old[j] = s[j] /\ FpIn(S)[old[i]] = FpIn(S)[old[j]]
      BY <1>6, <1>7, <3>1
    <3> QED BY <1>4, <3>1, <3>2 DEF Apart
  <2>2. ASSUME NEW k \in 1 .. Len(s), ~(k <= Len(old))
        PROVE  k - Len(old) \in 1 .. Len(fps) /\ s[k].fp = fps[k - Len(old)] /\ s[k].fp \in F
    <3>1. PICK i2 : i2 \in 1 .. Len(fps) /\ k = Len(old) + i2 /\ i2 = k - Len(old)
      BY <1>0, <1>4, <1>6, <2>2
    <3> QED BY <1>0, <1>9, <3>1
  <2>3. CASE ~(i <= Len(old)) /\ ~(j <= Len(old))
    <3>1. i - Len(old) = j - Len(old)
      BY <1>0, <2>2, <2>3
    <3> QED BY <1>4, <1>6, <3>1
  <2>4. CASE i <= Len(old) /\ ~(j <= Len(old))
    <3>1. i \in 1 .. Len(old)
      BY <1>4, <2>4
    <3> QED BY <1>8, <2>2, <2>4, <3>1
  <2>5. CASE ~(i <= Len(old)) /\ j <= Len(old)
    <3>1. j \in 1 .. Len(old)
      BY <1>4, <2>5
    <3> QED BY <1>8, <2>2, <2>5, <3>1
  <2> QED BY <2>1, <2>3, <2>4, <2>5
<1> QED BY <1>1, <1>2, <1>3, <1>4, <1>5, <1>6, <1>10 DEF StoredAs, F, s

\* What is stored has its place in the pool, or the pool is full; and it never
\* is more than full.
LEMMA CheckedInFits ==
  ASSUME NEW S, pool \in Seq(S), Apart(pool, FpIn(S)), Len(pool) <= PoolMax,
         NEW fps, Storable(fps), NEW e,
         \A f \in Fps : Renamed(e, f) \in S /\ Renamed(e, f).fp = f
  PROVE  LET r == CheckedIn(fps, e) IN
         /\ r \in Seq(S) /\ Apart(r, FpIn(S)) /\ Len(r) \in Nat /\ Len(r) <= PoolMax
         /\ Renamed(e, fps[1]) \in AllOf(r) \/ Len(r) = PoolMax
<1> DEFINE r == CheckedIn(fps, e)
           t == TenantOf[fps[1]]
           U == NotOf(S, t)
<1>1. PICK old, new : StoredAs(fps, e, S, old, new)
  BY CheckedInParts
<1> DEFINE s == old \o new
<1>2. /\ old \in Seq(S) /\ new \in Seq(S) /\ s \in Seq(S) /\ Apart(s, FpIn(S))
      /\ r = Pruned(s, t) /\ Len(old) <= Len(pool) /\ Len(old) \in Nat /\ Len(new) = Len(fps)
      /\ \A i \in 1 .. Len(fps) : new[i] = Renamed(e, fps[i])
  BY <1>1 DEF StoredAs
<1>3. fps \in Seq(Fps) /\ 1 \in 1 .. Len(fps)
      /\ \A i \in 1 .. Len(fps) : TenantOf[fps[i]] = t /\ fps[i] \in Fps
  <2>1. fps \in Seq(Fps) /\ fps # <<>> /\ DOMAIN fps = 1 .. Len(fps)
    BY DEF Storable
  <2>2. 1 \in 1 .. Len(fps)
    BY <2>1
  <2> QED BY <2>1, <2>2 DEF Storable
<1>4. \A i \in 1 .. Len(fps) : new[i] \notin U
  <2> HIDE DEF t
  <2> QED BY <1>2, <1>3 DEF NotOf
<1>5. s[Len(old) + 1] = new[1] /\ Len(old) + 1 \in 1 .. Len(s)
  BY <1>2, <1>3
<1> HIDE DEF r, t, s
<1>6. /\ r \in Seq(S) /\ Apart(r, FpIn(S)) /\ Len(r) \in Nat
      /\ r = s \/ Len(r) >= PoolMax
      /\ Len(r) <= PoolMax \/ Len(r) <= Len(OnlyOf(s, U))
  BY <1>2, PrunedFits
<1> HIDE DEF U
<1>7. Len(OnlyOf(s, U)) <= Len(old)
  <2>1. OnlyOf(s, U) = OnlyOf(old, U) \o OnlyOf(new, U)
    BY <1>2, OnlyOfConcat DEF s
  <2>2. AllOf(new) \cap U = {}
    BY <1>2, <1>4 DEF AllOf
  <2>3. OnlyOf(new, U) = <<>>
    BY <1>2, <2>2, OnlyOfNone
  <2>4. OnlyOf(old, U) \in Seq(S) /\ Len(OnlyOf(old, U)) <= Len(old)
    BY <1>2, OnlyOfIn, OnlyOfShorter
  <2>5. OnlyOf(s, U) = OnlyOf(old, U)
    BY <2>1, <2>3, <2>4
  <2> QED BY <2>4, <2>5
<1>8. Len(r) <= PoolMax
  <2>1. Len(pool) \in Nat /\ Len(OnlyOf(s, U)) \in Nat /\ PoolMax \in Nat
    BY <1>2, OnlyOfShorter
  <2> QED BY <1>2, <1>6, <1>7, <2>1
<1>9. r = s => Renamed(e, fps[1]) \in AllOf(r)
  <2>1. s[Len(old) + 1] = Renamed(e, fps[1]) /\ DOMAIN s = 1 .. Len(s)
    BY <1>2, <1>3, <1>5
  <2> QED BY <1>5, <2>1 DEF AllOf
<1>10. Renamed(e, fps[1]) \in AllOf(r) \/ Len(r) = PoolMax
  BY <1>6, <1>8, <1>9
<1> QED BY <1>6, <1>8, <1>10 DEF r

-----------------------------------------------------------------------------
\* One object for a fingerprint, and never more of them than the pool may hold.
Pooled == Apart(pool, FpIn(PoolEntry)) /\ Len(pool) <= PoolMax

\* What one conversation's fingerprint is stored under is itself.
LEMMA OneIsStorable ==
  ASSUME NEW f \in Fps
  PROVE  Storable(<<f>>)
BY DEF Storable

\* So are two that differ and belong to one tenant.
LEMMA StoresAreStorable ==
  ASSUME NEW r \in Requests, NEW fps \in Stores, Succeed(r, fps)
  PROVE  Storable(fps)
<1>1. \A i \in DOMAIN fps : TenantOf[fps[i]] = TenantOf[turn[r].fp]
  BY DEF Succeed
<1>2. CASE \E f \in Fps : fps = <<f>>
  BY <1>2, OneIsStorable
<1>3. CASE fps \in {s \in Fps \X Fps : s[1] # s[2]}
  <2>1. PICK f \in Fps, g \in Fps : fps = <<f, g>> /\ f # g
    BY <1>3
  <2>2. fps \in Seq(Fps) /\ fps # <<>> /\ DOMAIN fps = 1 .. 2 /\ fps[1] = f /\ fps[2] = g
    BY <2>1
  <2> QED BY <1>1, <2>1, <2>2 DEF Storable
<1> QED BY <1>2, <1>3 DEF Stores

\* An entry keeps all but its fingerprint when it is stored under another.
LEMMA RenamedIs ==
  ASSUME NEW e \in PoolEntry
  PROVE  /\ \A f \in Fps : Renamed(e, f) \in PoolEntry /\ Renamed(e, f).fp = f
         /\ \A f : Renamed(e, f).casc = e.casc
BY DEF Renamed, PoolEntry

\* What a step does to the pool: nothing, or it takes entries away, or it stores
\* one entry under fingerprints that may be.
Stored(fps, e) == Storable(fps) /\ e \in PoolEntry /\ pool' = CheckedIn(fps, e)
PoolMoves ==
    \/ pool' = pool
    \/ \E U : pool' = OnlyOf(pool, U)
    \/ \E fps, e : Stored(fps, e)

\* Giving a cascade back stores what was taken, or nothing.
LEMMA RestoredMoves ==
  ASSUME CascInv, NEW r \in Requests, turn[r].pc # "idle", pool' = Restored(r)
  PROVE  /\ PoolMoves
         /\ Restorable(r) => Stored(<<turn[r].fp>>, turn[r].entry)
<1>1. TurnOK(r, turn[r])
  BY DEF CascInv, Typed
<1>2. ASSUME Restorable(r) PROVE Stored(<<turn[r].fp>>, turn[r].entry)
  <2>1. turn[r].fp \in Fps /\ turn[r].entry \in PoolEntry
    BY <1>1, <1>2 DEF TurnOK, TurnState, Restorable
  <2> QED BY <1>2, <2>1, OneIsStorable DEF Stored, Restored
<1> QED BY <1>2 DEF PoolMoves, Restored

\* Every step moves the pool in one of these ways.
LEMMA NextMoves ==
  ASSUME CascInv, Next
  PROVE  PoolMoves
<1>1. ASSUME NEW r \in Requests, TurnStep(r) \/ SkipAccount(r) PROVE PoolMoves
  <2>1. CASE \E f \in Fps : Begin(r, f)
    BY <2>1 DEF Begin, CheckedOut, Cleared, PoolMoves
  <2>2. CASE \E s \in Stores : Succeed(r, s)
    <3>1. PICK s \in Stores : Succeed(r, s)
      BY <2>2
    <3> DEFINE t == turn[r]
               e == [fp |-> t.fp, casc |-> t.casc, key |-> t.key,
                     port |-> t.casc.port, gen |-> t.gen]
    <3>2. TurnOK(r, t) /\ t.pc = "run" /\ pool' = CheckedIn(s, e)
      BY <3>1 DEF CascInv, Typed, Succeed
    <3>3. e \in PoolEntry
      BY <3>2 DEF TurnOK, TurnState, PoolEntry, Cascade
    <3> HIDE DEF e
    <3> QED BY <3>1, <3>2, <3>3, StoresAreStorable DEF PoolMoves, Stored
  <2>3. CASE pool' = pool
    BY <2>3 DEF PoolMoves
  <2>4. CASE pool' = Restored(r) /\ turn[r].pc # "idle"
    BY <2>4, RestoredMoves
  <2>5. ASSUME turn[r].pc # "idle", GiveUp(r) PROVE PoolMoves
    BY <2>4, <2>5 DEF GiveUp
  <2>6. CASE AcquireOwner(r) \/ \E k \in Keys : Acquire(r, k)
    BY <2>3, <2>6 DEF AcquireOwner, Acquire, Hold
  <2>7. CASE OwnerUnavailable(r) \/ SkipAccount(r)
    BY <2>3, <2>5, <2>7 DEF OwnerUnavailable, SkipAccount, WantsOwner
  <2>8. CASE NoAccount(r) \/ NoServer(r)
    BY <2>5, <2>8 DEF NoAccount, NoServer
  <2>9. CASE \E p \in Ports : Dispatch(r, p)
    BY <2>3, <2>9 DEF Dispatch
  <2>10. CASE NotFound(r) \/ Emit(r) \/ BreakOff(r) \/ Retry(r)
    BY <2>3, <2>10 DEF NotFound, Emit, BreakOff, Retry
  <2>11. CASE LeftAtTheEnd(r) \/ Fail(r)
    BY <2>4, <2>11 DEF LeftAtTheEnd, Fail
  <2> QED BY <1>1, <2>1, <2>2, <2>6, <2>7, <2>8, <2>9, <2>10, <2>11 DEF TurnStep
<1>2. CASE Change
  <2>1. CASE pool' = pool
    BY <2>1 DEF PoolMoves
  <2>2. CASE \E k \in Keys : RemoveAccount(k) \/ Rekey(k) \/ AddAccount(k)
    BY <2>1, <2>2 DEF RemoveAccount, Rekey, AddAccount
  <2>3. CASE \E p \in Ports : RestartServer(p)
    BY <2>1, <2>3 DEF RestartServer
  <2>4. CASE \E x \in stale : Invalidate(x)
    BY <2>4 DEF Invalidate, Invalidated, PoolMoves
  <2>5. CASE \E f \in Fps : Expire(f)
    BY <2>5 DEF Expire, Cleared, PoolMoves
  <2> QED BY <1>2, <2>2, <2>3, <2>4, <2>5 DEF Change
<1> QED BY <1>1, <1>2 DEF Next

\* What is stored is there, or the pool is full.
LEMMA StoredFits ==
  ASSUME CascInv, Pooled, NEW fps, NEW e, Stored(fps, e)
  PROVE  /\ Pooled'
         /\ (\E d \in AllOf(pool') : d.casc = e.casc) \/ Len(pool') = PoolMax
<1> DEFINE r == CheckedIn(fps, e)
<1>1. pool \in Seq(PoolEntry)
  BY DEF CascInv, Typed
<1>2. \A f \in Fps : Renamed(e, f) \in PoolEntry /\ Renamed(e, f).fp = f
  BY RenamedIs DEF Stored
<1>3. /\ Apart(r, FpIn(PoolEntry)) /\ Len(r) <= PoolMax
      /\ Renamed(e, fps[1]) \in AllOf(r) \/ Len(r) = PoolMax
  BY <1>1, <1>2, CheckedInFits DEF Pooled, Stored
<1>4. Renamed(e, fps[1]).casc = e.casc
  BY RenamedIs DEF Stored
<1> QED BY <1>3, <1>4 DEF Stored, Pooled

\* Every step keeps the pool within its bound and its fingerprints apart.
LEMMA PooledNext ==
  ASSUME CascInv, Pooled, [Next]_vars
  PROVE  Pooled'
<1>1. CASE pool' = pool
  BY <1>1 DEF Pooled
<1>2. CASE \E U : pool' = OnlyOf(pool, U)
  <2>1. PICK U : pool' = OnlyOf(pool, U)
    BY <1>2
  <2>2. pool \in Seq(PoolEntry) /\ Len(pool) \in Nat /\ PoolMax \in Nat
    BY DEF CascInv, Typed
  <2>3. /\ Apart(OnlyOf(pool, U), FpIn(PoolEntry)) /\ Len(OnlyOf(pool, U)) <= Len(pool)
        /\ Len(OnlyOf(pool, U)) \in Nat
    BY <2>2, OnlyOfApart, OnlyOfShorter DEF Pooled
  <2>4. Len(OnlyOf(pool, U)) <= PoolMax
    BY <2>2, <2>3 DEF Pooled
  <2> QED BY <2>1, <2>3, <2>4 DEF Pooled
<1>3. CASE \E fps, e : Stored(fps, e)
  BY <1>3, StoredFits
<1>4. CASE UNCHANGED vars
  BY <1>1, <1>4 DEF vars
<1> QED BY <1>1, <1>2, <1>3, <1>4, NextMoves DEF PoolMoves

\* How a request ends.
Ending(r) ==
    \/ ~turn[r].emitted /\ pool' = Restored(r)
    \/ turn[r].casc \in half'
    \/ turn[r].casc = turn[r].entry.casc /\ turn[r].casc \notin known
    \/ \E fps \in Stores : Succeed(r, fps)

\* One step may only end the request that it is of, and does it in one of these
\* ways.
LEMMA EndsSo ==
  ASSUME CascInv, NEW r \in Requests, [Next]_vars, turn[r].pc # "idle", turn'[r].pc = "idle"
  PROVE  Ending(r)
<1>1. Next
  BY DEF vars
<1>2. turn \in [Requests -> TurnState] /\ TurnOK(r, turn[r]) /\ turn[r] \in TurnState
  BY DEF CascInv, Typed
<1>3. ~Change
  BY DEF Change, RemoveAccount, Rekey, AddAccount, RestartServer, Invalidate, Expire, Environment
<1>4. PICK q \in Requests : TurnStep(q) \/ SkipAccount(q)
  BY <1>1, <1>3 DEF Next
<1>5. ASSUME NEW new, Local(q, new) PROVE q = r /\ new.pc = "idle"
  BY <1>2, <1>5 DEF Local
<1>6. q = r
  BY <1>4, <1>5 DEF TurnStep, Begin, AcquireOwner, Acquire, Hold, OwnerUnavailable, NoAccount,
       NoServer, GiveUp, Dispatch, NotFound, Emit, Succeed, BreakOff, LeftAtTheEnd, Retry, Fail,
       SkipAccount
<1>7. ASSUME GiveUp(r), turn[r].pc # "run" PROVE Ending(r)
  BY <1>2, <1>7 DEF GiveUp, TurnOK, Ending
<1>8. ASSUME NEW new, Local(r, new), new.pc # "idle" PROVE FALSE
  BY <1>2, <1>8 DEF Local
<1>9. CASE (\E f \in Fps : Begin(r, f)) \/ AcquireOwner(r) \/ \E k \in Keys : Acquire(r, k)
  BY <1>2, <1>8, <1>9 DEF Begin, AcquireOwner, Acquire, Hold, Idle, TurnState
<1>10. CASE OwnerUnavailable(r)
  <2>1. turn[r].pc = "admit" /\ ~Local(r, [turn[r] EXCEPT !.reuse = FALSE])
    BY <1>2, <1>8, <1>10 DEF OwnerUnavailable, WantsOwner, TurnState
  <2> QED BY <1>7, <1>10, <2>1 DEF OwnerUnavailable
<1>11. CASE SkipAccount(r)
  <2>1. turn[r].pc = "held"
        /\ ~Local(r, [turn[r] EXCEPT !.pc = "admit", !.first = FALSE, !.key = NoKey])
    BY <1>2, <1>8, <1>11 DEF SkipAccount, TurnState
  <2> QED BY <1>7, <1>11, <2>1 DEF SkipAccount
<1>12. CASE NoAccount(r) \/ NoServer(r)
  BY <1>7, <1>12 DEF NoAccount, NoServer
<1>13. CASE \E p \in Ports : Dispatch(r, p)
  BY <1>2, <1>8, <1>13 DEF Dispatch, TurnState
<1>14. CASE NotFound(r)
  BY <1>2, <1>14 DEF NotFound, TurnOK, Ending
<1>15. CASE Emit(r) \/ Retry(r)
  BY <1>2, <1>8, <1>15 DEF Emit, Retry, TurnState
<1>16. CASE \E s \in Stores : Succeed(r, s)
  BY <1>16 DEF Ending
<1>17. CASE BreakOff(r)
  BY <1>17 DEF BreakOff, Torn, Ending
<1>18. CASE LeftAtTheEnd(r)
  BY <1>2, <1>18 DEF LeftAtTheEnd, TurnOK, Ending
<1>19. CASE Fail(r)
  BY <1>19 DEF Fail, Torn, Ending
<1> QED BY <1>4, <1>6, <1>9, <1>10, <1>11, <1>12, <1>13, <1>14, <1>15, <1>16, <1>17, <1>18,
           <1>19 DEF TurnStep

\* The cascade of a request that ends is in the pool then, if it is good and
\* there was place for it.
LEMMA ComesBack ==
  ASSUME CascInv, Pooled, NEW r \in Requests, [Next]_vars,
         turn[r].pc # "idle", turn'[r].pc = "idle",
         turn[r].entry # NoEntry, turn[r].entry.casc \in known,
         turn[r].casc \notin half'
  PROVE  \/ \E d \in AllOf(pool') : d.casc \in {turn[r].entry.casc, turn[r].casc}
         \/ Len(pool') = PoolMax
<1>1. Ending(r)
  BY EndsSo
<1>2. CASE ~turn[r].emitted /\ pool' = Restored(r)
  <2>1. Stored(<<turn[r].fp>>, turn[r].entry)
    BY <1>2, RestoredMoves DEF Restorable
  <2> QED BY <2>1, StoredFits
<1>3. CASE \E fps \in Stores : Succeed(r, fps)
  <2>1. PICK fps \in Stores : Succeed(r, fps)
    BY <1>3
  <2> DEFINE t == turn[r]
             e == [fp |-> t.fp, casc |-> t.casc, key |-> t.key,
                   port |-> t.casc.port, gen |-> t.gen]
  <2>2. TurnOK(r, t) /\ t.pc = "run" /\ pool' = CheckedIn(fps, e)
    BY <2>1 DEF CascInv, Typed, Succeed
  <2>3. e \in PoolEntry /\ e.casc = t.casc
    BY <2>2 DEF TurnOK, TurnState, PoolEntry, Cascade
  <2> HIDE DEF e
  <2>4. Stored(fps, e)
    BY <2>1, <2>2, <2>3, StoresAreStorable DEF Stored
  <2> QED BY <2>3, <2>4, StoredFits
<1> QED BY <1>1, <1>2, <1>3 DEF Ending

\* The empty pool.
LEMMA PooledInit == Init => Pooled
<1> SUFFICES ASSUME Init PROVE Pooled
  OBVIOUS
<1>1. pool = <<>> /\ Len(pool) = 0
  BY DEF Init
<1> QED BY <1>1 DEF Pooled, Apart

\* What one step gives back.
LEMMA StepGivesBack ==
  ASSUME CascInv, Pooled, [Next]_vars
  PROVE  \A r \in Requests :
          LET e    == turn[r].entry
              mine == {e.casc, turn[r].casc}
          IN
          ( /\ turn[r].pc # "idle" /\ turn'[r].pc = "idle"
            /\ e # NoEntry /\ e.casc \in known
            /\ mine \cap (half \cup half') = {} )
          => \/ \E i \in DOMAIN pool' : pool'[i].casc \in mine
             \/ Len(pool') = PoolMax
<1> SUFFICES ASSUME NEW r \in Requests, turn[r].pc # "idle", turn'[r].pc = "idle",
                    turn[r].entry # NoEntry, turn[r].entry.casc \in known,
                    {turn[r].entry.casc, turn[r].casc} \cap (half \cup half') = {}
             PROVE  \/ \E i \in DOMAIN pool' :
                          pool'[i].casc \in {turn[r].entry.casc, turn[r].casc}
                    \/ Len(pool') = PoolMax
  OBVIOUS
<1>1. turn[r].casc \notin half'
  OBVIOUS
<1> QED BY <1>1, ComesBack DEF AllOf

\* A request that ends gives back the cascade it took out of the pool, or the one
\* it went on with, if the upstream still has it whole: whichever way it ends,
\* unless the pool is full.
THEOREM GoodCascadesComeBack == Spec => GoodCascadeComesBack
<1>1. Spec => [](CascInv /\ Pooled)
  BY CascInitInv, CascNextInv, PooledInit, PooledNext, PTL DEF Spec
<1> QED BY <1>1, StepGivesBack, PTL DEF Spec, GoodCascadeComesBack

-----------------------------------------------------------------------------

\* A share is at least one entry.
LEMMA ShareIsOne ==
  ASSUME NEW S, NEW s \in Seq(S), s # <<>>
  PROVE  FairShare(s) \in Nat \ {0}
<1> DEFINE T == Tenants(s)
           D == 1 .. Len(s)
           g == [i \in D |-> TenantOf[s[i].fp]]
<1>1. DOMAIN s = D /\ Len(s) \in Nat /\ Len(s) # 0
  BY EmptySeq
<1>2. IsFiniteSet(D)
  BY <1>1, FS_Interval
<1>3. g \in Surjection(D, T)
  <2>1. \A i \in D : g[i] \in T
    BY <1>1 DEF Tenants
  <2>2. \A t \in T : \E i \in D : g[i] = t
    BY <1>1 DEF Tenants
  <2>3. g \in [D -> T]
    BY <2>1
  <2> QED BY <2>2, <2>3 DEF Surjection
<1>4. T # {}
  <2>1. 1 \in DOMAIN s
    BY <1>1
  <2> QED BY <2>1 DEF Tenants
<1> HIDE DEF T, D, g
<1>5. IsFiniteSet(T) /\ Cardinality(T) \in Nat /\ Cardinality(T) # 0
  BY <1>2, <1>3, <1>4, FS_Surjection, FS_CardinalityType, FS_EmptySet
<1>6. PoolMax \div Cardinality(T) \in Int
  BY <1>5
<1> DEFINE n == PoolMax \div Cardinality(T)
<1>7. FairShare(s) = IF n > 1 THEN n ELSE 1
  BY DEF FairShare, T
<1> HIDE DEF n
<1> QED BY <1>6, <1>7 DEF n

\* A tenant is in a list if one of its entries is.
LEMMA TenantsThere ==
  ASSUME NEW S, NEW s \in Seq(S), NEW u
  PROVE  u \in Tenants(s) <=> \E e \in AllOf(s) : TenantOf[e.fp] = u
BY DEF Tenants, AllOf

\* The tenant u has an entry besides the one for f.
HasBesides(s, u, f) == \E e \in AllOf(s) : TenantOf[e.fp] = u /\ e.fp # f

\* Of more than one entry of a tenant one is left when one goes.
LEMMA OneIsLeft ==
  ASSUME NEW S, NEW s \in Seq(S), Apart(s, FpIn(S)), NEW u, NEW share \in Nat \ {0},
         CountOf(s, u) > share, NEW f
  PROVE  HasBesides(s, u, f)
<1> DEFINE I == {i \in DOMAIN s : TenantOf[s[i].fp] = u}
<1>0. DOMAIN s = 1 .. Len(s) /\ Len(s) \in Nat
  OBVIOUS
<1>1. IsFiniteSet(1 .. Len(s))
  BY <1>0, FS_Interval
<1>2. IsFiniteSet(I) /\ Cardinality(I) \in Nat /\ Cardinality(I) > 1
  <2>1. IsFiniteSet(I)
    BY <1>0, <1>1, FS_Subset
  <2>2. Cardinality(I) \in Nat /\ Cardinality(I) > share
    BY <2>1, FS_CardinalityType DEF CountOf
  <2> QED BY <2>1, <2>2
<1>3. SUFFICES ASSUME \A i \in I : s[i].fp = f PROVE FALSE
  BY DEF AllOf, HasBesides
<1>4. \A i, j \in I : i = j
  <2>1. \A i \in 1 .. Len(s) : FpIn(S)[s[i]] = s[i].fp
    BY DEF FpIn
  <2>2. \A i \in I : i \in 1 .. Len(s) /\ s[i].fp = f
    BY <1>0, <1>3
  <2> HIDE DEF I
  <2> QED BY <2>1, <2>2 DEF Apart
<1>5. I # {}
  BY <1>2, FS_EmptySet
<1>6. PICK i : I = {i}
  BY <1>4, <1>5
<1> HIDE DEF I
<1>7. Cardinality(I) = 1
  BY <1>6, FS_Singleton
<1> QED BY <1>2, <1>7

\* Who has more than one share pays, and keeps the last.
LEMMA EvictLeavesOne ==
  ASSUME NEW S, NEW s \in Seq(S), NEW T, NEW share \in Nat \ {0}, Apart(s, FpIn(S)),
         NEW u \in Tenants(s)
  PROVE  u \in Tenants(Evict(s, T, share))
<1> DEFINE n == Len(s)
<1>1. PICK f : EvictRun(f, s, T, share, S)
  BY EvictRuns
<1>2. n \in Nat /\ f[n] = Evict(s, T, share) /\ f[0] = s
  BY <1>1 DEF EvictRun
<1> DEFINE Good(r) == /\ r \in Seq(S) /\ Apart(r, FpIn(S))
                      /\ \E e \in AllOf(r) : TenantOf[e.fp] = u
           N == {m \in Nat : m <= n => Good(f[m])}
<1>3. 0 \in N
  BY <1>2, TenantsThere
<1>4. ASSUME NEW m \in Nat, m \in N PROVE m + 1 \in N
  <2> SUFFICES ASSUME m + 1 <= n PROVE Good(f[m + 1])
    OBVIOUS
  <2>1. Good(f[m])
    BY <1>2, <1>4
  <2>2. PICK i : i = m + 1 /\ i - 1 = m /\ i \in 1 .. n
    BY <1>2
  <2>3. f[i] = IF Pays(f[m], s[i], T, share) THEN Cleared(f[m], {s[i].fp}) ELSE f[m]
    BY <1>1, <2>2 DEF EvictRun
  <2>4. CASE Pays(f[m], s[i], T, share)
    <3> DEFINE F == {s[i].fp}
    <3>0. \A x : x \in F <=> x = s[i].fp
      OBVIOUS
    <3>1. f[i] = Cleared(f[m], F)
      BY <2>3, <2>4
    <3>2. f[i] \in Seq(S) /\ Apart(f[i], FpIn(S))
      BY <2>1, <3>1, ClearedOne
    <3> HIDE DEF F
    <3>3. AllOf(f[i]) = {e \in AllOf(f[m]) : e.fp \notin F}
      BY <2>1, <3>1, AllOfCleared
    <3>4. \E e \in AllOf(f[m]) : TenantOf[e.fp] = u /\ e.fp # s[i].fp
      <4>1. CASE TenantOf[s[i].fp] = u
        <5>1. CountOf(f[m], u) > share
          BY <2>4, <4>1 DEF Pays
        <5> DEFINE y == f[m]
                   x == s[i].fp
        <5>2. y \in Seq(S) /\ Apart(y, FpIn(S)) /\ CountOf(y, u) > share
          BY <2>1, <5>1
        <5> HIDE DEF x, y
        <5>3. HasBesides(y, u, x)
          BY <5>2, OneIsLeft
        <5> QED BY <5>3 DEF x, y, HasBesides
      <4>2. CASE TenantOf[s[i].fp] # u
        BY <2>1, <4>2
      <4> QED BY <4>1, <4>2
    <3>5. \E e \in AllOf(f[i]) : TenantOf[e.fp] = u
      BY <3>0, <3>3, <3>4
    <3> QED BY <2>2, <3>2, <3>5
  <2> QED BY <2>1, <2>2, <2>3, <2>4
<1> HIDE DEF N
<1>5. n \in N
  BY <1>2, <1>3, <1>4, NatSetInduction
<1>6. Good(f[n])
  BY <1>2, <1>5 DEF N
<1> QED BY <1>2, <1>6, TenantsThere

\* Who is not asked does not pay.
LEMMA EvictSpares ==
  ASSUME NEW S, NEW s \in Seq(S), NEW T, NEW share,
         NEW e \in AllOf(s), TenantOf[e.fp] \notin T
  PROVE  e \in AllOf(Evict(s, T, share))
<1> DEFINE n == Len(s)
<1>1. PICK f : EvictRun(f, s, T, share, S)
  BY EvictRuns
<1>2. n \in Nat /\ f[n] = Evict(s, T, share) /\ f[0] = s
  BY <1>1 DEF EvictRun
<1> DEFINE N == {m \in Nat : m <= n => f[m] \in Seq(S) /\ e \in AllOf(f[m])}
<1>3. 0 \in N
  BY <1>2
<1>4. ASSUME NEW m \in Nat, m \in N PROVE m + 1 \in N
  <2> SUFFICES ASSUME m + 1 <= n PROVE f[m + 1] \in Seq(S) /\ e \in AllOf(f[m + 1])
    OBVIOUS
  <2>1. f[m] \in Seq(S) /\ e \in AllOf(f[m])
    BY <1>2, <1>4
  <2>2. PICK i : i = m + 1 /\ i - 1 = m /\ i \in 1 .. n
    BY <1>2
  <2>3. f[i] = IF Pays(f[m], s[i], T, share) THEN Cleared(f[m], {s[i].fp}) ELSE f[m]
    BY <1>1, <2>2 DEF EvictRun
  <2>4. CASE Pays(f[m], s[i], T, share)
    <3> DEFINE F == {s[i].fp}
    <3>0. \A x : x \in F <=> x = s[i].fp
      OBVIOUS
    <3> HIDE DEF F
    <3>1. f[i] = Cleared(f[m], F)
      BY <2>3, <2>4 DEF F
    <3>2. f[i] \in Seq(S) /\ AllOf(f[i]) = {d \in AllOf(f[m]) : d.fp \notin F}
      BY <2>1, <3>1, AllOfCleared
    <3>3. TenantOf[s[i].fp] \in T
      BY <2>4 DEF Pays
    <3>4. e.fp \notin F
      BY <3>0, <3>3
    <3> QED BY <2>1, <2>2, <3>2, <3>4
  <2> QED BY <2>1, <2>2, <2>3, <2>4
<1> HIDE DEF N
<1>5. n \in N
  BY <1>2, <1>3, <1>4, NatSetInduction
<1> QED BY <1>2, <1>5 DEF N

\* The tenants of a list keep an entry when it is pruned for another tenant.
LEMMA PrunedLeavesOne ==
  ASSUME NEW S, NEW s \in Seq(S), s # <<>>, Apart(s, FpIn(S)), NEW t, NEW u \in Tenants(s), u # t
  PROVE  u \in Tenants(Pruned(s, t))
<1> DEFINE share == FairShare(s)
           q == Evict(s, Tenants(s), share)
           T == {t}
           none == 0
<1>1. share \in Nat \ {0}
  BY ShareIsOne
<1> HIDE DEF share
<1>2. q \in Seq(S) /\ u \in Tenants(q)
  BY <1>1, EvictStops, EvictLeavesOne
<1>3. Pruned(s, t) = Evict(q, T, none) /\ u \notin T
  BY DEF Pruned, share
<1> HIDE DEF q, T, none
<1>4. PICK e \in AllOf(q) : TenantOf[e.fp] = u
  BY <1>2, TenantsThere
<1>5. e \in AllOf(Evict(q, T, none))
  BY <1>2, <1>3, <1>4, EvictSpares
<1>6. PICK U : Evict(q, T, none) = OnlyOf(q, U)
  BY <1>2, EvictTrims
<1>7. Pruned(s, t) \in Seq(S)
  BY <1>2, <1>3, <1>6, OnlyOfIn
<1> QED BY <1>3, <1>4, <1>5, <1>7, TenantsThere

-----------------------------------------------------------------------------
\* The pool by itself.  Entries are their fingerprints.
Plain == [fp : Fps]

CacheInv == pool \in Seq(Plain) /\ Apart(pool, FpIn(Plain)) /\ Len(pool) <= PoolMax

\* An entry that is its fingerprint is another one under another.
LEMMA PlainRenamed ==
  ASSUME NEW f \in Fps
  PROVE  \A g \in Fps : Renamed([fp |-> f], g) \in Plain /\ Renamed([fp |-> f], g).fp = g
BY DEF Renamed, Plain

\* An entry less.
LEMMA CacheTrims ==
  ASSUME CacheInv, NEW f, Find(f) # NoEntry, pool' = CheckedOut(f)
  PROVE  CacheInv' /\ Len(pool') < Len(pool)
<1> DEFINE T == {e \in AllOf(pool) : e.fp \notin {f}}
<1>1. pool \in Seq(Plain) /\ pool' = OnlyOf(pool, T)
  BY DEF CacheInv, CheckedOut, Cleared
<1>2. PICK k \in 1 .. Len(pool) : pool[k] \notin T
  <2>1. \E i \in DOMAIN pool : pool[i].fp = f
    BY DEF Find
  <2> QED BY <1>1, <2>1
<1> HIDE DEF T
<1>3. /\ OnlyOf(pool, T) \in Seq(Plain) /\ Apart(OnlyOf(pool, T), FpIn(Plain))
      /\ Len(OnlyOf(pool, T)) + 1 <= Len(pool) /\ Len(OnlyOf(pool, T)) \in Nat
  BY <1>1, <1>2, OnlyOfIn, OnlyOfApart, OnlyOfDrops, OnlyOfShorter DEF CacheInv
<1>4. Len(pool) \in Nat /\ Len(pool) <= PoolMax
  BY <1>1 DEF CacheInv
<1> QED BY <1>1, <1>3, <1>4 DEF CacheInv

\* What a tenant stores takes the last entry of no other, and its own only with
\* one more.
LEMMA CacheStores ==
  ASSUME CacheInv, NEW fps, Storable(fps), pool' = CheckedIn(fps, [fp |-> fps[1]])
  PROVE  CacheInv' /\ (Len(pool') >= Len(pool) => Tenants(pool) \subseteq Tenants(pool'))
<1> DEFINE e == [fp |-> fps[1]]
           t == TenantOf[fps[1]]
           U == NotOf(Plain, t)
<1>1. fps \in Seq(Fps) /\ fps # <<>> /\ DOMAIN fps = 1 .. Len(fps) /\ Len(fps) \in Nat
  BY DEF Storable
<1>2. fps[1] \in Fps /\ 1 \in 1 .. Len(fps) /\ \A f \in AllOf(fps) : TenantOf[f] = t
  BY <1>1 DEF Storable, AllOf
<1>3. \A f \in Fps : Renamed(e, f) \in Plain /\ Renamed(e, f).fp = f
  BY <1>2, PlainRenamed
<1>4. pool \in Seq(Plain) /\ Apart(pool, FpIn(Plain)) /\ Len(pool) <= PoolMax /\ Len(pool) \in Nat
  BY DEF CacheInv
<1> HIDE DEF e, t, U
<1>5. pool' = CheckedIn(fps, e)
  BY DEF e
<1>6. CacheInv' /\ pool' \in Seq(Plain) /\ Len(pool') \in Nat
  BY <1>3, <1>4, <1>5, CheckedInFits DEF CacheInv
<1>7. PICK old, new : StoredAs(fps, e, Plain, old, new)
  BY <1>3, <1>4, CheckedInParts
<1> DEFINE s == old \o new
<1>8. /\ old \in Seq(Plain) /\ new \in Seq(Plain) /\ s \in Seq(Plain) /\ Apart(s, FpIn(Plain))
      /\ pool' = Pruned(s, t) /\ Len(new) = Len(fps)
      /\ \A i \in 1 .. Len(fps) : new[i] = Renamed(e, fps[i])
      /\ AllOf(old) = {d \in AllOf(pool) : d.fp \notin AllOf(fps)}
      /\ \E T : old = OnlyOf(pool, T)
  BY <1>5, <1>7 DEF StoredAs, t
<1>9. ASSUME NEW u \in Tenants(pool), u # t PROVE u \in Tenants(pool')
  <2>1. PICK d \in AllOf(pool) : TenantOf[d.fp] = u
    BY <1>4, TenantsThere
  <2>2. d \in AllOf(old)
    BY <1>2, <1>8, <1>9, <2>1
  <2>3. PICK k \in 1 .. Len(old) : old[k] = d
    BY <1>8, <2>2 DEF AllOf
  <2>4. s[k] = d /\ k \in DOMAIN s /\ s # <<>>
    BY <1>8, <2>3
  <2> HIDE DEF s
  <2>5. u \in Tenants(s)
    BY <2>1, <2>4 DEF Tenants
  <2> QED BY <1>8, <1>9, <2>4, <2>5, PrunedLeavesOne
<1>10. ASSUME t \in Tenants(pool), t \notin Tenants(pool') PROVE Len(pool') < Len(pool)
  <2> HIDE DEF s
  <2>1. Len(pool') <= Len(OnlyOf(s, U))
    <3>1. \A d \in AllOf(pool') : TenantOf[d.fp] # t
      BY <1>6, <1>10, TenantsThere
    <3> QED BY <1>8, <3>1, PrunedWithout DEF U
  <2>2. OnlyOf(s, U) = OnlyOf(old, U)
    <3>1. OnlyOf(s, U) = OnlyOf(old, U) \o OnlyOf(new, U)
      <4>1. old \in Seq(Plain) /\ new \in Seq(Plain) /\ s = old \o new
        BY <1>8 DEF s
      <4> QED BY <4>1, OnlyOfConcat
    <3>2. \A i \in 1 .. Len(new) : new[i].fp \in AllOf(fps)
      <4>1. \A i \in 1 .. Len(fps) : fps[i] \in AllOf(fps) /\ fps[i] \in Fps
        BY <1>1 DEF AllOf
      <4> QED BY <1>3, <1>8, <4>1
    <3>3. AllOf(new) \cap U = {}
      <4>1. new \in Seq(Plain) /\ DOMAIN new = 1 .. Len(new)
        BY <1>8
      <4>2. \A d \in AllOf(new) : TenantOf[d.fp] = t
        BY <1>2, <3>2, <4>1 DEF AllOf
      <4> QED BY <4>2 DEF U, NotOf
    <3>4. OnlyOf(new, U) = <<>>
      BY <1>8, <3>3, OnlyOfNone
    <3>5. OnlyOf(old, U) \in Seq(Plain)
      BY <1>8, OnlyOfIn
    <3> QED BY <3>1, <3>4, <3>5
  <2>3. PICK T : old = OnlyOf(pool, T)
    BY <1>8
  <2>4. Len(OnlyOf(old, U)) <= Len(OnlyOf(pool, U))
    BY <1>4, <2>3, OnlyOfCounts
  <2>5. PICK k \in 1 .. Len(pool) : pool[k] \notin U
    <3>1. PICK d \in AllOf(pool) : TenantOf[d.fp] = t
      BY <1>4, <1>10, TenantsThere
    <3> QED BY <1>4, <3>1 DEF AllOf, U, NotOf
  <2>6. Len(OnlyOf(pool, U)) + 1 <= Len(pool) /\ Len(OnlyOf(pool, U)) \in Nat
    BY <1>4, <2>5, OnlyOfDrops, OnlyOfShorter
  <2> QED BY <1>4, <1>6, <2>1, <2>2, <2>4, <2>6
<1>11. Len(pool') >= Len(pool) => Tenants(pool) \subseteq Tenants(pool')
  BY <1>4, <1>6, <1>9, <1>10
<1> QED BY <1>6, <1>11

\* Every step of the pool by itself keeps each tenant one entry.
LEMMA CacheStep ==
  ASSUME CacheInv, [CacheNext]_pool
  PROVE  CacheInv' /\ (Len(pool') >= Len(pool) => Tenants(pool) \subseteq Tenants(pool'))
<1>1. CASE UNCHANGED pool
  BY <1>1 DEF CacheInv, Tenants
<1>2. ASSUME NEW fps, Storable(fps), CacheStore(fps)
      PROVE  CacheInv' /\ (Len(pool') >= Len(pool) => Tenants(pool) \subseteq Tenants(pool'))
  BY <1>2, CacheStores DEF CacheStore
<1>3. ASSUME NEW f \in Fps, CacheStore(<<f>>)
      PROVE  CacheInv' /\ (Len(pool') >= Len(pool) => Tenants(pool) \subseteq Tenants(pool'))
  BY <1>2, <1>3, OneIsStorable
<1>4. ASSUME NEW f \in Fps, NEW g \in Fps, f # g, TenantOf[f] = TenantOf[g], CacheStore(<<f, g>>)
      PROVE  CacheInv' /\ (Len(pool') >= Len(pool) => Tenants(pool) \subseteq Tenants(pool'))
  <2> DEFINE fps == <<f, g>>
  <2>1. fps \in Seq(Fps) /\ fps # <<>> /\ DOMAIN fps = 1 .. 2 /\ fps[1] = f /\ fps[2] = g
    OBVIOUS
  <2>2. Storable(fps)
    BY <1>4, <2>1 DEF Storable
  <2> QED BY <1>2, <1>4, <2>2
<1>5. ASSUME NEW f \in Fps, CacheTake(f) \/ CacheExpire(f)
      PROVE  CacheInv' /\ (Len(pool') >= Len(pool) => Tenants(pool) \subseteq Tenants(pool'))
  <2>1. Find(f) # NoEntry /\ pool' = CheckedOut(f)
    BY <1>5 DEF CacheTake, CacheExpire, CheckedOut
  <2>2. CacheInv' /\ Len(pool') < Len(pool)
    BY <2>1, CacheTrims
  <2>3. Len(pool') \in Nat /\ Len(pool) \in Nat
    BY <2>2 DEF CacheInv
  <2> QED BY <2>2, <2>3
<1> QED BY <1>1, <1>3, <1>4, <1>5 DEF CacheNext

\* The empty pool.
LEMMA CacheInitInv == CacheInit => CacheInv
<1> SUFFICES ASSUME CacheInit PROVE CacheInv
  OBVIOUS
<1>1. pool = <<>> /\ Len(pool) = 0
  BY DEF CacheInit
<1> QED BY <1>1 DEF CacheInv, Apart

\* No tenant's stores take the last cascade of another tenant, however many
\* there are of both: what leaves is the tenant's own, or one of many.
THEOREM LastCascadeKept == CacheSpec => OthersKeepOne
<1>1. CacheInv /\ [CacheNext]_pool
        => CacheInv' /\ [Len(pool') >= Len(pool) => Tenants(pool) \subseteq Tenants(pool')]_pool
  BY CacheStep
<1> QED BY <1>1, CacheInitInv, PTL DEF CacheSpec, OthersKeepOne

-----------------------------------------------------------------------------

KeyOfEntry == [e \in Entry |-> e.key]

\* One entry per key, and a token exactly while it is claimed.
Sound(s) ==
    /\ s \in Seq(Entry) /\ Apart(s, KeyOfEntry)
    /\ \A i \in 1 .. Len(s) : s[i].state = "running" <=> s[i].owner = NoTurn

Limited(s) ==
    /\ Len(s) <= MaxEntries
    /\ \A c \in CallerKeys : Len(OfCallers(s, {c})) <= MaxPerCaller

\* r is what is left of s.
Trims(r, s) == \E T : r = OnlyOf(s, T)

\* The invariant: a sound table within its caps, an exact ledger, and requests
\* that know their keys while they are about them.
RegInv ==
    /\ Sound(entries) /\ Limited(entries)
    /\ totalBytes = BytesOf(entries) /\ totalBytes <= MaxTotalBytes
    /\ draining \in BOOLEAN
    /\ phase \in [Turns -> {"idle", "fresh", "resuming"}]
    /\ keyOf \in [Turns -> DetachKeys \cup {NoDetachKey}]
    /\ \A t \in Turns : phase[t] # "idle" => keyOf[t] \in DetachKeys
    /\ admits \in 0 .. MaxAdmits

\* The fields of an entry are of their types.
LEMMA EntryFields ==
  ASSUME NEW e \in Entry
  PROVE  /\ e.key \in DetachKeys /\ e.bytes \in Sizes /\ e.bytes \in Nat
         /\ e.ttl \in 0 .. Ttl /\ e.left \in 0 .. MaxLeft
         /\ e.state \in {"running", "claimed"} /\ e.owner \in Turns \cup {NoTurn}
         /\ KeyOfEntry[e] = e.key /\ Bytes[e] = e.bytes
BY DEF Entry, KeyOfEntry, Bytes

\* What an entry weighs is a number.
LEMMA BytesType == Bytes \in [Entry -> Nat]
BY DEF Bytes, Entry

\* Two places with one key are one place.
LEMMA SoundApart ==
  ASSUME NEW s, Sound(s), NEW i \in 1 .. Len(s), NEW j \in 1 .. Len(s), s[i].key = s[j].key
  PROVE  i = j
<1>1. s[i] \in Entry /\ s[j] \in Entry
  BY DEF Sound
<1>2. KeyOfEntry[s[i]] = KeyOfEntry[s[j]]
  BY <1>1, EntryFields
<1> QED BY <1>2 DEF Sound, Apart

-----------------------------------------------------------------------------

\* Dropping entries harms nothing.
LEMMA TrimSound ==
  ASSUME NEW s, Sound(s), NEW T
  PROVE  /\ Sound(OnlyOf(s, T))
         /\ BytesOf(OnlyOf(s, T)) \in Nat /\ BytesOf(s) \in Nat
         /\ BytesOf(OnlyOf(s, T)) <= BytesOf(s)
<1> DEFINE r == OnlyOf(s, T)
<1>1. s \in Seq(Entry) /\ Apart(s, KeyOfEntry)
  BY DEF Sound
<1>2. r \in Seq(Entry) /\ OnlyOf(s, Entry \ T) \in Seq(Entry) /\ Apart(r, KeyOfEntry)
  BY <1>1, OnlyOfIn, OnlyOfApart
<1>3. \A i \in 1 .. Len(r) : \E k \in 1 .. Len(s) : r[i] = s[k]
  BY <1>1, OnlyOfEntries
<1>4. BytesOf(s) = BytesOf(r) + BytesOf(OnlyOf(s, Entry \ T))
  BY <1>1, BytesType, TotalSplits DEF BytesOf
<1> HIDE DEF r
<1>5. BytesOf(s) \in Nat /\ BytesOf(r) \in Nat /\ BytesOf(OnlyOf(s, Entry \ T)) \in Nat
  BY <1>1, <1>2, BytesType, TotalIn DEF BytesOf
<1>6. Sound(r)
  BY <1>2, <1>3 DEF Sound
<1> QED BY <1>4, <1>5, <1>6 DEF r

\* A list that is within its caps is so after a trim.
LEMMA TrimLimited ==
  ASSUME NEW s, Sound(s), Limited(s), NEW T
  PROVE  Limited(OnlyOf(s, T))
<1> DEFINE r == OnlyOf(s, T)
<1>1. s \in Seq(Entry)
  BY DEF Sound
<1>2. r \in Seq(Entry) /\ Len(r) <= Len(s) /\ Len(r) \in Nat /\ Len(s) \in Nat
  BY <1>1, OnlyOfIn, OnlyOfShorter
<1>3. ASSUME NEW c \in CallerKeys PROVE Len(OfCallers(r, {c})) <= MaxPerCaller
  <2>1. Len(OfCallers(r, {c})) <= Len(OfCallers(s, {c}))
    BY <1>1, OnlyOfCounts DEF OfCallers
  <2>2. Len(OfCallers(r, {c})) \in Nat /\ Len(OfCallers(s, {c})) \in Nat
    BY <1>1, <1>2, OnlyOfShorter DEF OfCallers
  <2>3. Len(OfCallers(s, {c})) <= MaxPerCaller
    BY DEF Limited
  <2> QED BY <2>1, <2>2, <2>3
<1> HIDE DEF r
<1>4. Limited(r)
  BY <1>2, <1>3 DEF Limited
<1> QED BY <1>4 DEF r

\* One condition trims a list.
LEMMA TrimsOnce ==
  ASSUME NEW s, Sound(s), NEW T
  PROVE  Trims(OnlyOf(s, T), s) /\ Trims(s, s)
<1>1. OnlyOf(s, Entry) = s
  BY OnlyOfAll DEF Sound
<1> QED BY <1>1 DEF Trims

\* And so do two, one after the other.
LEMMA TrimsTwice ==
  ASSUME NEW s, Sound(s), NEW r, Trims(r, s), NEW T
  PROVE  Trims(OnlyOf(r, T), s)
<1>1. PICK U : r = OnlyOf(s, U)
  BY DEF Trims
<1>2. OnlyOf(r, T) = OnlyOf(s, U \cap T)
  BY <1>1, OnlyOfTwice DEF Sound
<1> QED BY <1>2 DEF Trims

\* What is left of a sound list within its caps is such a list.
LEMMA Trimmed ==
  ASSUME NEW s, Sound(s), Limited(s), NEW r, Trims(r, s)
  PROVE  /\ Sound(r) /\ Limited(r) /\ BytesOf(r) \in Nat /\ BytesOf(s) \in Nat
         /\ BytesOf(r) <= BytesOf(s)
<1>1. PICK U : r = OnlyOf(s, U)
  BY DEF Trims
<1> QED BY <1>1, TrimSound, TrimLimited

-----------------------------------------------------------------------------

\* Entries change where they are, and keep their keys.
LEMMA Touched ==
  ASSUME NEW s, Sound(s), Limited(s), NEW t \in Seq(Entry), Len(t) = Len(s),
         \A i \in 1 .. Len(s) :
            t[i].key = s[i].key /\ (t[i].state = "running" <=> t[i].owner = NoTurn)
  PROVE  Sound(t) /\ Limited(t)
<1>1. s \in Seq(Entry) /\ \A i \in 1 .. Len(s) : s[i] \in Entry /\ t[i] \in Entry
  BY DEF Sound
<1>2. Apart(t, KeyOfEntry)
  <2> SUFFICES ASSUME NEW i \in 1 .. Len(s), NEW j \in 1 .. Len(s),
                      KeyOfEntry[t[i]] = KeyOfEntry[t[j]]
               PROVE  i = j
    BY DEF Apart
  <2>1. s[i].key = s[j].key
    BY <1>1, EntryFields
  <2> QED BY <2>1, SoundApart
<1>3. ASSUME NEW c \in CallerKeys PROVE Len(OfCallers(t, {c})) <= MaxPerCaller
  <2> DEFINE U == {e \in Entry : CallerOf[e.key] \in {c}}
  <2>1. \A i \in 1 .. Len(s) : s[i] \in U <=> t[i] \in U
    BY <1>1
  <2> HIDE DEF U
  <2>2. Len(OnlyOf(s, U)) = Len(OnlyOf(t, U))
    BY <1>1, <2>1, OnlyOfSame
  <2>3. Len(OfCallers(t, {c})) = Len(OfCallers(s, {c}))
    BY <2>2 DEF OfCallers, U
  <2> QED BY <2>3 DEF Limited
<1>4. Sound(t)
  BY <1>2 DEF Sound
<1>5. Limited(t)
  BY <1>3 DEF Limited
<1> QED BY <1>4, <1>5

\* A new entry joins what has room for it.
LEMMA Joined ==
  ASSUME NEW s, Sound(s), NEW e \in Entry, e.state = "running", e.owner = NoTurn,
         \A i \in 1 .. Len(s) : s[i].key # e.key,
         Len(s) + 1 <= MaxEntries,
         \A c \in CallerKeys : Len(OfCallers(s, {c})) <= MaxPerCaller,
         Len(OfCallers(s, {CallerOf[e.key]})) + 1 <= MaxPerCaller
  PROVE  /\ Sound(Append(s, e)) /\ Limited(Append(s, e))
         /\ BytesOf(Append(s, e)) = BytesOf(s) + e.bytes
<1> DEFINE t == Append(s, e)
<1>1. s \in Seq(Entry)
  BY DEF Sound
<1>2. /\ t \in Seq(Entry) /\ Len(t) = Len(s) + 1 /\ t[Len(s) + 1] = e
      /\ Len(s) \in Nat /\ \A i \in 1 .. Len(s) : t[i] = s[i]
  BY <1>1
<1>3. BytesOf(t) = BytesOf(s) + e.bytes
  BY <1>1, BytesType, TotalAppend, EntryFields DEF BytesOf
<1>4. ASSUME NEW c \in CallerKeys PROVE Len(OfCallers(t, {c})) <= MaxPerCaller
  <2> DEFINE U == {x \in Entry : CallerOf[x.key] \in {c}}
             r == OnlyOf(s, U)
  <2>1. r \in Seq(Entry)
    BY <1>1, OnlyOfIn
  <2>2. OnlyOf(t, U) = IF e \in U THEN Append(r, e) ELSE r
    BY <1>1, OnlyOfAppend
  <2>3. e \in U <=> c = CallerOf[e.key]
    OBVIOUS
  <2> HIDE DEF U, r
  <2>4. Len(Append(r, e)) = Len(r) + 1
    BY <2>1
  <2>5. r = OfCallers(s, {c}) /\ OnlyOf(t, U) = OfCallers(t, {c})
    BY DEF OfCallers, U, r
  <2> QED BY <2>2, <2>3, <2>4, <2>5
<1> HIDE DEF t
<1>5. Apart(t, KeyOfEntry)
  <2> SUFFICES ASSUME NEW i \in 1 .. Len(t), NEW j \in 1 .. Len(t),
                      KeyOfEntry[t[i]] = KeyOfEntry[t[j]]
               PROVE  i = j
    BY DEF Apart
  <2>1. t[i].key = t[j].key
    BY <1>2, EntryFields
  <2>2. CASE i \in 1 .. Len(s) /\ j \in 1 .. Len(s)
    BY <1>2, <2>1, <2>2, SoundApart
  <2>3. CASE i = Len(s) + 1 /\ j \in 1 .. Len(s)
    BY <1>2, <2>1, <2>3
  <2>4. CASE j = Len(s) + 1 /\ i \in 1 .. Len(s)
    BY <1>2, <2>1, <2>4
  <2> QED BY <1>2, <2>2, <2>3, <2>4
<1>6. \A i \in 1 .. Len(t) : t[i].state = "running" <=> t[i].owner = NoTurn
  <2> SUFFICES ASSUME NEW i \in 1 .. Len(t)
               PROVE  t[i].state = "running" <=> t[i].owner = NoTurn
    OBVIOUS
  <2>1. i = Len(s) + 1 \/ i \in 1 .. Len(s)
    BY <1>2
  <2> QED BY <1>2, <2>1 DEF Sound
<1>7. Sound(t) /\ Limited(t)
  BY <1>2, <1>4, <1>5, <1>6 DEF Sound, Limited
<1> QED BY <1>3, <1>7 DEF t

-----------------------------------------------------------------------------

\* A list is replaced by what is left of it, and the ledger follows.
LEMMA Kept ==
  ASSUME RegInv, NEW r, Trims(r, entries), Keep(r)
  PROVE  /\ Sound(entries') /\ Limited(entries') /\ entries' = r
         /\ totalBytes' = BytesOf(entries)' /\ totalBytes' <= MaxTotalBytes
<1>1. /\ Sound(r) /\ Limited(r) /\ BytesOf(r) \in Nat /\ BytesOf(entries) \in Nat
      /\ BytesOf(r) <= BytesOf(entries)
  BY Trimmed DEF RegInv
<1>2. entries' = r
  BY DEF Keep
<1>3. totalBytes' = BytesOf(r)
  BY <1>1 DEF Keep, RegInv
<1>4. BytesOf(r) <= MaxTotalBytes
  BY <1>1 DEF RegInv
<1>5. BytesOf(entries)' = BytesOf(r)
  BY <1>2 DEF BytesOf
<1> QED BY <1>1, <1>2, <1>3, <1>4, <1>5

\* What an entry is not dropped for, it survives.
LEMMA Stays ==
  ASSUME NEW s \in Seq(Entry), NEW T, NEW i \in 1 .. Len(s), s[i] \in T
  PROVE  \E j \in 1 .. Len(OnlyOf(s, T)) : OnlyOf(s, T)[j] = s[i]
BY OnlyOfEntries

\* Making room costs nothing, one running entry of the callers, or is
\* impossible; then every entry of theirs is claimed.
LEMMA RoomMade ==
  ASSUME NEW s, Sound(s), NEW full \in BOOLEAN, NEW callers, NEW r \in Room(s, full, callers)
  PROVE  \/ ~full /\ r = s
         \/ /\ full
            /\ \E i \in 1 .. Len(s) :
                  /\ s[i].state = "running" /\ CallerOf[s[i].key] \in callers
                  /\ r = Without(s, s[i].key)
<1>1. CASE ~full
  BY <1>1 DEF Room
<1>2. CASE full
  <2> DEFINE T == {e \in Entry : e.state = "running" /\ CallerOf[e.key] \in callers}
             q == OnlyOf(s, T)
  <2>1. s \in Seq(Entry)
    BY DEF Sound
  <2>2. q = Running(s, callers)
    BY DEF Running
  <2>t. \A e \in T : e.state = "running" /\ CallerOf[e.key] \in callers
    OBVIOUS
  <2> HIDE DEF T
  <2>3. \A i \in 1 .. Len(q) : q[i] \in T /\ \E k \in 1 .. Len(s) : q[i] = s[k]
    BY <2>1, OnlyOfEntries
  <2>4. q \in Seq(Entry)
    BY <2>1, OnlyOfIn
  <2> HIDE DEF q
  <2>5. q # <<>> /\ r = Without(s, q[1].key)
    BY <1>2, <2>2 DEF Room
  <2>6. 1 \in 1 .. Len(q)
    BY <2>4, <2>5
  <2>7. PICK k \in 1 .. Len(s) : q[1] = s[k]
    BY <2>3, <2>6
  <2>8. s[k].state = "running" /\ CallerOf[s[k].key] \in callers
    BY <2>3, <2>6, <2>7, <2>t
  <2> QED BY <1>2, <2>5, <2>7, <2>8
<1> QED BY <1>1, <1>2

\* Room leaves one list, or none at all where room was needed.
LEMMA RoomFull ==
  ASSUME NEW s, Sound(s), NEW callers, NEW full \in BOOLEAN
  PROVE  \/ Room(s, full, callers) = {} /\ full
         \/ \E r : Room(s, full, callers) = {r}
BY DEF Room

\* Who drops an entry has room for one.
LEMMA DropMakesRoom ==
  ASSUME NEW s, Sound(s), Limited(s), NEW i \in 1 .. Len(s)
  PROVE  /\ Len(Without(s, s[i].key)) + 1 <= Len(s)
         /\ Len(OfCallers(Without(s, s[i].key), {CallerOf[s[i].key]})) + 1 <= MaxPerCaller
<1> DEFINE T == {e \in Entry : e.key # s[i].key}
           c == CallerOf[s[i].key]
           U == {e \in Entry : CallerOf[e.key] \in {c}}
<1>1. s \in Seq(Entry) /\ s[i] \in Entry
  BY DEF Sound
<1>2. s[i] \notin T /\ s[i] \in U
  BY <1>1
<1>3. c \in CallerKeys
  BY <1>1, EntryFields DEF CallerKeys
<1>4. Without(s, s[i].key) = OnlyOf(s, T)
  BY DEF Without
<1>5. /\ OfCallers(OnlyOf(s, T), {c}) = OnlyOf(OnlyOf(s, T), U)
      /\ OfCallers(s, {c}) = OnlyOf(s, U)
  BY DEF OfCallers
<1> HIDE DEF T, U, c
<1>6. Len(OnlyOf(s, T)) + 1 <= Len(s)
  BY <1>1, <1>2, OnlyOfDrops
<1>7. Len(OnlyOf(OnlyOf(s, T), U)) + 1 <= Len(OnlyOf(s, U))
  BY <1>1, <1>2, OnlyOfCounts
<1>8. Len(OnlyOf(s, U)) \in Nat /\ Len(OnlyOf(OnlyOf(s, T), U)) \in Nat
  BY <1>1, OnlyOfIn, OnlyOfShorter
<1>9. Len(OnlyOf(s, U)) <= MaxPerCaller
  BY <1>3, <1>5 DEF Limited
<1>10. Len(OnlyOf(OnlyOf(s, T), U)) + 1 <= MaxPerCaller
  BY <1>7, <1>8, <1>9
<1> QED BY <1>4, <1>5, <1>6, <1>10 DEF c

\* One of the callers may have another entry.
CallerHasRoom(r, callers) == \E c \in callers : Len(OfCallers(r, {c})) + 1 <= MaxPerCaller

\* Making room drops one running entry of the callers it may drop from, and no
\* claim.
LEMMA RoomKeeps ==
  ASSUME NEW s, Sound(s), Limited(s), NEW full \in BOOLEAN, NEW callers,
         NEW r \in Room(s, full, callers)
  PROVE  /\ Trims(r, s)
         /\ ~full => r = s
         /\ full => Len(r) + 1 <= Len(s)
         /\ \A j \in 1 .. Len(s) : s[j].state = "claimed" => \E m \in 1 .. Len(r) : r[m] = s[j]
         /\ full => CallerHasRoom(r, callers)
<1>1. CASE ~full /\ r = s
  BY <1>1, TrimsOnce
<1>2. CASE full /\ \E i \in 1 .. Len(s) :
                      /\ s[i].state = "running" /\ CallerOf[s[i].key] \in callers
                      /\ r = Without(s, s[i].key)
  <2>1. PICK i \in 1 .. Len(s) : /\ s[i].state = "running" /\ CallerOf[s[i].key] \in callers
                                 /\ r = Without(s, s[i].key)
    BY <1>2
  <2>2. Trims(r, s)
    BY <2>1, TrimsOnce DEF Without
  <2>3. /\ Len(r) + 1 <= Len(s)
        /\ Len(OfCallers(r, {CallerOf[s[i].key]})) + 1 <= MaxPerCaller
    BY <2>1, DropMakesRoom
  <2>4. ASSUME NEW j \in 1 .. Len(s), s[j].state = "claimed"
        PROVE  \E m \in 1 .. Len(r) : r[m] = s[j]
    <3>1. s[j].key # s[i].key
      BY <2>1, <2>4, SoundApart
    <3>2. s \in Seq(Entry) /\ s[j] \in Entry
      BY DEF Sound
    <3> DEFINE T == {e \in Entry : e.key # s[i].key}
    <3>3. s[j] \in T /\ r = OnlyOf(s, T)
      BY <2>1, <3>1, <3>2 DEF Without
    <3> HIDE DEF T
    <3> QED BY <3>2, <3>3, Stays
  <2>5. CallerOf[s[i].key] \in callers
    BY <2>1
  <2>6. CallerHasRoom(r, callers)
    BY <2>3, <2>5 DEF CallerHasRoom
  <2> QED BY <1>2, <2>2, <2>3, <2>4, <2>6
<1>3. \/ ~full /\ r = s
      \/ full /\ \E i \in 1 .. Len(s) :
                    /\ s[i].state = "running" /\ CallerOf[s[i].key] \in callers
                    /\ r = Without(s, s[i].key)
  BY RoomMade
<1> QED BY <1>1, <1>2, <1>3

\* What an admission of a snapshot leads to, whether it joins or is refused:
\* a claim outlives it, and a refusal costs nobody a live entry.
Promise(k, size, a) ==
    /\ Trims(a.kept, entries) /\ a.in \in BOOLEAN
    /\ a.in => /\ \A i \in 1 .. Len(a.kept) : a.kept[i].key # k
               /\ Len(a.kept) + 1 <= MaxEntries
               /\ Len(OfCallers(a.kept, {CallerOf[k]})) + 1 <= MaxPerCaller
               /\ BytesOf(a.kept) + size <= MaxTotalBytes
    /\ \A i \in 1 .. Len(entries) :
          ~Expired(entries[i]) /\ (~a.in \/ entries[i].state = "claimed")
             => \E j \in 1 .. Len(a.kept) : a.kept[j] = entries[i]

\* Every admission keeps this promise.
LEMMA AdmissionKeeps ==
  ASSUME RegInv, NEW k \in DetachKeys, NEW size \in Sizes
  PROVE  Promise(k, size, Admission(k, size))
<1> DEFINE live == Swept(entries)
           ofK == {e \in Entry : e.key = k}
           old == OnlyOf(live, ofK)
           busy == \E i \in DOMAIN old : old[i].state = "claimed"
           over == \/ size > MaxEntryBytes
                   \/ totalBytes - (BytesOf(entries) - BytesOf(live)) - BytesOf(old) + size
                        > MaxTotalBytes
           rest == Without(live, k)
           c == CallerOf[k]
           full == Len(OfCallers(rest, {c})) >= MaxPerCaller
           forMe == Room(rest, full, {c})
           a == Admission(k, size)
<1>a. a = IF draining THEN [kept |-> entries, in |-> FALSE]
          ELSE IF busy \/ over THEN [kept |-> live, in |-> FALSE]
          ELSE IF forMe = {} THEN [kept |-> rest, in |-> FALSE]
          ELSE LET s == CHOOSE x \in forMe : TRUE
                   room == Room(s, Len(s) >= MaxEntries, CallerKeys)
               IN IF room = {} THEN [kept |-> s, in |-> FALSE]
                  ELSE [kept |-> CHOOSE x \in room : TRUE, in |-> TRUE]
  BY DEF Admission
<1>e. Sound(entries) /\ Limited(entries) /\ entries \in Seq(Entry) /\ size \in Nat
  BY DEF RegInv, Sound
<1>1. Trims(live, entries) /\ Trims(entries, entries)
  BY <1>e, TrimsOnce DEF Swept
<1>2. /\ Sound(live) /\ Limited(live) /\ live \in Seq(Entry)
      /\ BytesOf(live) \in Nat /\ BytesOf(entries) \in Nat
  BY <1>1, <1>e, Trimmed DEF Sound
<1>3. ASSUME NEW i \in 1 .. Len(entries), ~Expired(entries[i])
      PROVE  \E j \in 1 .. Len(live) : live[j] = entries[i]
  <2>1. entries[i] \in {e \in Entry : ~Expired(e)}
    BY <1>e, <1>3
  <2> QED BY <1>e, <2>1, Stays DEF Swept
<1> HIDE DEF live
<1>4. Trims(rest, live) /\ Trims(rest, entries)
  BY <1>1, <1>2, <1>e, TrimsOnce, TrimsTwice DEF Without
<1>5. Sound(rest) /\ Limited(rest) /\ rest \in Seq(Entry) /\ BytesOf(rest) \in Nat
  BY <1>2, <1>4, Trimmed DEF Sound
<1>6. /\ \A i \in 1 .. Len(rest) : rest[i].key # k
      /\ \A j \in 1 .. Len(live) : live[j].key # k => \E i \in 1 .. Len(rest) : rest[i] = live[j]
  <2> DEFINE T == {e \in Entry : e.key # k}
  <2>1. rest = OnlyOf(live, T)
    BY DEF Without
  <2>2. \A e \in Entry : e \in T <=> e.key # k
    OBVIOUS
  <2>3. T \subseteq Entry /\ \A j \in 1 .. Len(live) : live[j] \in Entry
    BY <1>2
  <2> HIDE DEF T, rest
  <2>4. \A i \in 1 .. Len(rest) : rest[i] \in T
    BY <1>2, <2>1, OnlyOfEntries
  <2>5. \A j \in 1 .. Len(live) : live[j] \in T => \E i \in 1 .. Len(rest) : rest[i] = live[j]
    BY <1>2, <2>1, OnlyOfEntries
  <2> QED BY <2>2, <2>3, <2>4, <2>5
<1>7. BytesOf(live) = BytesOf(old) + BytesOf(rest) /\ BytesOf(old) \in Nat
  <2>1. rest = OnlyOf(live, Entry \ ofK)
    <3>1. {e \in Entry : e.key # k} = Entry \ ofK
      OBVIOUS
    <3> QED BY <3>1 DEF Without
  <2> HIDE DEF ofK
  <2>2. BytesOf(live) = BytesOf(OnlyOf(live, ofK)) + BytesOf(OnlyOf(live, Entry \ ofK))
    BY <1>2, BytesType, TotalSplits DEF BytesOf
  <2>3. BytesOf(old) \in Nat
    BY <1>2, TrimSound
  <2> QED BY <2>1, <2>2, <2>3
<1>8. \A j \in 1 .. Len(live) : live[j].key = k =>
        /\ Len(rest) + 1 <= Len(live) /\ ~full
        /\ \E i \in 1 .. Len(old) : old[i] = live[j]
  <2> SUFFICES ASSUME NEW j \in 1 .. Len(live), live[j].key = k
               PROVE  /\ Len(rest) + 1 <= Len(live) /\ ~full
                      /\ \E i \in 1 .. Len(old) : old[i] = live[j]
    OBVIOUS
  <2>1. Len(rest) + 1 <= Len(live) /\ Len(OfCallers(rest, {c})) + 1 <= MaxPerCaller
    BY <1>2, DropMakesRoom
  <2>2. Len(OfCallers(rest, {c})) \in Nat
    BY <1>5, OnlyOfShorter DEF OfCallers
  <2>3. live[j] \in ofK
    BY <1>2
  <2>4. \E i \in 1 .. Len(old) : old[i] = live[j]
    BY <1>2, <2>3, Stays
  <2>5. ~full
    BY <2>1, <2>2
  <2> HIDE DEF full, old, rest
  <2> QED BY <2>1, <2>4, <2>5
<1>9. old \in Seq(Entry)
  BY <1>2, OnlyOfIn
<1>n. full \in BOOLEAN /\ Len(rest) \in Nat /\ Len(live) \in Nat /\ Len(live) <= MaxEntries
  BY <1>2, <1>5 DEF Limited
<1>f. forMe = Room(rest, full, {c})
  OBVIOUS
<1> HIDE DEF old, rest, a, ofK, full, forMe
<1>10. CASE draining
  <2>1. a.kept = entries /\ a.in = FALSE
    BY <1>10, <1>a
  <2> QED BY <1>1, <2>1 DEF Promise, a
<1>11. CASE ~draining /\ (busy \/ over)
  <2>1. a.kept = live /\ a.in = FALSE
    BY <1>11, <1>a
  <2> QED BY <1>1, <1>3, <2>1 DEF Promise, a
<1>12. CASE ~draining /\ ~busy /\ ~over
  <2>1. BytesOf(rest) + size <= MaxTotalBytes
    BY <1>12, <1>2, <1>5, <1>7, <1>e DEF RegInv
  <2>2. \A j \in 1 .. Len(live) : live[j].state = "claimed" =>
          \E i \in 1 .. Len(rest) : rest[i] = live[j]
    <3>1. DOMAIN old = 1 .. Len(old)
      BY <1>9
    <3> QED BY <1>12, <1>6, <1>8, <3>1
  <2>3. \A i \in 1 .. Len(entries) : ~Expired(entries[i]) /\ entries[i].state = "claimed" =>
          \E j \in 1 .. Len(rest) : rest[j] = entries[i]
    BY <1>3, <2>2
  <2>4. (\A j \in 1 .. Len(live) : live[j].key # k) =>
          \A i \in 1 .. Len(entries) : ~Expired(entries[i]) =>
             \E j \in 1 .. Len(rest) : rest[j] = entries[i]
    BY <1>3, <1>6
  <2>5. CASE forMe = {}
    <3>1. a.kept = rest /\ a.in = FALSE
      BY <1>12, <1>a, <2>5
    <3>2. full
      BY <1>5, <1>f, <1>n, <2>5, RoomFull
    <3>3. \A j \in 1 .. Len(live) : live[j].key # k
      BY <1>8, <3>2
    <3> QED BY <1>4, <2>4, <3>1, <3>3 DEF Promise, a
  <2>6. CASE forMe # {}
    <3> DEFINE s == CHOOSE x \in forMe : TRUE
               full2 == Len(s) >= MaxEntries
               room == Room(s, full2, CallerKeys)
    <3>r. room = Room(s, full2, CallerKeys)
      OBVIOUS
    <3>1. s \in forMe
      BY <2>6
    <3>2. IF room = {} THEN a.kept = s /\ a.in = FALSE
                       ELSE a.kept = (CHOOSE x \in room : TRUE) /\ a.in = TRUE
      BY <1>12, <1>a, <2>6
    <3> HIDE DEF s
    <3>3. /\ Trims(s, rest)
          /\ ~full => s = rest
          /\ full => Len(s) + 1 <= Len(rest)
          /\ \A j \in 1 .. Len(rest) : rest[j].state = "claimed" =>
                \E m \in 1 .. Len(s) : s[m] = rest[j]
          /\ full => Len(OfCallers(s, {c})) + 1 <= MaxPerCaller
      <4> DEFINE C == {c}
      <4>1. s \in Room(rest, full, C) /\ C = {c}
        BY <1>f, <3>1
      <4> HIDE DEF C, c
      <4>2. /\ Trims(s, rest)
            /\ ~full => s = rest
            /\ full => Len(s) + 1 <= Len(rest)
            /\ \A j \in 1 .. Len(rest) : rest[j].state = "claimed" =>
                  \E m \in 1 .. Len(s) : s[m] = rest[j]
        BY <1>5, <1>n, <4>1, RoomKeeps
      <4>3. full => CallerHasRoom(s, C)
        BY <1>5, <1>n, <4>1, RoomKeeps
      <4> QED BY <4>1, <4>2, <4>3 DEF CallerHasRoom
    <3>4. /\ Sound(s) /\ Limited(s) /\ s \in Seq(Entry)
          /\ BytesOf(s) \in Nat /\ BytesOf(s) <= BytesOf(rest)
      BY <1>5, <3>3, Trimmed DEF Sound
    <3>5. Trims(s, entries) /\ Trims(s, live)
      <4>1. PICK T : s = OnlyOf(rest, T)
        BY <3>3 DEF Trims
      <4> QED BY <1>2, <1>4, <1>e, <4>1, TrimsTwice
    <3>6. /\ Len(s) \in Nat /\ full2 \in BOOLEAN /\ Len(OfCallers(s, {c})) \in Nat
          /\ Len(OfCallers(s, {c})) + 1 <= MaxPerCaller
      <4>1. Len(OfCallers(s, {c})) \in Nat
        BY <3>4, OnlyOfShorter DEF OfCallers
      <4>2. ~full => Len(OfCallers(s, {c})) + 1 <= MaxPerCaller
        BY <3>3, <4>1 DEF full
      <4> QED BY <3>3, <3>4, <4>1, <4>2
    <3> HIDE DEF full2, room
    <3>7. \A i \in 1 .. Len(entries) : ~Expired(entries[i]) /\ entries[i].state = "claimed" =>
            \E j \in 1 .. Len(s) : s[j] = entries[i]
      BY <2>3, <3>3
    <3>8. \A m \in 1 .. Len(s) : s[m].key # k
      <4>1. PICK T : s = OnlyOf(rest, T)
        BY <3>3 DEF Trims
      <4>2. \A m \in 1 .. Len(s) : \E j \in 1 .. Len(rest) : s[m] = rest[j]
        BY <1>5, <4>1, OnlyOfEntries
      <4> QED BY <1>6, <4>2
    <3>9. CASE room = {}
      <4>1. a.kept = s /\ a.in = FALSE
        BY <3>2, <3>9
      <4>2. full2
        BY <3>4, <3>6, <3>9, <3>r, RoomFull
      <4>3. ~full /\ s = rest
        <5>1. Len(rest) <= Len(live)
          BY <1>2, OnlyOfShorter DEF rest, Without
        <5>2. full2 => Len(s) >= MaxEntries
          BY DEF full2
        <5> QED BY <1>n, <3>3, <3>6, <4>2, <5>1, <5>2
      <4>4. \A j \in 1 .. Len(live) : live[j].key # k
        BY <1>8, <1>n, <4>2, <4>3 DEF full2
      <4> QED BY <2>4, <3>5, <4>1, <4>3, <4>4 DEF Promise, a
    <3>10. CASE room # {}
      <4> DEFINE q == CHOOSE x \in room : TRUE
      <4>1. a.kept = q /\ a.in = TRUE /\ q \in room
        BY <3>2, <3>10
      <4> HIDE DEF q
      <4>2. /\ Trims(q, s)
            /\ ~full2 => q = s
            /\ full2 => Len(q) + 1 <= Len(s)
            /\ \A j \in 1 .. Len(s) : s[j].state = "claimed" =>
                  \E m \in 1 .. Len(q) : q[m] = s[j]
        BY <3>4, <3>6, <3>r, <4>1, RoomKeeps
      <4>3. PICK T : q = OnlyOf(s, T)
        BY <4>2 DEF Trims
      <4>4. Trims(q, entries)
        BY <1>e, <3>5, <4>3, TrimsTwice
      <4>5. BytesOf(q) \in Nat /\ BytesOf(q) <= BytesOf(s) /\ Sound(q)
        BY <3>4, <4>3, TrimSound
      <4>6. Len(q) + 1 <= MaxEntries
        <5>1. Len(q) \in Nat
          BY <4>5 DEF Sound
        <5> QED BY <3>4, <3>6, <4>2, <5>1 DEF Limited, full2
      <4>7. Len(OfCallers(q, {c})) + 1 <= MaxPerCaller
        <5>1. Len(OfCallers(q, {c})) <= Len(OfCallers(s, {c}))
          BY <3>4, <4>3, OnlyOfCounts DEF OfCallers
        <5>2. Len(OfCallers(q, {c})) \in Nat
          BY <4>5, OnlyOfShorter DEF OfCallers, Sound
        <5> QED BY <3>6, <5>1, <5>2
      <4>8. \A m \in 1 .. Len(q) : q[m].key # k
        <5>1. \A m \in 1 .. Len(q) : \E j \in 1 .. Len(s) : q[m] = s[j]
          BY <3>4, <4>3, OnlyOfEntries
        <5> QED BY <3>8, <5>1
      <4>9. \A i \in 1 .. Len(entries) : ~Expired(entries[i]) /\ entries[i].state = "claimed" =>
              \E j \in 1 .. Len(q) : q[j] = entries[i]
        BY <3>7, <4>2
      <4>10. BytesOf(q) + size <= MaxTotalBytes
        BY <1>5, <1>e, <2>1, <3>4, <4>5
      <4> QED BY <4>1, <4>4, <4>6, <4>7, <4>8, <4>9, <4>10 DEF Promise, a
    <3> QED BY <3>9, <3>10
  <2> QED BY <2>5, <2>6
<1> QED BY <1>10, <1>11, <1>12

-----------------------------------------------------------------------------
\* What requests are at, and with which keys.
Requested ==
    /\ phase \in [Turns -> {"idle", "fresh", "resuming"}]
    /\ keyOf \in [Turns -> DetachKeys \cup {NoDetachKey}]
    /\ \A t \in Turns : phase[t] # "idle" => keyOf[t] \in DetachKeys

\* A request arrives with a key.
LEMMA ArrivesKeyed ==
  ASSUME Requested, NEW t \in Turns, NEW k \in DetachKeys,
         NEW at \in {"fresh", "resuming"}, Arrives(t, k, at)
  PROVE  Requested'
BY DEF Requested, Arrives

\* One that goes on as it was, or is done, keeps what is expected of it.
LEMMA BecomesKeyed ==
  ASSUME Requested, NEW t \in Turns, phase[t] # "idle",
         NEW at \in {"idle", "fresh"}, Becomes(t, at)
  PROVE  Requested'
<1>1. CASE at = "idle"
  BY <1>1 DEF Requested, Becomes
<1>2. CASE at = "fresh"
  BY <1>2 DEF Requested, Becomes
<1> QED BY <1>1, <1>2

\* The table and its ledger.
TableOK ==
    /\ Sound(entries) /\ Limited(entries)
    /\ totalBytes = BytesOf(entries) /\ totalBytes <= MaxTotalBytes

\* What is left of the table is a table, and the ledger follows.
LEMMA KeptOK ==
  ASSUME RegInv, NEW r, Trims(r, entries), Keep(r)
  PROVE  TableOK' /\ entries' = r
BY Kept DEF TableOK

\* One entry is written over, with its key.
LEMMA Overwritten ==
  ASSUME RegInv, NEW i \in 1 .. Len(entries), NEW e \in Entry, e.key = entries[i].key,
         e.state = "running" <=> e.owner = NoTurn,
         entries' = [entries EXCEPT ![i] = e],
         totalBytes' = totalBytes - entries[i].bytes + e.bytes,
         totalBytes' <= MaxTotalBytes
  PROVE  TableOK'
<1>1. Sound(entries) /\ Limited(entries) /\ entries \in Seq(Entry) /\ entries[i] \in Entry
  BY DEF RegInv, Sound
<1>2. /\ entries' \in Seq(Entry) /\ Len(entries') = Len(entries)
      /\ \A j \in 1 .. Len(entries) : j # i => entries'[j] = entries[j]
      /\ entries'[i] = e
  BY <1>1
<1>3. \A j \in 1 .. Len(entries) :
        /\ entries'[j].key = entries[j].key
        /\ entries'[j].state = "running" <=> entries'[j].owner = NoTurn
  BY <1>1, <1>2 DEF Sound
<1>4. Sound(entries') /\ Limited(entries')
  BY <1>1, <1>2, <1>3, Touched
<1>5. BytesOf(entries') = BytesOf(entries) - Bytes[entries[i]] + Bytes[e]
  <2> DEFINE t == entries'
  <2>1. t \in Seq(Entry) /\ Len(t) = Len(entries) /\ t[i] = e
        /\ \A j \in 1 .. Len(entries) : j # i => t[j] = entries[j]
    BY <1>2
  <2> HIDE DEF t
  <2>2. Total(t, Bytes) = Total(entries, Bytes) - Bytes[entries[i]] + Bytes[t[i]]
    BY <1>1, <2>1, BytesType, TotalWritten
  <2> QED BY <2>1, <2>2 DEF BytesOf, t
<1>6. Bytes[entries[i]] = entries[i].bytes /\ Bytes[e] = e.bytes
  BY <1>1, EntryFields
<1>7. totalBytes' = BytesOf(entries')
  BY <1>5, <1>6 DEF RegInv
<1> QED BY <1>4, <1>7 DEF TableOK, Sound, Limited, BytesOf

\* A request claims, drops a dead entry, or starts a turn of its own.
LEMMA ArriveInv ==
  ASSUME RegInv, NEW t \in Turns, NEW k \in DetachKeys, Arrive(t, k)
  PROVE  RegInv'
<1>1. draining' = draining /\ admits' = admits
  BY DEF Arrive
<1>2. CASE Arrives(t, k, "fresh") /\ UNCHANGED <<entries, totalBytes>>
  <2>1. Requested'
    BY <1>2, ArrivesKeyed DEF RegInv, Requested
  <2> QED BY <1>1, <1>2, <2>1 DEF RegInv, Requested, Sound, Limited, BytesOf, OfCallers
<1>3. CASE Arrives(t, k, "fresh") /\ Keep(Without(entries, k))
  <2>1. Requested'
    BY <1>3, ArrivesKeyed DEF RegInv, Requested
  <2>2. Trims(Without(entries, k), entries)
    BY TrimsOnce DEF RegInv, Without
  <2>3. TableOK'
    BY <1>3, <2>2, KeptOK
  <2> QED BY <1>1, <2>1, <2>3 DEF RegInv, Requested, TableOK
<1>4. CASE /\ Arrives(t, k, "resuming") /\ totalBytes' = totalBytes
           /\ \E i \in At(k) :
                /\ entries[i].state = "running" /\ ~Expired(entries[i])
                /\ entries' = [entries EXCEPT ![i].state = "claimed", ![i].owner = t]
  <2>1. Requested'
    BY <1>4, ArrivesKeyed DEF RegInv, Requested
  <2>2. PICK i \in At(k) : entries' = [entries EXCEPT ![i].state = "claimed", ![i].owner = t]
    BY <1>4
  <2> DEFINE e == [entries[i] EXCEPT !.state = "claimed", !.owner = t]
  <2>3. entries \in Seq(Entry) /\ i \in 1 .. Len(entries) /\ entries[i] \in Entry
    BY DEF RegInv, Sound, At
  <2>4. /\ e \in Entry /\ e.key = entries[i].key /\ e.bytes = entries[i].bytes
        /\ e.state = "claimed" /\ e.owner = t
    BY <2>3 DEF Entry
  <2>5. entries' = [entries EXCEPT ![i] = e]
    BY <2>2, <2>3
  <2> HIDE DEF e
  <2>6. entries[i].bytes \in Nat /\ totalBytes \in Nat
    <3>1. BytesOf(entries) \in Nat
      BY TrimSound DEF RegInv
    <3> QED BY <2>3, <3>1, EntryFields DEF RegInv
  <2>7. totalBytes' = totalBytes - entries[i].bytes + e.bytes /\ totalBytes' <= MaxTotalBytes
    BY <1>4, <2>4, <2>6 DEF RegInv
  <2>8. e.state = "running" <=> e.owner = NoTurn
    BY <2>4
  <2>9. TableOK'
    BY <2>3, <2>4, <2>5, <2>7, <2>8, Overwritten
  <2> QED BY <1>1, <2>1, <2>9 DEF RegInv, Requested, TableOK
<1> QED BY <1>2, <1>3, <1>4 DEF Arrive

\* A snapshot joins the table where there is room, or is refused.
LEMMA AdmitInv ==
  ASSUME RegInv, NEW t \in Turns, NEW size \in Sizes, NEW left \in 1 .. MaxLeft,
         Admit(t, size, left)
  PROVE  RegInv'
<1> DEFINE k == keyOf[t]
           a == Admission(k, size)
           e == [key |-> k, bytes |-> size, ttl |-> Ttl, left |-> left,
                 state |-> "running", owner |-> NoTurn]
<1>1. k \in DetachKeys /\ phase[t] # "idle" /\ size \in Nat
  BY DEF Admit, RegInv
<1>2. Promise(k, size, a)
  BY <1>1, AdmissionKeeps
<1>3. /\ entries' = IF a.in THEN Append(a.kept, e) ELSE a.kept
      /\ totalBytes' = LET n == totalBytes - (BytesOf(entries) - BytesOf(a.kept))
                       IN (IF n < 0 THEN 0 ELSE n) + (IF a.in THEN size ELSE 0)
      /\ admits' = admits + 1 /\ admits < MaxAdmits /\ Becomes(t, "idle")
      /\ draining' = draining
  BY DEF Admit
<1>4. e \in Entry /\ e.key = k /\ e.bytes = size /\ e.state = "running" /\ e.owner = NoTurn
  BY <1>1 DEF Entry
<1> HIDE DEF a, e
<1>5. Requested'
  BY <1>1, <1>3, BecomesKeyed DEF RegInv, Requested
<1>6. /\ Sound(a.kept) /\ Limited(a.kept)
      /\ BytesOf(a.kept) \in Nat /\ BytesOf(entries) \in Nat
      /\ BytesOf(a.kept) <= BytesOf(entries)
  BY <1>2, Trimmed DEF Promise, RegInv
<1>7. totalBytes' = BytesOf(a.kept) + (IF a.in THEN size ELSE 0)
  BY <1>3, <1>6 DEF RegInv
<1>8. CASE a.in
  <2>1. /\ \A i \in 1 .. Len(a.kept) : a.kept[i].key # e.key
        /\ Len(a.kept) + 1 <= MaxEntries
        /\ Len(OfCallers(a.kept, {CallerOf[e.key]})) + 1 <= MaxPerCaller
        /\ BytesOf(a.kept) + size <= MaxTotalBytes
    BY <1>2, <1>4, <1>8 DEF Promise
  <2>2. \A c \in CallerKeys : Len(OfCallers(a.kept, {c})) <= MaxPerCaller
    BY <1>6 DEF Limited
  <2>3. /\ Sound(Append(a.kept, e)) /\ Limited(Append(a.kept, e))
        /\ BytesOf(Append(a.kept, e)) = BytesOf(a.kept) + e.bytes
    BY <1>4, <1>6, <2>1, <2>2, Joined
  <2>4. entries' = Append(a.kept, e) /\ totalBytes' = BytesOf(a.kept) + size
    BY <1>3, <1>7, <1>8
  <2>5. TableOK'
    BY <1>4, <2>1, <2>3, <2>4 DEF TableOK, Sound, Limited, BytesOf
  <2> QED BY <1>3, <1>5, <2>5 DEF RegInv, Requested, TableOK
<1>9. CASE ~a.in
  <2>1. entries' = a.kept /\ totalBytes' = BytesOf(a.kept)
    BY <1>3, <1>6, <1>7, <1>9
  <2>2. totalBytes' <= MaxTotalBytes
    BY <1>6, <2>1 DEF RegInv
  <2>3. TableOK'
    BY <1>6, <2>1, <2>2 DEF TableOK, Sound, Limited, BytesOf
  <2> QED BY <1>3, <1>5, <2>3 DEF RegInv, Requested, TableOK
<1> QED BY <1>8, <1>9

\* A claim ends with its entry, if it is still its own.
LEMMA DropOwnOK ==
  ASSUME RegInv, NEW t \in Turns, DropOwn(t)
  PROVE  TableOK' /\ entries' = IF Owns(t) THEN Without(entries, keyOf[t]) ELSE entries
<1> DEFINE r == IF Owns(t) THEN Without(entries, keyOf[t]) ELSE entries
<1>1. Trims(r, entries)
  BY TrimsOnce DEF RegInv, Without
<1>2. Keep(r)
  BY DEF DropOwn
<1> HIDE DEF r
<1>3. TableOK' /\ entries' = r
  BY <1>1, <1>2, KeptOK
<1> QED BY <1>3 DEF r

\* The claim is given back with another snapshot.
LEMMA RedetachInv ==
  ASSUME RegInv, NEW t \in Turns, NEW size \in Sizes, Redetach(t, size)
  PROVE  RegInv'
<1> DEFINE i == CHOOSE j \in At(keyOf[t]) : TRUE
           bytes == totalBytes - entries[i].bytes + size
           e == [entries[i] EXCEPT !.bytes = size, !.state = "running", !.owner = NoTurn]
<1>1. Becomes(t, "idle") /\ phase[t] # "idle" /\ draining' = draining /\ admits' = admits
  BY DEF Redetach
<1>2. Requested'
  BY <1>1, BecomesKeyed DEF RegInv, Requested
<1>3. CASE DropOwn(t)
  BY <1>1, <1>2, <1>3, DropOwnOK DEF RegInv, Requested, TableOK
<1>4. CASE /\ Owns(t) /\ bytes <= MaxTotalBytes
           /\ entries' = [entries EXCEPT ![i].bytes = size, ![i].state = "running",
                                         ![i].owner = NoTurn]
           /\ totalBytes' = bytes
  <2>1. i \in At(keyOf[t])
    BY <1>4 DEF Owns
  <2>2. entries \in Seq(Entry) /\ i \in 1 .. Len(entries) /\ entries[i] \in Entry
    BY <2>1 DEF RegInv, Sound, At
  <2>3. /\ e \in Entry /\ e.key = entries[i].key /\ e.bytes = size
        /\ e.state = "running" /\ e.owner = NoTurn
    BY <2>2 DEF Entry
  <2>4. entries' = [entries EXCEPT ![i] = e]
    <3>1. entries' = [entries EXCEPT ![i].bytes = size, ![i].state = "running",
                                     ![i].owner = NoTurn]
      BY <1>4
    <3> HIDE DEF i
    <3> QED BY <2>2, <3>1
  <2>5. totalBytes' = totalBytes - entries[i].bytes + e.bytes /\ totalBytes' <= MaxTotalBytes
    BY <1>4, <2>3
  <2> HIDE DEF e, i
  <2>6. TableOK'
    BY <2>2, <2>3, <2>4, <2>5, Overwritten
  <2> QED BY <1>1, <1>2, <2>6 DEF RegInv, Requested, TableOK
<1> QED BY <1>3, <1>4 DEF Redetach

\* Time passes for all entries alike.
LEMMA TickInv ==
  ASSUME RegInv, Tick
  PROVE  /\ RegInv'
         /\ Len(entries') = Len(entries)
         /\ \A j \in 1 .. Len(entries) :
               /\ entries'[j].key = entries[j].key /\ entries'[j].state = entries[j].state
               /\ entries'[j].owner = entries[j].owner
<1> DEFINE t == [i \in DOMAIN entries |->
                   [entries[i] EXCEPT !.ttl = IF @ > 0 THEN @ - 1 ELSE 0,
                                      !.left = IF @ > 0 THEN @ - 1 ELSE 0]]
<1>1. entries \in Seq(Entry) /\ \A j \in 1 .. Len(entries) : entries[j] \in Entry
  BY DEF RegInv, Sound
<1>2. entries' = t /\ UNCHANGED <<totalBytes, draining, phase, keyOf, admits>>
  BY <1>1 DEF Tick
<1>3. ASSUME NEW j \in 1 .. Len(entries)
      PROVE  /\ t[j] \in Entry /\ t[j].key = entries[j].key /\ t[j].bytes = entries[j].bytes
             /\ t[j].state = entries[j].state /\ t[j].owner = entries[j].owner
  <2>1. entries[j] \in Entry
    BY <1>1
  <2>2. entries[j].ttl \in 0 .. Ttl /\ entries[j].left \in 0 .. MaxLeft
    BY <2>1, EntryFields
  <2> DEFINE x == IF entries[j].ttl > 0 THEN entries[j].ttl - 1 ELSE 0
             y == IF entries[j].left > 0 THEN entries[j].left - 1 ELSE 0
  <2>3. x \in 0 .. Ttl /\ y \in 0 .. MaxLeft
    BY <2>2
  <2>4. t[j] = [entries[j] EXCEPT !.ttl = x, !.left = y]
    <3>1. j \in DOMAIN entries
      BY <1>1
    <3> QED BY <2>1, <3>1 DEF Entry
  <2> HIDE DEF x, y, t
  <2> QED BY <2>1, <2>3, <2>4 DEF Entry
<1>4. t \in Seq(Entry) /\ Len(t) = Len(entries)
  <2>1. t = [i \in 1 .. Len(entries) |-> t[i]]
    BY <1>1
  <2> HIDE DEF t
  <2>2. Len(entries) \in Nat /\ \A j \in 1 .. Len(entries) : t[j] \in Entry
    BY <1>1, <1>3
  <2>3. t \in [1 .. Len(entries) -> Entry]
    BY <2>1, <2>2
  <2> QED BY <2>2, <2>3
<1> HIDE DEF t
<1>5. Sound(t) /\ Limited(t)
  <2>1. Sound(entries) /\ Limited(entries)
    BY DEF RegInv
  <2>2. \A i \in 1 .. Len(entries) :
          t[i].key = entries[i].key /\ (t[i].state = "running" <=> t[i].owner = NoTurn)
    BY <1>3, <2>1 DEF Sound
  <2> QED BY <1>4, <2>1, <2>2, Touched
<1>6. BytesOf(t) = BytesOf(entries)
  <2>1. \A i \in 1 .. Len(entries) : Bytes[entries[i]] = Bytes[t[i]]
    BY <1>1, <1>3, EntryFields
  <2> QED BY <1>1, <1>4, <2>1, BytesType, TotalSame DEF BytesOf
<1>7. RegInv'
  BY <1>2, <1>5, <1>6 DEF RegInv, Sound, Limited, BytesOf
<1> QED BY <1>2, <1>3, <1>4, <1>7

\* Every operation keeps the invariant.
LEMMA NextInv ==
  ASSUME RegInv, [RegNext]_regVars
  PROVE  RegInv'
<1>0. Requested
  BY DEF RegInv, Requested
<1>1. ASSUME NEW t \in Turns, NEW k \in DetachKeys, Arrive(t, k) PROVE RegInv'
  BY <1>1, ArriveInv
<1>2. ASSUME NEW t \in Turns, NEW size \in Sizes, NEW left \in 1 .. MaxLeft,
             Admit(t, size, left)
      PROVE  RegInv'
  BY <1>2, AdmitInv
<1>3. ASSUME NEW t \in Turns, Finish(t) PROVE RegInv'
  <2>1. Requested'
    BY <1>0, <1>3, BecomesKeyed DEF Finish
  <2> QED BY <1>3, <2>1 DEF Finish, RegInv, Requested, Sound, Limited, BytesOf, OfCallers
<1>4. ASSUME NEW t \in Turns, Serve(t) \/ Abandon(t) PROVE RegInv'
  <2>1. /\ phase[t] # "idle" /\ DropOwn(t) /\ draining' = draining /\ admits' = admits
        /\ Becomes(t, "idle") \/ Becomes(t, "fresh")
    BY <1>4 DEF Serve, Abandon
  <2>2. Requested'
    BY <1>0, <2>1, BecomesKeyed
  <2>3. TableOK'
    BY <2>1, DropOwnOK
  <2> QED BY <2>1, <2>2, <2>3 DEF RegInv, Requested, TableOK
<1>5. ASSUME NEW t \in Turns, NEW size \in Sizes, Redetach(t, size) PROVE RegInv'
  BY <1>5, RedetachInv
<1>6. ASSUME NEW r, Trims(r, entries), Keep(r), draining' \in BOOLEAN,
             UNCHANGED <<phase, keyOf, admits>>
      PROVE  RegInv'
  <2>1. TableOK'
    BY <1>6, KeptOK
  <2> QED BY <1>6, <2>1 DEF RegInv, TableOK
<1>7. ASSUME NEW k \in DetachKeys, Timer(k) PROVE RegInv'
  <2>1. Trims(Without(entries, k), entries)
    BY TrimsOnce DEF RegInv, Without
  <2> QED BY <1>6, <1>7, <2>1 DEF Timer, RegInv
<1>8. ASSUME NEW keys, EvictForAccount(keys) PROVE RegInv'
  <2>1. Trims(OnlyOf(entries, {e \in Entry : e.key \notin keys}), entries)
    BY TrimsOnce DEF RegInv
  <2> QED BY <1>6, <1>8, <2>1 DEF EvictForAccount, RegInv
<1>9. CASE BeginDrain
  <2>1. OnlyOf(entries, {}) = <<>>
    <3>1. entries \in Seq(Entry)
      BY DEF RegInv, Sound
    <3>2. OnlyOf(entries, {}) \in Seq(Entry)
      BY <3>1, OnlyOfIn
    <3>3. \A i \in 1 .. Len(OnlyOf(entries, {})) : FALSE
      BY <3>1, OnlyOfEntries
    <3> QED BY <3>2, <3>3
  <2>2. Trims(<<>>, entries)
    BY <2>1 DEF Trims
  <2> QED BY <1>6, <1>9, <2>2 DEF BeginDrain
<1>10. CASE Tick
  BY <1>10, TickInv
<1>11. CASE UNCHANGED regVars
  BY <1>11 DEF regVars, RegInv, Sound, Limited, BytesOf, OfCallers
<1> QED BY <1>1, <1>2, <1>3, <1>4, <1>5, <1>7, <1>8, <1>9, <1>10, <1>11 DEF RegNext

\* The empty table has it.
LEMMA InitInv == RegInit => RegInv
<1> SUFFICES ASSUME RegInit PROVE RegInv
  OBVIOUS
<1>1. entries = <<>> /\ <<>> \in Seq(Entry) /\ Len(<<>>) = 0
  BY DEF RegInit
<1>2. BytesOf(<<>>) = 0
  BY BytesType, TotalEmpty DEF BytesOf
<1>3. \A c \in CallerKeys : OfCallers(<<>>, {c}) = <<>>
  BY OnlyOfEmpty DEF OfCallers
<1>4. Sound(<<>>)
  BY <1>1 DEF Sound, Apart
<1>5. Limited(<<>>)
  BY <1>1, <1>3 DEF Limited
<1>6. Sound(entries) /\ Limited(entries) /\ totalBytes = BytesOf(entries)
  BY <1>1, <1>2, <1>4, <1>5 DEF RegInit
<1>7. totalBytes <= MaxTotalBytes /\ admits \in 0 .. MaxAdmits /\ draining \in BOOLEAN
  <2>1. totalBytes = 0 /\ admits = 0
    BY DEF RegInit
  <2>2. totalBytes <= MaxTotalBytes
    BY <2>1
  <2>3. admits \in 0 .. MaxAdmits
    BY <2>1
  <2>4. draining \in BOOLEAN
    BY DEF RegInit
  <2> QED BY <2>2, <2>3, <2>4
<1>8. /\ phase \in [Turns -> {"idle", "fresh", "resuming"}]
      /\ keyOf \in [Turns -> DetachKeys \cup {NoDetachKey}]
      /\ \A t \in Turns : phase[t] = "idle"
  BY DEF RegInit
<1> QED BY <1>6, <1>7, <1>8 DEF RegInv

\* The ledger of what is frozen is exact, and neither the table, a caller nor
\* the bytes exceed their caps, whatever is claimed, swept or evicted.
THEOREM RegistryLimits == RegSpec => []LimitsHold
<1>1. RegInv => LimitsHold
  BY DEF RegInv, LimitsHold, BytesExact, WithinLimits, Limited
<1> QED BY <1>1, InitInv, NextInv, PTL DEF RegSpec

\* The table is well typed, with one entry for each key, and who holds a token
\* holds a claimed entry.
THEOREM RegistryTyped == RegSpec => []RegistryTypeOK
<1>1. ASSUME RegInv PROVE RegistryTypeOK
  <2>1. entries \in Seq(Entry) /\ DOMAIN entries = 1 .. Len(entries) /\ Sound(entries)
    BY <1>1 DEF RegInv, Sound
  <2>2. \A i, j \in DOMAIN entries : entries[i].key = entries[j].key => i = j
    BY <2>1, SoundApart
  <2>3. totalBytes \in Nat
    BY <1>1, TrimSound DEF RegInv
  <2> QED BY <1>1, <2>1, <2>2, <2>3 DEF RegInv, RegistryTypeOK, Sound
<1> QED BY <1>1, InitInv, NextInv, PTL DEF RegSpec

-----------------------------------------------------------------------------
\* A claim that has time left, of a request that goes on.
Holds(t) ==
    /\ phase[t] = "resuming" /\ keyOf[t] \in DetachKeys
    /\ \E i \in 1 .. Len(entries) :
          /\ entries[i].key = keyOf[t] /\ entries[i].state = "claimed"
          /\ entries[i].owner = t /\ ~Expired(entries[i])

\* The token of a live entry is such a claim.
LEMMA OwnerHolds ==
  ASSUME RegInv, NEW t \in Turns, phase[t] = "resuming", Owns(t), Live(keyOf[t])
  PROVE  Holds(t)
<1>1. PICK i \in 1 .. Len(entries) :
        entries[i].key = keyOf[t] /\ entries[i].state = "claimed" /\ entries[i].owner = t
  BY DEF Owns, At, RegInv, Sound
<1>2. PICK j \in 1 .. Len(entries) : entries[j].key = keyOf[t] /\ entries[j].left > 0
  BY DEF Live, At, RegInv, Sound
<1>3. i = j
  BY <1>1, <1>2, SoundApart DEF RegInv
<1>4. entries[i] \in Entry
  BY DEF RegInv, Sound
<1>5. entries[i].left \in 0 .. MaxLeft
  BY <1>4, EntryFields
<1> QED BY <1>1, <1>2, <1>3, <1>5 DEF Holds, Expired, RegInv

\* The claim is still there when its entry is, under the same key.
LEMMA StillOwns ==
  ASSUME NEW t \in Turns, entries' \in Seq(Entry), keyOf'[t] = keyOf[t],
         \E j \in 1 .. Len(entries') :
            /\ entries'[j].key = keyOf[t] /\ entries'[j].state = "claimed"
            /\ entries'[j].owner = t
  PROVE  Owns(t)'
BY DEF Owns, At

\* A step that keeps the entry of the claim keeps the claim.
LEMMA KeptClaim ==
  ASSUME RegInv, NEW t \in Turns, Holds(t), NEW T, keyOf'[t] = keyOf[t],
         entries' = OnlyOf(entries, T),
         \A i \in 1 .. Len(entries) :
            entries[i].key = keyOf[t] /\ entries[i].state = "claimed" /\ entries[i].owner = t
            /\ ~Expired(entries[i]) => entries[i] \in T
  PROVE  Owns(t)'
<1>1. entries \in Seq(Entry)
  BY DEF RegInv, Sound
<1>2. PICK i \in 1 .. Len(entries) :
        /\ entries[i].key = keyOf[t] /\ entries[i].state = "claimed"
        /\ entries[i].owner = t /\ ~Expired(entries[i])
  BY DEF Holds
<1>3. \E j \in 1 .. Len(OnlyOf(entries, T)) : OnlyOf(entries, T)[j] = entries[i]
  BY <1>1, <1>2, Stays
<1>4. entries' \in Seq(Entry)
  BY <1>1, OnlyOfIn
<1> QED BY <1>2, <1>3, <1>4, StillOwns

\* Another request's own claim is of another entry.
LEMMA OneOwner ==
  ASSUME RegInv, NEW t \in Turns, Holds(t), NEW u \in Turns, u # t, Owns(u)
  PROVE  keyOf[u] # keyOf[t]
<1>1. PICK i \in 1 .. Len(entries) : entries[i].key = keyOf[t] /\ entries[i].owner = t
  BY DEF Holds
<1>2. PICK j \in 1 .. Len(entries) : entries[j].key = keyOf[u] /\ entries[j].owner = u
  BY DEF Owns, At, RegInv, Sound
<1> QED BY <1>1, <1>2, SoundApart DEF RegInv

\* What another request drops by its token is not the entry of the claim.
LEMMA DroppedByOther ==
  ASSUME RegInv, NEW t \in Turns, Holds(t), NEW u \in Turns, u # t, DropOwn(u),
         keyOf'[t] = keyOf[t]
  PROVE  Owns(t)'
<1>1. entries' = IF Owns(u) THEN Without(entries, keyOf[u]) ELSE entries
  BY DropOwnOK
<1>2. entries \in Seq(Entry) /\ \A i \in 1 .. Len(entries) : entries[i] \in Entry
  BY DEF RegInv, Sound
<1>3. CASE Owns(u)
  <2> DEFINE T == {e \in Entry : e.key # keyOf[u]}
  <2>1. entries' = OnlyOf(entries, T)
    BY <1>1, <1>3 DEF Without
  <2>2. keyOf[u] # keyOf[t]
    BY <1>3, OneOwner
  <2>3. \A i \in 1 .. Len(entries) : entries[i].key = keyOf[t] => entries[i] \in T
    BY <1>2, <2>2
  <2> HIDE DEF T
  <2> QED BY <2>1, <2>3, KeptClaim
<1>4. CASE ~Owns(u)
  BY <1>1, <1>2, <1>4, StillOwns DEF Holds
<1> QED BY <1>3, <1>4

\* No step but a drain or the removal of an account ends a claim.
LEMMA ClaimStep ==
  ASSUME RegInv, RegNext, NEW t \in Turns,
         phase[t] = "resuming", phase'[t] = "resuming", Owns(t), Live(keyOf[t]),
         draining' = draining, ~\E keys \in SUBSET DetachKeys : EvictForAccount(keys)
  PROVE  Owns(t)'
<1>h. Holds(t)
  BY OwnerHolds
<1>e. entries \in Seq(Entry) /\ \A i \in 1 .. Len(entries) : entries[i] \in Entry
  BY DEF RegInv, Sound
<1>d. DOMAIN entries = 1 .. Len(entries)
  BY <1>e
<1>p. phase \in [Turns -> {"idle", "fresh", "resuming"}]
      /\ keyOf \in [Turns -> DetachKeys \cup {NoDetachKey}]
  BY DEF RegInv
<1>c. PICK c \in 1 .. Len(entries) :
        /\ entries[c].key = keyOf[t] /\ entries[c].state = "claimed"
        /\ entries[c].owner = t /\ ~Expired(entries[c])
  BY <1>h DEF Holds
<1>u. \A i \in 1 .. Len(entries) : entries[i].key = keyOf[t] => i = c
  BY <1>c, SoundApart DEF RegInv
<1>1. ASSUME NEW u \in Turns, NEW k \in DetachKeys, Arrive(u, k) PROVE Owns(t)'
  <2>1. u # t /\ keyOf'[t] = keyOf[t]
    BY <1>1, <1>p DEF Arrive, Arrives
  <2>2. CASE entries' = entries
    BY <1>c, <1>e, <2>1, <2>2, StillOwns
  <2>3. CASE /\ \E i \in At(k) : Expired(entries[i]) \/ entries[i].state = "running"
             /\ entries' = Without(entries, k)
    <3> DEFINE T == {e \in Entry : e.key # k}
    <3>1. entries' = OnlyOf(entries, T)
      BY <2>3 DEF Without
    <3>2. k # keyOf[t]
      BY <1>c, <1>d, <1>u, <2>3 DEF At
    <3>3. \A i \in 1 .. Len(entries) : entries[i].key = keyOf[t] => entries[i] \in T
      BY <1>e, <3>2
    <3> HIDE DEF T
    <3> QED BY <1>h, <2>1, <3>1, <3>3, KeptClaim
  <2>4. CASE \E i \in At(k) :
               /\ entries[i].state = "running" /\ ~Expired(entries[i])
               /\ entries' = [entries EXCEPT ![i].state = "claimed", ![i].owner = u]
    <3>1. PICK i \in At(k) :
            /\ entries[i].state = "running"
            /\ entries' = [entries EXCEPT ![i].state = "claimed", ![i].owner = u]
      BY <2>4
    <3>2. i # c /\ i \in 1 .. Len(entries)
      BY <1>c, <1>d, <3>1 DEF At
    <3>3. Len(entries') = Len(entries) /\ entries'[c] = entries[c]
      BY <1>e, <3>1, <3>2
    <3>4. entries' \in Seq(Entry)
      BY <1>1, ArriveInv DEF RegInv, Sound
    <3> QED BY <1>c, <2>1, <3>3, <3>4, StillOwns
  <2> QED BY <1>1, <2>2, <2>3, <2>4 DEF Arrive, Keep
<1>2. ASSUME NEW u \in Turns, NEW size \in Sizes, NEW left \in 1 .. MaxLeft, Admit(u, size, left)
      PROVE  Owns(t)'
  <2> DEFINE a == Admission(keyOf[u], size)
             e == [key |-> keyOf[u], bytes |-> size, ttl |-> Ttl, left |-> left,
                   state |-> "running", owner |-> NoTurn]
  <2>1. u # t /\ keyOf'[t] = keyOf[t] /\ keyOf[u] \in DetachKeys
    BY <1>2, <1>p DEF Admit, Becomes, RegInv
  <2>2. Promise(keyOf[u], size, a)
    BY <2>1, AdmissionKeeps
  <2>3. entries' = IF a.in THEN Append(a.kept, e) ELSE a.kept
    BY <1>2 DEF Admit
  <2>4. entries' \in Seq(Entry)
    BY <1>2, AdmitInv DEF RegInv, Sound
  <2> HIDE DEF a, e
  <2>5. a.kept \in Seq(Entry)
    <3>1. PICK T : a.kept = OnlyOf(entries, T)
      BY <2>2 DEF Promise, Trims
    <3> QED BY <1>e, <3>1, OnlyOfIn
  <2>6. PICK j \in 1 .. Len(a.kept) : a.kept[j] = entries[c]
    BY <1>c, <2>2 DEF Promise
  <2>7. j \in 1 .. Len(entries') /\ entries'[j] = entries[c]
    BY <2>3, <2>5, <2>6
  <2> QED BY <1>c, <2>1, <2>4, <2>7, StillOwns
<1>3. ASSUME NEW u \in Turns, Finish(u) \/ Serve(u) \/ Abandon(u) PROVE Owns(t)'
  <2>1. CASE u = t
    BY <1>3, <1>p, <2>1 DEF Finish, Serve, Abandon, Becomes
  <2>2. CASE u # t
    <3>1. keyOf'[t] = keyOf[t]
      BY <1>3, <1>p, <2>2 DEF Finish, Serve, Abandon, Becomes
    <3>2. CASE Finish(u)
      BY <1>c, <1>e, <3>1, <3>2, StillOwns DEF Finish
    <3>3. CASE DropOwn(u)
      BY <1>h, <2>2, <3>1, <3>3, DroppedByOther
    <3> QED BY <1>3, <3>2, <3>3 DEF Serve, Abandon
  <2> QED BY <2>1, <2>2
<1>4. ASSUME NEW u \in Turns, NEW size \in Sizes, Redetach(u, size) PROVE Owns(t)'
  <2>1. u # t /\ keyOf'[t] = keyOf[t]
    BY <1>4, <1>p DEF Redetach, Becomes
  <2>2. CASE DropOwn(u)
    BY <1>h, <2>1, <2>2, DroppedByOther
  <2>3. CASE Owns(u) /\ \E i \in At(keyOf[u]) :
               entries' = [entries EXCEPT ![i].bytes = size, ![i].state = "running",
                                          ![i].owner = NoTurn]
    <3>1. PICK i \in At(keyOf[u]) :
            entries' = [entries EXCEPT ![i].bytes = size, ![i].state = "running",
                                       ![i].owner = NoTurn]
      BY <2>3
    <3>2. keyOf[u] # keyOf[t]
      BY <1>h, <2>1, <2>3, OneOwner
    <3>3. i # c /\ i \in 1 .. Len(entries)
      BY <1>c, <1>d, <3>1, <3>2 DEF At
    <3>4. Len(entries') = Len(entries) /\ entries'[c] = entries[c]
      BY <1>e, <3>1, <3>3
    <3>5. entries' \in Seq(Entry)
      BY <1>4, RedetachInv DEF RegInv, Sound
    <3> QED BY <1>c, <2>1, <3>4, <3>5, StillOwns
  <2> QED BY <1>4, <2>2, <2>3 DEF Redetach, Owns
<1>5. ASSUME NEW k \in DetachKeys, Timer(k) PROVE Owns(t)'
  <2> DEFINE T == {e \in Entry : e.key # k}
  <2>1. entries' = OnlyOf(entries, T) /\ keyOf'[t] = keyOf[t]
    BY <1>5 DEF Timer, Keep, Without
  <2>2. k # keyOf[t]
    BY <1>5, <1>c, <1>d, <1>u DEF Timer, At
  <2>3. \A i \in 1 .. Len(entries) : entries[i].key = keyOf[t] => entries[i] \in T
    BY <1>e, <2>2
  <2> HIDE DEF T
  <2> QED BY <1>h, <2>1, <2>3, KeptClaim
<1>6. CASE Tick
  <2>1. /\ RegInv' /\ Len(entries') = Len(entries)
        /\ entries'[c].key = entries[c].key /\ entries'[c].state = entries[c].state
        /\ entries'[c].owner = entries[c].owner
    BY <1>6, TickInv
  <2>2. entries' \in Seq(Entry) /\ keyOf'[t] = keyOf[t]
    BY <1>6, <2>1 DEF RegInv, Sound, Tick
  <2> QED BY <1>c, <2>1, <2>2, StillOwns
<1>7. ~BeginDrain
  BY DEF BeginDrain, RegInv
<1> QED BY <1>1, <1>2, <1>3, <1>4, <1>5, <1>6, <1>7 DEF RegNext

\* An admission that ends without an entry leaves a live one of each key it
\* had.
LEMMA RefusalStep ==
  ASSUME RegInv, RegNext, NEW t \in Turns,
         phase[t] = "fresh", admits' # admits, phase'[t] = "idle",
         ~\E i \in DOMAIN entries' : entries'[i].key = keyOf[t] /\ entries'[i].ttl = Ttl
                                      /\ entries'[i].state = "running",
         NEW k \in DetachKeys, Live(k)
  PROVE  \E i \in DOMAIN entries' : entries'[i].key = k
<1>e. entries \in Seq(Entry) /\ \A i \in 1 .. Len(entries) : entries[i] \in Entry
  BY DEF RegInv, Sound
<1>1. PICK u \in Turns, size \in Sizes, left \in 1 .. MaxLeft : Admit(u, size, left)
  BY DEF RegNext, Arrive, Finish, Serve, Abandon, Redetach, Timer, EvictForAccount,
         BeginDrain, Tick
<1>2. u = t /\ keyOf[t] \in DetachKeys
  BY <1>1 DEF Admit, Becomes, RegInv
<1> DEFINE a == Admission(keyOf[t], size)
           e == [key |-> keyOf[t], bytes |-> size, ttl |-> Ttl, left |-> left,
                 state |-> "running", owner |-> NoTurn]
<1>3. Promise(keyOf[t], size, a)
  BY <1>2, AdmissionKeeps
<1>4. entries' = IF a.in THEN Append(a.kept, e) ELSE a.kept
  BY <1>1, <1>2 DEF Admit
<1>5. e.key = keyOf[t] /\ e.ttl = Ttl /\ e.state = "running"
  OBVIOUS
<1>6. a.kept \in Seq(Entry)
  <2> HIDE DEF a
  <2>1. PICK T : a.kept = OnlyOf(entries, T)
    BY <1>3 DEF Promise, Trims
  <2> QED BY <1>e, <2>1, OnlyOfIn
<1> HIDE DEF a, e
<1>7. ~a.in
  <2> SUFFICES ASSUME a.in PROVE FALSE
    OBVIOUS
  <2>1. entries' = Append(a.kept, e)
    BY <1>4
  <2>2. Len(a.kept) + 1 \in DOMAIN entries' /\ entries'[Len(a.kept) + 1] = e
    BY <1>6, <2>1
  <2> QED BY <1>5, <2>2
<1>8. PICK i \in 1 .. Len(entries) :
        /\ entries[i].key = k /\ entries[i].left > 0
        /\ entries[i].state = "claimed" \/ entries[i].ttl > 0
  BY <1>e DEF Live, At
<1>9. ~Expired(entries[i])
  <2>1. entries[i].left \in 0 .. MaxLeft /\ entries[i].ttl \in 0 .. Ttl
        /\ entries[i].state \in {"running", "claimed"}
    BY <1>e, EntryFields
  <2> QED BY <1>8, <2>1 DEF Expired
<1>10. PICK j \in 1 .. Len(a.kept) : a.kept[j] = entries[i]
  BY <1>3, <1>7, <1>9 DEF Promise
<1> QED BY <1>4, <1>6, <1>7, <1>8, <1>10

\* A request without a claim ends without a change of the table.
LEMMA StaleStep ==
  ASSUME RegInv, RegNext, NEW t \in Turns, phase[t] = "resuming", phase'[t] # "resuming",
         \A i \in At(keyOf[t]) : entries[i].owner # t
  PROVE  entries' = entries
<1>1. ~Owns(t)
  BY DEF Owns
<1>2. CASE DropOwn(t)
  BY <1>1, <1>2 DEF DropOwn, Keep
<1>3. phase \in [Turns -> {"idle", "fresh", "resuming"}]
  BY DEF RegInv
<1>4. ASSUME NEW u \in Turns, u # t, NEW at, phase' = [phase EXCEPT ![u] = at] PROVE FALSE
  BY <1>3, <1>4
<1>5. ASSUME NEW u \in Turns, NEW k \in DetachKeys, Arrive(u, k) PROVE FALSE
  BY <1>3, <1>5 DEF Arrive, Arrives
<1>6. ASSUME NEW u \in Turns, NEW size \in Sizes, NEW left \in 1 .. MaxLeft, Admit(u, size, left)
      PROVE  FALSE
  BY <1>3, <1>6 DEF Admit, Becomes
<1>7. ASSUME NEW u \in Turns, Finish(u) \/ Serve(u) \/ Abandon(u) PROVE entries' = entries
  <2>1. CASE u = t
    BY <1>2, <1>7, <2>1 DEF Finish, Serve, Abandon
  <2>2. CASE u # t
    BY <1>3, <1>7, <2>2 DEF Finish, Serve, Abandon, Becomes
  <2> QED BY <2>1, <2>2
<1>8. ASSUME NEW u \in Turns, NEW size \in Sizes, Redetach(u, size) PROVE entries' = entries
  <2>1. CASE u = t
    BY <1>1, <1>2, <1>8, <2>1 DEF Redetach
  <2>2. CASE u # t
    BY <1>3, <1>8, <2>2 DEF Redetach, Becomes
  <2> QED BY <2>1, <2>2
<1> QED BY <1>5, <1>6, <1>7, <1>8 DEF RegNext, Timer, EvictForAccount, BeginDrain, Tick

\* A refused admission costs nobody an entry that is worth something, a claim
\* lasts until its deadline unless its account is removed or the server drains,
\* and a request that lost its claim leaves the table alone.
THEOREM RegistryOthersUntouched == RegSpec => OthersUntouched
<1>1. ASSUME RegInv, [RegNext]_regVars
      PROVE  [\A t \in Turns :
                (phase[t] = "fresh" /\ admits' # admits /\ phase'[t] = "idle"
                   /\ ~\E i \in DOMAIN entries' :
                         entries'[i].key = keyOf[t] /\ entries'[i].ttl = Ttl
                         /\ entries'[i].state = "running")
                => \A k \in DetachKeys : Live(k) =>
                      \E i \in DOMAIN entries' : entries'[i].key = k]_regVars
  BY <1>1, RefusalStep
<1>2. ASSUME RegInv, [RegNext]_regVars
      PROVE  [\A t \in Turns :
                (phase[t] = "resuming" /\ phase'[t] = "resuming" /\ Owns(t) /\ Live(keyOf[t]))
                => \/ Owns(t)' \/ draining' # draining
                   \/ \E keys \in SUBSET DetachKeys : EvictForAccount(keys)]_regVars
  BY <1>2, ClaimStep
<1>3. ASSUME RegInv, [RegNext]_regVars
      PROVE  [\A t \in Turns :
                (phase[t] = "resuming" /\ phase'[t] # "resuming"
                   /\ \A i \in At(keyOf[t]) : entries[i].owner # t)
                => entries' = entries]_regVars
  BY <1>3, StaleStep
<1> QED BY <1>1, <1>2, <1>3, InitInv, NextInv, PTL
        DEF RegSpec, OthersUntouched, RefusalIsPure, ClaimIsSafe, StaleOwnerHarmless
-----------------------------------------------------------------------------
\* The answer of one turn.
USE PollAssumption

\* A step as it was read.
Batch == [at : Indices, step : Step]

PollState ==
    [pc : {"send", "top", "consume", "status", "sweep", "ended"},
     retries : Nat, resumes : Nat, floor : Nat, offset : Nat, consumed : Nat,
     window : Nat, next : Int, todo : Seq(Batch), final : BOOLEAN,
     cursor : [Indices -> Nat], chunks : SUBSET (Indices \X Nat), yielded : BOOLEAN,
     sawActive : BOOLEAN, sawText : BOOLEAN, wasIdle : BOOLEAN, idles : Nat,
     pending : BOOLEAN, early : BOOLEAN,
     end : {"none", "aborted", "error", "max_wait", "stall_warm", "native_tool_call",
            "idle_done", "idle_empty"}]

\* The upstream in one value, so that facts of it can be stated for two states.
Planned == [steps |-> steps, status |-> status, prior |-> prior]

\* The step that the next read begins behind.
Win(p) == IF p.offset - Overlap > p.floor THEN p.offset - Overlap ELSE p.floor

\* How much of a step there is to give.
Full(e) == e.raw + (IF e.mod = "extends" THEN 1 ELSE 0)

\* The steps of this turn.
OfTurn(u) == u.prior + 1 .. Len(u.steps)

UpOK(u) ==
    /\ u.steps \in Seq(Step) /\ u.prior \in 0 .. Len(u.steps) /\ Len(u.steps) <= MaxSteps
    /\ u.status \in {"new", "active", "idle"}
    /\ \A i \in OfTurn(u) : /\ u.steps[i].raw > 0 => u.steps[i].kind = "text"
                            /\ u.status # "idle" => u.steps[i].mod = "none"

\* What step i says waits in the batch.
Waits(p, i, u) ==
    \E j \in 1 .. Len(p.todo) : p.todo[j].at = i /\ p.todo[j].step.raw >= u.steps[i].raw

\* It is given.
IsGiven(p, i, u) == p.cursor[i] >= u.steps[i].raw

\* What is given of a step was said by it.
CursorOK(c, u) == \A i \in Indices : c[i] > 0 => i \in OfTurn(u) /\ c[i] <= Full(u.steps[i])

Given(c) == {x \in Indices \X Nat : x[2] \in 1 .. c[x[1]]}

\* A batch ends with the last step that was counted, and holds what the steps
\* were when it was read.
EntryOK(e, u) ==
    /\ e.at \in OfTurn(u) /\ e.step.kind = u.steps[e.at].kind
    /\ e.step.raw <= u.steps[e.at].raw /\ Full(e.step) <= Full(u.steps[e.at])
TodoOK(p, u) ==
    /\ p.pc # "consume" => p.todo = <<>>
    /\ \A j \in 1 .. Len(p.todo) :
          p.todo[j].at = p.offset - Len(p.todo) + j /\ EntryOK(p.todo[j], u)

\* The positions of a turn.
PlacesOK(p, u) ==
    /\ p.floor = u.prior /\ p.offset \in u.prior .. Len(u.steps) /\ p.consumed \in 0 .. p.offset
    /\ p.window \in u.prior .. Win(p) /\ p.next \in {-1, Win(p)}

\* Nothing behind the window is missing, unless it waits in a batch that was not
\* consumed: a snapshot is not taken then.
Behind(p, u) ==
    \A i \in u.prior + 1 .. Win(p) :
        IsGiven(p, i, u) \/ (p.consumed < p.offset /\ Waits(p, i, u))

\* The sweep misses nothing at all.
SweepOK(p, u) ==
    /\ p.pc = "sweep" /\ ~p.early => u.status = "idle"
    /\ p.pc = "consume" /\ p.final /\ ~p.early =>
          u.status = "idle" /\ \A i \in OfTurn(u) : IsGiven(p, i, u) \/ Waits(p, i, u)

\* A turn that is polling, or could go on.
Going(p, u) ==
    /\ p \in PollState /\ p.pc \in {"top", "consume", "status", "sweep"} /\ p.end = "none"
    /\ PlacesOK(p, u)
    /\ CursorOK(p.cursor, u) /\ p.chunks = Given(p.cursor) /\ (p.yielded \/ p.chunks = {})
    /\ TodoOK(p, u) /\ Behind(p, u) /\ SweepOK(p, u)
    /\ p.pending => p.pc = "top"

\* Nothing was sent upstream yet.
Unsent ==
    /\ poll \in {[Start EXCEPT !.offset = prior, !.retries = n] : n \in Nat}
    /\ Len(steps) = prior /\ client.sent = {} /\ frozen = <<>>

OnTheWay ==
    /\ Going(poll, Planned) /\ frozen = <<>>
    /\ client.sent = IF poll.pending THEN {} ELSE poll.chunks

\* What may be frozen can go on.
FrozenOK == frozen = <<>> \/ \E q : frozen = <<q>> /\ Going(q, Planned) /\ q.pending

\* A turn that is over, and what its client has.
WholeThen  == poll.end = "idle_done" /\ ~poll.early => status = "idle" /\ Said(0) \subseteq client.sent
Over ==
    /\ poll \in PollState /\ poll.pc = "ended"
    /\ client.sent \subseteq Said(1) \cup Calls
    /\ WholeThen /\ (Kind = "empty" => client.sent = {})
    /\ FrozenOK

PollInv ==
    /\ UpOK(Planned) /\ ~client.again
    /\ client \in [sent : SUBSET (Indices \X Nat), again : BOOLEAN, gone : BOOLEAN]
    /\ Unsent \/ OnTheWay \/ Over

-----------------------------------------------------------------------------
\* A fresh turn, with nothing given.
LEMMA StartIs ==
  /\ Start \in PollState /\ Start.pc = "send" /\ Start.chunks = {} /\ Start.todo = <<>>
  /\ Start.floor = 0 /\ Start.next = -1 /\ Start.end = "none" /\ Start.retries = 0 /\ ~Start.yielded /\ ~Start.pending
  /\ \A i \in Indices : Start.cursor[i] = 0
BY DEF Start, PollState

\* No cursor has moved, so nothing is given.
LEMMA NothingGiven ==
  ASSUME NEW c \in [Indices -> Nat], \A i \in Indices : c[i] = 0
  PROVE  Given(c) = {}
BY DEF Given

\* What a step has to give: its text, or one piece more.
LEMMA FullIs ==
  ASSUME NEW e \in Step
  PROVE  /\ e.raw \in 0 .. MaxRaw /\ e.raw \in Nat /\ Full(e) \in Nat
         /\ Full(e) >= e.raw /\ Full(e) <= e.raw + 1
         /\ e.mod = "none" => Full(e) = e.raw
<1>1. e.raw \in 0 .. MaxRaw /\ e.raw \in Nat
  BY DEF Step
<1>2. CASE e.mod = "extends"
  BY <1>1, <1>2 DEF Full
<1>3. CASE e.mod # "extends"
  BY <1>1, <1>3 DEF Full
<1> QED BY <1>2, <1>3

\* The numbers of a turn.
LEMMA NumbersOf ==
  ASSUME NEW u, UpOK(u), NEW p, Going(p, u)
  PROVE  /\ p \in PollState /\ PlacesOK(p, u)
         /\ p.offset \in Nat /\ p.floor \in Nat /\ p.consumed \in Nat /\ p.window \in Nat
         /\ Win(p) \in Nat /\ Win(p) >= u.prior
         /\ Win(p) <= p.offset /\ (Win(p) = u.prior \/ Win(p) = p.offset - Overlap)
         /\ u.prior \in Nat /\ Len(u.steps) \in Nat /\ u.prior <= Len(u.steps)
         /\ Len(u.steps) <= MaxSteps /\ u.steps \in Seq(Step)
         /\ \A i \in OfTurn(u) : i \in 1 .. Len(u.steps) /\ i \in Indices /\ u.steps[i] \in Step
<1>1. p \in PollState /\ PlacesOK(p, u)
  BY DEF Going
<1>2. p.offset \in Nat /\ p.floor \in Nat /\ p.consumed \in Nat /\ p.window \in Nat
  BY <1>1 DEF PollState
<1>3. u.steps \in Seq(Step) /\ u.prior \in 0 .. Len(u.steps) /\ Len(u.steps) <= MaxSteps
  BY DEF UpOK
<1>4. Len(u.steps) \in Nat /\ u.prior \in Nat /\ u.prior <= Len(u.steps)
  BY <1>3
<1>5. p.floor = u.prior /\ p.offset >= u.prior /\ p.offset <= Len(u.steps)
  BY <1>1, <1>4 DEF PlacesOK
<1>6. /\ Win(p) \in Nat /\ Win(p) >= u.prior /\ Win(p) <= p.offset
      /\ (Win(p) = u.prior \/ Win(p) = p.offset - Overlap)
  BY <1>2, <1>4, <1>5 DEF Win
<1>7. \A i \in OfTurn(u) : i \in 1 .. Len(u.steps) /\ i \in Indices /\ u.steps[i] \in Step
  BY <1>3, <1>4 DEF OfTurn, Indices
<1> QED BY <1>1, <1>2, <1>3, <1>4, <1>6, <1>7

\* What a new list of steps has in common with the old one: it is longer, and
\* each step says what it said, and more if it is one of the newest.
Grown(u, v) ==
    /\ v.prior = u.prior /\ Len(u.steps) <= Len(v.steps)
    /\ \A i \in OfTurn(u) : /\ v.steps[i].kind = u.steps[i].kind
                            /\ u.steps[i].raw <= v.steps[i].raw
                            /\ Full(u.steps[i]) <= Full(v.steps[i])
                            /\ i <= Len(u.steps) - Overlap => v.steps[i].raw = u.steps[i].raw
    /\ u.status = "idle" => v.steps = u.steps /\ v.status = "idle"

\* What was said of a turn goes on to hold while its steps grow.
LEMMA GoingGrows ==
  ASSUME NEW u, NEW v, UpOK(u), UpOK(v), Grown(u, v), NEW p, Going(p, u)
  PROVE  Going(p, v)
<1>0. v.steps \in Seq(Step) /\ v.prior = u.prior /\ Len(u.steps) <= Len(v.steps)
  BY DEF UpOK, Grown
<1>1. /\ p \in PollState /\ PlacesOK(p, u) /\ Win(p) \in Int /\ p.offset \in Nat
      /\ u.prior \in Nat /\ Len(u.steps) \in Nat /\ Len(v.steps) \in Nat
      /\ v.prior = u.prior /\ Len(u.steps) <= Len(v.steps)
  BY <1>0, NumbersOf
<1>2. PlacesOK(p, v)
  BY <1>1 DEF PlacesOK
<1>3. \A i \in OfTurn(u) : i \in OfTurn(v) /\ v.steps[i] \in Step /\ u.steps[i] \in Step
  BY <1>1 DEF OfTurn, UpOK
<1>4. CursorOK(p.cursor, v)
  <2> SUFFICES ASSUME NEW i \in Indices, p.cursor[i] > 0
               PROVE  i \in OfTurn(v) /\ p.cursor[i] <= Full(v.steps[i])
    BY DEF CursorOK
  <2>1. i \in OfTurn(u) /\ p.cursor[i] <= Full(u.steps[i])
    BY DEF Going, CursorOK
  <2>2. Full(u.steps[i]) <= Full(v.steps[i])
    BY <2>1 DEF Grown
  <2>a. p.cursor[i] \in Nat
    BY <1>1 DEF PollState
  <2>3. p.cursor[i] \in Nat /\ Full(u.steps[i]) \in Nat /\ Full(v.steps[i]) \in Nat
    BY <1>3, <2>1, <2>a, FullIs
  <2> QED BY <1>3, <2>1, <2>2, <2>3
<1>5. TodoOK(p, v)
  <2> SUFFICES ASSUME NEW j \in 1 .. Len(p.todo) PROVE EntryOK(p.todo[j], v)
    BY DEF Going, TodoOK
  <2> DEFINE e == p.todo[j]
  <2>1. EntryOK(e, u) /\ e \in Batch
    BY <1>1 DEF Going, TodoOK, PollState
  <2> HIDE DEF e
  <2>2. /\ e.at \in OfTurn(u) /\ v.steps[e.at].kind = u.steps[e.at].kind
        /\ u.steps[e.at].raw <= v.steps[e.at].raw
        /\ Full(u.steps[e.at]) <= Full(v.steps[e.at])
    BY <2>1 DEF Grown, EntryOK
  <2>3. /\ u.steps[e.at].raw \in Nat /\ v.steps[e.at].raw \in Nat /\ e.step.raw \in Nat
        /\ Full(u.steps[e.at]) \in Int /\ Full(v.steps[e.at]) \in Int /\ Full(e.step) \in Int
    BY <1>3, <2>1, <2>2 DEF Batch, Step, Full
  <2>4. EntryOK(e, v)
    BY <1>3, <2>1, <2>2, <2>3 DEF EntryOK
  <2> QED BY <2>4 DEF e
<1>6. Behind(p, v)
  <2> SUFFICES ASSUME NEW i \in v.prior + 1 .. Win(p)
               PROVE  IsGiven(p, i, v) \/ (p.consumed < p.offset /\ Waits(p, i, v))
    BY DEF Behind
  <2>1. i \in OfTurn(u) /\ i <= Len(u.steps) - Overlap
    BY <1>1 DEF Win, OfTurn, PlacesOK
  <2>2. v.steps[i].raw = u.steps[i].raw
    BY <2>1 DEF Grown
  <2>3. IsGiven(p, i, u) \/ (p.consumed < p.offset /\ Waits(p, i, u))
    BY <1>1 DEF Going, Behind
  <2> QED BY <2>2, <2>3 DEF IsGiven, Waits
<1>7. SweepOK(p, v)
  <2>1. CASE u.status = "idle"
    <3>1. v.steps = u.steps /\ v.status = "idle" /\ OfTurn(v) = OfTurn(u)
      BY <1>1, <2>1 DEF Grown, OfTurn
    <3> QED BY <3>1 DEF Going, SweepOK, IsGiven, Waits
  <2>2. CASE u.status # "idle"
    BY <2>2 DEF Going, SweepOK
  <2> QED BY <2>1, <2>2
<1> QED BY <1>2, <1>4, <1>5, <1>6, <1>7 DEF Going

\* What the planner does is such a growth.
LEMMA PlannerGrows ==
  ASSUME UpOK(Planned), Planner
  PROVE  UpOK(Planned') /\ Grown(Planned, Planned')
<1> DEFINE n == Len(steps)
<1>1. /\ steps \in Seq(Step) /\ prior \in 0 .. n /\ n <= MaxSteps /\ n \in Nat
      /\ status \in {"new", "active", "idle"} /\ prior' = prior /\ status # "idle"
      /\ \A i \in prior + 1 .. n : /\ steps[i].raw > 0 => steps[i].kind = "text"
                                   /\ steps[i].mod = "none"
  BY DEF UpOK, Planned, OfTurn, Planner
<1>2. \A i \in 1 .. n : /\ steps[i] \in Step /\ steps[i].raw \in Nat
                        /\ steps[i].mod = "none" => Full(steps[i]) = steps[i].raw
  BY <1>1, FullIs
\* It is enough to know the new steps.
<1>3. ASSUME steps' \in Seq(Step), Len(steps') \in n .. MaxSteps,
             status' \in {"new", "active", "idle"},
             \A i \in prior + 1 .. Len(steps') :
                /\ steps'[i].raw > 0 => steps'[i].kind = "text"
                /\ status' # "idle" => steps'[i].mod = "none"
                /\ i <= n => /\ steps'[i].kind = steps[i].kind /\ steps[i].raw <= steps'[i].raw
                             /\ ~Grows(i) => steps'[i].raw = steps[i].raw
      PROVE  UpOK(Planned') /\ Grown(Planned, Planned')
  <2>1. UpOK(Planned')
    BY <1>1, <1>3 DEF UpOK, Planned, OfTurn
  <2>2. ASSUME NEW i \in prior + 1 .. n
        PROVE  /\ Full(steps[i]) <= Full(steps'[i])
               /\ i <= n - Overlap => steps'[i].raw = steps[i].raw
    <3>1. steps'[i] \in Step /\ i \in prior + 1 .. Len(steps')
      BY <1>1, <1>3
    <3>2. Full(steps'[i]) \in Nat /\ Full(steps'[i]) >= steps'[i].raw
      BY <3>1 DEF Step, Full
    <3>3. Full(steps[i]) = steps[i].raw /\ steps[i].raw \in Nat
      BY <1>1, <1>2
    <3>4. steps'[i].raw \in Nat /\ steps[i].raw <= steps'[i].raw
      BY <1>1, <1>3, <3>1 DEF Step
    <3>5. i <= n - Overlap => ~Grows(i)
      BY <1>1 DEF Grows
    <3> QED BY <1>1, <1>3, <3>1, <3>2, <3>3, <3>4, <3>5
  <2>3. Grown(Planned, Planned')
    BY <1>1, <1>3, <2>2 DEF Grown, Planned, OfTurn
  <2> QED BY <2>1, <2>3
<1>4. CASE steps' = steps /\ status' \in {"new", "active"}
  BY <1>1, <1>2, <1>3, <1>4
<1>5. CASE /\ status = "active" /\ n < MaxSteps /\ status' = status
           /\ \E k \in {"text", "tool", "error"} : steps' = Append(steps, [NewStep EXCEPT !.kind = k])
  <2>1. PICK k \in {"text", "tool", "error"} : steps' = Append(steps, [NewStep EXCEPT !.kind = k])
    BY <1>5
  <2> DEFINE e == [NewStep EXCEPT !.kind = k]
  <2>2. e \in Step /\ e.raw = 0 /\ e.mod = "none"
    BY DEF NewStep, Step
  <2> HIDE DEF e
  <2>3. /\ steps' \in Seq(Step) /\ Len(steps') = n + 1 /\ steps'[n + 1] = e
        /\ \A i \in 1 .. n : steps'[i] = steps[i]
    BY <1>1, <2>1, <2>2 DEF e
  <2> HIDE DEF n
  <2>4. \A i \in prior + 1 .. n : i \in 1 .. n /\ i # n + 1
    BY <1>1
  <2>5. n + 1 \in n .. MaxSteps
    BY <1>1, <1>5
  <2>6. \A i \in prior + 1 .. n + 1 : i = n + 1 \/ i \in prior + 1 .. n
    BY <1>1
  <2>7. ASSUME NEW i \in prior + 1 .. n + 1
        PROVE  /\ steps'[i].raw > 0 => steps'[i].kind = "text"
               /\ status' # "idle" => steps'[i].mod = "none"
               /\ i <= n => /\ steps'[i].kind = steps[i].kind /\ steps[i].raw <= steps'[i].raw
                            /\ ~Grows(i) => steps'[i].raw = steps[i].raw
    <3>1. CASE i = n + 1
      BY <1>1, <2>2, <2>3, <3>1
    <3>2. CASE i \in prior + 1 .. n
      <4>1. steps'[i] = steps[i] /\ steps[i].raw \in Nat
        BY <1>2, <2>3, <2>4, <3>2 DEF n
      <4> QED BY <1>1, <3>2, <4>1
    <3> QED BY <2>6, <3>1, <3>2
  <2>8. status' \in {"new", "active", "idle"}
    BY <1>1, <1>5
  <2> QED BY <1>3, <2>3, <2>5, <2>7, <2>8
<1>6. CASE /\ status = "active" /\ status' = status
           /\ \E i \in DOMAIN steps : /\ Grows(i) /\ steps[i].kind = "text" /\ steps[i].raw < MaxRaw
                                      /\ steps' = [steps EXCEPT ![i].raw = @ + 1]
  <2>0. DOMAIN steps = 1 .. n
    BY <1>1
  <2>1. PICK k \in 1 .. n : /\ Grows(k) /\ steps[k].kind = "text" /\ steps[k].raw < MaxRaw
                            /\ steps' = [steps EXCEPT ![k].raw = @ + 1]
    BY <1>6, <2>0
  <2> DEFINE e == [steps[k] EXCEPT !.raw = @ + 1]
  <2>2. e \in Step /\ e.raw = steps[k].raw + 1 /\ e.mod = steps[k].mod /\ e.kind = "text"
    <3> DEFINE d == steps[k]
               m == d.raw + 1
    <3>1. d \in Step /\ d.raw \in 0 .. MaxRaw /\ d.raw \in Nat /\ d.raw < MaxRaw /\ d.kind = "text"
      BY <1>2, <2>1, FullIs
    <3>2. m \in 0 .. MaxRaw /\ m = d.raw + 1
      BY <3>1
    <3>3. e = [d EXCEPT !.raw = m]
      OBVIOUS
    <3> HIDE DEF d, m, e
    <3>4. e \in Step /\ e.raw = m /\ e.mod = d.mod /\ e.kind = "text"
      BY <3>1, <3>2, <3>3 DEF Step
    <3> QED BY <3>2, <3>4 DEF d
  <2>3. steps' = [steps EXCEPT ![k] = e]
    BY <2>1
  <2> HIDE DEF e
  <2>4. /\ steps' \in Seq(Step) /\ Len(steps') = n /\ steps'[k] = e
        /\ \A i \in 1 .. n : i # k => steps'[i] = steps[i]
    BY <1>1, <2>2, <2>3
  <2>5. \A i \in prior + 1 .. n : i \in 1 .. n
    BY <1>1
  <2>6. ASSUME NEW i \in prior + 1 .. n
        PROVE  /\ steps'[i].raw > 0 => steps'[i].kind = "text"
               /\ steps'[i].mod = "none"
               /\ steps'[i].kind = steps[i].kind /\ steps[i].raw <= steps'[i].raw
               /\ ~Grows(i) => steps'[i].raw = steps[i].raw
    <3>1. i \in 1 .. n /\ steps[i].raw \in Nat
      BY <1>2, <2>5
    <3>2. CASE i = k
      BY <1>1, <2>1, <2>2, <2>4, <3>1, <3>2
    <3>3. CASE i # k
      BY <1>1, <2>4, <3>1, <3>3
    <3> QED BY <3>2, <3>3
  <2>7. Len(steps') \in n .. MaxSteps /\ status' \in {"new", "active", "idle"}
    BY <1>1, <1>6, <2>4
  <2> QED BY <1>3, <2>4, <2>6, <2>7
<1>7. CASE /\ status = "active" /\ status' = "idle"
           /\ \E m \in {"none", "extends", "rewrites"} :
                steps' = [i \in DOMAIN steps |->
                            IF Grows(i) /\ steps[i].raw > 0 THEN [steps[i] EXCEPT !.mod = m]
                            ELSE steps[i]]
  <2>1. PICK m \in {"none", "extends", "rewrites"} :
           steps' = [i \in DOMAIN steps |->
                       IF Grows(i) /\ steps[i].raw > 0 THEN [steps[i] EXCEPT !.mod = m]
                       ELSE steps[i]]
    BY <1>7
  <2>2. \A i \in 1 .. n : /\ [steps[i] EXCEPT !.mod = m] \in Step
                          /\ [steps[i] EXCEPT !.mod = m].raw = steps[i].raw
                          /\ [steps[i] EXCEPT !.mod = m].kind = steps[i].kind
    BY <1>2 DEF Step
  <2>3. DOMAIN steps = 1 .. n
    BY <1>1
  <2>4. /\ steps' \in [1 .. n -> Step]
        /\ \A i \in 1 .. n : steps'[i].raw = steps[i].raw /\ steps'[i].kind = steps[i].kind
    BY <1>2, <2>1, <2>2, <2>3
  <2>5. steps' \in Seq(Step) /\ Len(steps') = n
    BY <1>1, <2>1, <2>3, <2>4
  <2>6. \A i \in prior + 1 .. n : i \in 1 .. n
    BY <1>1
  <2> QED BY <1>1, <1>2, <1>3, <1>7, <2>4, <2>5, <2>6
<1> QED BY <1>4, <1>5, <1>6, <1>7 DEF Planner
-----------------------------------------------------------------------------
\* What the turn has given was said, and what is said without its modified text
\* is given once no cursor is behind.
LEMMA GivenWasSaid ==
  ASSUME UpOK(Planned), NEW c \in [Indices -> Nat], CursorOK(c, Planned)
  PROVE  Given(c) \subseteq Said(1)
<1> SUFFICES ASSUME NEW x \in Given(c) PROVE x \in Said(1)
  OBVIOUS
<1>1. x \in Indices \X Nat /\ x[1] \in Indices /\ x[2] \in Nat /\ x = <<x[1], x[2]>>
      /\ x[2] >= 1 /\ x[2] <= c[x[1]] /\ c[x[1]] \in Nat
  BY DEF Given
<1> DEFINE i == x[1]
           k == x[2]
<1>2. i \in OfTurn(Planned) /\ c[i] <= Full(steps[i])
  BY <1>1 DEF CursorOK, Planned
<1>3. i \in prior + 1 .. Len(steps) /\ steps[i] \in Step
  BY <1>2 DEF OfTurn, Planned, UpOK
<1>4. /\ Full(steps[i]) = steps[i].raw + (IF steps[i].mod = "extends" THEN 1 ELSE 0)
      /\ Full(steps[i]) \in Nat /\ Full(steps[i]) <= MaxRaw + 1
  BY <1>3, FullIs DEF Full
<1> HIDE DEF i, k
<1>5. c[i] \in Nat /\ k \in Nat /\ k >= 1 /\ k <= c[i] /\ x = <<i, k>>
  BY <1>1 DEF i, k
<1>6. k \in 1 .. MaxRaw + 1 /\ k <= Full(steps[i])
  BY <1>2, <1>4, <1>5
<1>7. x \in Text /\ x[1] = i /\ x[2] = k
  BY <1>3, <1>5, <1>6 DEF Text
<1> QED BY <1>4, <1>6, <1>7 DEF Said

\* What is given of the steps of this turn is what they say, if nothing of them is
\* missing.
LEMMA AllSaid ==
  ASSUME UpOK(Planned), NEW c \in [Indices -> Nat],
         \A i \in OfTurn(Planned) : c[i] >= steps[i].raw
  PROVE  Said(0) \subseteq Given(c)
<1> SUFFICES ASSUME NEW x \in Said(0) PROVE x \in Given(c)
  OBVIOUS
<1>1. PICK i \in prior + 1 .. Len(steps) : \E k \in 1 .. MaxRaw + 1 : x = <<i, k>>
  BY DEF Said, Text
<1>2. PICK k \in 1 .. MaxRaw + 1 : x = <<i, k>>
  BY <1>1
<1>3. steps \in Seq(Step) /\ prior \in 0 .. Len(steps) /\ Len(steps) <= MaxSteps
  BY DEF UpOK, Planned
<1>4. i \in Indices /\ steps[i] \in Step /\ i \in OfTurn(Planned)
  BY <1>3 DEF Indices, OfTurn, Planned
<1>5. steps[i].raw \in Nat /\ c[i] \in Nat /\ c[i] >= steps[i].raw
  BY <1>4 DEF Step
<1>6. x[1] = i /\ x[2] = k /\ k <= steps[i].raw + (IF steps[i].mod = "extends" THEN 0 ELSE 0)
  BY <1>2 DEF Said
<1>7. k <= steps[i].raw
  BY <1>5, <1>6
<1> QED BY <1>2, <1>4, <1>5, <1>6, <1>7 DEF Given

\* The upstream stands still.
LEMMA SaidStays ==
  ASSUME UNCHANGED <<steps, status, prior>>
  PROVE  Said(0)' = Said(0) /\ Said(1)' = Said(1) /\ Calls' = Calls /\ Planned' = Planned
BY DEF Said, Text, Calls, Planned

\* A snapshot of a turn that can be resumed goes on from where the turn was.
LEMMA SnapGoes ==
  ASSUME NEW u, UpOK(u), NEW p, Going(p, u), Resumable(p)
  PROVE  Going(FromSnapshot(p), u) /\ FromSnapshot(p).pending
<1> DEFINE q == FromSnapshot(p)
<1>1. /\ p \in PollState /\ PlacesOK(p, u) /\ Win(p) \in Nat /\ p.consumed = p.offset
      /\ p.offset \in Nat
  BY NumbersOf DEF Resumable
<1>2. NextWindow(p) = Win(p)
  BY <1>1 DEF NextWindow, Win, PlacesOK
<1>3. /\ q.pc = "top" /\ q.floor = p.floor /\ q.offset = p.offset /\ q.consumed = p.consumed
      /\ q.window = p.window /\ q.next = Win(p) /\ q.cursor = p.cursor /\ q.chunks = p.chunks
      /\ q.yielded = p.yielded /\ q.pending /\ q.todo = <<>> /\ q.end = "none"
  BY <1>2 DEF FromSnapshot, Start
<1>4. q \in PollState
  <2>1. /\ p.floor \in Nat /\ p.offset \in Nat /\ p.consumed \in Nat /\ p.window \in Nat
        /\ p.cursor \in [Indices -> Nat] /\ p.chunks \in SUBSET (Indices \X Nat)
        /\ p.yielded \in BOOLEAN /\ p.sawActive \in BOOLEAN /\ p.sawText \in BOOLEAN
        /\ p.resumes \in Nat
    BY <1>1 DEF PollState
  <2>2. p.resumes + 1 \in Nat /\ NextWindow(p) \in Int
    BY <1>1, <1>2, <2>1
  <2>3. Start \in PollState
    BY StartIs
  <2> HIDE DEF q
  <2>4. q = [Start EXCEPT !.pc = "top", !.floor = p.floor, !.offset = p.offset,
                 !.consumed = p.consumed, !.window = p.window, !.next = NextWindow(p),
                 !.cursor = p.cursor, !.chunks = p.chunks, !.yielded = p.yielded,
                 !.sawActive = p.sawActive, !.sawText = p.sawText, !.pending = TRUE,
                 !.resumes = p.resumes + 1]
    BY DEF q, FromSnapshot
  <2> QED BY <2>1, <2>2, <2>3, <2>4 DEF PollState
<1> HIDE DEF q
<1>5. Win(q) = Win(p)
  BY <1>3 DEF Win
<1>6. PlacesOK(q, u)
  BY <1>1, <1>3, <1>5 DEF PlacesOK
<1>7. Behind(q, u)
  <2> SUFFICES ASSUME NEW i \in u.prior + 1 .. Win(p) PROVE IsGiven(q, i, u)
    BY <1>5 DEF Behind
  <2>1. IsGiven(p, i, u)
    BY <1>1 DEF Going, Behind
  <2> QED BY <1>3, <2>1 DEF IsGiven
<1>8. TodoOK(q, u) /\ SweepOK(q, u)
  <2>1. Len(q.todo) = 0
    BY <1>3
  <2> QED BY <1>3, <2>1 DEF TodoOK, SweepOK
<1>9. Going(q, u)
  BY <1>3, <1>4, <1>6, <1>7, <1>8 DEF Going
<1> QED BY <1>3, <1>9 DEF q

\* What an answer that gave nothing is called.
LEMMA EmptyIs ==
  ASSUME poll' \in PollState, Kind' = "empty"
  PROVE  poll'.end \in {"idle_empty", "max_wait"} /\ ~poll'.yielded
<1>1. poll'.yielded \in BOOLEAN
  BY DEF PollState
<1> QED BY <1>1 DEF Kind

Reasons == {"aborted", "error", "max_wait", "stall_warm", "native_tool_call",
            "idle_done", "idle_empty"}

\* A turn that ends, whatever the reason, and what its client has then.
LEMMA EndsOver ==
  ASSUME UpOK(Planned), UNCHANGED <<steps, status, prior>>,
         NEW p \in PollState, NEW reason \in Reasons, Ends(p, reason),
         client'.sent \subseteq Said(1) \cup Calls,
         reason = "idle_done" /\ ~p.early => status = "idle" /\ Said(0) \subseteq client'.sent,
         reason \in {"idle_empty", "max_wait"} /\ ~p.yielded => client'.sent = {},
         client.gone /\ Resumable(p) => Going(FromSnapshot(p), Planned) /\ FromSnapshot(p).pending
  PROVE  Over'
<1>1. /\ poll'.pc = "ended" /\ poll'.end \in {"aborted", reason}
      /\ poll'.early = p.early /\ poll'.yielded = p.yielded
  BY DEF Ends, PollState
<1>2. poll' \in PollState
  <2>1. (IF client.gone THEN "aborted" ELSE reason) \in Reasons
    BY DEF Reasons
  <2>2. <<>> \in Seq(Batch)
    OBVIOUS
  <2> QED BY <2>1, <2>2 DEF Ends, PollState, Reasons
<1>3. Said(0)' = Said(0) /\ Said(1)' = Said(1) /\ Calls' = Calls /\ Planned' = Planned
  BY SaidStays
<1>4. WholeThen'
  BY <1>1, <1>3 DEF WholeThen
<1>5. Kind' = "empty" => client'.sent = {}
  BY <1>1, <1>2, EmptyIs
<1>6. FrozenOK'
  <2>1. CASE client.gone /\ Resumable(p)
    BY <1>3, <2>1 DEF Ends, FrozenOK
  <2>2. CASE ~(client.gone /\ Resumable(p))
    BY <2>2 DEF Ends, FrozenOK
  <2> QED BY <2>1, <2>2
<1> QED BY <1>1, <1>2, <1>3, <1>4, <1>5, <1>6 DEF Over

\* What the client of a turn that goes on has was said.
LEMMA SentWasSaid ==
  ASSUME UpOK(Planned), OnTheWay
  PROVE  client.sent \subseteq Said(1) /\ poll \in PollState
         /\ (~poll.yielded => client.sent = {})
<1>1. /\ poll \in PollState /\ CursorOK(poll.cursor, Planned) /\ poll.chunks = Given(poll.cursor)
      /\ (poll.yielded \/ poll.chunks = {})
      /\ client.sent = IF poll.pending THEN {} ELSE poll.chunks
  BY DEF OnTheWay, Going
<1>2. poll.cursor \in [Indices -> Nat]
  BY <1>1 DEF PollState
<1>3. Given(poll.cursor) \subseteq Said(1)
  BY <1>1, <1>2, GivenWasSaid
<1> QED BY <1>1, <1>3

\* The ends that need nothing of the answer.
LEMMA StopsOver ==
  ASSUME UpOK(Planned), OnTheWay, NEW reason \in Reasons \ {"idle_done"}, Ends(poll, reason),
         UNCHANGED <<steps, status, client, prior>>
  PROVE  Over'
<1>1. client.sent \subseteq Said(1) /\ poll \in PollState /\ (~poll.yielded => client.sent = {})
  BY SentWasSaid
<1>2. Resumable(poll) => Going(FromSnapshot(poll), Planned) /\ FromSnapshot(poll).pending
  BY SnapGoes DEF OnTheWay
<1> QED BY <1>1, <1>2, EndsOver

-----------------------------------------------------------------------------
\* A read: what is not given yet waits in the batch, or is still in the window.
LEMMA ReadingGoes ==
  ASSUME UpOK(Planned), OnTheWay, NEW w, NEW final \in BOOLEAN, Reading(w, final),
         IF final THEN poll.pc = "sweep" ELSE poll.pc = "top" /\ ~client.gone,
         w \in prior .. Win(poll)
  PROVE  OnTheWay' \/ Over'
<1> DEFINE batch == From(w)
           total == w + Len(batch)
           n == Len(steps)
           p == [poll EXCEPT !.next = -1, !.window = w, !.pending = FALSE,
                             !.offset = IF total > @ THEN total ELSE @]
           q == [p EXCEPT !.pc = "consume", !.todo = batch, !.final = final]
<1>1. Going(poll, Planned) /\ UNCHANGED <<steps, status, prior>> /\ frozen = <<>>
  BY DEF OnTheWay, Reading
<1>2. /\ poll \in PollState /\ PlacesOK(poll, Planned)
      /\ poll.offset \in Nat /\ poll.floor \in Nat /\ poll.consumed \in Nat
      /\ Win(poll) \in Nat /\ Win(poll) >= prior
      /\ Win(poll) <= poll.offset /\ (Win(poll) = prior \/ Win(poll) = poll.offset - Overlap)
      /\ prior \in Nat /\ n \in Nat /\ prior <= n /\ n <= MaxSteps /\ steps \in Seq(Step)
      /\ \A i \in OfTurn(Planned) : i \in 1 .. n /\ i \in Indices /\ steps[i] \in Step
  BY <1>1, NumbersOf DEF Planned
<1>3. poll.floor = prior /\ poll.offset <= n /\ poll.consumed <= poll.offset /\ prior <= poll.offset
  BY <1>2 DEF PlacesOK, Planned
<1>4. w \in Nat /\ w <= n /\ prior <= w /\ w <= Win(poll)
  BY <1>2, <1>3
<1>5. /\ batch \in Seq(Batch) /\ Len(batch) = n - w /\ n - w \in Nat
      /\ \A j \in 1 .. n - w : batch[j] = [at |-> w + j, step |-> steps[w + j]]
  <2>1. n - w \in Nat /\ batch = [j \in 1 .. n - w |-> [at |-> w + j, step |-> steps[w + j]]]
    BY <1>4, <1>2 DEF From
  <2>2. ASSUME NEW j \in 1 .. n - w PROVE [at |-> w + j, step |-> steps[w + j]] \in Batch
    <3>1. w + j \in 1 .. n /\ w + j \in Indices
      BY <1>2, <1>4 DEF Indices
    <3>2. steps[w + j] \in Step
      BY <1>2, <3>1
    <3> QED BY <3>1, <3>2 DEF Batch
  <2> DEFINE m == n - w
             Read1(j) == [at |-> w + j, step |-> steps[w + j]]
  <2>3. m \in Nat /\ batch = [j \in 1 .. m |-> Read1(j)] /\ \A j \in 1 .. m : Read1(j) \in Batch
    BY <2>1, <2>2
  <2> HIDE DEF batch, m, Read1
  <2>4. batch \in [1 .. m -> Batch] /\ \A j \in 1 .. m : batch[j] = Read1(j)
    BY <2>3
  <2>5. batch \in Seq(Batch) /\ Len(batch) = m
    BY <2>3, <2>4
  <2> QED BY <2>3, <2>4, <2>5 DEF m, Read1
<1>6. total = n /\ poll.offset \in Nat /\ (IF total > poll.offset THEN total ELSE poll.offset) = n
  BY <1>2, <1>3, <1>4, <1>5
<1> HIDE DEF batch, total, n
<1>7. /\ p \in PollState /\ p.offset = n /\ p.window = w /\ p.next = -1 /\ p.pending = FALSE
      /\ p.chunks = poll.chunks /\ p.cursor = poll.cursor /\ p.yielded = poll.yielded
      /\ p.floor = poll.floor /\ p.consumed = poll.consumed /\ p.early = poll.early
      /\ p.pc = poll.pc /\ p.todo = poll.todo /\ p.end = poll.end
  <2> DEFINE m == IF total > poll.offset THEN total ELSE poll.offset
  <2>1. m = n /\ n \in Nat /\ w \in Nat /\ -1 \in Int
    BY <1>2, <1>4, <1>6 DEF n
  <2>2. p = [poll EXCEPT !.next = -1, !.window = w, !.pending = FALSE, !.offset = m]
    BY <1>2 DEF PollState
  <2> HIDE DEF m, p
  <2> QED BY <1>2, <2>1, <2>2 DEF PollState
<1>8. client'.sent = poll.chunks
  BY <1>1 DEF OnTheWay, Reading
<1>9. poll.chunks = Given(poll.cursor) /\ CursorOK(poll.cursor, Planned)
      /\ poll.cursor \in [Indices -> Nat] /\ (poll.yielded \/ poll.chunks = {})
      /\ poll.end = "none"
  BY <1>1, <1>2 DEF Going, PollState
<1>10. CASE poll' = q /\ UNCHANGED frozen
  <2>1. /\ q \in PollState /\ q.offset = n /\ q.window = w /\ q.next = -1 /\ ~q.pending
        /\ q.chunks = poll.chunks /\ q.cursor = poll.cursor /\ q.yielded = poll.yielded
        /\ q.floor = poll.floor /\ q.consumed = poll.consumed /\ q.early = poll.early
        /\ q.pc = "consume" /\ q.todo = batch /\ q.final = final /\ q.end = poll.end
    <3> HIDE DEF p
    <3> QED BY <1>5, <1>7 DEF PollState
  <2> HIDE DEF q, p
  <2>2. /\ Win(q) \in Nat /\ Win(poll) <= Win(q) /\ Win(q) <= n /\ w <= Win(q)
        /\ (poll.offset = n => Win(q) = Win(poll))
    BY <1>2, <1>3, <1>4, <2>1 DEF Win
  <2>3. PlacesOK(q, Planned)
    <3>1. q.consumed \in 0 .. q.offset /\ q.offset \in prior .. n /\ q.window \in prior .. Win(q)
      BY <1>2, <1>3, <1>4, <2>1, <2>2
    <3> QED BY <1>3, <2>1, <3>1 DEF PlacesOK, Planned, n
  <2>4. \A i \in prior + 1 .. Win(poll) : IsGiven(q, i, Planned)
    <3>1. poll.todo = <<>> /\ Len(poll.todo) = 0
      BY <1>1 DEF Going, TodoOK
    <3>2. \A i \in prior + 1 .. Win(poll) : IsGiven(poll, i, Planned)
      BY <1>1, <3>1 DEF Going, Behind, Waits, Planned
    <3> QED BY <2>1, <3>2 DEF IsGiven
  <2>5. \A i \in w + 1 .. n : Waits(q, i, Planned)
    <3> SUFFICES ASSUME NEW i \in w + 1 .. n PROVE Waits(q, i, Planned)
      OBVIOUS
    <3>1. PICK j : j = i - w
      OBVIOUS
    <3>2. j \in 1 .. n - w /\ w + j = i /\ i \in 1 .. n
      BY <1>2, <1>4, <3>1
    <3>3. q.todo[j] = [at |-> i, step |-> steps[i]] /\ j \in 1 .. Len(q.todo)
      BY <1>5, <2>1, <3>2
    <3>4. steps[i] \in Step
      BY <1>2, <3>2 DEF n
    <3>5. q.todo[j].at = i /\ q.todo[j].step.raw >= steps[i].raw
      BY <3>3, <3>4 DEF Step
    <3> QED BY <3>3, <3>5 DEF Waits, Planned
  <2>6. Behind(q, Planned)
    <3> SUFFICES ASSUME NEW i \in prior + 1 .. Win(q)
                 PROVE  IsGiven(q, i, Planned) \/ (q.consumed < q.offset /\ Waits(q, i, Planned))
      BY DEF Behind, Planned
    <3>1. CASE i <= Win(poll)
      BY <1>2, <2>2, <2>4, <3>1
    <3>2. CASE ~(i <= Win(poll))
      <4>1. i \in w + 1 .. n /\ poll.offset # n
        BY <1>2, <1>4, <2>2, <3>2
      <4>2. q.consumed < q.offset
        BY <1>2, <1>3, <2>1, <4>1
      <4> QED BY <2>5, <4>1, <4>2
    <3> QED BY <3>1, <3>2
  <2>7. TodoOK(q, Planned)
    <3>0. Len(q.todo) = n - w /\ q.offset = n
      BY <1>5, <2>1
    <3> SUFFICES ASSUME NEW j \in 1 .. Len(q.todo)
                 PROVE  q.todo[j].at = q.offset - Len(q.todo) + j /\ EntryOK(q.todo[j], Planned)
      BY <2>1 DEF TodoOK
    <3>1. j \in 1 .. n - w /\ q.todo[j] = [at |-> w + j, step |-> steps[w + j]]
      BY <1>5, <2>1
    <3>2. w + j \in prior + 1 .. n /\ w + j \in 1 .. n /\ q.offset - Len(q.todo) + j = w + j
      <4>1. w \in Nat /\ n \in Nat /\ prior \in Nat /\ prior <= w /\ w <= n /\ j \in 1 .. n - w
        BY <1>2, <1>4, <3>1
      <4>2. w + j \in prior + 1 .. n /\ w + j \in 1 .. n /\ n - (n - w) + j = w + j
        BY <4>1
      <4> QED BY <3>0, <4>2
    <3>3. steps[w + j] \in Step
      BY <1>2, <3>2 DEF n
    <3>4. steps[w + j].raw <= steps[w + j].raw /\ Full(steps[w + j]) <= Full(steps[w + j])
      BY <3>3, FullIs
    <3>5. w + j \in OfTurn(Planned)
      BY <3>2 DEF OfTurn, Planned, n
    <3>6. EntryOK(q.todo[j], Planned)
      BY <3>1, <3>4, <3>5 DEF EntryOK, Planned
    <3> QED BY <3>1, <3>2, <3>6
  <2>8. SweepOK(q, Planned)
    <3> SUFFICES ASSUME final, ~poll.early
                 PROVE  /\ status = "idle"
                        /\ \A i \in OfTurn(Planned) : IsGiven(q, i, Planned) \/ Waits(q, i, Planned)
      BY <2>1 DEF SweepOK, Planned
    <3>1. status = "idle"
      BY <1>1 DEF Going, SweepOK, Planned
    <3>2. ASSUME NEW i \in OfTurn(Planned)
          PROVE  IsGiven(q, i, Planned) \/ Waits(q, i, Planned)
      <4>1. i \in prior + 1 .. n
        BY DEF OfTurn, Planned, n
      <4>2. i \in prior + 1 .. Win(poll) \/ i \in w + 1 .. n
        BY <1>2, <1>4, <4>1
      <4> QED BY <2>4, <2>5, <4>2
    <3> QED BY <3>1, <3>2
  <2>9. Going(q, Planned)
    BY <1>9, <2>1, <2>3, <2>6, <2>7, <2>8 DEF Going
  <2>10. Planned' = Planned
    BY <1>1, SaidStays
  <2> QED BY <1>1, <1>8, <1>10, <2>1, <2>9, <2>10 DEF OnTheWay
<1>11. CASE Ends(p, "error") /\ ~final
  <2>1. ~client.gone
    BY <1>11
  <2>2. client'.sent \subseteq Said(1)
    BY <1>8, <1>9, GivenWasSaid
  <2>3. "error" \in Reasons
    BY DEF Reasons
  <2> HIDE DEF p
  <2> QED BY <1>1, <1>7, <1>11, <2>1, <2>2, <2>3, EndsOver
<1> QED BY <1>10, <1>11 DEF Reading, batch, total

\* A read of the trajectory puts what is new in a batch, and begins behind the
\* window the next time.
LEMMA ReadKeeps ==
  ASSUME UpOK(Planned), OnTheWay, Read
  PROVE  OnTheWay' \/ Over'
<1>1. Going(poll, Planned)
  BY DEF OnTheWay
<1>2. NextWindow(poll) = Win(poll)
  <2>1. PlacesOK(poll, Planned) /\ Win(poll) \in Nat
    BY <1>1, NumbersOf
  <2> QED BY <2>1 DEF NextWindow, Win, PlacesOK
<1>3. Win(poll) \in prior .. Win(poll)
  <2>1. prior \in Nat /\ Win(poll) \in Nat /\ Win(poll) >= prior
    BY <1>1, NumbersOf DEF Planned
  <2> QED BY <2>1
<1> QED BY <1>2, <1>3, ReadingGoes DEF Read

\* The last read, from the floor: nothing at all is missing from its batch.
LEMMA SweepKeeps ==
  ASSUME UpOK(Planned), OnTheWay, Sweep
  PROVE  OnTheWay' \/ Over'
<1>1. poll.window \in prior .. Win(poll)
  BY DEF OnTheWay, Going, PlacesOK, Planned
<1> QED BY <1>1, ReadingGoes DEF Sweep

-----------------------------------------------------------------------------
\* A cursor that moves up gives the pieces it passes, and none of them again.
MovedUp(c, i, k, d) ==
    /\ c \in [Indices -> Nat] /\ i \in Indices /\ k \in Nat /\ k >= c[i]
    /\ d = [c EXCEPT ![i] = k]

LEMMA PiecesGiven ==
  ASSUME NEW c, NEW i, NEW k, NEW d, MovedUp(c, i, k, d)
  PROVE  /\ d \in [Indices -> Nat] /\ Given(d) = Given(c) \cup Pieces(i, c[i], k)
         /\ Pieces(i, c[i], k) \cap Given(c) = {}
         /\ Pieces(i, c[i], k) \in SUBSET (Indices \X Nat)
<1>1. /\ c \in [Indices -> Nat] /\ i \in Indices /\ k \in Nat /\ k >= c[i]
      /\ c[i] \in Nat /\ d \in [Indices -> Nat] /\ d[i] = k
      /\ \A j \in Indices : j # i => d[j] = c[j]
  BY DEF MovedUp
<1>2. ASSUME NEW x \in Pieces(i, c[i], k)
      PROVE  x \in Indices \X Nat /\ x \in Given(d) /\ x \notin Given(c)
  <2>1. PICK m \in c[i] + 1 .. k : x = <<i, m>>
    BY DEF Pieces
  <2>2. m \in Nat /\ m >= 1 /\ m <= k /\ m > c[i] /\ x[1] = i /\ x[2] = m /\ x \in Indices \X Nat
    BY <1>1, <2>1
  <2> QED BY <1>1, <2>2 DEF Given
<1>3. ASSUME NEW x \in Given(c) PROVE x \in Given(d)
  <2>1. x \in Indices \X Nat /\ x[1] \in Indices /\ x[2] \in Nat /\ x[2] >= 1 /\ x[2] <= c[x[1]]
        /\ c[x[1]] \in Nat
    BY <1>1 DEF Given
  <2>2. x[2] <= d[x[1]] /\ d[x[1]] \in Nat
    BY <1>1, <2>1
  <2> QED BY <2>1, <2>2 DEF Given
<1>4. ASSUME NEW x \in Given(d), x \notin Given(c) PROVE x \in Pieces(i, c[i], k)
  <2>1. x \in Indices \X Nat /\ x[1] \in Indices /\ x[2] \in Nat /\ x[2] >= 1 /\ x[2] <= d[x[1]]
        /\ d[x[1]] \in Nat /\ c[x[1]] \in Nat /\ x = <<x[1], x[2]>>
    BY <1>1 DEF Given
  <2>2. ~(x[2] <= c[x[1]])
    BY <1>4, <2>1 DEF Given
  <2>3. x[1] = i
    BY <1>1, <2>1, <2>2
  <2>4. x[2] \in c[i] + 1 .. k
    BY <1>1, <2>1, <2>2, <2>3
  <2> QED BY <2>1, <2>3, <2>4 DEF Pieces
<1>5. Given(d) = Given(c) \cup Pieces(i, c[i], k)
  BY <1>2, <1>3, <1>4
<1> QED BY <1>1, <1>2, <1>5

\* What the first entry of a batch is, and what is left behind it.
LEMMA BatchSplits ==
  ASSUME UpOK(Planned), Going(poll, Planned), poll.pc = "consume", poll.todo # <<>>
  PROVE  /\ Head(poll.todo) \in Batch /\ EntryOK(Head(poll.todo), Planned)
         /\ Tail(poll.todo) \in Seq(Batch) /\ Len(poll.todo) \in Nat \ {0}
         /\ Len(Tail(poll.todo)) = Len(poll.todo) - 1
         /\ Head(poll.todo) = poll.todo[1]
         /\ Head(poll.todo).at = poll.offset - Len(poll.todo) + 1
         /\ \A j \in 1 .. Len(poll.todo) - 1 : Tail(poll.todo)[j] = poll.todo[j + 1]
<1>1. poll \in PollState /\ TodoOK(poll, Planned)
  BY DEF Going
<1>2. poll.todo \in Seq(Batch)
  BY <1>1 DEF PollState
<1> DEFINE t == poll.todo
<1>3. t \in Seq(Batch) /\ t # <<>>
  BY <1>2
<1> HIDE DEF t
<1>4. /\ Head(t) = t[1] /\ Head(t) \in Batch /\ Tail(t) \in Seq(Batch) /\ Len(t) \in Nat \ {0}
      /\ Len(Tail(t)) = Len(t) - 1
      /\ \A j \in 1 .. Len(t) - 1 : Tail(t)[j] = t[j + 1]
  BY <1>3
<1>5. 1 \in 1 .. Len(t)
  BY <1>4
<1>6. EntryOK(t[1], Planned) /\ t[1].at = poll.offset - Len(t) + 1
  BY <1>1, <1>5 DEF TodoOK, t
<1> QED BY <1>4, <1>6 DEF t

\* One entry of a batch: its cursor is moved up to what was read of it, or was
\* there before.
LEMMA EntryGoes ==
  ASSUME UpOK(Planned), Going(poll, Planned), poll.pc = "consume", poll.todo # <<>>,
         NEW e, e = Head(poll.todo),
         NEW k \in Nat, k >= poll.cursor[e.at], k >= e.step.raw,
         k <= Full(e.step) \/ k = poll.cursor[e.at],
         NEW q \in PollState,
         q.todo = Tail(poll.todo), q.consumed = (IF e.at > poll.consumed THEN e.at ELSE poll.consumed),
         q.cursor = [poll.cursor EXCEPT ![e.at] = k],
         q.chunks = poll.chunks \cup Pieces(e.at, poll.cursor[e.at], k),
         q.yielded \/ q.chunks = {}, q.pc = "consume", ~q.pending,
         q.floor = poll.floor, q.offset = poll.offset, q.window = poll.window,
         q.next = poll.next, q.final = poll.final, q.early = poll.early, q.end = poll.end
  PROVE  Going(q, Planned)
<1> DEFINE n == Len(steps)
           t == poll.todo
           c == poll.cursor
           i == e.at
<1>1. /\ e \in Batch /\ EntryOK(e, Planned) /\ q.todo \in Seq(Batch) /\ Len(t) \in Nat \ {0}
      /\ Len(q.todo) = Len(t) - 1 /\ e = t[1] /\ i = poll.offset - Len(t) + 1
      /\ \A j \in 1 .. Len(t) - 1 : q.todo[j] = t[j + 1]
  BY BatchSplits
<1>2. /\ poll \in PollState /\ PlacesOK(poll, Planned)
      /\ poll.offset \in Nat /\ poll.floor \in Nat /\ poll.consumed \in Nat
      /\ Win(poll) \in Nat /\ Win(poll) >= prior
      /\ Win(poll) <= poll.offset
      /\ prior \in Nat /\ n \in Nat /\ prior <= n /\ n <= MaxSteps /\ steps \in Seq(Step)
      /\ \A j \in OfTurn(Planned) : j \in 1 .. n /\ j \in Indices /\ steps[j] \in Step
  BY NumbersOf DEF Planned
<1>3. poll.floor = prior /\ poll.offset <= n /\ poll.consumed <= poll.offset /\ prior <= poll.offset
  BY <1>2 DEF PlacesOK, Planned
<1>4. i \in OfTurn(Planned) /\ i \in Indices /\ i \in Nat /\ steps[i] \in Step /\ e.step \in Step
      /\ e.step.raw <= steps[i].raw /\ Full(e.step) <= Full(steps[i])
  BY <1>1, <1>2 DEF EntryOK, Planned, Batch
<1>5. c \in [Indices -> Nat] /\ c[i] \in Nat
  BY <1>2, <1>4 DEF PollState
<1>6. q.cursor \in [Indices -> Nat] /\ q.cursor[i] = k /\ \A j \in Indices : j # i => q.cursor[j] = c[j]
  BY <1>4, <1>5
<1>7. Given(q.cursor) = Given(c) \cup Pieces(i, c[i], k)
  <2>1. MovedUp(c, i, k, q.cursor)
    BY <1>4, <1>5 DEF MovedUp
  <2> HIDE DEF n, t, c, i
  <2> QED BY <2>1, PiecesGiven
<1>8. q.chunks = Given(q.cursor)
  BY <1>7 DEF Going
<1>9. Win(q) = Win(poll)
  BY DEF Win
<1>10. PlacesOK(q, Planned)
  <2>1. i <= poll.offset
    BY <1>1, <1>2
  <2>2. q.consumed \in 0 .. q.offset
    BY <1>2, <1>3, <1>4, <2>1
  <2> QED BY <1>2, <1>9, <2>2 DEF PlacesOK
<1> HIDE DEF n, t, c, i
<1>11. CursorOK(q.cursor, Planned)
  <2> SUFFICES ASSUME NEW j \in Indices, q.cursor[j] > 0
               PROVE  j \in OfTurn(Planned) /\ q.cursor[j] <= Full(steps[j])
    BY DEF CursorOK, Planned
  <2>1. \A m \in Indices : c[m] > 0 => m \in OfTurn(Planned) /\ c[m] <= Full(steps[m])
    BY DEF Going, CursorOK, Planned, c
  <2>2. CASE j # i
    BY <1>6, <2>1, <2>2
  <2>3. CASE j = i /\ k = c[i]
    BY <1>4, <1>6, <2>1, <2>3 DEF c, i
  <2>4. CASE j = i /\ k <= Full(e.step)
    <3>1. Full(e.step) \in Nat /\ Full(steps[i]) \in Nat
      BY <1>4, FullIs
    <3> QED BY <1>4, <1>6, <2>4, <3>1
  <2> QED BY <2>2, <2>3, <2>4 DEF c, i
<1>12. TodoOK(q, Planned)
  <2> SUFFICES ASSUME NEW j \in 1 .. Len(q.todo)
               PROVE  q.todo[j].at = q.offset - Len(q.todo) + j /\ EntryOK(q.todo[j], Planned)
    BY DEF TodoOK
  <2>1. PICK m : m = j + 1
    OBVIOUS
  <2>2. j \in 1 .. Len(t) - 1 /\ m \in 1 .. Len(t)
    BY <1>1, <2>1
  <2>3. q.todo[j] = t[m] /\ t[m].at = poll.offset - Len(t) + m /\ EntryOK(t[m], Planned)
    BY <1>1, <2>1, <2>2 DEF Going, TodoOK, t
  <2>4. q.offset - Len(q.todo) + j = poll.offset - Len(t) + m
    <3>1. Len(t) \in Nat /\ Len(q.todo) = Len(t) - 1 /\ poll.offset \in Nat /\ j \in Nat
      BY <1>1, <1>2, <2>2
    <3>2. PICK a : a = Len(t)
      OBVIOUS
    <3>3. PICK b : b = Len(q.todo)
      OBVIOUS
    <3>4. PICK o : o = poll.offset
      OBVIOUS
    <3>5. a \in Nat /\ b = a - 1 /\ o \in Nat /\ j \in Nat /\ m = j + 1
      BY <2>1, <3>1, <3>2, <3>3, <3>4
    <3>6. o - b + j = o - a + m
      BY <3>5
    <3> QED BY <3>2, <3>3, <3>4, <3>6
  <2> QED BY <2>3, <2>4
\* What waited is given now, or waits behind the entry.
<1>13. ASSUME NEW j \in OfTurn(Planned), IsGiven(poll, j, Planned) \/ Waits(poll, j, Planned)
       PROVE  IsGiven(q, j, Planned) \/ (Waits(q, j, Planned) /\ i < poll.offset)
  <2>1. j \in Indices /\ steps[j] \in Step /\ steps[j].raw \in Nat /\ c[j] \in Nat
    BY <1>2, <1>5 DEF Step
  <2>2. CASE IsGiven(poll, j, Planned)
    <3>1. c[j] >= steps[j].raw
      BY <2>2 DEF IsGiven, Planned, c
    <3>2. q.cursor[j] >= c[j] /\ q.cursor[j] \in Nat
      BY <1>6, <2>1 DEF c, i
    <3>3. q.cursor[j] >= steps[j].raw
      BY <2>1, <3>1, <3>2
    <3> QED BY <3>3 DEF IsGiven, Planned
  <2>3. CASE Waits(poll, j, Planned)
    <3>1. PICK m \in 1 .. Len(t) : t[m].at = j /\ t[m].step.raw >= steps[j].raw
      BY <2>3 DEF Waits, Planned, t
    <3>2. CASE m = 1
      <4>1. j = i /\ e.step.raw >= steps[j].raw
        BY <1>1, <3>1, <3>2 DEF i
      <4>2. e.step.raw \in Nat
        BY <1>4 DEF Step
      <4>3. q.cursor[j] >= steps[j].raw
        BY <1>6, <2>1, <4>1, <4>2
      <4> QED BY <4>3 DEF IsGiven, Planned
    <3>3. CASE m # 1
      <4>1. PICK l : l = m - 1 /\ l + 1 = m
        OBVIOUS
      <4>2. l \in 1 .. Len(t) - 1 /\ l \in 1 .. Len(q.todo)
        BY <1>1, <3>1, <3>3, <4>1
      <4>3. q.todo[l] = t[m]
        BY <1>1, <4>1, <4>2
      <4>4. Waits(q, j, Planned)
        BY <3>1, <4>2, <4>3 DEF Waits, Planned
      <4>5. i < poll.offset
        BY <1>1, <1>2, <4>2
      <4> QED BY <4>4, <4>5
    <3> QED BY <3>2, <3>3
  <2> QED BY <1>13, <2>2, <2>3
<1>14. Behind(q, Planned)
  <2> SUFFICES ASSUME NEW j \in prior + 1 .. Win(poll)
               PROVE  IsGiven(q, j, Planned) \/ (q.consumed < q.offset /\ Waits(q, j, Planned))
    BY <1>9 DEF Behind, Planned
  <2>1. IsGiven(poll, j, Planned) \/ (poll.consumed < poll.offset /\ Waits(poll, j, Planned))
    BY DEF Going, Behind, Planned
  <2>2. j \in OfTurn(Planned)
    <3>1. j \in prior + 1 .. n
      BY <1>2, <1>3
    <3> QED BY <3>1 DEF OfTurn, Planned, n
  <2>3. CASE IsGiven(poll, j, Planned)
    <3>1. steps[j] \in Step /\ j \in Indices
      BY <1>2, <2>2
    <3>2. q.cursor[j] >= c[j] /\ q.cursor[j] \in Nat /\ c[j] \in Nat /\ steps[j].raw \in Nat
      BY <1>5, <1>6, <3>1 DEF c, i, Step
    <3>3. c[j] >= steps[j].raw
      BY <2>3 DEF IsGiven, Planned, c
    <3> QED BY <3>2, <3>3 DEF IsGiven, Planned
  <2>4. CASE poll.consumed < poll.offset /\ Waits(poll, j, Planned)
    <3>1. IsGiven(q, j, Planned) \/ (Waits(q, j, Planned) /\ i < poll.offset)
      BY <1>13, <2>2, <2>4
    <3>2. i < poll.offset => q.consumed < q.offset
      BY <1>2, <1>4, <2>4 DEF i
    <3> QED BY <3>1, <3>2
  <2> QED BY <2>1, <2>3, <2>4
<1>15. SweepOK(q, Planned)
  BY <1>13 DEF Going, SweepOK
<1> QED BY <1>8, <1>10, <1>11, <1>12, <1>14, <1>15 DEF Going

\* The entry is given, to a client that takes it or to one that left; a tool ends
\* the turn; anything else is counted only.
LEMMA ConsumeKeeps ==
  ASSUME UpOK(Planned), OnTheWay, ~client.again,
         client \in [sent : SUBSET (Indices \X Nat), again : BOOLEAN, gone : BOOLEAN],
         Consume
  PROVE  /\ OnTheWay' \/ Over'
         /\ ~client'.again
         /\ client' \in [sent : SUBSET (Indices \X Nat), again : BOOLEAN, gone : BOOLEAN]
<1> DEFINE e  == Head(poll.todo)
           to == IF poll.final THEN Polished(e) ELSE Length(e)
           p  == Counted(poll, e)
           ps == Pieces(e.at, poll.cursor[e.at], to)
           q  == [p EXCEPT !.cursor[e.at] = to, !.sawText = TRUE, !.yielded = TRUE]
           g  == [q EXCEPT !.chunks = @ \cup ps]
           r  == [poll EXCEPT !.chunks = @ \cup {<<e.at, 0>>}]
           old == poll.cursor[e.at]
<1>1. /\ Going(poll, Planned) /\ poll.pc = "consume" /\ poll.todo # <<>>
      /\ frozen = <<>> /\ UNCHANGED <<steps, status, prior>>
  BY DEF OnTheWay, Consume
<1>2. /\ poll \in PollState /\ ~poll.pending /\ poll.chunks = Given(poll.cursor)
      /\ (poll.yielded \/ poll.chunks = {}) /\ client.sent = poll.chunks
  BY <1>1 DEF Going, OnTheWay
<1>3. /\ e \in Batch /\ EntryOK(e, Planned) /\ Tail(poll.todo) \in Seq(Batch)
      /\ e.at \in Indices /\ e.at \in Nat /\ e.step \in Step
  BY <1>1, BatchSplits DEF Batch, Indices
<1>4. /\ poll.cursor \in [Indices -> Nat] /\ old \in Nat /\ poll.consumed \in Nat
      /\ poll.chunks \in SUBSET (Indices \X Nat)
  BY <1>2, <1>3 DEF PollState
<1>5. to \in Nat /\ to >= e.step.raw /\ to <= Full(e.step) /\ e.step.raw \in Nat
  BY <1>3, FullIs DEF Polished, Length, Full
<1>6. Planned' = Planned
  BY <1>1, SaidStays
<1>7. PICK m \in Nat : m = IF e.at > poll.consumed THEN e.at ELSE poll.consumed
  BY <1>3, <1>4
<1>8. p = [poll EXCEPT !.todo = Tail(poll.todo), !.consumed = m]
  BY <1>2, <1>7 DEF Counted, PollState
<1>9. /\ p \in PollState /\ p.todo = Tail(poll.todo) /\ p.consumed = m
      /\ p.cursor = poll.cursor /\ p.chunks = poll.chunks /\ p.yielded = poll.yielded
      /\ p.pc = "consume" /\ ~p.pending /\ p.floor = poll.floor /\ p.offset = poll.offset
      /\ p.window = poll.window /\ p.next = poll.next /\ p.final = poll.final /\ p.early = poll.early
      /\ p.end = poll.end
  <2> HIDE DEF p, e
  <2> QED BY <1>1, <1>2, <1>3, <1>7, <1>8 DEF PollState
<1> HIDE DEF p, to, e, old
\* The cursor moves up, and the client gets something.
<1>10. ASSUME ps # {}
       PROVE  /\ Going(g, Planned) /\ g.chunks = client.sent \cup ps
              /\ ps \cap client.sent = {} /\ g \in PollState /\ ~g.pending
              /\ ps \in SUBSET (Indices \X Nat)
  <2>1. to > old
    <3>1. PICK x : x \in Pieces(e.at, old, to)
      BY <1>10 DEF old
    <3>2. PICK l \in old + 1 .. to : TRUE
      BY <3>1 DEF Pieces
    <3> QED BY <1>4, <1>5, <3>2
  <2> DEFINE d == [poll.cursor EXCEPT ![e.at] = to]
  <2>a. d = [poll.cursor EXCEPT ![e.at] = to] /\ to >= poll.cursor[e.at]
    BY <1>4, <1>5, <2>1 DEF old
  <2> HIDE DEF d
  <2>2. /\ d \in [Indices -> Nat] /\ Given(d) = Given(poll.cursor) \cup ps
        /\ ps \cap Given(poll.cursor) = {} /\ ps \in SUBSET (Indices \X Nat)
    <3>1. MovedUp(poll.cursor, e.at, to, d)
      BY <1>3, <1>4, <1>5, <2>a DEF MovedUp
    <3> QED BY <3>1, PiecesGiven
  <2>3. q = [p EXCEPT !.cursor = d, !.sawText = TRUE, !.yielded = TRUE]
    BY <1>9 DEF d, PollState
  <2>4. g = [p EXCEPT !.cursor = d, !.sawText = TRUE, !.yielded = TRUE, !.chunks = poll.chunks \cup ps]
    <3> HIDE DEF q, ps
    <3>1. q.chunks = poll.chunks
      BY <1>9, <2>3 DEF PollState
    <3> QED BY <1>9, <2>3, <3>1 DEF PollState
  <2>5. poll.chunks \cup ps \in SUBSET (Indices \X Nat)
    BY <1>4, <2>2
  <2>6. /\ g \in PollState /\ g.todo = Tail(poll.todo) /\ g.consumed = m
        /\ g.cursor = d /\ g.chunks = poll.chunks \cup ps /\ g.yielded = TRUE
        /\ g.pc = "consume" /\ ~g.pending /\ g.floor = poll.floor /\ g.offset = poll.offset
        /\ g.window = poll.window /\ g.next = poll.next /\ g.final = poll.final
        /\ g.early = poll.early /\ g.end = poll.end
    <3> HIDE DEF g, ps
    <3> QED BY <1>9, <2>2, <2>4, <2>5 DEF PollState
  <2> HIDE DEF g
  <2>7. Going(g, Planned)
    <3>1. e = Head(poll.todo) /\ to \in Nat /\ to >= poll.cursor[e.at] /\ to >= e.step.raw
          /\ (to <= Full(e.step) \/ to = poll.cursor[e.at])
      BY <1>4, <1>5, <2>1 DEF e, old
    <3>2. g.consumed = (IF e.at > poll.consumed THEN e.at ELSE poll.consumed)
      BY <1>7, <2>6
    <3>3. g.chunks = poll.chunks \cup Pieces(e.at, poll.cursor[e.at], to) /\ g.cursor = d
      BY <2>6
    <3> QED BY <1>1, <2>6, <3>1, <3>2, <3>3, EntryGoes DEF d
  <2> QED BY <1>2, <2>2, <2>6, <2>7
<1>11. CASE e.step.kind # "tool" /\ ps # {} /\ Give(q, ps) /\ UNCHANGED frozen
  <2>1. poll' = g /\ client' = [client EXCEPT !.sent = @ \cup ps,
                                              !.again = @ \/ ps \cap client.sent # {}]
    BY <1>11 DEF Give
  <2> HIDE DEF g, ps
  <2>2. client'.sent = client.sent \cup ps /\ ~client'.again
        /\ client' \in [sent : SUBSET (Indices \X Nat), again : BOOLEAN, gone : BOOLEAN]
    BY <1>10, <1>11, <2>1
  <2>3. OnTheWay'
    BY <1>1, <1>6, <1>10, <1>11, <2>1, <2>2 DEF OnTheWay
  <2> QED BY <2>2, <2>3
<1>12. CASE e.step.kind # "tool" /\ ps # {} /\ Undelivered(q, ps)
  <2>1. Ends(g, "aborted") /\ UNCHANGED client
    BY <1>12 DEF Undelivered
  <2> HIDE DEF g, ps
  <2>2. Resumable(g) => Going(FromSnapshot(g), Planned) /\ FromSnapshot(g).pending
    BY <1>10, <1>12, SnapGoes
  <2>3. client.sent \subseteq Said(1)
    BY SentWasSaid
  <2>4. "aborted" \in Reasons
    BY DEF Reasons
  <2>5. Over'
    BY <1>1, <1>10, <1>12, <2>1, <2>2, <2>3, <2>4, EndsOver
  <2> QED BY <2>1, <2>5
<1>13. CASE e.step.kind = "tool" /\ ~poll.final /\ Ends(r, "native_tool_call")
            /\ client' = [client EXCEPT !.sent = @ \cup {<<e.at, 0>>},
                                        !.again = @ \/ <<e.at, 0>> \in client.sent]
  <2>1. e.at \in Indices /\ <<e.at, 0>> \in Indices \X Nat /\ 0 \notin 1 .. poll.cursor[e.at]
    BY <1>3, <1>4
  <2>2. <<e.at, 0>> \notin client.sent
    BY <1>2, <2>1 DEF Given
  <2>3. <<e.at, 0>> \in Calls
    <3>1. e.at \in prior + 1 .. Len(steps) /\ steps[e.at].kind = "tool"
      BY <1>3, <1>13 DEF EntryOK, Planned, OfTurn
    <3> QED BY <3>1 DEF Calls
  <2>4. r \in PollState /\ r.yielded = poll.yielded /\ ~Resumable(r)
    <3>1. poll.chunks \cup {<<e.at, 0>>} \in SUBSET (Indices \X Nat)
      BY <1>4, <2>1
    <3>2. r \in PollState /\ r.yielded = poll.yielded /\ r.chunks = poll.chunks \cup {<<e.at, 0>>}
      BY <1>2, <3>1 DEF PollState
    <3>3. <<e.at, 0>> \in r.chunks /\ <<e.at, 0>>[2] = 0
      BY <3>2
    <3> HIDE DEF r
    <3> QED BY <3>2, <3>3 DEF Resumable
  <2>5. client'.sent = client.sent \cup {<<e.at, 0>>} /\ ~client'.again
        /\ client' \in [sent : SUBSET (Indices \X Nat), again : BOOLEAN, gone : BOOLEAN]
    BY <1>13, <2>1, <2>2
  <2>6. client.sent \subseteq Said(1)
    BY SentWasSaid
  <2>7. client'.sent \subseteq Said(1) \cup Calls
    BY <2>3, <2>5, <2>6
  <2>8. "native_tool_call" \in Reasons
    BY DEF Reasons
  <2> HIDE DEF r
  <2>9. Over'
    BY <1>1, <1>13, <2>4, <2>7, <2>8, EndsOver
  <2> QED BY <2>5, <2>9
<1>14. CASE /\ ~(e.step.kind # "tool" /\ ps # {}) /\ ~(e.step.kind = "tool" /\ ~poll.final)
            /\ poll' = p /\ UNCHANGED <<client, frozen>>
  <2>1. old >= e.step.raw
    <3>1. CASE ps = {}
      <4>1. ~(to > old)
        <5> SUFFICES ASSUME to > old PROVE FALSE
          OBVIOUS
        <5>1. old + 1 \in old + 1 .. to
          BY <1>4, <1>5
        <5>2. <<e.at, old + 1>> \in Pieces(e.at, old, to)
          BY <5>1 DEF Pieces
        <5> QED BY <3>1, <5>2 DEF old
      <4> QED BY <1>4, <1>5, <4>1
    <3>2. CASE e.step.kind = "tool"
      <4>1. e.step.raw <= steps[e.at].raw /\ steps[e.at].kind = "tool" /\ e.at \in OfTurn(Planned)
        BY <1>3, <3>2 DEF EntryOK, Planned
      <4>2. steps[e.at] \in Step /\ steps[e.at].raw \in Nat
        BY <1>1, <4>1, NumbersOf DEF Planned, Step
      <4>3. ~(steps[e.at].raw > 0)
        BY <4>1 DEF UpOK, Planned
      <4> QED BY <1>4, <1>5, <4>1, <4>2, <4>3
    <3> QED BY <1>14, <3>1, <3>2
  <2>2. Pieces(e.at, old, old) = {}
    <3>1. old + 1 .. old = {}
      BY <1>4
    <3> QED BY <3>1 DEF Pieces
  <2>3. poll.cursor = [poll.cursor EXCEPT ![e.at] = old]
    BY <1>3, <1>4 DEF old
  <2>4. Going(p, Planned)
    <3>1. e = Head(poll.todo) /\ old \in Nat /\ old >= poll.cursor[e.at] /\ old = poll.cursor[e.at]
      BY <1>4 DEF e, old
    <3>2. p.consumed = (IF e.at > poll.consumed THEN e.at ELSE poll.consumed)
      BY <1>7, <1>9
    <3>3. p.chunks = poll.chunks \cup Pieces(e.at, poll.cursor[e.at], old)
          /\ p.cursor = [poll.cursor EXCEPT ![e.at] = old]
      BY <1>9, <2>2, <2>3, <3>1
    <3>4. p.yielded \/ p.chunks = {}
      BY <1>2, <1>9
    <3>5. PICK k \in Nat : k = old
      BY <1>4
    <3>6. /\ k >= poll.cursor[e.at] /\ k >= e.step.raw
          /\ (k <= Full(e.step) \/ k = poll.cursor[e.at])
          /\ p.cursor = [poll.cursor EXCEPT ![e.at] = k]
          /\ p.chunks = poll.chunks \cup Pieces(e.at, poll.cursor[e.at], k)
      BY <2>1, <3>1, <3>3, <3>5
    <3>7. p \in PollState /\ p.todo = Tail(poll.todo) /\ p.pc = "consume" /\ ~p.pending
          /\ p.floor = poll.floor /\ p.offset = poll.offset /\ p.window = poll.window
          /\ p.next = poll.next /\ p.final = poll.final /\ p.early = poll.early
          /\ p.end = poll.end
      BY <1>9
    <3>8. Going(poll, Planned) /\ poll.pc = "consume" /\ poll.todo # <<>> /\ e = Head(poll.todo)
      BY <1>1, <3>1
    <3> HIDE DEF r
    <3> QED BY <3>2, <3>4, <3>6, <3>7, <3>8, EntryGoes
  <2>5. OnTheWay'
    BY <1>1, <1>2, <1>6, <1>9, <1>14, <2>4 DEF OnTheWay
  <2> QED BY <1>14, <2>5
<1> QED BY <1>11, <1>12, <1>13, <1>14 DEF Consume, e, to, p

-----------------------------------------------------------------------------
\* The batch is through: the window is behind, or the answer is complete.
LEMMA BatchDoneKeeps ==
  ASSUME UpOK(Planned), OnTheWay, BatchDone
  PROVE  OnTheWay' \/ Over'
<1>1. /\ Going(poll, Planned) /\ frozen = <<>> /\ poll.pc = "consume" /\ poll.todo = <<>>
      /\ UNCHANGED <<steps, status, client, prior>> /\ Len(poll.todo) = 0
  BY DEF OnTheWay, BatchDone
<1>2. /\ poll \in PollState /\ ~poll.pending /\ poll.chunks = Given(poll.cursor)
      /\ (poll.yielded \/ poll.chunks = {}) /\ client.sent = poll.chunks
      /\ CursorOK(poll.cursor, Planned) /\ poll.end = "none"
  BY <1>1 DEF Going, OnTheWay
<1>3. poll.cursor \in [Indices -> Nat] /\ poll.sawText \in BOOLEAN /\ poll.yielded \in BOOLEAN
  BY <1>2 DEF PollState
<1>4. CASE poll.final
  <2> DEFINE reason == IF poll.sawText \/ poll.yielded THEN "idle_done" ELSE "idle_empty"
  <2>1. Ends(poll, reason) /\ reason \in Reasons
    BY <1>4 DEF BatchDone, Reasons
  <2>2. client.sent \subseteq Said(1)
    BY <1>2, <1>3, GivenWasSaid
  <2>3. ~poll.early => status = "idle" /\ Said(0) \subseteq client.sent
    <3> SUFFICES ASSUME ~poll.early PROVE status = "idle" /\ Said(0) \subseteq client.sent
      OBVIOUS
    <3>1. status = "idle" /\ \A j \in OfTurn(Planned) : IsGiven(poll, j, Planned)
      BY <1>1, <1>4 DEF Going, SweepOK, Waits, Planned
    <3>2. \A j \in OfTurn(Planned) : poll.cursor[j] >= steps[j].raw
      BY <3>1 DEF IsGiven, Planned
    <3> QED BY <1>2, <1>3, <3>1, <3>2, AllSaid
  <2>4. reason \in {"idle_empty", "max_wait"} /\ ~poll.yielded => client.sent = {}
    BY <1>2
  <2>5. Resumable(poll) => Going(FromSnapshot(poll), Planned) /\ FromSnapshot(poll).pending
    BY <1>1, SnapGoes
  <2> HIDE DEF reason
  <2> QED BY <1>1, <1>2, <2>1, <2>2, <2>3, <2>4, <2>5, EndsOver
<1>5. CASE ~poll.final
  <2>1. poll' = [poll EXCEPT !.pc = "status"] /\ UNCHANGED frozen
    BY <1>5 DEF BatchDone
  <2> DEFINE q == [poll EXCEPT !.pc = "status"]
  <2>2. /\ q \in PollState /\ q.pc = "status" /\ q.todo = <<>> /\ ~q.pending
        /\ q.floor = poll.floor /\ q.offset = poll.offset /\ q.consumed = poll.consumed
        /\ q.window = poll.window /\ q.next = poll.next /\ q.cursor = poll.cursor
        /\ q.chunks = poll.chunks /\ q.yielded = poll.yielded /\ q.end = poll.end
    BY <1>1, <1>2 DEF PollState
  <2> HIDE DEF q
  <2>3. Going(q, Planned)
    <3>1. Win(q) = Win(poll)
      BY <2>2 DEF Win
    <3>2. PlacesOK(q, Planned) /\ Behind(q, Planned)
      BY <1>1, <2>2, <3>1 DEF Going, PlacesOK, Behind, IsGiven, Waits
    <3>3. Len(q.todo) = 0
      BY <2>2
    <3>4. TodoOK(q, Planned) /\ SweepOK(q, Planned)
      BY <2>2, <3>3 DEF TodoOK, SweepOK
    <3> QED BY <1>2, <2>2, <3>2, <3>4 DEF Going
  <2> QED BY <1>1, <1>2, <2>1, <2>2, <2>3, SaidStays DEF OnTheWay, q
<1> QED BY <1>4, <1>5

\* A turn that goes on to the next poll or to the sweep, where nothing waits.
LEMMA PollsOn ==
  ASSUME UpOK(Planned), OnTheWay, poll.pc = "status",
         UNCHANGED <<steps, status, client, frozen, prior>>,
         NEW q \in PollState, poll' = q,
         q.pc \in {"top", "sweep"}, q.pc = "sweep" /\ ~q.early => status = "idle",
         q.floor = poll.floor, q.offset = poll.offset, q.consumed = poll.consumed,
         q.window = poll.window, q.next = poll.next, q.cursor = poll.cursor,
         q.chunks = poll.chunks, q.yielded = poll.yielded, q.todo = poll.todo,
         q.pending = poll.pending, q.end = poll.end
  PROVE  OnTheWay'
<1>1. Going(poll, Planned) /\ frozen = <<>> /\ client.sent = poll.chunks /\ ~poll.pending
      /\ poll.todo = <<>>
  BY DEF OnTheWay, Going, TodoOK
<1>2. Win(q) = Win(poll) /\ Len(q.todo) = 0
  BY <1>1 DEF Win
<1>3. PlacesOK(q, Planned) /\ Behind(q, Planned)
  BY <1>1, <1>2 DEF Going, PlacesOK, Behind, IsGiven, Waits
<1>4. TodoOK(q, Planned) /\ SweepOK(q, Planned)
  BY <1>1, <1>2 DEF TodoOK, SweepOK, Planned
<1>5. Going(q, Planned)
  BY <1>1, <1>3, <1>4 DEF Going
<1> QED BY <1>1, <1>5, SaidStays DEF OnTheWay

\* What the status tells the turn moves no position.
LEMMA StatusKeeps ==
  ASSUME UpOK(Planned), OnTheWay, SeesActive \/ \E graceOver \in BOOLEAN : SeesIdle(graceOver)
  PROVE  OnTheWay'
<1>1. poll \in PollState
  BY DEF OnTheWay, Going
<1>2. CASE SeesActive
  <2> DEFINE q == [poll EXCEPT !.pc = "top", !.sawActive = TRUE, !.wasIdle = FALSE, !.idles = 0]
  <2>1. /\ q \in PollState /\ q.pc = "top"
        /\ q.floor = poll.floor /\ q.offset = poll.offset /\ q.consumed = poll.consumed
        /\ q.window = poll.window /\ q.next = poll.next /\ q.cursor = poll.cursor
        /\ q.chunks = poll.chunks /\ q.yielded = poll.yielded /\ q.todo = poll.todo
        /\ q.pending = poll.pending /\ q.end = poll.end
    BY <1>1 DEF PollState
  <2>2. poll' = q /\ poll.pc = "status" /\ UNCHANGED <<steps, status, client, frozen, prior>>
    BY <1>2 DEF SeesActive
  <2> HIDE DEF q
  <2> QED BY <2>1, <2>2, PollsOn
<1>3. ASSUME NEW graceOver \in BOOLEAN, SeesIdle(graceOver) PROVE OnTheWay'
  <2>1. /\ poll.pc = "status" /\ status # "active" /\ status \in {"new", "active", "idle"}
        /\ UNCHANGED <<steps, status, client, frozen, prior>>
    BY <1>3 DEF SeesIdle, UpOK, Planned
  <2>2. CASE poll' = [poll EXCEPT !.pc = "top", !.wasIdle = TRUE]
    <3> DEFINE q == [poll EXCEPT !.pc = "top", !.wasIdle = TRUE]
    <3>1. /\ q \in PollState /\ q.pc = "top"
          /\ q.floor = poll.floor /\ q.offset = poll.offset /\ q.consumed = poll.consumed
          /\ q.window = poll.window /\ q.next = poll.next /\ q.cursor = poll.cursor
          /\ q.chunks = poll.chunks /\ q.yielded = poll.yielded /\ q.todo = poll.todo
          /\ q.pending = poll.pending /\ q.end = poll.end
      BY <1>1 DEF PollState
    <3>2. poll' = q
      BY <2>2
    <3> HIDE DEF q
    <3> QED BY <2>1, <3>1, <3>2, PollsOn
  <2>3. ASSUME NEW pc \in {"top", "sweep"}, NEW n \in Nat,
               poll' = [poll EXCEPT !.pc = pc, !.wasIdle = TRUE, !.idles = n,
                                    !.early = (pc = "sweep" /\ status = "new")]
        PROVE  OnTheWay'
    <3> DEFINE early == (pc = "sweep" /\ status = "new")
               q == [poll EXCEPT !.pc = pc, !.wasIdle = TRUE, !.idles = n, !.early = early]
    <3>1. early \in BOOLEAN
      OBVIOUS
    <3>2. poll' = q
      BY <2>3
    <3>3. pc = "sweep" /\ ~early => status = "idle"
      BY <2>1
    <3> HIDE DEF early
    <3>4. /\ q \in PollState /\ q.pc = pc /\ q.early = early
          /\ q.floor = poll.floor /\ q.offset = poll.offset /\ q.consumed = poll.consumed
          /\ q.window = poll.window /\ q.next = poll.next /\ q.cursor = poll.cursor
          /\ q.chunks = poll.chunks /\ q.yielded = poll.yielded /\ q.todo = poll.todo
          /\ q.pending = poll.pending /\ q.end = poll.end
      BY <1>1, <3>1 DEF PollState
    <3> HIDE DEF q
    <3> QED BY <2>1, <3>2, <3>3, <3>4, PollsOn
  <2> DEFINE n == poll.idles + 1
             m == IF n > 4 THEN 4 ELSE n
  <2>4. n \in Nat /\ m \in Nat
    BY <1>1 DEF PollState
  <2>5. CASE \E pc \in {"top", "sweep"} :
               poll' = [poll EXCEPT !.pc = pc, !.wasIdle = TRUE, !.idles = m,
                                    !.early = (pc = "sweep" /\ status = "new")]
    <3>1. PICK pc \in {"top", "sweep"} :
               poll' = [poll EXCEPT !.pc = pc, !.wasIdle = TRUE, !.idles = m,
                                    !.early = (pc = "sweep" /\ status = "new")]
      BY <2>5
    <3> HIDE DEF m
    <3> QED BY <2>3, <2>4, <3>1
  <2>6. \/ poll' = [poll EXCEPT !.pc = "top", !.wasIdle = TRUE]
        \/ \E pc \in {"top"} \cup (IF n >= (IF poll.sawText THEN 2 ELSE 4)
                                    THEN {"sweep"} ELSE {}) :
               poll' = [poll EXCEPT !.pc = pc, !.wasIdle = TRUE, !.idles = m,
                                    !.early = (pc = "sweep" /\ status = "new")]
    BY <1>3 DEF SeesIdle
  <2> HIDE DEF n, m
  <2> QED BY <2>2, <2>5, <2>6
<1> QED BY <1>2, <1>3

-----------------------------------------------------------------------------
\* What was said goes on to be said.
LEMMA SaidGrows ==
  ASSUME UpOK(Planned), UpOK(Planned'), Grown(Planned, Planned')
  PROVE  Said(1) \cup Calls \subseteq (Said(1) \cup Calls)'
<1>1. /\ steps \in Seq(Step) /\ steps' \in Seq(Step) /\ prior' = prior /\ prior \in Nat
      /\ Len(steps) \in Nat /\ Len(steps') \in Nat /\ Len(steps) <= Len(steps')
      /\ \A i \in prior + 1 .. Len(steps) : /\ steps'[i].kind = steps[i].kind
                                            /\ Full(steps[i]) <= Full(steps'[i])
  BY DEF UpOK, Planned, Grown, OfTurn
<1>2. ASSUME NEW x \in Said(1) PROVE x \in Said(1)'
  <2>1. PICK i \in prior + 1 .. Len(steps) : \E k \in 1 .. MaxRaw + 1 : x = <<i, k>>
    BY <1>2 DEF Said, Text
  <2>2. PICK k \in 1 .. MaxRaw + 1 : x = <<i, k>>
    BY <2>1
  <2>3. i \in prior' + 1 .. Len(steps') /\ steps[i] \in Step /\ steps'[i] \in Step
    BY <1>1
  <2>4. x[1] = i /\ x[2] = k /\ k <= Full(steps[i])
    BY <1>2, <2>2 DEF Said, Full
  <2>5. k <= Full(steps'[i])
    <3>1. Full(steps[i]) \in Nat /\ Full(steps'[i]) \in Nat
      BY <2>3, FullIs
    <3> QED BY <1>1, <2>4, <3>1
  <2>6. x \in Text'
    BY <2>2, <2>3 DEF Text
  <2> QED BY <2>4, <2>5, <2>6 DEF Said, Full
<1>3. ASSUME NEW x \in Calls PROVE x \in Calls'
  <2>1. PICK i \in prior + 1 .. Len(steps) : steps[i].kind = "tool" /\ x = <<i, 0>>
    BY DEF Calls
  <2>2. i \in prior' + 1 .. Len(steps') /\ steps'[i].kind = "tool"
    BY <1>1, <2>1
  <2> QED BY <2>1, <2>2 DEF Calls
<1> QED BY <1>2, <1>3

\* The planner goes on while a turn is on its way, or after it.
LEMMA PlannerKeeps ==
  ASSUME UpOK(Planned), OnTheWay \/ Over, Planner
  PROVE  UpOK(Planned') /\ (OnTheWay' \/ Over')
<1>1. /\ UpOK(Planned') /\ Grown(Planned, Planned')
      /\ UNCHANGED <<poll, client, frozen>> /\ status # "idle"
  BY PlannerGrows DEF Planner
<1>2. CASE OnTheWay
  BY <1>1, <1>2, GoingGrows DEF OnTheWay
<1>3. CASE Over
  <2>1. client'.sent \subseteq (Said(1) \cup Calls)'
    BY <1>1, <1>3, SaidGrows DEF Over
  <2>2. FrozenOK'
    <3>1. CASE frozen = <<>>
      BY <1>1, <3>1 DEF FrozenOK
    <3>2. CASE \E q : frozen = <<q>> /\ Going(q, Planned) /\ q.pending
      <4>1. PICK q : frozen = <<q>> /\ Going(q, Planned) /\ q.pending
        BY <3>2
      <4>2. Going(q, Planned')
        BY <1>1, <4>1, GoingGrows
      <4> QED BY <1>1, <4>1, <4>2 DEF FrozenOK
    <3> QED BY <1>3, <3>1, <3>2 DEF Over, FrozenOK
  <2>3. WholeThen' /\ (Kind' = Kind)
    BY <1>1, <1>3 DEF Over, WholeThen, Kind
  <2> QED BY <1>1, <1>3, <2>1, <2>2, <2>3 DEF Over
<1> QED BY <1>1, <1>2, <1>3

\* The send is accepted: nothing of the new turn is given yet.
LEMMA AcceptedGoes ==
  ASSUME UpOK(Planned), Unsent, Accepted
  PROVE  OnTheWay'
<1>1. PICK n \in Nat : poll = [Start EXCEPT !.offset = prior, !.retries = n]
  BY DEF Unsent
<1>2. /\ Start \in PollState /\ Start.chunks = {} /\ Start.todo = <<>> /\ Start.next = -1
      /\ Start.end = "none" /\ ~Start.pending /\ \A i \in Indices : Start.cursor[i] = 0
  BY StartIs
<1>3. prior \in Nat /\ Len(steps) = prior
  <2>1. steps \in Seq(Step) /\ Len(steps) = prior
    BY DEF UpOK, Planned, Unsent
  <2> QED BY <2>1
<1> DEFINE q == [poll EXCEPT !.pc = "top", !.floor = poll.offset, !.consumed = poll.offset,
                             !.window = poll.offset]
<1>4. /\ poll \in PollState /\ poll.offset = prior /\ poll.chunks = {} /\ poll.todo = <<>>
      /\ poll.next = -1 /\ ~poll.pending /\ poll.cursor = Start.cursor /\ poll.end = "none"
  BY <1>1, <1>2, <1>3 DEF PollState
<1>5. /\ q \in PollState /\ q.pc = "top" /\ q.floor = prior /\ q.offset = prior
      /\ q.consumed = prior /\ q.window = prior /\ q.chunks = {} /\ q.todo = <<>>
      /\ q.next = -1 /\ ~q.pending /\ q.cursor = Start.cursor /\ q.end = "none"
  BY <1>3, <1>4 DEF PollState
<1> HIDE DEF q
<1>6. q.cursor \in [Indices -> Nat] /\ Given(q.cursor) = {} /\ Len(q.todo) = 0
  BY <1>2, <1>5, NothingGiven DEF PollState
<1>7. Win(q) = prior
  BY <1>3, <1>5 DEF Win
<1>8. PlacesOK(q, Planned) /\ Behind(q, Planned) /\ TodoOK(q, Planned) /\ SweepOK(q, Planned)
      /\ CursorOK(q.cursor, Planned)
  <2>1. prior + 1 .. prior = {}
    BY <1>3
  <2>2. PlacesOK(q, Planned)
    BY <1>3, <1>5, <1>7 DEF PlacesOK, Planned
  <2>3. Behind(q, Planned)
    BY <1>7, <2>1 DEF Behind, Planned
  <2>4. TodoOK(q, Planned) /\ SweepOK(q, Planned)
    BY <1>5, <1>6 DEF TodoOK, SweepOK
  <2>5. CursorOK(q.cursor, Planned)
    BY <1>2, <1>5 DEF CursorOK
  <2> QED BY <2>2, <2>3, <2>4, <2>5
<1>9. Going(q, Planned)
  BY <1>5, <1>6, <1>8 DEF Going
<1>10. poll' = q /\ UNCHANGED <<steps, status, client, frozen, prior>>
  BY DEF Accepted, q
<1> QED BY <1>5, <1>9, <1>10, SaidStays DEF OnTheWay, Unsent

\* The send fails for good.
LEMMA UnsentFails ==
  ASSUME UpOK(Planned), Unsent, Fails
  PROVE  Over'
<1>1. PICK n \in Nat : poll = [Start EXCEPT !.offset = prior, !.retries = n]
  BY DEF Unsent
<1>2. Start \in PollState /\ Start.chunks = {}
  BY StartIs
<1>3. prior \in Nat
  BY DEF UpOK, Planned
<1>4. poll \in PollState /\ poll.chunks = {}
  BY <1>1, <1>2, <1>3 DEF PollState
<1>5. ~Resumable(poll) /\ "error" \in Reasons
  BY <1>4 DEF Resumable, Reasons
<1>6. Ends(poll, "error") /\ UNCHANGED <<steps, status, client, prior>> /\ client.sent = {}
  BY DEF Fails, Unsent
<1> QED BY <1>4, <1>5, <1>6, EndsOver

\* A turn begins with nothing sent.
LEMMA PollInit0 ==
  ASSUME PollInit
  PROVE  PollInv
<1>1. /\ Len(steps) \in {0, 1} /\ steps \in Seq(Step) /\ prior = Len(steps)
      /\ status = "new"
  <2>1. [NewStep EXCEPT !.raw = 1] \in Step
    BY DEF NewStep, Step
  <2>2. CASE steps = <<>>
    BY <2>2 DEF PollInit
  <2>3. CASE steps = <<[NewStep EXCEPT !.raw = 1]>>
    <3> DEFINE e == [NewStep EXCEPT !.raw = 1]
    <3>1. steps = <<e>> /\ e \in Step
      BY <2>1, <2>3
    <3> HIDE DEF e
    <3>2. steps \in Seq(Step) /\ Len(steps) = 1
      BY <3>1
    <3> QED BY <3>2 DEF PollInit
  <2> QED BY <2>2, <2>3 DEF PollInit
<1>2. OfTurn(Planned) = {}
  BY <1>1 DEF OfTurn, Planned
<1>3. UpOK(Planned)
  BY <1>1, <1>2 DEF UpOK, Planned
<1>4. poll = [Start EXCEPT !.offset = prior, !.retries = 0]
  <2>1. poll = [Start EXCEPT !.offset = prior]
    BY DEF PollInit
  <2> QED BY <2>1, StartIs DEF PollState
<1>5. Unsent
  BY <1>1, <1>4 DEF Unsent, PollInit, Nobody
<1>6. ~client.again
      /\ client \in [sent : SUBSET (Indices \X Nat), again : BOOLEAN, gone : BOOLEAN]
  BY DEF PollInit, Nobody
<1> QED BY <1>3, <1>5, <1>6 DEF PollInv

\* Every step of the turn, of the upstream and of the clients.
LEMMA PollNextInv ==
  ASSUME PollInv, PollNext
  PROVE  PollInv'
<1> DEFINE Client == [sent : SUBSET (Indices \X Nat), again : BOOLEAN, gone : BOOLEAN]
<1>1. UpOK(Planned) /\ ~client.again /\ client \in Client /\ (Unsent \/ OnTheWay \/ Over)
  BY DEF PollInv
<1>2. Unsent => poll.pc = "send"
  <2> SUFFICES ASSUME Unsent PROVE poll.pc = "send"
    OBVIOUS
  <2>1. PICK n \in Nat : poll = [Start EXCEPT !.offset = prior, !.retries = n]
    BY DEF Unsent
  <2> QED BY <2>1, StartIs DEF PollState
<1>3. OnTheWay => poll.pc \in {"top", "consume", "status", "sweep"} /\ poll \in PollState
  BY DEF OnTheWay, Going
<1>4. Over => poll.pc = "ended"
  BY DEF Over
\* The upstream stands still, and the client is told nothing.
<1>5. ASSUME UNCHANGED <<steps, status, client, prior>>, Unsent' \/ OnTheWay' \/ Over'
      PROVE  PollInv'
  BY <1>1, <1>5, SaidStays DEF PollInv
<1>6. CASE Planner
  <2>1. OnTheWay \/ Over
    BY <1>1, <1>2, <1>6 DEF Planner
  <2>2. UpOK(Planned') /\ (OnTheWay' \/ Over') /\ UNCHANGED client
    BY <1>1, <1>6, <2>1, PlannerKeeps DEF Planner
  <2> QED BY <1>1, <2>2 DEF PollInv
<1>7. CASE Accepted
  <2>1. Unsent /\ UNCHANGED <<steps, status, client, prior>>
    BY <1>1, <1>3, <1>4, <1>7 DEF Accepted
  <2> QED BY <1>1, <1>5, <1>7, <2>1, AcceptedGoes
<1>8. CASE Forgotten
  <2>1. /\ Unsent /\ steps' = <<>> /\ prior' = 0 /\ status' = status
        /\ client' = client /\ frozen' = frozen
    BY <1>1, <1>3, <1>4, <1>8 DEF Forgotten
  <2>2. PICK n \in Nat : poll = [Start EXCEPT !.offset = prior, !.retries = n]
    BY <2>1 DEF Unsent
  <2>3. poll.retries = n
    BY <2>2, StartIs DEF PollState
  <2>4. n + 1 \in Nat /\ poll' = [poll EXCEPT !.retries = n + 1, !.offset = 0]
    BY <1>8, <2>3 DEF Forgotten
  <2>5. poll' = [Start EXCEPT !.offset = 0, !.retries = n + 1]
    BY <2>2, <2>4, StartIs DEF PollState
  <2>6. Len(steps') = 0 /\ steps' \in Seq(Step)
    BY <2>1
  <2>7. Unsent'
    BY <2>1, <2>4, <2>5, <2>6 DEF Unsent
  <2>8. UpOK(Planned')
    <3>1. OfTurn(Planned') = {}
      BY <2>1, <2>6 DEF OfTurn, Planned
    <3> QED BY <1>1, <2>1, <2>6, <3>1 DEF UpOK, Planned
  <2> QED BY <1>1, <2>1, <2>7, <2>8 DEF PollInv
<1>9. CASE Read \/ Sweep
  <2>1. OnTheWay
    BY <1>1, <1>2, <1>4, <1>9 DEF Read, Sweep
  <2>2. OnTheWay' \/ Over'
    BY <1>1, <1>9, <2>1, ReadKeeps, SweepKeeps
  <2>3. UNCHANGED <<steps, status, prior>>
        /\ client' = IF poll.pending THEN [client EXCEPT !.sent = poll.chunks] ELSE client
    BY <1>9 DEF Read, Sweep, Reading
  <2>4. poll.chunks \in SUBSET (Indices \X Nat)
    BY <1>3, <2>1 DEF PollState
  <2>5. ~client'.again /\ client' \in Client
    BY <1>1, <2>3, <2>4
  <2> QED BY <1>1, <2>2, <2>3, <2>5, SaidStays DEF PollInv
<1>10. CASE ClaimLost
  <2>1. /\ OnTheWay /\ UNCHANGED <<steps, status, client, frozen, prior>>
        /\ poll' = [poll EXCEPT !.pc = "ended", !.end = "error"]
    BY <1>1, <1>2, <1>4, <1>10 DEF ClaimLost
  <2>2. poll' \in PollState /\ poll'.pc = "ended" /\ poll'.end = "error"
    BY <1>3, <2>1 DEF PollState
  <2>3. client.sent \subseteq Said(1) /\ frozen = <<>>
    BY <1>1, <2>1, SentWasSaid DEF OnTheWay
  <2>4. Kind' # "empty"
    BY <2>2, EmptyIs
  <2>5. Over'
    BY <2>1, <2>2, <2>3, <2>4, SaidStays DEF Over, WholeThen, FrozenOK
  <2> QED BY <1>5, <2>1, <2>5
<1>11. CASE Consume
  <2>1. OnTheWay /\ UNCHANGED <<steps, status, prior>>
    BY <1>1, <1>2, <1>4, <1>11 DEF Consume
  <2>2. (OnTheWay' \/ Over') /\ ~client'.again /\ client' \in Client
    BY <1>1, <1>11, <2>1, ConsumeKeeps
  <2> QED BY <1>1, <2>1, <2>2, SaidStays DEF PollInv
<1>12. CASE BatchDone
  <2>1. OnTheWay /\ UNCHANGED <<steps, status, client, prior>>
    BY <1>1, <1>2, <1>4, <1>12 DEF BatchDone
  <2> QED BY <1>1, <1>5, <1>12, <2>1, BatchDoneKeeps
<1>13. CASE SeesActive \/ \E graceOver \in BOOLEAN : SeesIdle(graceOver)
  <2>1. OnTheWay /\ UNCHANGED <<steps, status, client, prior>>
    BY <1>1, <1>2, <1>4, <1>13 DEF SeesActive, SeesIdle
  <2> QED BY <1>1, <1>5, <1>13, <2>1, StatusKeeps
<1>14. CASE ColdStall \/ WarmStall \/ TimeIsUp \/ Aborted
  <2>1. OnTheWay /\ UNCHANGED <<steps, status, client, prior>>
    BY <1>1, <1>2, <1>4, <1>14 DEF ColdStall, WarmStall, TimeIsUp, Aborted
  <2>2. \E reason \in Reasons \ {"idle_done"} : Ends(poll, reason)
    BY <1>14 DEF ColdStall, WarmStall, TimeIsUp, Aborted, Reasons
  <2> QED BY <1>1, <1>5, <2>1, <2>2, StopsOver
<1>15. CASE Fails
  <2>1. UNCHANGED <<steps, status, client, prior>> /\ Ends(poll, "error") /\ poll.pc # "ended"
    BY <1>15 DEF Fails
  <2>2. "error" \in Reasons \ {"idle_done"}
    BY DEF Reasons
  <2> QED BY <1>1, <1>4, <1>5, <1>15, <2>1, <2>2, UnsentFails, StopsOver
<1>16. CASE Leaves
  <2>1. /\ client' = [client EXCEPT !.gone = TRUE] /\ poll.pc # "ended"
        /\ UNCHANGED <<steps, status, poll, frozen, prior>>
    BY <1>16 DEF Leaves
  <2>2. client'.sent = client.sent /\ ~client'.again /\ client' \in Client
    BY <1>1, <2>1
  <2>3. Unsent' \/ OnTheWay'
    BY <1>1, <1>4, <2>1, <2>2, SaidStays DEF Unsent, OnTheWay
  <2> QED BY <1>1, <2>1, <2>2, <2>3, SaidStays DEF PollInv
<1>17. CASE Resumes
  <2>1. /\ Over /\ frozen # <<>> /\ poll' = frozen[1] /\ client' = Nobody /\ frozen' = <<>>
        /\ UNCHANGED <<steps, status, prior>>
    BY <1>1, <1>2, <1>3, <1>17 DEF Resumes
  <2>2. PICK q : frozen = <<q>> /\ Going(q, Planned) /\ q.pending
    BY <2>1 DEF Over, FrozenOK
  <2>3. poll' = q /\ client'.sent = {} /\ ~client'.again /\ client' \in Client
    BY <2>1, <2>2 DEF Nobody
  <2>4. OnTheWay'
    BY <2>1, <2>2, <2>3, SaidStays DEF OnTheWay
  <2> QED BY <1>1, <2>1, <2>3, <2>4, SaidStays DEF PollInv
<1> QED BY <1>6, <1>7, <1>8, <1>9, <1>10, <1>11, <1>12, <1>13, <1>14, <1>15, <1>16, <1>17 DEF PollNext

\* What a client was given was given once and was said; an answer passed off as
\* whole has everything that was said, through resumed turns too; one passed off
\* as empty has given nothing: for any overlap, number of steps and pieces.
THEOREM AnswersWhole == PollSpec => []AnswerWhole
<1>1. PollInv => AnswerWhole
  <2> SUFFICES ASSUME PollInv PROVE AnswerWhole
    OBVIOUS
  <2>1. CASE Unsent
    <3>1. poll.end = "none" /\ client.sent = {}
      BY <2>1 DEF Unsent, Start
    <3> QED BY <3>1 DEF PollInv, AnswerWhole
  <2>2. CASE OnTheWay
    <3>1. client.sent \subseteq Said(1) /\ poll.end = "none"
      BY <2>2, SentWasSaid DEF PollInv, OnTheWay, Going
    <3>2. Kind = "none"
      BY <3>1 DEF Kind
    <3> QED BY <3>1, <3>2 DEF PollInv, AnswerWhole
  <2>3. CASE Over
    BY <2>3 DEF PollInv, AnswerWhole, Over, WholeThen
  <2> QED BY <2>1, <2>2, <2>3 DEF PollInv
<1>2. PollInv /\ UNCHANGED pollVars => PollInv'
  <2> SUFFICES ASSUME PollInv, UNCHANGED pollVars PROVE PollInv'
    OBVIOUS
  <2>1. UNCHANGED <<steps, status, poll, client, frozen, prior>>
    BY DEF pollVars
  <2>2. Said(0)' = Said(0) /\ Said(1)' = Said(1) /\ Calls' = Calls /\ Planned' = Planned
    BY <2>1, SaidStays
  <2>3. Kind' = Kind
    BY <2>1 DEF Kind
  <2>4. (Unsent => Unsent') /\ (OnTheWay => OnTheWay')
    BY <2>1, <2>2 DEF Unsent, OnTheWay
  <2>5. Over => Over'
    BY <2>1, <2>2, <2>3 DEF Over, WholeThen, FrozenOK
  <2> QED BY <2>1, <2>2, <2>4, <2>5 DEF PollInv
<1> QED BY <1>1, <1>2, PollInit0, PollNextInv, PTL DEF PollSpec

=============================================================================
