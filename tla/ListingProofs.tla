---------------------------- MODULE ListingProofs ----------------------------
(***************************************************************************)
(* Lists: what OnlyOf keeps and what Total adds up to (Listing), for any    *)
(* list.  Both are defined along the list, so that what they do is shown by *)
(* induction.  A schema over properties is out of the provers' reach: the   *)
(* two principles here are about sets, of numbers and of lists, that are    *)
(* closed under one more.                                                  *)
(***************************************************************************)
EXTENDS Listing, SequenceTheorems, WellFoundedInduction, TLAPS

\* There is a least of some numbers.
LEMMA LeastOf ==
  ASSUME NEW M \in SUBSET Nat, M # {}
  PROVE  \E x \in M : \A y \in M : x <= y
<1> DEFINE R == {ss \in Nat \X Nat : ss[1] < ss[2]}
<1>1. IsWellFoundedOn(R, Nat)
  BY NatLessThanWellFounded DEF OpToRel
<1> HIDE DEF R
<1>2. PICK x \in M : \A y \in M : ~ (<<y, x>> \in R)
  BY <1>1, WFMin, Zenon
<1>3. \A y \in M : ~ (y < x)
  BY <1>2 DEF R
<1> QED BY <1>3

\* What holds of 0, and of n + 1 when it holds of n, holds of every number.
LEMMA NatSetInduction ==
  ASSUME NEW T, 0 \in T, \A n \in Nat : n \in T => n + 1 \in T
  PROVE  Nat \subseteq T
<1> DEFINE Missing == Nat \ T
<1>1. SUFFICES ASSUME Missing # {} PROVE FALSE
  OBVIOUS
<1>2. Missing \in SUBSET Nat
  OBVIOUS
<1> HIDE DEF Missing
<1>3. PICK x \in Missing : \A y \in Missing : x <= y
  BY <1>1, <1>2, LeastOf
<1>4. x # 0 /\ x \in Nat
  BY <1>2 DEF Missing
<1>5. x - 1 \in Nat /\ ~ (x <= x - 1)
  BY <1>4
<1>6. x - 1 \in T
  BY <1>3, <1>5 DEF Missing
<1> QED
  BY <1>4, <1>5, <1>6 DEF Missing

\* What holds of the empty list, and of a list with one more at its end when it
\* holds of the list, holds of every list.
LEMMA ListInduction ==
  ASSUME NEW S, NEW T, <<>> \in T,
         \A s \in Seq(S), e \in S : s \in T => Append(s, e) \in T
  PROVE  Seq(S) \subseteq T
<1> DEFINE N == {n \in Nat : \A s \in Seq(S) : Len(s) = n => s \in T}
<1>1. 0 \in N
  <2>1. ASSUME NEW s \in Seq(S), Len(s) = 0 PROVE s = <<>>
    BY <2>1, EmptySeq
  <2> QED BY <2>1
<1>2. ASSUME NEW n \in Nat, n \in N PROVE n + 1 \in N
  <2>1. ASSUME NEW s \in Seq(S), Len(s) = n + 1 PROVE s \in T
    <3> DEFINE f == SubSeq(s, 1, n)
    <3>1. f \in Seq(S) /\ Len(f) = n /\ s[n + 1] \in S
      BY <2>1
    <3>2. Append(f, s[n + 1]) = s
      <4>1. Append(f, s[n + 1]) \in Seq(S) /\ Len(Append(f, s[n + 1])) = Len(s)
        BY <2>1, <3>1
      <4>2. \A i \in 1 .. Len(s) : Append(f, s[n + 1])[i] = s[i]
        BY <2>1, <3>1
      <4> HIDE DEF f
      <4> QED BY <4>1, <4>2, SeqEqual
    <3> HIDE DEF f
    <3>3. f \in T
      BY <1>2, <3>1
    <3> QED BY <3>1, <3>2, <3>3
  <2> QED BY <2>1
<1> HIDE DEF N
<1>3. Nat \subseteq N
  BY <1>1, <1>2, NatSetInduction
<1>4. \A s \in Seq(S) : Len(s) \in N
  BY <1>3
<1> QED BY <1>4 DEF N

\* A step that leads from values to values, once for each number, leads
\* somewhere, and to one place only.
Steps(f, a, step, n) == \A i \in 0 .. n : f[i] = IF i = 0 THEN a ELSE step[<<f[i - 1], i>>]

\* Such a sequence of values exists.
LEMMA Recursion ==
  ASSUME NEW V, NEW a \in V, NEW n \in Nat, NEW step \in [V \X (1 .. n) -> V]
  PROVE  \E f \in [0 .. n -> V] : Steps(f, a, step, n)
<1> DEFINE N == {m \in Nat : m <= n => \E f \in [0 .. m -> V] : Steps(f, a, step, m)}
<1>1. 0 \in N
  <2> DEFINE f == [i \in 0 .. 0 |-> a]
  <2>1. f \in [0 .. 0 -> V] /\ Steps(f, a, step, 0)
    BY DEF Steps
  <2> QED BY <2>1
<1>2. ASSUME NEW m \in Nat, m \in N PROVE m + 1 \in N
  <2> SUFFICES ASSUME m + 1 <= n PROVE \E f \in [0 .. m + 1 -> V] : Steps(f, a, step, m + 1)
    OBVIOUS
  <2>1. PICK g \in [0 .. m -> V] : Steps(g, a, step, m)
    BY <1>2
  <2> DEFINE f == [i \in 0 .. m + 1 |-> IF i = m + 1 THEN step[<<g[m], m + 1>>] ELSE g[i]]
  <2>2. step[<<g[m], m + 1>>] \in V
    BY <2>1
  <2>3. f \in [0 .. m + 1 -> V]
    BY <2>2
  <2>4. Steps(f, a, step, m + 1)
    <3>1. ASSUME NEW i \in 0 .. m + 1
          PROVE  f[i] = IF i = 0 THEN a ELSE step[<<f[i - 1], i>>]
      <4>1. CASE i = m + 1
        <5>1. i - 1 = m /\ i - 1 \in 0 .. m + 1 /\ i # 0 /\ m # m + 1
          BY <4>1
        <5>2. f[i - 1] = g[m] /\ f[i] = step[<<g[m], m + 1>>]
          BY <4>1, <5>1
        <5> QED BY <4>1, <5>1, <5>2
      <4>2. CASE i # m + 1
        <5>1. i \in 0 .. m /\ f[i] = g[i] /\ (i # 0 => f[i - 1] = g[i - 1])
          BY <4>2
        <5> QED BY <2>1, <5>1 DEF Steps
      <4> QED BY <4>1, <4>2
    <3> QED BY <3>1 DEF Steps
  <2> QED BY <2>3, <2>4
<1> HIDE DEF N
<1>3. n \in N
  BY <1>1, <1>2, NatSetInduction
<1> QED BY <1>3 DEF N

Follows(g, a, V, step, n) ==
    g[0] = a /\ \A i \in 1 .. n : g[i - 1] \in V => g[i] = step[<<g[i - 1], i>>]

BothRun(f, g, a, V, step, n) ==
    /\ n \in Nat /\ a \in V /\ step \in [V \X (1 .. n) -> V]
    /\ Steps(f, a, step, n) /\ Follows(g, a, V, step, n)

\* And whatever else follows the same rule ends with the same value.
LEMMA OneResult ==
  ASSUME NEW V, NEW f, NEW g, NEW a, NEW n, NEW step, BothRun(f, g, a, V, step, n)
  PROVE  g[n] = f[n]
<1>0. /\ n \in Nat /\ a \in V /\ step \in [V \X (1 .. n) -> V]
      /\ Steps(f, a, step, n) /\ Follows(g, a, V, step, n)
  BY DEF BothRun
<1> DEFINE N == {m \in Nat : m <= n => f[m] = g[m] /\ f[m] \in V}
<1>1. 0 \in N
  <2>1. 0 \in 0 .. n
    BY <1>0
  <2>2. f[0] = a /\ g[0] = a
    BY <1>0, <2>1 DEF Steps, Follows
  <2> QED BY <1>0, <2>2
<1>2. ASSUME NEW m \in Nat, m \in N PROVE m + 1 \in N
  <2> SUFFICES ASSUME m + 1 <= n PROVE f[m + 1] = g[m + 1] /\ f[m + 1] \in V
    OBVIOUS
  <2>1. m + 1 \in 1 .. n /\ m + 1 \in 0 .. n /\ m + 1 # 0 /\ m + 1 - 1 = m
    BY <1>0
  <2>2. f[m] = g[m] /\ f[m] \in V
    BY <1>0, <1>2
  <2>3. f[m + 1] = step[<<f[m + 1 - 1], m + 1>>]
    BY <1>0, <2>1 DEF Steps
  <2>4. f[m + 1] = step[<<f[m], m + 1>>]
    BY <2>1, <2>3
  <2>5. g[m + 1] = step[<<g[m], m + 1>>]
    BY <1>0, <2>1, <2>2 DEF Follows
  <2>6. step[<<f[m], m + 1>>] \in V
    BY <1>0, <2>1, <2>2
  <2> QED BY <2>2, <2>4, <2>5, <2>6
<1> HIDE DEF N
<1>3. n \in N
  BY <1>0, <1>1, <1>2, NatSetInduction
<1> QED BY <1>0, <1>3 DEF N

-----------------------------------------------------------------------------
\* What is kept of a list (OnlyOf): of the empty list, and of a list with one
\* more at its end.
OnlyRun(f, s, T) ==
    /\ f[Len(s)] = OnlyOf(s, T) /\ f[0] = <<>>
    /\ \A i \in 1 .. Len(s) : f[i] = IF s[i] \in T THEN Append(f[i - 1], s[i]) ELSE f[i - 1]

\* OnlyOf is the last of the lists that its recursion goes through.
LEMMA OnlyOfRuns ==
  ASSUME NEW S, NEW s \in Seq(S), NEW T
  PROVE  \E f : OnlyRun(f, s, T) /\ f[Len(s)] \in Seq(S)
<1> DEFINE V == Seq(S)
           n == Len(s)
           step == [p \in V \X (1 .. n) |-> IF s[p[2]] \in T THEN Append(p[1], s[p[2]]) ELSE p[1]]
           Is(f) == f = [i \in 0 .. n |-> IF i = 0 THEN <<>>
                                          ELSE IF s[i] \in T THEN Append(f[i - 1], s[i])
                                          ELSE f[i - 1]]
<1>1. <<>> \in V /\ n \in Nat
  OBVIOUS
<1>2. \A p \in V \X (1 .. n) : s[p[2]] \in S /\ p[1] \in Seq(S)
  OBVIOUS
<1>3. step \in [V \X (1 .. n) -> V]
  BY <1>2
<1>4. \A v \in V, i \in 1 .. n : step[<<v, i>>] = IF s[i] \in T THEN Append(v, s[i]) ELSE v
  OBVIOUS
<1> HIDE DEF step, V, n
<1>5. PICK f \in [0 .. n -> V] : Steps(f, <<>>, step, n)
  BY <1>1, <1>3, Recursion
<1>6. f[0] = <<>> /\ \A i \in 1 .. n : f[i] = step[<<f[i - 1], i>>]
  <2>1. 0 \in 0 .. n /\ \A i \in 1 .. n : i \in 0 .. n /\ i # 0
    BY <1>1
  <2> QED BY <1>5, <2>1 DEF Steps
<1>7. \A i \in 1 .. n : f[i] = IF s[i] \in T THEN Append(f[i - 1], s[i]) ELSE f[i - 1]
  <2> SUFFICES ASSUME NEW i \in 1 .. n
               PROVE  f[i] = IF s[i] \in T THEN Append(f[i - 1], s[i]) ELSE f[i - 1]
    OBVIOUS
  <2>1. i - 1 \in 0 .. n
    BY <1>1
  <2>2. f[i - 1] \in V
    BY <2>1
  <2> QED BY <1>4, <1>6, <2>2
<1>8. Is(f)
  <2>1. \A i \in 0 .. n : i # 0 => i \in 1 .. n
    BY <1>1
  <2> QED BY <1>6, <1>7, <2>1
<1>9. ASSUME NEW g, Is(g) PROVE g[n] = f[n]
  <2>1. 0 \in 0 .. n /\ \A i \in 1 .. n : i \in 0 .. n /\ i # 0
    BY <1>1
  <2>2. g[0] = <<>>
    BY <1>9, <2>1
  <2>3. \A i \in 1 .. n : g[i] = IF s[i] \in T THEN Append(g[i - 1], s[i]) ELSE g[i - 1]
    BY <1>9, <2>1
  <2>4. \A i \in 1 .. n : g[i - 1] \in V => g[i] = step[<<g[i - 1], i>>]
    BY <1>4, <2>3
  <2> HIDE DEF Is
  <2>5. Follows(g, <<>>, V, step, n)
    BY <2>2, <2>4 DEF Follows
  <2>6. BothRun(f, g, <<>>, V, step, n)
    BY <1>1, <1>3, <1>5, <2>5 DEF BothRun
  <2> QED BY <2>6, OneResult
<1>10. Is(CHOOSE g : Is(g))
  BY <1>8
<1>11. OnlyOf(s, T) = (CHOOSE g : Is(g))[n]
  BY DEF OnlyOf, n
<1> HIDE DEF Is
<1>12. f[n] = OnlyOf(s, T)
  BY <1>9, <1>10, <1>11
<1>13. f[n] \in V
  BY <1>1
<1> QED BY <1>6, <1>7, <1>12, <1>13 DEF n, V, OnlyRun

\* Nothing is kept of nothing.
LEMMA OnlyOfEmpty ==
  ASSUME NEW T
  PROVE  OnlyOf(<<>>, T) = <<>>
<1>1. <<>> \in Seq({}) /\ Len(<<>>) = 0
  OBVIOUS
<1>2. PICK f : OnlyRun(f, <<>>, T)
  BY <1>1, OnlyOfRuns
<1> QED BY <1>1, <1>2 DEF OnlyRun

\* What is kept of a list is a list of the same entries.
LEMMA OnlyOfIn ==
  ASSUME NEW S, NEW s \in Seq(S), NEW T
  PROVE  OnlyOf(s, T) \in Seq(S)
BY OnlyOfRuns DEF OnlyRun

\* An entry at the end is kept at the end, or dropped.
LEMMA OnlyOfAppend ==
  ASSUME NEW S, NEW s \in Seq(S), NEW e \in S, NEW T
  PROVE  OnlyOf(Append(s, e), T) = IF e \in T THEN Append(OnlyOf(s, T), e) ELSE OnlyOf(s, T)
<1> DEFINE n == Len(s)
           t == Append(s, e)
<1>1. n \in Nat /\ t \in Seq(S) /\ Len(t) = n + 1 /\ t[n + 1] = e
      /\ \A i \in 1 .. n : t[i] = s[i]
  OBVIOUS
<1> HIDE DEF t
<1>2. PICK f : OnlyRun(f, t, T)
  BY <1>1, OnlyOfRuns
<1>3. PICK g : OnlyRun(g, s, T)
  BY OnlyOfRuns
<1> HIDE DEF n
<1> DEFINE N == {m \in Nat : m <= n => f[m] = g[m]}
<1>4. 0 \in N
  BY <1>2, <1>3 DEF OnlyRun
<1>5. ASSUME NEW m \in Nat, m \in N PROVE m + 1 \in N
  <2> SUFFICES ASSUME m + 1 <= n PROVE f[m + 1] = g[m + 1]
    OBVIOUS
  <2>1. m + 1 \in 1 .. n /\ m + 1 \in 1 .. n + 1 /\ m + 1 - 1 = m
    BY <1>1
  <2>2. f[m] = g[m]
    BY <1>1, <1>5
  <2>3. t[m + 1] = s[m + 1]
    BY <1>1, <2>1
  <2>4. f[m + 1] = IF t[m + 1] \in T THEN Append(f[m], t[m + 1]) ELSE f[m]
    BY <1>1, <1>2, <2>1 DEF OnlyRun
  <2>5. g[m + 1] = IF s[m + 1] \in T THEN Append(g[m], s[m + 1]) ELSE g[m]
    BY <1>3, <2>1 DEF OnlyRun, n
  <2> QED BY <2>2, <2>3, <2>4, <2>5
<1> HIDE DEF N
<1>6. n \in N
  BY <1>1, <1>4, <1>5, NatSetInduction
<1>7. f[n] = g[n]
  BY <1>1, <1>6 DEF N
<1>8. PICK k \in 1 .. n + 1 : k = n + 1 /\ k - 1 = n
  BY <1>1
<1>9. f[k] = IF t[k] \in T THEN Append(f[k - 1], t[k]) ELSE f[k - 1]
  BY <1>1, <1>2 DEF OnlyRun
<1>10. OnlyOf(t, T) = IF e \in T THEN Append(OnlyOf(s, T), e) ELSE OnlyOf(s, T)
  BY <1>1, <1>2, <1>3, <1>7, <1>8, <1>9 DEF OnlyRun, n
<1> QED BY <1>10 DEF t

-----------------------------------------------------------------------------
\* What is kept comes from the list, in its order, and nothing else is lost:
\* an increasing map from the places of r to those of s says where from.
Embeds(h, r, s, T) ==
    /\ h \in [1 .. Len(r) -> 1 .. Len(s)]
    /\ \A i, j \in 1 .. Len(r) : i < j => h[i] < h[j]
    /\ \A i \in 1 .. Len(r) : r[i] = s[h[i]] /\ r[i] \in T
    /\ \A k \in 1 .. Len(s) : s[k] \in T => \E i \in 1 .. Len(r) : h[i] = k

\* Such a map exists for what OnlyOf keeps.
LEMMA OnlyOfEmbeds ==
  ASSUME NEW S, NEW s \in Seq(S), NEW T
  PROVE  \E h : Embeds(h, OnlyOf(s, T), s, T)
<1> DEFINE Good == {x \in Seq(S) : \E h : Embeds(h, OnlyOf(x, T), x, T)}
<1>1. <<>> \in Good
  <2>1. Embeds([i \in 1 .. 0 |-> i], <<>>, <<>>, T)
    BY DEF Embeds
  <2> QED BY <2>1, OnlyOfEmpty
<1>2. ASSUME NEW x \in Seq(S), NEW e \in S, x \in Good PROVE Append(x, e) \in Good
  <2> DEFINE r == OnlyOf(x, T)
             y == Append(x, e)
  <2>1. PICK h : Embeds(h, r, x, T)
    BY <1>2
  <2>2. r \in Seq(S) /\ y \in Seq(S)
    BY OnlyOfIn
  <2>3. Len(y) = Len(x) + 1 /\ y[Len(x) + 1] = e /\ \A i \in 1 .. Len(x) : y[i] = x[i]
    OBVIOUS
  <2>4. Len(x) \in Nat /\ Len(r) \in Nat
    BY <2>2
  <2> HIDE DEF r, y
  <2>5. CASE e \in T
    <3> DEFINE q == Append(r, e)
               g == [i \in 1 .. Len(r) + 1 |-> IF i = Len(r) + 1 THEN Len(x) + 1 ELSE h[i]]
    <3>1. OnlyOf(y, T) = q
      BY <2>5, OnlyOfAppend DEF r, y
    <3>2. Len(q) = Len(r) + 1 /\ q[Len(r) + 1] = e /\ \A i \in 1 .. Len(r) : q[i] = r[i]
      BY <2>2
    <3> HIDE DEF q
    <3>3. \A i \in 1 .. Len(r) : g[i] = h[i] /\ h[i] \in 1 .. Len(x)
      <4>1. \A i \in 1 .. Len(r) : i \in 1 .. Len(r) + 1 /\ i # Len(r) + 1
        BY <2>4
      <4>2. \A i \in 1 .. Len(r) : h[i] \in 1 .. Len(x)
        BY <2>1 DEF Embeds
      <4>3. \A i \in 1 .. Len(r) + 1 : g[i] = IF i = Len(r) + 1 THEN Len(x) + 1 ELSE h[i]
        OBVIOUS
      <4> HIDE DEF g
      <4> QED BY <4>1, <4>2, <4>3
    <3>4. g[Len(r) + 1] = Len(x) + 1
      BY <2>4
    <3>5. g \in [1 .. Len(r) + 1 -> 1 .. Len(x) + 1]
      <4>1. \A i \in 1 .. Len(r) + 1 : i = Len(r) + 1 \/ i \in 1 .. Len(r)
        BY <2>4
      <4>2. Len(x) + 1 \in 1 .. Len(x) + 1 /\ \A k \in 1 .. Len(x) : k \in 1 .. Len(x) + 1
        BY <2>4
      <4>3. \A i \in 1 .. Len(r) + 1 : g[i] \in 1 .. Len(x) + 1
        BY <3>3, <3>4, <4>1, <4>2
      <4> QED BY <4>3
    <3> HIDE DEF g
    <3>6. \A i \in 1 .. Len(r) + 1 : i = Len(r) + 1 \/ i \in 1 .. Len(r)
      BY <2>4
    <3>7. ASSUME NEW i \in 1 .. Len(r) + 1, NEW j \in 1 .. Len(r) + 1, i < j PROVE g[i] < g[j]
      <4>1. i \in 1 .. Len(r)
        BY <2>4, <3>7
      <4>2. CASE j = Len(r) + 1
        BY <2>4, <3>3, <3>4, <4>1, <4>2
      <4>3. CASE j \in 1 .. Len(r)
        BY <2>1, <3>3, <3>7, <4>1, <4>3 DEF Embeds
      <4> QED BY <3>6, <4>2, <4>3
    <3>8. ASSUME NEW i \in 1 .. Len(r) + 1 PROVE q[i] = y[g[i]] /\ q[i] \in T
      <4>1. CASE i = Len(r) + 1
        BY <2>3, <2>5, <3>2, <3>4, <4>1
      <4>2. CASE i \in 1 .. Len(r)
        BY <2>1, <2>3, <3>2, <3>3, <4>2 DEF Embeds
      <4> QED BY <3>6, <4>1, <4>2
    <3>9. ASSUME NEW k \in 1 .. Len(y), y[k] \in T PROVE \E i \in 1 .. Len(r) + 1 : g[i] = k
      <4>1. CASE k = Len(x) + 1
        BY <2>4, <3>4, <4>1
      <4>2. CASE k \in 1 .. Len(x)
        <5>1. PICK i \in 1 .. Len(r) : h[i] = k
          BY <2>1, <2>3, <3>9, <4>2 DEF Embeds
        <5>2. i \in 1 .. Len(r) + 1
          BY <2>4
        <5> QED BY <3>3, <5>1, <5>2
      <4> QED BY <2>3, <2>4, <4>1, <4>2
    <3>10. Embeds(g, q, y, T)
      BY <2>3, <3>2, <3>5, <3>7, <3>8, <3>9 DEF Embeds
    <3> QED BY <2>2, <3>1, <3>10 DEF y
  <2>6. CASE e \notin T
    <3>1. OnlyOf(y, T) = r
      BY <2>6, OnlyOfAppend DEF r, y
    <3>2. h \in [1 .. Len(r) -> 1 .. Len(y)]
      BY <2>1, <2>3, <2>4 DEF Embeds
    <3>3. \A i \in 1 .. Len(r) : h[i] \in 1 .. Len(x) /\ r[i] = x[h[i]] /\ r[i] \in T
      BY <2>1 DEF Embeds
    <3>4. \A i \in 1 .. Len(r) : r[i] = y[h[i]] /\ r[i] \in T
      BY <2>3, <3>3
    <3>5. \A k \in 1 .. Len(y) : y[k] \in T => \E i \in 1 .. Len(r) : h[i] = k
      <4>1. \A k \in 1 .. Len(y) : k = Len(x) + 1 \/ k \in 1 .. Len(x)
        BY <2>3, <2>4
      <4> QED BY <2>1, <2>3, <2>6, <4>1 DEF Embeds
    <3>6. Embeds(h, r, y, T)
      BY <2>1, <3>2, <3>4, <3>5 DEF Embeds
    <3> QED BY <2>2, <3>1, <3>6 DEF y
  <2> QED BY <2>5, <2>6
<1> HIDE DEF Good
<1>3. s \in Good
  BY <1>1, <1>2, ListInduction
<1> QED BY <1>3 DEF Good

\* The entries that are kept are those of the list that are wanted.
LEMMA OnlyOfEntries ==
  ASSUME NEW S, NEW s \in Seq(S), NEW T
  PROVE  /\ \A i \in 1 .. Len(OnlyOf(s, T)) :
               OnlyOf(s, T)[i] \in T /\ \E k \in 1 .. Len(s) : OnlyOf(s, T)[i] = s[k]
         /\ \A k \in 1 .. Len(s) :
               s[k] \in T => \E i \in 1 .. Len(OnlyOf(s, T)) : OnlyOf(s, T)[i] = s[k]
<1> DEFINE r == OnlyOf(s, T)
<1>1. PICK h : Embeds(h, r, s, T)
  BY OnlyOfEmbeds
<1> HIDE DEF r
<1>2. \A i \in 1 .. Len(r) : r[i] \in T /\ r[i] = s[h[i]] /\ h[i] \in 1 .. Len(s)
  BY <1>1 DEF Embeds
<1>3. \A k \in 1 .. Len(s) : s[k] \in T => \E i \in 1 .. Len(r) : r[i] = s[k]
  BY <1>1, <1>2 DEF Embeds
<1> QED BY <1>2, <1>3 DEF r

\* What is told apart by its key in a list is told apart in what is kept of it.
Apart(s, key) == \A i, j \in 1 .. Len(s) : key[s[i]] = key[s[j]] => i = j

\* Keys stay apart.
LEMMA OnlyOfApart ==
  ASSUME NEW S, NEW s \in Seq(S), NEW T, NEW key, Apart(s, key)
  PROVE  Apart(OnlyOf(s, T), key)
<1> DEFINE r == OnlyOf(s, T)
<1>1. PICK h : Embeds(h, r, s, T)
  BY OnlyOfEmbeds
<1>2. r \in Seq(S)
  BY OnlyOfIn
<1> HIDE DEF r
<1>3. SUFFICES ASSUME NEW i \in 1 .. Len(r), NEW j \in 1 .. Len(r), key[r[i]] = key[r[j]]
               PROVE  i = j
  BY DEF Apart, r
<1>4. r[i] = s[h[i]] /\ r[j] = s[h[j]] /\ h[i] \in 1 .. Len(s) /\ h[j] \in 1 .. Len(s)
  BY <1>1 DEF Embeds
<1>5. h[i] = h[j]
  BY <1>3, <1>4 DEF Apart
<1>6. ~(i < j) /\ ~(j < i)
  BY <1>1, <1>4, <1>5 DEF Embeds
<1> QED BY <1>2, <1>6

\* What is kept is not longer than the list.
LEMMA OnlyOfShorter ==
  ASSUME NEW S, NEW s \in Seq(S), NEW T
  PROVE  Len(OnlyOf(s, T)) \in Nat /\ Len(OnlyOf(s, T)) <= Len(s)
<1> DEFINE Good == {x \in Seq(S) : Len(OnlyOf(x, T)) \in Nat /\ Len(OnlyOf(x, T)) <= Len(x)}
<1>1. <<>> \in Good
  BY OnlyOfEmpty
<1>2. ASSUME NEW x \in Seq(S), NEW e \in S, x \in Good PROVE Append(x, e) \in Good
  <2>1. OnlyOf(x, T) \in Seq(S)
    BY OnlyOfIn
  <2>2. OnlyOf(Append(x, e), T) = IF e \in T THEN Append(OnlyOf(x, T), e) ELSE OnlyOf(x, T)
    BY OnlyOfAppend
  <2> QED BY <1>2, <2>1, <2>2
<1> HIDE DEF Good
<1>3. s \in Good
  BY <1>1, <1>2, ListInduction
<1> QED BY <1>3 DEF Good

\* The kept part is shorter when something is dropped.
LEMMA OnlyOfDrops ==
  ASSUME NEW S, NEW s \in Seq(S), NEW T, NEW k \in 1 .. Len(s), s[k] \notin T
  PROVE  Len(OnlyOf(s, T)) + 1 <= Len(s)
<1> DEFINE Good == {x \in Seq(S) : (\E i \in 1 .. Len(x) : x[i] \notin T)
                                      => Len(OnlyOf(x, T)) + 1 <= Len(x)}
<1>1. <<>> \in Good
  <2>1. <<>> \in Seq(S) /\ Len(<<>>) = 0
    OBVIOUS
  <2> QED BY <2>1
<1>2. ASSUME NEW x \in Seq(S), NEW e \in S, x \in Good PROVE Append(x, e) \in Good
  <2>1. OnlyOf(x, T) \in Seq(S) /\ Len(OnlyOf(x, T)) <= Len(x)
    BY OnlyOfIn, OnlyOfShorter
  <2>2. OnlyOf(Append(x, e), T) = IF e \in T THEN Append(OnlyOf(x, T), e) ELSE OnlyOf(x, T)
    BY OnlyOfAppend
  <2> DEFINE y == Append(x, e)
             r == OnlyOf(y, T)
  <2>3. y \in Seq(S) /\ Len(y) = Len(x) + 1 /\ y[Len(x) + 1] = e
        /\ \A i \in 1 .. Len(x) : y[i] = x[i]
    OBVIOUS
  <2>4. r = IF e \in T THEN Append(OnlyOf(x, T), e) ELSE OnlyOf(x, T)
    BY <2>2
  <2> HIDE DEF y, r
  <2>5. ASSUME NEW i \in 1 .. Len(y), y[i] \notin T PROVE Len(r) + 1 <= Len(y)
    <3>1. CASE e \notin T
      BY <2>1, <2>3, <2>4, <3>1
    <3>2. CASE e \in T
      <4>1. i \in 1 .. Len(x) /\ x[i] \notin T
        BY <2>3, <2>5, <3>2
      <4> QED BY <1>2, <2>1, <2>3, <2>4, <3>2, <4>1
    <3> QED BY <3>1, <3>2
  <2> QED BY <2>3, <2>5 DEF y, r
<1> HIDE DEF Good
<1>3. s \in Good
  BY <1>1, <1>2, ListInduction
<1> QED BY <1>3 DEF Good

\* What is kept twice is kept once, by both conditions.
LEMMA OnlyOfTwice ==
  ASSUME NEW S, NEW s \in Seq(S), NEW T, NEW U
  PROVE  OnlyOf(OnlyOf(s, T), U) = OnlyOf(s, T \cap U)
<1> DEFINE Good == {x \in Seq(S) : OnlyOf(OnlyOf(x, T), U) = OnlyOf(x, T \cap U)}
<1>1. <<>> \in Good
  BY OnlyOfEmpty
<1>2. ASSUME NEW x \in Seq(S), NEW e \in S, x \in Good PROVE Append(x, e) \in Good
  <2>1. OnlyOf(x, T) \in Seq(S)
    BY OnlyOfIn
  <2>2. OnlyOf(Append(x, e), T) = IF e \in T THEN Append(OnlyOf(x, T), e) ELSE OnlyOf(x, T)
    BY OnlyOfAppend
  <2>3. OnlyOf(Append(x, e), T \cap U)
          = IF e \in T \cap U THEN Append(OnlyOf(x, T \cap U), e) ELSE OnlyOf(x, T \cap U)
    BY OnlyOfAppend
  <2>4. OnlyOf(Append(OnlyOf(x, T), e), U)
          = IF e \in U THEN Append(OnlyOf(OnlyOf(x, T), U), e) ELSE OnlyOf(OnlyOf(x, T), U)
    BY <2>1, OnlyOfAppend
  <2>5. OnlyOf(OnlyOf(x, T), U) = OnlyOf(x, T \cap U)
    BY <1>2
  <2>6. Append(x, e) \in Seq(S)
    OBVIOUS
  <2>7. CASE e \in T
    <3>1. OnlyOf(Append(x, e), T) = Append(OnlyOf(x, T), e)
      BY <2>2, <2>7
    <3>2. CASE e \in U
      BY <2>3, <2>4, <2>5, <2>6, <2>7, <3>1, <3>2
    <3>3. CASE e \notin U
      BY <2>3, <2>4, <2>5, <2>6, <3>1, <3>3
    <3> QED BY <3>2, <3>3
  <2>8. CASE e \notin T
    BY <2>2, <2>3, <2>5, <2>6, <2>8
  <2> QED BY <2>7, <2>8
<1> HIDE DEF Good
<1>3. s \in Good
  BY <1>1, <1>2, ListInduction
<1> QED BY <1>3 DEF Good

\* Nothing is dropped that is wanted.
LEMMA OnlyOfAll ==
  ASSUME NEW S, NEW s \in Seq(S), NEW T, S \subseteq T
  PROVE  OnlyOf(s, T) = s
<1> DEFINE Good == {x \in Seq(S) : OnlyOf(x, T) = x}
<1>1. <<>> \in Good
  BY OnlyOfEmpty
<1>2. ASSUME NEW x \in Seq(S), NEW e \in S, x \in Good PROVE Append(x, e) \in Good
  <2>1. OnlyOf(Append(x, e), T) = Append(OnlyOf(x, T), e)
    BY OnlyOfAppend
  <2> QED BY <1>2, <2>1
<1> HIDE DEF Good
<1>3. s \in Good
  BY <1>1, <1>2, ListInduction
<1> QED BY <1>3 DEF Good

\* Dropping first the ones and then the others is the same the other way round;
\* what is kept counts no more of U than the list, and less if one is dropped.
LEMMA OnlyOfCounts ==
  ASSUME NEW S, NEW s \in Seq(S), NEW T, NEW U
  PROVE  /\ OnlyOf(OnlyOf(s, T), U) = OnlyOf(OnlyOf(s, U), T)
         /\ Len(OnlyOf(OnlyOf(s, T), U)) <= Len(OnlyOf(s, U))
         /\ \A k \in 1 .. Len(s) : s[k] \in U /\ s[k] \notin T =>
               Len(OnlyOf(OnlyOf(s, T), U)) + 1 <= Len(OnlyOf(s, U))
<1>1. OnlyOf(OnlyOf(s, T), U) = OnlyOf(OnlyOf(s, U), T)
  <2>1. T \cap U = U \cap T
    OBVIOUS
  <2>2. OnlyOf(OnlyOf(s, T), U) = OnlyOf(s, T \cap U)
    BY OnlyOfTwice
  <2>3. OnlyOf(OnlyOf(s, U), T) = OnlyOf(s, U \cap T)
    BY OnlyOfTwice
  <2> QED BY <2>1, <2>2, <2>3
<1> DEFINE r == OnlyOf(s, U)
<1>2. r \in Seq(S)
  BY OnlyOfIn
<1>3. \A k \in 1 .. Len(s) : s[k] \in U => \E i \in 1 .. Len(r) : r[i] = s[k]
  BY OnlyOfEntries
<1> HIDE DEF r
<1>4. Len(OnlyOf(r, T)) <= Len(r)
  BY <1>2, OnlyOfShorter
<1>5. ASSUME NEW k \in 1 .. Len(s), s[k] \in U, s[k] \notin T
      PROVE  Len(OnlyOf(r, T)) + 1 <= Len(r)
  <2>1. PICK i \in 1 .. Len(r) : r[i] = s[k]
    BY <1>3, <1>5
  <2>2. r[i] \notin T
    BY <1>5, <2>1
  <2> QED BY <1>2, <2>2, OnlyOfDrops
<1> QED BY <1>1, <1>4, <1>5 DEF r

-----------------------------------------------------------------------------
\* The sum of what a list weighs (Total).
TotalRun(f, s, weight) ==
    /\ f[Len(s)] = Total(s, weight) /\ f[0] = 0
    /\ \A i \in 1 .. Len(s) : f[i] = f[i - 1] + weight[s[i]]

\* Total is the last of the sums that its recursion goes through.
LEMMA TotalRuns ==
  ASSUME NEW S, NEW s \in Seq(S), NEW weight \in [S -> Nat]
  PROVE  \E f \in [0 .. Len(s) -> Nat] : TotalRun(f, s, weight)
<1> DEFINE V == Nat
           n == Len(s)
           step == [p \in V \X (1 .. n) |-> p[1] + weight[s[p[2]]]]
           Is(f) == f = [i \in 0 .. n |-> IF i = 0 THEN 0 ELSE f[i - 1] + weight[s[i]]]
<1>1. n \in Nat /\ 0 \in V
  OBVIOUS
<1>2. \A p \in V \X (1 .. n) : weight[s[p[2]]] \in V /\ p[1] \in V
  OBVIOUS
<1>3. step \in [V \X (1 .. n) -> V]
  BY <1>2
<1>4. \A v \in V, i \in 1 .. n : step[<<v, i>>] = v + weight[s[i]]
  OBVIOUS
<1>n. V = Nat
  OBVIOUS
<1> HIDE DEF step, n, V
<1>5. PICK f : f \in [0 .. n -> V] /\ Steps(f, 0, step, n)
  BY <1>1, <1>3, Recursion
<1>6. f[0] = 0 /\ \A i \in 1 .. n : f[i] = step[<<f[i - 1], i>>]
  <2>1. 0 \in 0 .. n /\ \A i \in 1 .. n : i \in 0 .. n /\ i # 0
    BY <1>1, <1>n
  <2> QED BY <1>5, <2>1 DEF Steps
<1>7. \A i \in 1 .. n : f[i] = f[i - 1] + weight[s[i]]
  <2> SUFFICES ASSUME NEW i \in 1 .. n PROVE f[i] = f[i - 1] + weight[s[i]]
    OBVIOUS
  <2>1. i - 1 \in 0 .. n
    BY <1>1, <1>n
  <2>2. f[i - 1] \in V
    BY <1>5, <2>1
  <2> QED BY <1>4, <1>6, <2>2, <1>n
<1>8. Is(f)
  <2>1. \A i \in 0 .. n : i # 0 => i \in 1 .. n
    BY <1>1, <1>n
  <2> QED BY <1>5, <1>6, <1>7, <2>1
<1>9. ASSUME NEW g, Is(g) PROVE g[n] = f[n]
  <2>1. 0 \in 0 .. n /\ \A i \in 1 .. n : i \in 0 .. n /\ i # 0
    BY <1>1, <1>n
  <2>2. g[0] = 0
    BY <1>9, <2>1
  <2>3. \A i \in 1 .. n : g[i] = g[i - 1] + weight[s[i]]
    BY <1>9, <2>1
  <2>4. \A i \in 1 .. n : g[i - 1] \in V => g[i] = step[<<g[i - 1], i>>]
    BY <1>4, <2>3
  <2> HIDE DEF Is
  <2>5. Follows(g, 0, V, step, n)
    BY <2>2, <2>4 DEF Follows
  <2>6. BothRun(f, g, 0, V, step, n)
    BY <1>1, <1>3, <1>5, <2>5 DEF BothRun
  <2> QED BY <2>6, OneResult
<1>10. Is(CHOOSE g : Is(g))
  BY <1>8
<1>11. Total(s, weight) = (CHOOSE g : Is(g))[n]
  BY DEF Total, n
<1> HIDE DEF Is
<1>12. f[n] = Total(s, weight)
  BY <1>9, <1>10, <1>11
<1> QED BY <1>5, <1>6, <1>7, <1>12 DEF n, V, TotalRun

\* Nothing weighs nothing.
LEMMA TotalEmpty ==
  ASSUME NEW S, NEW weight \in [S -> Nat]
  PROVE  Total(<<>>, weight) = 0
<1>1. <<>> \in Seq(S) /\ Len(<<>>) = 0
  OBVIOUS
<1>2. PICK f : TotalRun(f, <<>>, weight)
  BY <1>1, TotalRuns
<1> QED BY <1>1, <1>2 DEF TotalRun

\* A sum of natural numbers is one.
LEMMA TotalIn ==
  ASSUME NEW S, NEW s \in Seq(S), NEW weight \in [S -> Nat]
  PROVE  Total(s, weight) \in Nat
BY TotalRuns DEF TotalRun

\* An entry at the end adds its weight.
LEMMA TotalAppend ==
  ASSUME NEW S, NEW s \in Seq(S), NEW e \in S, NEW weight \in [S -> Nat]
  PROVE  Total(Append(s, e), weight) = Total(s, weight) + weight[e]
<1> DEFINE n == Len(s)
           t == Append(s, e)
<1>1. n \in Nat /\ t \in Seq(S) /\ Len(t) = n + 1 /\ t[n + 1] = e
      /\ \A i \in 1 .. n : t[i] = s[i]
  OBVIOUS
<1> HIDE DEF t
<1>2. PICK f : TotalRun(f, t, weight)
  BY <1>1, TotalRuns
<1>3. PICK g : TotalRun(g, s, weight)
  BY TotalRuns
<1> HIDE DEF n
<1> DEFINE N == {m \in Nat : m <= n => f[m] = g[m]}
<1>4. 0 \in N
  BY <1>2, <1>3 DEF TotalRun
<1>5. ASSUME NEW m \in Nat, m \in N PROVE m + 1 \in N
  <2> SUFFICES ASSUME m + 1 <= n PROVE f[m + 1] = g[m + 1]
    OBVIOUS
  <2>1. PICK k \in 1 .. n : k = m + 1 /\ k - 1 = m /\ k \in 1 .. n + 1
    BY <1>1
  <2>2. f[m] = g[m]
    BY <1>1, <1>5
  <2>3. t[k] = s[k]
    BY <1>1, <2>1
  <2>4. f[k] = f[k - 1] + weight[t[k]]
    BY <1>1, <1>2, <2>1 DEF TotalRun
  <2>5. g[k] = g[k - 1] + weight[s[k]]
    BY <1>3, <2>1 DEF TotalRun, n
  <2> QED BY <2>1, <2>2, <2>3, <2>4, <2>5
<1> HIDE DEF N
<1>6. n \in N
  BY <1>1, <1>4, <1>5, NatSetInduction
<1>7. f[n] = g[n]
  BY <1>1, <1>6 DEF N
<1>8. PICK k \in 1 .. n + 1 : k = n + 1 /\ k - 1 = n
  BY <1>1
<1>9. f[k] = f[k - 1] + weight[t[k]]
  BY <1>1, <1>2 DEF TotalRun
<1>10. Total(t, weight) = Total(s, weight) + weight[e]
  BY <1>1, <1>2, <1>3, <1>7, <1>8, <1>9 DEF TotalRun, n
<1> QED BY <1>10 DEF t

\* Each entry is in one half, and what is kept weighs no more than the list.
LEMMA TotalSplits ==
  ASSUME NEW S, NEW s \in Seq(S), NEW weight \in [S -> Nat], NEW T
  PROVE  Total(s, weight) = Total(OnlyOf(s, T), weight) + Total(OnlyOf(s, S \ T), weight)
<1> DEFINE Good == {x \in Seq(S) : Total(x, weight)
                      = Total(OnlyOf(x, T), weight) + Total(OnlyOf(x, S \ T), weight)}
<1>1. <<>> \in Good
  BY OnlyOfEmpty, TotalEmpty
<1>2. ASSUME NEW x \in Seq(S), NEW e \in S, x \in Good PROVE Append(x, e) \in Good
  <2> DEFINE p == OnlyOf(x, T)
             q == OnlyOf(x, S \ T)
  <2>1. p \in Seq(S) /\ q \in Seq(S)
    BY OnlyOfIn
  <2>2. /\ OnlyOf(Append(x, e), T) = IF e \in T THEN Append(p, e) ELSE p
        /\ OnlyOf(Append(x, e), S \ T) = IF e \in S \ T THEN Append(q, e) ELSE q
    BY OnlyOfAppend
  <2>3. Total(x, weight) = Total(p, weight) + Total(q, weight)
    BY <1>2
  <2> HIDE DEF p, q
  <2>4. /\ Total(x, weight) \in Nat /\ Total(p, weight) \in Nat /\ Total(q, weight) \in Nat
        /\ weight[e] \in Nat
    BY <2>1, TotalIn
  <2>5. /\ Total(Append(x, e), weight) = Total(x, weight) + weight[e]
        /\ Total(Append(p, e), weight) = Total(p, weight) + weight[e]
        /\ Total(Append(q, e), weight) = Total(q, weight) + weight[e]
    BY <2>1, TotalAppend
  <2>6. Append(x, e) \in Seq(S)
    OBVIOUS
  <2> DEFINE y == Append(x, e)
             pe == OnlyOf(y, T)
             qe == OnlyOf(y, S \ T)
  <2> HIDE DEF y, pe, qe
  <2>7. Total(y, weight) = Total(pe, weight) + Total(qe, weight)
    <3>1. CASE e \in T
      <4>1. pe = Append(p, e) /\ qe = q
        BY <2>2, <3>1 DEF pe, qe, y
      <4> QED BY <2>3, <2>4, <2>5, <4>1 DEF y
    <3>2. CASE e \notin T
      <4>1. pe = p /\ qe = Append(q, e)
        BY <2>2, <3>2 DEF pe, qe, y
      <4> QED BY <2>3, <2>4, <2>5, <4>1 DEF y
    <3> QED BY <3>1, <3>2
  <2> QED BY <2>6, <2>7 DEF y, pe, qe
<1> HIDE DEF Good
<1>3. s \in Good
  BY <1>1, <1>2, ListInduction
<1> QED BY <1>3 DEF Good

\* Lists of the same weights weigh the same.
LEMMA TotalSame ==
  ASSUME NEW S, NEW s \in Seq(S), NEW t \in Seq(S), NEW weight \in [S -> Nat],
         Len(s) = Len(t), \A i \in 1 .. Len(s) : weight[s[i]] = weight[t[i]]
  PROVE  Total(s, weight) = Total(t, weight)
<1> DEFINE n == Len(s)
<1>1. PICK f : TotalRun(f, s, weight)
  BY TotalRuns
<1>2. PICK g : TotalRun(g, t, weight)
  BY TotalRuns
<1>3. n \in Nat /\ Len(t) = n
  OBVIOUS
<1> DEFINE N == {m \in Nat : m <= n => f[m] = g[m]}
<1>4. 0 \in N
  BY <1>1, <1>2 DEF TotalRun
<1>5. ASSUME NEW m \in Nat, m \in N PROVE m + 1 \in N
  <2> SUFFICES ASSUME m + 1 <= n PROVE f[m + 1] = g[m + 1]
    OBVIOUS
  <2>1. PICK k \in 1 .. n : k = m + 1 /\ k - 1 = m
    BY <1>3
  <2>2. f[m] = g[m]
    BY <1>3, <1>5
  <2>4. f[k] = f[k - 1] + weight[s[k]]
    BY <1>1, <2>1 DEF TotalRun
  <2>5. g[k] = g[k - 1] + weight[t[k]]
    BY <1>2, <1>3, <2>1 DEF TotalRun
  <2> QED BY <2>1, <2>2, <2>4, <2>5
<1> HIDE DEF N
<1>6. n \in N
  BY <1>3, <1>4, <1>5, NatSetInduction
<1>7. f[n] = g[n]
  BY <1>3, <1>6 DEF N
<1> QED BY <1>1, <1>2, <1>3, <1>7 DEF TotalRun

\* The entries that are kept weigh what all do, when the others weigh nothing.
LEMMA TotalOfKept ==
  ASSUME NEW S, NEW s \in Seq(S), NEW T, NEW weight \in [S -> Nat], NEW some \in [S -> Nat],
         \A e \in S : some[e] = IF e \in T THEN weight[e] ELSE 0
  PROVE  Total(OnlyOf(s, T), weight) = Total(s, some)
<1> DEFINE Good == {x \in Seq(S) : Total(OnlyOf(x, T), weight) = Total(x, some)}
<1>1. <<>> \in Good
  BY OnlyOfEmpty, TotalEmpty
<1>2. ASSUME NEW x \in Seq(S), NEW e \in S, x \in Good PROVE Append(x, e) \in Good
  <2> DEFINE r == OnlyOf(x, T)
  <2>1. r \in Seq(S)
    BY OnlyOfIn
  <2>2. OnlyOf(Append(x, e), T) = IF e \in T THEN Append(r, e) ELSE r
    BY OnlyOfAppend
  <2>3. Total(r, weight) = Total(x, some)
    BY <1>2
  <2> HIDE DEF r
  <2>4. Total(Append(r, e), weight) = Total(r, weight) + weight[e]
    BY <2>1, TotalAppend
  <2>5. Total(Append(x, e), some) = Total(x, some) + some[e]
    BY TotalAppend
  <2>6. Total(x, some) \in Nat
    BY TotalIn
  <2>7. Total(OnlyOf(Append(x, e), T), weight) = Total(Append(x, e), some)
    BY <2>2, <2>3, <2>4, <2>5, <2>6
  <2>8. Append(x, e) \in Seq(S)
    OBVIOUS
  <2> QED BY <2>7, <2>8
<1> HIDE DEF Good
<1>3. Seq(S) \subseteq Good
  BY <1>1, <1>2, ListInduction
<1> QED BY <1>3 DEF Good

\* One entry is replaced.
LEMMA TotalWritten ==
  ASSUME NEW S, NEW s \in Seq(S), NEW t \in Seq(S), NEW k \in 1 .. Len(s),
         NEW weight \in [S -> Nat], Len(t) = Len(s),
         \A i \in 1 .. Len(s) : i # k => t[i] = s[i]
  PROVE  Total(t, weight) = Total(s, weight) - weight[s[k]] + weight[t[k]]
<1> DEFINE n == Len(s)
           e == t[k]
<1>1. /\ n \in Nat /\ t \in Seq(S) /\ Len(t) = n /\ t[k] = e /\ e \in S
      /\ \A i \in 1 .. n : i # k => t[i] = s[i]
  OBVIOUS
<1> HIDE DEF e
<1>2. PICK f \in [0 .. n -> Nat] : TotalRun(f, t, weight)
  BY <1>1, TotalRuns
<1>3. PICK g \in [0 .. n -> Nat] : TotalRun(g, s, weight)
  BY TotalRuns
<1>w. weight[e] \in Nat /\ weight[s[k]] \in Nat
  BY <1>1
<1> DEFINE N == {m \in Nat : m <= n =>
                   f[m] = IF k <= m THEN g[m] - weight[s[k]] + weight[e] ELSE g[m]}
<1>4. 0 \in N
  BY <1>2, <1>3 DEF TotalRun
<1>5. ASSUME NEW m \in Nat, m \in N PROVE m + 1 \in N
  <2> SUFFICES ASSUME m + 1 <= n
               PROVE  f[m + 1] = IF k <= m + 1 THEN g[m + 1] - weight[s[k]] + weight[e]
                                               ELSE g[m + 1]
    OBVIOUS
  <2>1. PICK j \in 1 .. n : j = m + 1 /\ j - 1 = m
    BY <1>1
  <2>2. f[m] = IF k <= m THEN g[m] - weight[s[k]] + weight[e] ELSE g[m]
    BY <1>1, <1>5
  <2>3. f[m] \in Nat /\ g[m] \in Nat /\ weight[s[j]] \in Nat
    <3>1. m \in 0 .. n /\ s[j] \in S
      BY <1>1
    <3> QED BY <1>1, <1>2, <1>3, <3>1
  <2>4. f[j] = f[j - 1] + weight[t[j]]
    BY <1>1, <1>2, <2>1 DEF TotalRun
  <2>5. g[j] = g[j - 1] + weight[s[j]]
    BY <1>3, <2>1 DEF TotalRun
  <2>6. CASE k = j
    BY <1>1, <1>w, <2>1, <2>2, <2>3, <2>4, <2>5, <2>6
  <2>7. CASE k # j
    <3>1. t[j] = s[j]
      BY <1>1, <2>7
    <3> QED BY <1>1, <1>w, <2>1, <2>2, <2>3, <2>4, <2>5, <2>7, <3>1
  <2> QED BY <2>6, <2>7
<1> HIDE DEF N
<1>6. n \in N
  BY <1>1, <1>4, <1>5, NatSetInduction
<1>7. f[n] = g[n] - weight[s[k]] + weight[e]
  BY <1>1, <1>6 DEF N
<1>8. Total(t, weight) = Total(s, weight) - weight[s[k]] + weight[e]
  BY <1>1, <1>2, <1>3, <1>7 DEF TotalRun
<1> QED BY <1>8 DEF e

\* What is kept is counted by a weight of one, so that lists which agree on
\* what is in T keep as many.
LEMMA OnlyOfSame ==
  ASSUME NEW S, NEW s \in Seq(S), NEW t \in Seq(S), NEW T,
         Len(s) = Len(t), \A i \in 1 .. Len(s) : s[i] \in T <=> t[i] \in T
  PROVE  Len(OnlyOf(s, T)) = Len(OnlyOf(t, T))
<1> DEFINE one == [e \in S |-> IF e \in T THEN 1 ELSE 0]
<1>1. one \in [S -> Nat] /\ \A e \in S : one[e] = IF e \in T THEN 1 ELSE 0
  OBVIOUS
<1> HIDE DEF one
<1> DEFINE Good == {x \in Seq(S) : Len(OnlyOf(x, T)) = Total(x, one)}
<1>2. <<>> \in Good
  BY <1>1, OnlyOfEmpty, TotalEmpty
<1>3. ASSUME NEW x \in Seq(S), NEW e \in S, x \in Good PROVE Append(x, e) \in Good
  <2>1. OnlyOf(x, T) \in Seq(S) /\ Total(x, one) = Len(OnlyOf(x, T))
    BY <1>3, OnlyOfIn
  <2>2. OnlyOf(Append(x, e), T) = IF e \in T THEN Append(OnlyOf(x, T), e) ELSE OnlyOf(x, T)
    BY OnlyOfAppend
  <2>3. Total(Append(x, e), one) = Total(x, one) + one[e]
    BY <1>1, TotalAppend
  <2>4. Append(x, e) \in Seq(S) /\ one[e] = IF e \in T THEN 1 ELSE 0
    BY <1>1
  <2>5. Len(OnlyOf(Append(x, e), T)) = Total(Append(x, e), one)
    <3>1. CASE e \in T
      <4>1. Len(Append(OnlyOf(x, T), e)) = Len(OnlyOf(x, T)) + 1
        BY <2>1
      <4> QED BY <2>1, <2>2, <2>3, <2>4, <3>1, <4>1
    <3>2. CASE e \notin T
      <4>1. Len(OnlyOf(x, T)) \in Nat
        BY <2>1
      <4> QED BY <2>1, <2>2, <2>3, <2>4, <3>2, <4>1
    <3> QED BY <3>1, <3>2
  <2> QED BY <2>4, <2>5
<1> HIDE DEF Good
<1>4. s \in Good /\ t \in Good
  BY <1>2, <1>3, ListInduction
<1>5. \A i \in 1 .. Len(s) : one[s[i]] = one[t[i]]
  <2> SUFFICES ASSUME NEW i \in 1 .. Len(s) PROVE one[s[i]] = one[t[i]]
    OBVIOUS
  <2>1. s[i] \in S /\ t[i] \in S
    OBVIOUS
  <2> QED BY <1>1, <2>1
<1>6. Total(s, one) = Total(t, one)
  BY <1>1, <1>5, TotalSame
<1> QED BY <1>4, <1>6 DEF Good

-----------------------------------------------------------------------------
\* Lists by their entries (AllOf).
LEMMA AllOfKept ==
  ASSUME NEW S, NEW s \in Seq(S), NEW T
  PROVE  AllOf(OnlyOf(s, T)) = AllOf(s) \cap T
<1> DEFINE r == OnlyOf(s, T)
<1>1. r \in Seq(S)
  BY OnlyOfIn
<1>2. /\ \A i \in 1 .. Len(r) : r[i] \in T /\ \E k \in 1 .. Len(s) : r[i] = s[k]
      /\ \A k \in 1 .. Len(s) : s[k] \in T => \E i \in 1 .. Len(r) : r[i] = s[k]
  BY OnlyOfEntries
<1> HIDE DEF r
<1>3. AllOf(r) = {r[i] : i \in 1 .. Len(r)} /\ AllOf(s) = {s[i] : i \in 1 .. Len(s)}
  BY <1>1 DEF AllOf
<1>4. AllOf(r) \subseteq AllOf(s) \cap T
  BY <1>2, <1>3
<1>5. AllOf(s) \cap T \subseteq AllOf(r)
  BY <1>2, <1>3
<1> QED BY <1>4, <1>5 DEF r

\* A list is one of its own entries.
LEMMA ListOfItsOwn ==
  ASSUME NEW S, NEW s \in Seq(S)
  PROVE  s \in Seq(AllOf(s))
BY DEF AllOf

\* Where all entries are wanted, all are kept.
LEMMA OnlyOfWhole ==
  ASSUME NEW S, NEW s \in Seq(S), NEW T, AllOf(s) \subseteq T
  PROVE  OnlyOf(s, T) = s
BY ListOfItsOwn, OnlyOfAll

\* What is kept depends on which of the entries are wanted.
LEMMA OnlyOfAgrees ==
  ASSUME NEW S, NEW s \in Seq(S), NEW T, NEW U, AllOf(s) \cap T = AllOf(s) \cap U
  PROVE  OnlyOf(s, T) = OnlyOf(s, U)
<1> DEFINE A == AllOf(s)
<1>1. OnlyOf(s, A) = s
  BY OnlyOfWhole
<1> HIDE DEF A
<1>2. OnlyOf(OnlyOf(s, A), T) = OnlyOf(s, A \cap T) /\ OnlyOf(OnlyOf(s, A), U) = OnlyOf(s, A \cap U)
  BY OnlyOfTwice
<1>3. A \cap T = A \cap U
  BY DEF A
<1> QED BY <1>1, <1>2, <1>3

\* Where no entry is wanted nothing is kept.
LEMMA OnlyOfNone ==
  ASSUME NEW S, NEW s \in Seq(S), NEW T, AllOf(s) \cap T = {}
  PROVE  OnlyOf(s, T) = <<>>
<1> DEFINE r == OnlyOf(s, T)
<1>1. r \in Seq(S) /\ AllOf(r) = {}
  BY OnlyOfIn, AllOfKept
<1> HIDE DEF r
<1>2. Len(r) = 0
  <2>1. Len(r) \in Nat /\ DOMAIN r = 1 .. Len(r)
    BY <1>1
  <2>2. ASSUME Len(r) # 0 PROVE FALSE
    <3>1. 1 \in DOMAIN r
      BY <2>1, <2>2
    <3>2. r[1] \in AllOf(r)
      BY <3>1 DEF AllOf
    <3> QED BY <3>2, <1>1
  <2> QED BY <2>2
<1>3. r = <<>>
  BY <1>1, <1>2, EmptySeq
<1> QED BY <1>3 DEF r

\* As many are kept as there are only if all are.
LEMMA OnlyOfKeepsAll ==
  ASSUME NEW S, NEW s \in Seq(S), NEW T, Len(OnlyOf(s, T)) = Len(s)
  PROVE  OnlyOf(s, T) = s
<1>1. ASSUME NEW k \in 1 .. Len(s), s[k] \notin T PROVE FALSE
  <2>1. Len(OnlyOf(s, T)) + 1 <= Len(s)
    BY <1>1, OnlyOfDrops
  <2>2. Len(s) \in Nat
    OBVIOUS
  <2> QED BY <2>1, <2>2
<1>2. AllOf(s) \subseteq T
  BY <1>1 DEF AllOf
<1> QED BY <1>2, OnlyOfWhole

\* The entries of S that the key k does not name.
OtherKeys(S, key, k) == {e \in S : key[e] # k}

\* One key names one entry at most.
LEMMA OnlyOfButOne ==
  ASSUME NEW S, NEW s \in Seq(S), NEW key, NEW k, Apart(s, key)
  PROVE  Len(s) <= Len(OnlyOf(s, OtherKeys(S, key, k))) + 1
<1> DEFINE T == OtherKeys(S, key, k)
           Good == {x \in Seq(S) : Apart(x, key) => Len(x) <= Len(OnlyOf(x, T)) + 1}
<1>1. <<>> \in Good
  <2>1. <<>> \in Seq(S) /\ Len(<<>>) = 0 /\ OnlyOf(<<>>, T) = <<>>
    BY OnlyOfEmpty
  <2> QED BY <2>1
<1>2. ASSUME NEW x \in Seq(S), NEW e \in S, x \in Good PROVE Append(x, e) \in Good
  <2> DEFINE y == Append(x, e)
  <2>1. y \in Seq(S) /\ Len(y) = Len(x) + 1 /\ y[Len(x) + 1] = e
        /\ \A i \in 1 .. Len(x) : y[i] = x[i]
    OBVIOUS
  <2>2. OnlyOf(y, T) = IF e \in T THEN Append(OnlyOf(x, T), e) ELSE OnlyOf(x, T)
    BY OnlyOfAppend
  <2>3. OnlyOf(x, T) \in Seq(S) /\ Len(OnlyOf(x, T)) \in Nat
    BY OnlyOfIn, OnlyOfShorter
  <2> HIDE DEF y
  <2>4. SUFFICES ASSUME Apart(y, key) PROVE Len(y) <= Len(OnlyOf(y, T)) + 1
    BY <2>1 DEF y
  <2>5. Apart(x, key)
    BY <2>1, <2>4 DEF Apart
  <2>6. CASE e \in T
    <3>1. Len(x) <= Len(OnlyOf(x, T)) + 1
      BY <1>2, <2>5
    <3>2. Len(OnlyOf(y, T)) = Len(OnlyOf(x, T)) + 1
      BY <2>2, <2>3, <2>6
    <3> QED BY <2>1, <2>3, <3>1, <3>2
  <2>7. CASE e \notin T
    <3>1. \A i \in 1 .. Len(x) : key[x[i]] # key[e]
      BY <2>1, <2>4 DEF Apart
    <3>2. AllOf(x) \subseteq T
      BY <2>7, <3>1 DEF AllOf, OtherKeys
    <3>3. OnlyOf(x, T) = x
      BY <3>2, OnlyOfWhole
    <3> QED BY <2>1, <2>2, <2>7, <3>3
  <2> QED BY <2>6, <2>7
<1> HIDE DEF Good
<1>3. s \in Good
  BY <1>1, <1>2, ListInduction
<1> QED BY <1>3 DEF Good

\* What is kept of two lists, one after the other.
LEMMA OnlyOfConcat ==
  ASSUME NEW S, NEW s \in Seq(S), NEW t \in Seq(S), NEW T
  PROVE  OnlyOf(s \o t, T) = OnlyOf(s, T) \o OnlyOf(t, T)
<1> DEFINE Good == {x \in Seq(S) : OnlyOf(s \o x, T) = OnlyOf(s, T) \o OnlyOf(x, T)}
<1>0. OnlyOf(s, T) \in Seq(S)
  BY OnlyOfIn
<1>1. <<>> \in Good
  <2>1. s \o <<>> = s /\ OnlyOf(s, T) \o <<>> = OnlyOf(s, T) /\ <<>> \in Seq(S)
    BY <1>0
  <2> QED BY <2>1, OnlyOfEmpty
<1>2. ASSUME NEW x \in Seq(S), NEW e \in S, x \in Good PROVE Append(x, e) \in Good
  <2> DEFINE y == s \o x
             a == OnlyOf(s, T)
             b == OnlyOf(x, T)
  <2>1. s \o Append(x, e) = Append(y, e) /\ y \in Seq(S) /\ Append(x, e) \in Seq(S)
    OBVIOUS
  <2>2. OnlyOf(y, T) = a \o b
    BY <1>2
  <2>3. b \in Seq(S) /\ a \o Append(b, e) = Append(a \o b, e)
    <3>1. a \in Seq(S) /\ b \in Seq(S)
      BY <1>0, OnlyOfIn
    <3> HIDE DEF a, b
    <3> QED BY <3>1
  <2> HIDE DEF y
  <2>4. OnlyOf(Append(y, e), T) = IF e \in T THEN Append(OnlyOf(y, T), e) ELSE OnlyOf(y, T)
    BY <2>1, OnlyOfAppend
  <2>5. OnlyOf(Append(x, e), T) = IF e \in T THEN Append(b, e) ELSE b
    BY OnlyOfAppend
  <2> QED BY <2>1, <2>2, <2>3, <2>4, <2>5
<1> HIDE DEF Good
<1>3. t \in Good
  BY <1>1, <1>2, ListInduction
<1> QED BY <1>3 DEF Good

\* One more in the list is one more of the entries.
LEMMA AllOfAppend ==
  ASSUME NEW S, NEW s \in Seq(S), NEW e \in S
  PROVE  Append(s, e) \in Seq(S) /\ AllOf(Append(s, e)) = AllOf(s) \cup {e}
<1>1. PICK n \in Nat : n = Len(s)
  OBVIOUS
<1>2. /\ Append(s, e) \in Seq(S)
      /\ DOMAIN Append(s, e) = 1 .. (n + 1) /\ DOMAIN s = 1 .. n
      /\ Append(s, e)[n + 1] = e /\ \A i \in 1 .. n : Append(s, e)[i] = s[i]
  BY <1>1
<1>3. 1 .. (n + 1) = (1 .. n) \cup {n + 1}
  BY <1>1
<1> QED BY <1>2, <1>3 DEF AllOf
=============================================================================
