-------------------------- MODULE ReloginGateProofs --------------------------
(***************************************************************************)
(* The safety of the re-login gate for any finite set of attempts and any  *)
(* number of slots.  GateInv, the conjunction of the invariants TLC checks *)
(* on the small instance, is inductive.                                    *)
(***************************************************************************)
EXTENDS ReloginGate, FiniteSetTheorems, TLAPS

GateInv == GateTypeOK /\ SlotsAccounted /\ QueueIsExact /\ NoIdleSlotWithWaiters

\* Taking a waiter out of the queue leaves a queue of the others, each still once.
LEMMA SpliceProperties ==
    ASSUME NEW S, NEW s \in Seq(S), NEW i \in 1 .. Len(s),
           \A j, k \in 1 .. Len(s) : s[j] = s[k] => j = k
    PROVE  /\ Splice(s, i) \in Seq(S)
           /\ Len(Splice(s, i)) = Len(s) - 1
           /\ \A x : (\E j \in 1 .. Len(Splice(s, i)) : Splice(s, i)[j] = x)
                      <=> x # s[i] /\ \E j \in 1 .. Len(s) : s[j] = x
           /\ \A j, k \in 1 .. Len(Splice(s, i)) :
                 Splice(s, i)[j] = Splice(s, i)[k] => j = k
  <1> DEFINE t == Splice(s, i)
             Source(m) == IF m < i THEN m ELSE m + 1
  <1>1. Len(s) \in Nat /\ Len(s) >= 1
    OBVIOUS
  <1>2. t \in Seq(S) /\ Len(t) = Len(s) - 1
    BY <1>1 DEF Splice
  <1>3. \A j \in 1 .. Len(t) : t[j] = s[Source(j)] /\ Source(j) \in 1 .. Len(s) \ {i}
    BY <1>1, <1>2 DEF Splice
  <1> HIDE DEF t
  <1>4. \A j, k \in 1 .. Len(t) : t[j] = t[k] => j = k
    <2> SUFFICES ASSUME NEW j \in 1 .. Len(t), NEW k \in 1 .. Len(t), t[j] = t[k]
                 PROVE  j = k
      OBVIOUS
    <2>1. Source(j) = Source(k)
      BY <1>3
    <2> QED BY <1>1, <1>2, <2>1
  <1>5. \A j \in 1 .. Len(t) : t[j] # s[i] /\ \E k \in 1 .. Len(s) : s[k] = t[j]
    BY <1>3
  <1>6. \A k \in 1 .. Len(s) : s[k] # s[i] => \E j \in 1 .. Len(t) : t[j] = s[k]
    <2> SUFFICES ASSUME NEW k \in 1 .. Len(s), s[k] # s[i]
                 PROVE  \E j \in 1 .. Len(t) : t[j] = s[k]
      OBVIOUS
    <2>1. CASE k < i
      BY <1>1, <1>2, <1>3, <2>1
    <2>2. CASE k > i
      <3>1. k - 1 \in 1 .. Len(t) /\ t[k - 1] = s[k]
        BY <1>1, <1>2, <1>3, <2>2
      <3> QED BY <3>1
    <2> QED BY <2>1, <2>2
  <1>7. \A x : (\E j \in 1 .. Len(t) : t[j] = x)
                 <=> x # s[i] /\ \E j \in 1 .. Len(s) : s[j] = x
    BY <1>5, <1>6
  <1> QED BY <1>2, <1>4, <1>7 DEF t

\* The queue is never left with a free slot, nor a slot with two owners: the
\* initial state and every operation of the gate keep GateInv.
LEMMA GateInitInv == GateInit => GateInv
  <1> SUFFICES ASSUME GateInit PROVE GateInv
    OBVIOUS
  <1>1. Holders = {} /\ Queued = {} /\ Len(waiters) = 0
    BY DEF GateInit, Holders, Queued
  <1>2. SlotsAccounted
    BY <1>1, FS_EmptySet DEF GateInit, SlotsAccounted
  <1>3. GateTypeOK /\ NoIdleSlotWithWaiters
    BY GateAssumption DEF GateInit, GateTypeOK, NoIdleSlotWithWaiters
  <1>4. QueueIsExact
    BY <1>1 DEF QueueIsExact, Positions
  <1> QED BY <1>2, <1>3, <1>4 DEF GateInv

LEMMA GateNextInv == GateInv /\ [GateNext]_gateVars => GateInv'
  <1> SUFFICES ASSUME GateInv, [GateNext]_gateVars PROVE GateInv'
    OBVIOUS
  <1> USE GateAssumption DEF GateInv
  <1>0. IsFiniteSet(Holders)
    BY FS_Subset DEF Holders
  <1>1. ASSUME NEW a \in Attempts, AcquireAtOnce(a) PROVE GateInv'
    <2>1. GateTypeOK'
      BY <1>1 DEF AcquireAtOnce, GateTypeOK
    <2>2. Holders' = Holders \cup {a} /\ a \notin Holders
      BY <1>1 DEF AcquireAtOnce, GateTypeOK, Holders
    <2>3. SlotsAccounted'
      BY <1>0, <1>1, <2>2, FS_AddElement DEF AcquireAtOnce, SlotsAccounted
    <2>4. Queued' = Queued
      BY <1>1 DEF AcquireAtOnce, GateTypeOK, Queued
    <2>5. QueueIsExact'
      BY <1>1, <2>4 DEF AcquireAtOnce, QueueIsExact, Positions
    <2>6. NoIdleSlotWithWaiters'
      BY <1>1 DEF AcquireAtOnce, GateTypeOK, NoIdleSlotWithWaiters
    <2> QED BY <2>1, <2>3, <2>5, <2>6
  <1>2. ASSUME NEW a \in Attempts, Enqueue(a) PROVE GateInv'
    <2>1. GateTypeOK'
      BY <1>2 DEF Enqueue, GateTypeOK
    <2>2. Holders' = Holders
      BY <1>2 DEF Enqueue, GateTypeOK, Holders
    <2>3. SlotsAccounted'
      BY <1>2, <2>2 DEF Enqueue, SlotsAccounted
    <2>4. Queued' = Queued \cup {a} /\ a \notin Queued
      BY <1>2 DEF Enqueue, GateTypeOK, Queued
    <2>5. /\ Len(waiters') = Len(waiters) + 1
          /\ waiters'[Len(waiters) + 1] = a
          /\ \A i \in Positions : waiters'[i] = waiters[i]
      BY <1>2 DEF Enqueue, GateTypeOK, Positions
    <2>6. Positions' = Positions \cup {Len(waiters) + 1}
      BY <2>5 DEF Positions, GateTypeOK
    <2>7. QueueIsExact'
      <3>1. \A i \in Positions : waiters'[i] = waiters[i] /\ waiters[i] \in Queued
        BY <2>5 DEF QueueIsExact
      <3>2. Len(waiters) + 1 \notin Positions
        BY DEF Positions, GateTypeOK
      <3>3. \A i, j \in Positions' : waiters'[i] = waiters'[j] => i = j
        BY <2>4, <2>5, <2>6, <3>1 DEF QueueIsExact
      <3>4. Queued' = {waiters'[i] : i \in Positions'}
        BY <2>4, <2>5, <2>6, <3>1, <3>2 DEF QueueIsExact
      <3> QED BY <3>3, <3>4 DEF QueueIsExact
    <2>8. NoIdleSlotWithWaiters'
      BY <1>2 DEF Enqueue, GateTypeOK, NoIdleSlotWithWaiters
    <2> QED BY <2>1, <2>3, <2>7, <2>8
  <1>3. ASSUME NEW a \in Attempts, Cancel(a) PROVE GateInv'
    <2>1. PICK i \in Positions : waiters[i] = a /\ waiters' = Splice(waiters, i)
      BY <1>3 DEF Cancel
    <2>2. /\ waiters' \in Seq(Attempts)
          /\ Len(waiters') = Len(waiters) - 1
          /\ \A x : (\E j \in 1 .. Len(waiters') : waiters'[j] = x)
                     <=> x # a /\ \E j \in Positions : waiters[j] = x
          /\ \A j, k \in 1 .. Len(waiters') : waiters'[j] = waiters'[k] => j = k
      <3>1. /\ waiters \in Seq(Attempts)
            /\ i \in 1 .. Len(waiters)
            /\ \A j, k \in 1 .. Len(waiters) : waiters[j] = waiters[k] => j = k
        BY DEF GateTypeOK, QueueIsExact, Positions
      <3>2. /\ Splice(waiters, i) \in Seq(Attempts)
            /\ Len(Splice(waiters, i)) = Len(waiters) - 1
            /\ \A x : (\E j \in 1 .. Len(Splice(waiters, i)) : Splice(waiters, i)[j] = x)
                       <=> x # waiters[i] /\ \E j \in 1 .. Len(waiters) : waiters[j] = x
            /\ \A j, k \in 1 .. Len(Splice(waiters, i)) :
                  Splice(waiters, i)[j] = Splice(waiters, i)[k] => j = k
        BY <3>1, SpliceProperties
      <3> QED BY <2>1, <3>2 DEF Positions
    <2>3. GateTypeOK'
      BY <1>3, <2>2 DEF Cancel, GateTypeOK
    <2>4. Holders' = Holders /\ Queued' = Queued \ {a}
      BY <1>3 DEF Cancel, GateTypeOK, Holders, Queued
    <2>5. SlotsAccounted'
      BY <1>3, <2>4 DEF Cancel, SlotsAccounted
    <2>6. QueueIsExact'
      <3>0. \A x : x \in Queued <=> \E j \in Positions : waiters[j] = x
        BY DEF QueueIsExact
      <3>1. \A x : x \in Queued' <=> \E j \in Positions' : waiters'[j] = x
        <4>1. \A x : x \in Queued' <=> x # a /\ x \in Queued
          BY <2>4
        <4>2. \A x : (\E j \in Positions' : waiters'[j] = x)
                        <=> x # a /\ \E j \in Positions : waiters[j] = x
          BY <2>2, Zenon DEF Positions
        <4> QED BY <3>0, <4>1, <4>2, Zenon
      <3>2. \A j, k \in Positions' : waiters'[j] = waiters'[k] => j = k
        BY <2>2 DEF Positions
      <3>3. Queued' = {waiters'[j] : j \in Positions'}
        BY <3>1
      <3> QED BY <3>2, <3>3 DEF QueueIsExact
    <2>7. waiters # <<>>
      BY <2>1 DEF Positions, GateTypeOK
    <2>8. NoIdleSlotWithWaiters'
      BY <1>3, <2>7 DEF Cancel, NoIdleSlotWithWaiters
    <2> QED BY <2>3, <2>5, <2>6, <2>8
  <1>4. ASSUME NEW a \in Attempts, ReleaseToWaiter(a) PROVE GateInv'
    <2> DEFINE w == Head(waiters)
    <2>1. /\ w = waiters[1] /\ 1 \in Positions
          /\ waiters' \in Seq(Attempts)
          /\ Len(waiters') = Len(waiters) - 1
          /\ \A j \in 1 .. Len(waiters') : waiters'[j] = waiters[j + 1]
      BY <1>4 DEF ReleaseToWaiter, GateTypeOK, Positions
    <2>2. w \in Queued /\ w \in Attempts /\ w # a
      BY <1>4, <2>1 DEF ReleaseToWaiter, QueueIsExact, Queued
    <2>3. /\ Holders' = (Holders \ {a}) \cup {w}
          /\ a \in Holders /\ w \notin Holders
          /\ Queued' = Queued \ {w}
      BY <1>4, <2>2 DEF ReleaseToWaiter, GateTypeOK, Holders, Queued
    <2>4. GateTypeOK'
      BY <1>4, <2>1, <2>2 DEF ReleaseToWaiter, GateTypeOK
    <2> HIDE DEF w
    <2>5. IsFiniteSet(Holders \ {a}) /\ Cardinality(Holders \ {a}) = Cardinality(Holders) - 1
      BY <1>0, <2>3, FS_RemoveElement
    <2>6. Cardinality(Holders') = Cardinality(Holders)
      <3>1. Cardinality(Holders') = Cardinality(Holders \ {a}) + 1
        BY <2>3, <2>5, FS_AddElement
      <3>2. Cardinality(Holders) \in Nat
        BY <1>0, FS_CardinalityType
      <3> QED BY <2>5, <3>1, <3>2
    <2>7. SlotsAccounted'
      BY <1>4, <2>6 DEF ReleaseToWaiter, SlotsAccounted
    <2>8. QueueIsExact'
      <3>1. Len(waiters) \in Nat
        BY DEF GateTypeOK
      <3>2. \A j, k \in Positions' : waiters'[j] = waiters'[k] => j = k
        BY <2>1, <3>1 DEF QueueIsExact, Positions
      <3>3. \A j \in Positions' : waiters'[j] \in Queued \ {w}
        BY <2>1, <3>1 DEF QueueIsExact, Positions
      <3>4. \A q \in Queued \ {w} : \E j \in Positions' : waiters'[j] = q
        <4> TAKE q \in Queued \ {w}
        <4>1. PICK i \in Positions : waiters[i] = q
          BY DEF QueueIsExact
        <4>2. i # 1
          BY <2>1, <4>1
        <4>3. i - 1 \in Positions' /\ waiters'[i - 1] = q
          BY <2>1, <3>1, <4>1, <4>2 DEF Positions
        <4> QED BY <4>3
      <3> QED BY <2>3, <3>2, <3>3, <3>4 DEF QueueIsExact
    <2>9. NoIdleSlotWithWaiters'
      BY <1>4 DEF ReleaseToWaiter, NoIdleSlotWithWaiters
    <2> QED BY <2>4, <2>7, <2>8, <2>9
  <1>5. ASSUME NEW a \in Attempts, ReleaseIdle(a) PROVE GateInv'
    <2>1. Holders' = Holders \ {a} /\ a \in Holders /\ Queued' = Queued
      BY <1>5 DEF ReleaseIdle, GateTypeOK, Holders, Queued
    <2>2. Cardinality(Holders') = Cardinality(Holders) - 1 /\ Cardinality(Holders') \in Nat
      BY <1>0, <2>1, FS_RemoveElement, FS_CardinalityType
    <2>3. active' = active - 1 /\ active > 0
      BY <1>5, <2>2, FS_CardinalityType, <1>0 DEF ReleaseIdle, SlotsAccounted
    <2>4. GateTypeOK'
      BY <1>5, <2>3 DEF ReleaseIdle, GateTypeOK
    <2>5. SlotsAccounted'
      BY <2>2, <2>3 DEF SlotsAccounted
    <2>6. QueueIsExact' /\ NoIdleSlotWithWaiters'
      BY <1>5, <2>1 DEF ReleaseIdle, QueueIsExact, Positions, NoIdleSlotWithWaiters
    <2> QED BY <2>4, <2>5, <2>6
  <1>6. CASE UNCHANGED gateVars
    BY <1>6 DEF gateVars, GateTypeOK, SlotsAccounted, QueueIsExact, Positions,
                NoIdleSlotWithWaiters, Holders, Queued
  <1> QED BY <1>1, <1>2, <1>3, <1>4, <1>5, <1>6 DEF GateNext, Acquire, Release

\* Every reachable state of the gate satisfies the inductive invariant.
THEOREM GateSafety == GateSpec => []GateInv
  BY GateInitInv, GateNextInv, PTL DEF GateSpec

\* No slot is leaked or freed twice, whatever the number of attempts and slots:
\* the count the code keeps is the number of logins under way.
THEOREM GateSlotsAccounted == GateSpec => []SlotsAccounted
  <1>1. GateInv => SlotsAccounted
    BY DEF GateInv
  <1> QED BY <1>1, GateSafety, PTL

\* The queue never loses or repeats a waiter, and nobody waits beside a free slot.
THEOREM GateNoLostWaiter == GateSpec => [](QueueIsExact /\ NoIdleSlotWithWaiters)
  <1>1. GateInv => QueueIsExact /\ NoIdleSlotWithWaiters
    BY DEF GateInv
  <1> QED BY <1>1, GateSafety, PTL

\* At most MaxConcurrent logins run at once: the bound the gate exists for.
THEOREM GateBound == GateSpec => [](Cardinality(Holders) <= MaxConcurrent)
  <1>1. GateInv => Cardinality(Holders) <= MaxConcurrent
    BY GateAssumption DEF GateInv, GateTypeOK, SlotsAccounted
  <1> QED BY <1>1, GateSafety, PTL

\* A freed slot goes to the oldest waiter, and no newcomer overtakes the queue.
THEOREM GateFifo == GateSpec => FifoGrant
  <1> DEFINE Fifo == \A a \in Attempts :
         (pc[a] # "login" /\ pc'[a] = "login" /\ waiters # <<>>)
            => /\ a = Head(waiters)
               /\ waiters' = Tail(waiters)
  <1>1. GateInv /\ [GateNext]_gateVars => [Fifo]_gateVars
    <2> SUFFICES ASSUME GateInv, GateNext,
                        NEW a \in Attempts,
                        pc[a] # "login", pc'[a] = "login", waiters # <<>>
                 PROVE  a = Head(waiters) /\ waiters' = Tail(waiters)
      BY DEF Fifo
    <2> USE GateAssumption DEF GateInv, GateTypeOK
    <2>1. ASSUME NEW b \in Attempts, AcquireAtOnce(b) PROVE FALSE
      BY <2>1 DEF AcquireAtOnce, NoIdleSlotWithWaiters
    <2>2. ASSUME NEW b \in Attempts, Enqueue(b) PROVE FALSE
      BY <2>2 DEF Enqueue
    <2>3. ASSUME NEW b \in Attempts, Cancel(b) PROVE FALSE
      BY <2>3 DEF Cancel
    <2>4. ASSUME NEW b \in Attempts, ReleaseToWaiter(b)
          PROVE  a = Head(waiters) /\ waiters' = Tail(waiters)
      BY <2>4 DEF ReleaseToWaiter
    <2>5. ASSUME NEW b \in Attempts, ReleaseIdle(b) PROVE FALSE
      BY <2>5 DEF ReleaseIdle
    <2> QED BY <2>1, <2>2, <2>3, <2>4, <2>5 DEF GateNext, Acquire, Release
  <1> QED BY <1>1, GateSafety, PTL DEF GateSpec, FifoGrant
=============================================================================
