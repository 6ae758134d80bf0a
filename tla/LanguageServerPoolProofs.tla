---------------------- MODULE LanguageServerPoolProofs ----------------------
(***************************************************************************)
(* Theorems about LanguageServerPool, for any keys, processes, users, cap  *)
(* and number of retries: types, the cap, that no process is lost, and     *)
(* that the counts of requests are exact.  What is kept of restarts plays  *)
(* no part in any of them.                                                 *)
(***************************************************************************)
EXTENDS LanguageServerPool, FiniteSetTheorems, TLAPS

\* The lock: who waits for admission stands in the queue once, only its head is
\* past the first test, and an eviction under way is the head's.
QueueOK ==
    /\ \A i, j \in DOMAIN queue : queue[i] = queue[j] => i = j
    /\ \A i \in DOMAIN queue : start[queue[i]].phase \in Admission
    /\ \A i \in DOMAIN queue : i # 1 => start[queue[i]].phase = "admitting"
    /\ \A k \in Keys : start[k].phase \in Admission => \E i \in DOMAIN queue : queue[i] = k
    /\ \A h \in halts : h.next = "admit" =>
          /\ queue # <<>> /\ start[Head(queue)].phase = "evicting"
          /\ \A g \in halts : g.next = "admit" => g = h

\* An entry that is not ready belongs to the start under way of its key.
EntriesStart ==
    \A k \in InPool :
        /\ ~pool[k].ready => start[k].phase \in {"spawning", "waiting"}
        /\ start[k].phase = "spawning" => Instance(k) = NoProc /\ pool[k].uses = 0
        /\ start[k].phase = "waiting" => Instance(k) = start[k].proc

\* An entry with a process has a live one that runs for its key, and only the
\* default instance may have the default port.
Owned ==
    \A k \in Serving :
        /\ Instance(k) \in alive /\ owner[Instance(k)] = k
        /\ k # Default => port[Instance(k)] = Instance(k)

TypeInv == LsTypeOK /\ QueueOK /\ EntriesStart /\ Owned

\* What passed the test for capacity, and waits for memory, still has its place.
PlaceKept ==
    queue # <<>> /\ start[Head(queue)].phase = "guarding" => Occupancy < MaxInstances

\* A user that found its instance still in the pool has it right.
UsersRight ==
    \A u \in Users : use[u].kind # "none" =>
        /\ use[u].proc # NoProc /\ use[u].port \in {use[u].proc, DefaultPort}
        /\ \A k \in Serving : Instance(k) = use[u].proc =>
              use[u].key = k /\ use[u].port = port[Instance(k)]

\* Nothing that was reserved leaves the pool before it has its process.
StartsKept == \A k \in Keys : start[k].phase = "spawning" => k \in InPool

USE PoolAssumption

-----------------------------------------------------------------------------
\* What the lock is made of, action by action.
LEMMA JoinKeepsQueue ==
    ASSUME TypeInv, NEW k \in Keys, Join(k), pool' = pool, halts' \subseteq halts
    PROVE  /\ QueueOK' /\ EntriesStart'
           /\ queue' \in Seq(Keys)
           /\ start' \in [Keys -> [phase : Phases, proc : Procs \cup {NoProc}]]
           /\ \A j \in Keys : start'[j].phase \in Admission => j \notin InPool'
<1> USE DEF TypeInv
<1>0. InPool' = InPool BY DEF InPool
<1>1. CASE UNCHANGED starts
  BY <1>0, <1>1 DEF starts, QueueOK, EntriesStart, LsTypeOK, Instance
<1>2. CASE /\ start[k].phase = "none" /\ ~(k \in InPool /\ pool[k].ready)
           /\ start' = [start EXCEPT ![k] = [phase |-> "admitting", proc |-> NoProc]]
           /\ queue' = Append(queue, k)
  <2>1. k \notin InPool BY <1>2 DEF EntriesStart
  <2>2. start' \in [Keys -> [phase : Phases, proc : Procs \cup {NoProc}]]
    BY <1>2 DEF LsTypeOK, Phases, Admission
  <2>3. queue' \in Seq(Keys) BY <1>2 DEF LsTypeOK
  <2>4. \A j \in Keys : start'[j].phase = IF j = k THEN "admitting" ELSE start[j].phase
    BY <1>2 DEF LsTypeOK
  <2>5. \A i \in DOMAIN queue : queue[i] \in Keys /\ queue[i] # k
    BY <1>2 DEF QueueOK, LsTypeOK, Admission
  <2>6. /\ DOMAIN queue = 1 .. Len(queue) /\ DOMAIN queue' = 1 .. Len(queue) + 1
        /\ Len(queue) \in Nat
        /\ queue'[Len(queue) + 1] = k /\ \A i \in DOMAIN queue : queue'[i] = queue[i]
    BY <1>2 DEF LsTypeOK
  <2>7. \A i, j \in DOMAIN queue' : queue'[i] = queue'[j] => i = j
    BY <2>5, <2>6 DEF QueueOK
  <2>8. \A i \in DOMAIN queue' : start'[queue'[i]].phase \in Admission
    BY <2>4, <2>5, <2>6 DEF QueueOK, Admission
  <2>9. \A i \in DOMAIN queue' : i # 1 => start'[queue'[i]].phase = "admitting"
    BY <2>4, <2>5, <2>6 DEF QueueOK
  <2>10. \A j \in Keys : start'[j].phase \in Admission => \E i \in DOMAIN queue' : queue'[i] = j
    BY <2>4, <2>6 DEF QueueOK
  <2>11. \A h \in halts' : h.next = "admit" =>
          /\ queue' # <<>> /\ start'[Head(queue')].phase = "evicting"
          /\ \A g \in halts' : g.next = "admit" => g = h
    <3> SUFFICES ASSUME NEW h \in halts', h.next = "admit"
                 PROVE  /\ queue' # <<>> /\ start'[Head(queue')].phase = "evicting"
                        /\ \A g \in halts' : g.next = "admit" => g = h
      OBVIOUS
    <3>1. queue # <<>> /\ start[Head(queue)].phase = "evicting" BY DEF QueueOK
    <3>2. 1 \in DOMAIN queue /\ Head(queue) = queue[1] BY <3>1 DEF LsTypeOK
    <3>3. queue' # <<>> /\ 1 \in DOMAIN queue' BY <3>2, <2>6, <2>3
    <3>4. Head(queue') = queue'[1] BY <3>3, <2>3
    <3>5. QED BY <3>1, <3>2, <3>3, <3>4, <2>4, <2>5, <2>6 DEF QueueOK
  <2>12. QueueOK' BY <2>7, <2>8, <2>9, <2>10, <2>11 DEF QueueOK
  <2>13. EntriesStart' BY <1>0, <2>1, <2>4, <1>2 DEF EntriesStart, Instance, LsTypeOK, InPool
  <2>14. QED BY <1>0, <2>1, <2>2, <2>3, <2>4, <2>12, <2>13 DEF LsTypeOK
<1>3. QED BY <1>1, <1>2 DEF Join

\* The head of the queue leaves it, and admission.
LEMMA PassKeepsQueue ==
    ASSUME TypeInv, NEW k \in Keys, NEW s, s \notin Admission,
           Holds(k, "admitting") \/ Holds(k, "guarding"),
           queue' = Tail(queue), halts' = halts,
           start' \in [Keys -> [phase : Phases, proc : Procs \cup {NoProc}]],
           start'[k].phase = s, \A j \in Keys \ {k} : start'[j] = start[j]
    PROVE  QueueOK' /\ queue' \in Seq(Keys)
<1> USE DEF TypeInv
<1>1. /\ queue \in Seq(Keys) /\ queue # <<>> /\ queue[1] = k /\ 1 \in DOMAIN queue
      /\ start[queue[1]].phase # "evicting"
  BY DEF Holds, LsTypeOK
<1>2. /\ queue' \in Seq(Keys) /\ DOMAIN queue = 1 .. Len(queue) /\ Len(queue) \in Nat \ {0}
      /\ DOMAIN queue' = 1 .. Len(queue) - 1
      /\ \A i \in 1 .. Len(queue) - 1 : queue'[i] = queue[i + 1] /\ i + 1 \in DOMAIN queue
  BY <1>1
<1>3. \A i \in DOMAIN queue' : queue'[i] \in Keys \ {k} /\ start'[queue'[i]].phase = "admitting"
  <2> TAKE i \in DOMAIN queue'
  <2>1. i + 1 # 1 /\ queue[i + 1] # queue[1] BY <1>1, <1>2 DEF QueueOK
  <2>2. start[queue[i + 1]].phase = "admitting" BY <1>2, <2>1 DEF QueueOK
  <2>3. QED BY <1>1, <1>2, <2>1, <2>2
<1>4. \A i, j \in DOMAIN queue' : queue'[i] = queue'[j] => i = j
  <2> TAKE i, j \in DOMAIN queue'
  <2>1. queue[i + 1] = queue[j + 1] => i + 1 = j + 1 BY <1>2 DEF QueueOK
  <2>2. QED BY <1>2, <2>1
<1>5. \A j \in Keys : start'[j].phase \in Admission => \E i \in DOMAIN queue' : queue'[i] = j
  <2> SUFFICES ASSUME NEW j \in Keys, start'[j].phase \in Admission
               PROVE  \E i \in DOMAIN queue' : queue'[i] = j
    OBVIOUS
  <2>1. j # k /\ start[j].phase \in Admission OBVIOUS
  <2>2. PICK i \in DOMAIN queue : queue[i] = j BY <2>1 DEF QueueOK
  <2>3. i # 1 BY <2>1, <2>2, <1>1
  <2>4. i - 1 \in DOMAIN queue' /\ queue'[i - 1] = j BY <2>2, <2>3, <1>2
  <2>5. QED BY <2>4
<1>6. \A h \in halts : h.next # "admit"
  BY <1>1 DEF QueueOK, Holds
<1>7. QED BY <1>2, <1>3, <1>4, <1>5, <1>6 DEF QueueOK, Admission

\* A start goes from one phase to another.
LEMMA PhaseMoves ==
    ASSUME NEW P, NEW Q, NEW r \in [phase : P, proc : Q], NEW s \in P
    PROVE  [r EXCEPT !.phase = s] \in [phase : P, proc : Q]
OBVIOUS

\* The head moves to another test of admission.
LEMMA MoveKeepsQueue ==
    ASSUME TypeInv, NEW k \in Keys, queue # <<>>, Head(queue) = k,
           start[k].phase \in Admission,
           NEW s \in Admission, Moves(k, s), queue' = queue,
           \A h \in halts' : h.next = "admit" =>
               s = "evicting" /\ \A g \in halts' : g.next = "admit" => g = h
    PROVE  QueueOK' /\ start' \in [Keys -> [phase : Phases, proc : Procs \cup {NoProc}]]
<1> USE DEF TypeInv
<1>1. queue \in Seq(Keys) /\ queue[1] = k /\ 1 \in DOMAIN queue BY DEF LsTypeOK
<1>2. start' \in [Keys -> [phase : Phases, proc : Procs \cup {NoProc}]]
  <2>1. [start[k] EXCEPT !.phase = s] \in [phase : Phases, proc : Procs \cup {NoProc}]
    <3>1. start[k] \in [phase : Phases, proc : Procs \cup {NoProc}] BY DEF LsTypeOK
    <3>2. s \in Phases BY DEF Phases
    <3>3. QED BY <3>1, <3>2, PhaseMoves
  <2>2. QED BY <2>1 DEF LsTypeOK, Moves
<1>3. start'[k].phase = s /\ \A j \in Keys \ {k} : start'[j] = start[j]
  BY DEF LsTypeOK, Moves
<1>4. \A i \in DOMAIN queue : queue[i] \in Keys /\ (i # 1 => queue[i] # k)
  BY <1>1 DEF QueueOK
<1>5. QED BY <1>1, <1>2, <1>3, <1>4 DEF QueueOK

\* A start that is not in admission goes on or ends; no wait for an eviction ends.
LEMMA LaterKeepsQueue ==
    ASSUME TypeInv, queue' = queue,
           \A h \in halts' : h.next = "admit" => h \in halts,
           \A j \in Keys : \/ start'[j] = start[j]
                           \/ /\ start[j].phase \notin Admission
                              /\ start'[j].phase \notin Admission
    PROVE  QueueOK'
<1> USE DEF TypeInv
<1>1. \A i \in DOMAIN queue : queue[i] \in Keys /\ start'[queue[i]] = start[queue[i]]
  BY DEF LsTypeOK, QueueOK
<1>2. queue # <<>> => 1 \in DOMAIN queue /\ Head(queue) = queue[1] BY DEF LsTypeOK
<1>3. QED BY <1>1, <1>2 DEF QueueOK

\* Entries that leave the pool, or stay as they are, keep what is said of them.
LEMMA LeaveKeepsEntries ==
    ASSUME TypeInv, start' = start, \A k \in Keys : pool'[k] = None \/ pool'[k] = pool[k]
    PROVE  EntriesStart' /\ \A k \in Keys : start'[k].phase \in Admission => k \notin InPool'
BY DEF TypeInv, EntriesStart, InPool, Instance, LsTypeOK

-----------------------------------------------------------------------------
Entry == [proc : Procs \cup {NoProc}, ready : BOOLEAN, uses : Nat]

LEMMA TypeInit == Init => TypeInv
<1> SUFFICES ASSUME Init PROVE TypeInv
  OBVIOUS
<1>1. DOMAIN queue = {} /\ InPool = {} /\ Serving = {} BY DEF Init, InPool, Serving
<1>2. LsTypeOK
  <2>1. <<>> \in Seq(Keys) OBVIOUS
  <2>2. QED BY <1>1, <2>1 DEF Init, LsTypeOK, Started, Phases, Admission, Unused
<1>3. QED BY <1>1, <1>2 DEF Init, TypeInv, QueueOK, EntriesStart, Owned, Started, Admission

\* What a key in the pool has.
LEMMA EntryFields ==
    ASSUME TypeInv, NEW k \in InPool
    PROVE  /\ k \in Keys /\ pool[k] \in Entry /\ pool[k] # None
           /\ Instance(k) # NoProc => /\ Instance(k) \in alive /\ owner[Instance(k)] = k
BY DEF TypeInv, LsTypeOK, InPool, Entry, Owned, Serving, Instance

\* Restart, stop and sweep leave starts alone and take entries away.
LEMMA StopsKeepTypes ==
    ASSUME TypeInv,
           \/ \E k \in Keys : Restart(k) \/ SweepIdle(k)
           \/ StopAll
    PROVE  TypeInv'
<1> USE DEF TypeInv
<1> DEFINE Gone == /\ UNCHANGED <<starts, alive, owner, port, use>>
                   /\ pool' \in [Keys -> {None} \cup Entry]
                   /\ \A k \in Keys : pool'[k] = None \/ pool'[k] = pool[k]
                   /\ \A h \in halts' : h.next = "admit" => h \in halts
                   /\ stopping' \subseteq Keys /\ maint' \subseteq Keys
                   /\ halts' \subseteq [key : Keys, proc : Procs \cup {NoProc},
                                         next : {"admit", "ensure", "stop"}]
                   /\ doomed' \subseteq alive
<1>1. ASSUME NEW k \in Keys, Restart(k) PROVE Gone
  <2>1. k \in InPool /\ pool[k] \in Entry /\ (Instance(k) # NoProc => Instance(k) \in alive)
    BY <1>1, EntryFields DEF Restart
  <2>2. QED BY <1>1, <2>1 DEF Restart, Dismiss, LsTypeOK, Entry, Instance
<1>2. ASSUME NEW k \in Keys, SweepIdle(k) PROVE Gone
  <2>1. k \in InPool /\ pool[k] \in Entry /\ (Instance(k) # NoProc => Instance(k) \in alive)
    BY <1>2, EntryFields DEF SweepIdle, Idle, Serving
  <2>2. QED BY <1>2, <2>1 DEF SweepIdle, Dismiss, LsTypeOK, Entry, Instance
<1>3. ASSUME StopAll PROVE Gone
  <2>1. \A k \in Serving : k \in Keys /\ Instance(k) \in alive
    BY DEF Owned, Serving, InPool
  <2>2. InPool \subseteq Keys BY DEF InPool
  <2>3. QED BY <1>3, <2>1, <2>2 DEF StopAll, LsTypeOK, Entry
<1>4. Gone BY <1>1, <1>2, <1>3
<1>5. QueueOK' BY <1>4, LaterKeepsQueue DEF starts
<1>6. EntriesStart' /\ \A k \in Keys : start'[k].phase \in Admission => k \notin InPool'
  BY <1>4, LeaveKeepsEntries DEF starts
<1>7. Owned' BY <1>4 DEF Owned, Serving, InPool, Instance, LsTypeOK
<1>8. QED BY <1>4, <1>5, <1>6, <1>7 DEF LsTypeOK, Entry, starts

\* An exit takes at most the entry of the process away.
LEMMA ExitKeepsTypes ==
    ASSUME TypeInv, NEW p \in Procs, Exit(p) PROVE TypeInv'
<1> USE DEF TypeInv
<1>1. /\ UNCHANGED <<starts, halts, stopping, use>>
      /\ pool' \in [Keys -> {None} \cup Entry]
      /\ \A k \in Keys : pool'[k] = None \/ pool'[k] = pool[k]
      /\ alive' = alive \ {p} /\ doomed' = doomed \ {p}
      /\ owner' = [owner EXCEPT ![p] = Default] /\ port' = [port EXCEPT ![p] = DefaultPort]
      /\ maint' \subseteq maint
  BY DEF Exit, LsTypeOK, Entry
<1>2. QueueOK' BY <1>1, LaterKeepsQueue DEF starts
<1>3. EntriesStart' /\ \A k \in Keys : start'[k].phase \in Admission => k \notin InPool'
  BY <1>1, LeaveKeepsEntries DEF starts
<1>4. \A k \in Keys : owner[p] = k /\ k \in InPool /\ Instance(k) = p => pool'[k] = None
  BY DEF Exit, LsTypeOK
<1>5. \A k \in Serving' : k \in Serving /\ pool'[k] = pool[k] /\ Instance(k) # p
  <2> TAKE k \in Serving'
  <2>1. k \in Keys /\ pool'[k] = pool[k] /\ k \in Serving
    BY <1>1 DEF Serving, InPool, Instance
  <2>2. owner[Instance(k)] = k /\ pool'[k] # None
    BY <2>1 DEF Owned, Serving, InPool
  <2>3. QED BY <2>1, <2>2, <1>4 DEF Serving
<1>6. \A k \in Serving' : Instance(k)' = Instance(k) /\ Instance(k) \in Procs /\ Instance(k) \in alive
  BY <1>5 DEF Owned, Instance, LsTypeOK
<1>7. Owned' BY <1>1, <1>5, <1>6 DEF Owned, LsTypeOK
<1>8. QED BY <1>1, <1>2, <1>3, <1>7 DEF LsTypeOK, Entry, starts

LEMMA AdmissionKeepsTypes ==
    ASSUME TypeInv, NEW k \in Keys,
           Ensure(k) \/ Admit(k) \/ Evict(k) \/ Refuse(k) \/ Reserve(k)
    PROVE  TypeInv'
<1> USE DEF TypeInv
<1>1. ASSUME Ensure(k) PROVE TypeInv'
  <2>1. QueueOK' /\ EntriesStart' /\ queue' \in Seq(Keys)
        /\ start' \in [Keys -> [phase : Phases, proc : Procs \cup {NoProc}]]
        /\ \A j \in Keys : start'[j].phase \in Admission => j \notin InPool'
    BY <1>1, JoinKeepsQueue DEF Ensure
  <2>2. UNCHANGED <<pool, stopping, halts, procs, usage>> BY <1>1 DEF Ensure
  <2>3. QED BY <2>1, <2>2 DEF LsTypeOK, Owned, Serving, InPool, Instance, procs, usage
<1>2. ASSUME Admit(k) PROVE TypeInv'
  <2>1. /\ UNCHANGED <<pool, stopping, queue, halts, procs, usage>> /\ Moves(k, "guarding")
        /\ queue # <<>> /\ Head(queue) = k /\ start[k].phase = "admitting"
    BY <1>2 DEF Admit, Holds
  <2>2. \A h \in halts' : h.next # "admit" BY <2>1 DEF QueueOK
  <2>3. QueueOK' /\ start' \in [Keys -> [phase : Phases, proc : Procs \cup {NoProc}]]
    BY <2>1, <2>2, MoveKeepsQueue DEF Admission
  <2>4. k \notin InPool BY <2>1 DEF LsTypeOK, Admission
  <2>5. start'[k].phase = "guarding" /\ \A j \in Keys \ {k} : start'[j] = start[j]
    BY <2>1 DEF Moves, LsTypeOK
  <2>6. EntriesStart' BY <2>1, <2>4, <2>5 DEF EntriesStart, InPool, Instance
  <2>7. QED BY <2>1, <2>3, <2>4, <2>5, <2>6 DEF LsTypeOK, Owned, Serving, InPool, Instance, procs, usage
<1>3. ASSUME Evict(k) PROVE TypeInv'
  <2>1. PICK j \in Keys :
            /\ Idle(j) /\ Dismiss(j)
            /\ stopping' = stopping \cup {j}
            /\ halts' = halts \cup {[key |-> j, proc |-> Instance(j), next |-> "admit"]}
    BY <1>3 DEF Evict
  <2>2. /\ UNCHANGED <<queue, alive, owner, port, use>> /\ Moves(k, "evicting")
        /\ queue # <<>> /\ Head(queue) = k /\ start[k].phase = "admitting"
    BY <1>3 DEF Evict, Holds
  <2>3. \A h \in halts : h.next # "admit" BY <2>2 DEF QueueOK
  <2>4. QueueOK' /\ start' \in [Keys -> [phase : Phases, proc : Procs \cup {NoProc}]]
    BY <2>1, <2>2, <2>3, MoveKeepsQueue DEF Admission
  <2>5. k \notin InPool BY <2>2 DEF LsTypeOK, Admission
  <2>6. start'[k].phase = "evicting" /\ \A i \in Keys \ {k} : start'[i] = start[i]
    BY <2>2 DEF Moves, LsTypeOK
  <2>7. j \in InPool /\ pool[j] \in Entry /\ Instance(j) \in alive
    BY <2>1, EntryFields DEF Idle, Serving, Instance
  <2>8. /\ pool' = [pool EXCEPT ![j] = None] /\ maint' = maint \ {j}
        /\ doomed' \subseteq alive
    BY <2>1, <2>7 DEF Dismiss, LsTypeOK
  <2>9. /\ InPool' \subseteq InPool /\ k \notin InPool'
        /\ \A i \in InPool' : i \in Keys /\ pool'[i] = pool[i]
    BY <2>5, <2>8 DEF InPool, LsTypeOK
  <2>10. EntriesStart' BY <2>6, <2>9 DEF EntriesStart, Instance
  <2>11. Owned' BY <2>2, <2>9 DEF Owned, Serving, Instance
  <2>12. halts' \subseteq [key : Keys, proc : Procs \cup {NoProc}, next : {"admit", "ensure", "stop"}]
    BY <2>1, <2>7 DEF LsTypeOK, Instance, Entry
  <2>13. pool' \in [Keys -> {None} \cup Entry] BY <2>8 DEF LsTypeOK, Entry
  <2>14. \A i \in Keys : start'[i].phase \in Admission => i \notin InPool'
    BY <2>6, <2>9 DEF LsTypeOK
  <2>15. QED
    BY <2>1, <2>2, <2>4, <2>8, <2>10, <2>11, <2>12, <2>13, <2>14 DEF LsTypeOK, Entry
<1>4. ASSUME Refuse(k) PROVE TypeInv'
  <2>1. /\ UNCHANGED <<pool, stopping, halts, procs, usage>> /\ queue' = Tail(queue)
        /\ Holds(k, "admitting") \/ Holds(k, "guarding")
        /\ start' = [start EXCEPT ![k] = Started]
    BY <1>4 DEF Refuse, Fails, Over
  <2>2. start[k].phase \in Admission /\ k \notin InPool
    BY <2>1 DEF Holds, LsTypeOK, Admission
  <2>3. /\ start' \in [Keys -> [phase : Phases, proc : Procs \cup {NoProc}]]
        /\ start'[k].phase = "none" /\ \A j \in Keys \ {k} : start'[j] = start[j]
    BY <2>1 DEF LsTypeOK, Started, Phases
  <2>4. QueueOK' /\ queue' \in Seq(Keys) BY <2>1, <2>3, PassKeepsQueue DEF Admission
  <2>5. EntriesStart' BY <2>1, <2>2, <2>3 DEF EntriesStart, InPool, Instance
  <2>6. \A j \in Keys : start'[j].phase \in Admission => j \notin InPool'
    BY <2>1, <2>2, <2>3 DEF LsTypeOK, InPool
  <2>7. QED BY <2>1, <2>3, <2>4, <2>5, <2>6 DEF LsTypeOK, Owned, Serving, InPool, Instance, procs, usage
<1>5. ASSUME Reserve(k) PROVE TypeInv'
  <2>1. /\ UNCHANGED <<stopping, halts, procs, usage>> /\ queue' = Tail(queue)
        /\ Holds(k, "admitting") \/ Holds(k, "guarding")
        /\ Moves(k, "spawning")
        /\ pool' = [pool EXCEPT ![k] = Reserved]
    BY <1>5 DEF Reserve
  <2>2. start[k].phase \in Admission /\ k \notin InPool
    BY <2>1 DEF Holds, LsTypeOK, Admission
  <2>3. [start[k] EXCEPT !.phase = "spawning"] \in [phase : Phases, proc : Procs \cup {NoProc}]
    <3>1. start[k] \in [phase : Phases, proc : Procs \cup {NoProc}] BY DEF LsTypeOK
    <3>2. "spawning" \in Phases BY DEF Phases
    <3>3. QED BY <3>1, <3>2, PhaseMoves
  <2>4. /\ start' \in [Keys -> [phase : Phases, proc : Procs \cup {NoProc}]]
        /\ start'[k].phase = "spawning" /\ \A j \in Keys \ {k} : start'[j] = start[j]
    BY <2>1, <2>3 DEF LsTypeOK, Moves
  <2>5. QueueOK' /\ queue' \in Seq(Keys) BY <2>1, <2>4, PassKeepsQueue DEF Admission
  <2>6. Reserved \in Entry BY DEF Reserved, Entry
  <2>7. /\ pool' \in [Keys -> {None} \cup Entry] /\ pool'[k] = Reserved
        /\ \A j \in Keys \ {k} : pool'[j] = pool[j]
    BY <2>1, <2>6 DEF LsTypeOK, Entry
  <2>8. EntriesStart'
    BY <2>4, <2>7 DEF EntriesStart, InPool, Instance, Reserved
  <2>9. \A j \in Keys : start'[j].phase \in Admission => j \notin InPool'
    BY <2>4, <2>7 DEF LsTypeOK, InPool, Admission
  <2>10. Owned' BY <2>1, <2>7 DEF Owned, Serving, InPool, Instance, Reserved, procs
  <2>11. QED BY <2>1, <2>4, <2>5, <2>7, <2>8, <2>9, <2>10 DEF LsTypeOK, Entry, procs, usage
<1>6. QED BY <1>1, <1>2, <1>3, <1>4, <1>5

LEMMA StartingKeepsTypes ==
    ASSUME TypeInv, NEW k \in Keys,
           Spawn(k) \/ SpawnFails(k) \/ Ready(k) \/ NotReady(k)
    PROVE  TypeInv'
<1> USE DEF TypeInv
<1>1. ASSUME Spawn(k) PROVE TypeInv'
  <2>1. PICK p \in Procs :
          /\ Free(p)
          /\ alive' = alive \cup {p} /\ doomed' = doomed \ {p}
          /\ owner' = [owner EXCEPT ![p] = k]
          /\ port' = [port EXCEPT ![p] =
                        IF k = Default /\ \A q \in alive : port[q] # DefaultPort
                        THEN DefaultPort ELSE p]
          /\ start' = [start EXCEPT ![k] = [phase |-> "waiting", proc |-> p]]
          /\ pool' = IF k \in InPool THEN [pool EXCEPT ![k].proc = p] ELSE pool
    BY <1>1 DEF Spawn
  <2>2. /\ UNCHANGED <<stopping, queue, halts, retry, usage>> /\ start[k].phase = "spawning"
    BY <1>1 DEF Spawn
  <2>3. /\ start' \in [Keys -> [phase : Phases, proc : Procs \cup {NoProc}]]
        /\ start'[k] = [phase |-> "waiting", proc |-> p]
        /\ \A j \in Keys \ {k} : start'[j] = start[j]
    BY <2>1 DEF LsTypeOK, Phases
  <2>4. QueueOK' BY <2>2, <2>3, LaterKeepsQueue DEF Admission
  <2>5. ASSUME k \in InPool PROVE pool[k] \in Entry /\ [pool[k] EXCEPT !.proc = p] \in Entry
    <3>1. pool[k] \in Entry BY <2>5, EntryFields
    <3>2. QED BY <3>1 DEF Entry
  <2>6. /\ pool' \in [Keys -> {None} \cup Entry]
        /\ \A j \in Keys \ {k} : pool'[j] = pool[j]
        /\ k \in InPool => pool'[k] = [pool[k] EXCEPT !.proc = p]
        /\ k \notin InPool => pool'[k] = pool[k]
    BY <2>1, <2>5 DEF LsTypeOK, Entry, InPool
  <2>7. InPool' = InPool BY <2>5, <2>6 DEF InPool, Entry
  <2>8. k \in InPool => Instance(k)' = p BY <2>5, <2>6 DEF Instance, Entry
  <2>9. EntriesStart'
    BY <2>3, <2>6, <2>7, <2>8 DEF EntriesStart, InPool, Instance
  <2>10. p \notin alive BY <2>1 DEF Free
  <2>11. \A j \in Serving' \ {k} : j \in Serving /\ j \in Keys /\ Instance(j)' = Instance(j) /\ Instance(j) # p
    BY <2>6, <2>7, <2>10 DEF Serving, Owned, Instance, InPool
  <2>12. \A j \in Serving' \ {k} : /\ Instance(j)' \in alive' /\ owner'[Instance(j)'] = j
                                   /\ j # Default => port'[Instance(j)'] = Instance(j)'
    <3>1. TAKE j \in Serving' \ {k}
    <3>2. Instance(j) \in alive /\ Instance(j) \in Procs BY <2>11 DEF Owned, LsTypeOK
    <3>3. owner'[Instance(j)] = owner[Instance(j)] /\ port'[Instance(j)] = port[Instance(j)]
      BY <2>1, <2>11, <3>2 DEF LsTypeOK
    <3>4. QED BY <2>1, <2>11, <3>2, <3>3 DEF Owned
  <2>13. k \in Serving' => /\ Instance(k)' \in alive' /\ owner'[Instance(k)'] = k
                           /\ k # Default => port'[Instance(k)'] = Instance(k)'
    BY <2>1, <2>7, <2>8 DEF Serving, LsTypeOK
  <2>14. Owned' BY <2>12, <2>13 DEF Owned
  <2>15. owner' \in [Procs -> Keys] /\ port' \in [Procs -> Procs \cup {DefaultPort}]
    BY <2>1 DEF LsTypeOK
  <2>16. \A j \in Keys : start'[j].phase \in Admission => j \notin InPool'
    BY <2>3, <2>7 DEF LsTypeOK, Admission
  <2>17. QED
    BY <2>1, <2>2, <2>3, <2>4, <2>6, <2>9, <2>14, <2>15, <2>16 DEF LsTypeOK, Entry, usage
<1>2. ASSUME SpawnFails(k) \/ NotReady(k) PROVE TypeInv'
  <2>1. /\ UNCHANGED <<queue, halts, alive, owner, port, use>>
        /\ start[k].phase \in {"spawning", "waiting"}
        /\ start' = [start EXCEPT ![k] = Started]
        /\ pool' \in [Keys -> {None} \cup Entry]
        /\ k \notin InPool' /\ \A j \in Keys \ {k} : pool'[j] = pool[j]
        /\ maint' \subseteq maint /\ stopping' \subseteq stopping
        /\ doomed' \subseteq alive
    BY <1>2 DEF SpawnFails, NotReady, Fails, Over, LsTypeOK, Entry, InPool, procs
  <2>2. /\ start' \in [Keys -> [phase : Phases, proc : Procs \cup {NoProc}]]
        /\ start'[k].phase = "none" /\ \A j \in Keys \ {k} : start'[j] = start[j]
    BY <2>1 DEF LsTypeOK, Started, Phases
  <2>3. QueueOK' BY <2>1, <2>2, LaterKeepsQueue DEF Admission
  <2>4. \A j \in InPool' : j \in InPool /\ j \in Keys \ {k} /\ pool'[j] = pool[j] /\ start'[j] = start[j]
    BY <2>1, <2>2 DEF InPool
  <2>5. EntriesStart' BY <2>4 DEF EntriesStart, Instance
  <2>6. Owned' BY <2>1, <2>4 DEF Owned, Serving, Instance
  <2>7. \A j \in Keys : start'[j].phase \in Admission => j \notin InPool'
    BY <2>4 DEF LsTypeOK
  <2>8. QED BY <2>1, <2>2, <2>3, <2>5, <2>6, <2>7 DEF LsTypeOK, Entry
<1>3. ASSUME Ready(k) PROVE TypeInv'
  <2>1. /\ UNCHANGED <<stopping, queue, halts, procs, usage>>
        /\ start[k].phase = "waiting"
        /\ start' = [start EXCEPT ![k] = Started]
        /\ pool' = IF k \in InPool THEN [pool EXCEPT ![k].ready = TRUE] ELSE pool
    BY <1>3 DEF Ready, Over
  <2>2. /\ start' \in [Keys -> [phase : Phases, proc : Procs \cup {NoProc}]]
        /\ start'[k].phase = "none" /\ \A j \in Keys \ {k} : start'[j] = start[j]
    BY <2>1 DEF LsTypeOK, Started, Phases
  <2>3. QueueOK' BY <2>1, <2>2, LaterKeepsQueue DEF Admission
  <2>4. ASSUME k \in InPool PROVE pool[k] \in Entry /\ [pool[k] EXCEPT !.ready = TRUE] \in Entry
    <3>1. pool[k] \in Entry BY <2>4, EntryFields
    <3>2. QED BY <3>1 DEF Entry
  <2>5. /\ pool' \in [Keys -> {None} \cup Entry]
        /\ \A j \in Keys \ {k} : pool'[j] = pool[j]
        /\ k \in InPool => pool'[k] = [pool[k] EXCEPT !.ready = TRUE]
        /\ k \notin InPool => pool'[k] = pool[k]
    BY <2>1, <2>4 DEF LsTypeOK, Entry, InPool
  <2>6. InPool' = InPool BY <2>4, <2>5 DEF InPool, Entry
  <2>7. k \in InPool => pool'[k].ready /\ Instance(k)' = Instance(k)
    BY <2>4, <2>5 DEF Instance, Entry
  <2>8. \A j \in InPool' : Instance(j)' = Instance(j)
    BY <2>5, <2>6, <2>7 DEF Instance, InPool
  <2>9. EntriesStart' BY <2>2, <2>5, <2>6, <2>7, <2>8 DEF EntriesStart, InPool
  <2>10. Owned' BY <2>1, <2>6, <2>8 DEF Owned, Serving, Instance, procs
  <2>11. \A j \in Keys : start'[j].phase \in Admission => j \notin InPool'
    BY <2>2, <2>6 DEF LsTypeOK, Admission
  <2>12. QED BY <2>1, <2>2, <2>3, <2>5, <2>9, <2>10, <2>11 DEF LsTypeOK, Entry, procs, usage
<1>4. QED BY <1>1, <1>2, <1>3

\* Timers and ended waits may start a key anew, or pass the lock's next test.
LEMMA WaitsKeepTypes ==
    ASSUME TypeInv,
           \/ \E k \in Keys, n \in Numbers : TimerFires(k, n)
           \/ \E h \in halts : HaltEnds(h)
    PROVE  TypeInv'
<1> USE DEF TypeInv
<1>1. ASSUME NEW k \in Keys, Join(k), UNCHANGED <<pool, procs, usage>>,
             halts' \subseteq halts, stopping' \subseteq stopping
      PROVE  TypeInv'
  <2>1. QueueOK' /\ EntriesStart' /\ queue' \in Seq(Keys)
        /\ start' \in [Keys -> [phase : Phases, proc : Procs \cup {NoProc}]]
        /\ \A j \in Keys : start'[j].phase \in Admission => j \notin InPool'
    BY <1>1, JoinKeepsQueue
  <2>2. QED BY <1>1, <2>1 DEF LsTypeOK, Owned, Serving, InPool, Instance, procs, usage
<1>2. ASSUME NEW k \in Keys, NEW n \in Numbers, TimerFires(k, n) PROVE TypeInv'
  BY <1>1, <1>2 DEF TimerFires
<1>3. ASSUME NEW h \in halts, HaltEnds(h) PROVE TypeInv'
  <2>0. /\ UNCHANGED <<pool, procs, usage>> /\ halts' = halts \ {h}
        /\ stopping' = stopping \ {h.key}
        /\ h.key \in Keys /\ h.next \in {"admit", "ensure", "stop"}
    BY <1>3 DEF HaltEnds, LsTypeOK
  <2>1. CASE h.next = "ensure" BY <1>1, <1>3, <2>0, <2>1 DEF HaltEnds
  <2>2. CASE h.next = "stop"
    <3>1. UNCHANGED starts BY <1>3, <2>2 DEF HaltEnds
    <3>2. QueueOK' BY <2>0, <3>1, LaterKeepsQueue DEF starts
    <3>3. EntriesStart' /\ \A k \in Keys : start'[k].phase \in Admission => k \notin InPool'
      BY <2>0, <3>1, LeaveKeepsEntries DEF starts
    <3>4. QED
      BY <2>0, <3>1, <3>2, <3>3 DEF LsTypeOK, Owned, Serving, InPool, Instance, procs, usage, starts
  <2>3. CASE h.next = "admit"
    <3>1. /\ queue # <<>> /\ start[Head(queue)].phase = "evicting"
          /\ \A g \in halts : g.next = "admit" => g = h
      BY <2>3 DEF QueueOK
    <3>2. PICK k \in Keys : k = Head(queue) BY <3>1 DEF LsTypeOK
    <3>3. Moves(k, "admitting") /\ queue' = queue BY <1>3, <2>3, <3>2 DEF HaltEnds
    <3>4. QueueOK' /\ start' \in [Keys -> [phase : Phases, proc : Procs \cup {NoProc}]]
      BY <2>0, <3>1, <3>2, <3>3, MoveKeepsQueue DEF Admission
    <3>5. start'[k].phase = "admitting" /\ \A j \in Keys \ {k} : start'[j] = start[j]
      BY <3>3 DEF Moves, LsTypeOK
    <3>6. k \notin InPool BY <3>1, <3>2 DEF LsTypeOK, Admission
    <3>7. EntriesStart' /\ \A j \in Keys : start'[j].phase \in Admission => j \notin InPool'
      BY <2>0, <3>5, <3>6 DEF EntriesStart, InPool, Instance, LsTypeOK
    <3>8. QED
      BY <2>0, <3>3, <3>4, <3>7 DEF LsTypeOK, Owned, Serving, InPool, Instance, procs, usage
  <2>4. QED BY <2>0, <2>1, <2>2, <2>3
<1>4. QED BY <1>2, <1>3

\* Uses change the counts of entries and nothing else of the pool.
LEMMA UsesKeepTypes ==
    ASSUME TypeInv, NEW u \in Users,
           \/ \E k \in Keys : BeginUse(u, k) \/ BeginMaintenance(u, k)
           \/ EndUse(u) \/ EndMaintenance(u)
    PROVE  TypeInv'
<1> USE DEF TypeInv
<1> DEFINE Counted == /\ UNCHANGED <<stopping, starts, halts, procs, retry>>
                      /\ pool' \in [Keys -> {None} \cup Entry]
                      /\ \A k \in Keys \ InPool : pool'[k] = None
                      /\ \A k \in InPool : /\ pool'[k] # None
                                           /\ pool'[k].proc = pool[k].proc
                                           /\ pool'[k].ready = pool[k].ready
                                           /\ pool'[k].proc = NoProc => pool'[k].uses = pool[k].uses
                      /\ maint' \subseteq Keys
                      /\ use' \in [Users -> [kind : {"none", "request", "probe"}, key : Keys,
                                           proc : Procs \cup {NoProc},
                                           port : Procs \cup {DefaultPort}]]
<1>0. \A k \in InPool : k \in Keys /\ pool[k] \in Entry /\ pool[k] # None BY EntryFields
<1>1. ASSUME NEW k \in Keys, k \in Serving, NEW kind \in {"request", "probe"}
      PROVE  Using(kind, k) \in [kind : {"none", "request", "probe"}, key : Keys,
                                 proc : Procs \cup {NoProc}, port : Procs \cup {DefaultPort}]
  <2>1. Instance(k) \in Procs BY <1>1 DEF Owned, LsTypeOK
  <2>2. port[Instance(k)] \in Procs \cup {DefaultPort} BY <2>1 DEF LsTypeOK
  <2>3. QED BY <2>1, <2>2 DEF Using
<1>2. Unused \in [kind : {"none", "request", "probe"}, key : Keys,
                  proc : Procs \cup {NoProc}, port : Procs \cup {DefaultPort}]
  BY DEF Unused
<1>3. ASSUME NEW k \in Keys, BeginUse(u, k) PROVE Counted
  <2>1. k \in InPool /\ k \in Serving /\ pool[k] \in Entry /\ pool[k].proc # NoProc
    BY <1>0, <1>3 DEF BeginUse, Serving, Instance
  <2>2. [pool[k] EXCEPT !.uses = @ + 1] \in Entry BY <2>1 DEF Entry
  <2>3. [pool[k] EXCEPT !.uses = @ + 1] # None /\ \A e \in Entry : e # None BY <2>2 DEF Entry
  <2>4. /\ pool'[k] = [pool[k] EXCEPT !.uses = @ + 1]
        /\ \A j \in Keys \ {k} : pool'[j] = pool[j]
        /\ pool' \in [Keys -> {None} \cup Entry]
    BY <1>3, <2>2 DEF BeginUse, LsTypeOK, Entry
  <2>5. pool'[k].proc = pool[k].proc /\ pool'[k].ready = pool[k].ready
    BY <2>1, <2>4 DEF Entry
  <2>6. use' = [use EXCEPT ![u] = Using("request", k)] /\ maint' = maint
        /\ UNCHANGED <<stopping, starts, halts, procs, retry>>
    BY <1>3 DEF BeginUse
  <2>7. Using("request", k) \in [kind : {"none", "request", "probe"}, key : Keys,
                proc : Procs \cup {NoProc}, port : Procs \cup {DefaultPort}]
    BY <1>1, <2>1
  <2>8. QED BY <1>0, <2>1, <2>3, <2>4, <2>5, <2>6, <2>7 DEF LsTypeOK, InPool
<1>4. ASSUME EndUse(u) PROVE Counted
  <2>1. /\ pool' = [k \in Keys |-> IF k \in At(use[u].port) /\ pool[k].uses > 0
                                  THEN [pool[k] EXCEPT !.uses = @ - 1] ELSE pool[k]]
        /\ use' = [use EXCEPT ![u] = Unused] /\ maint' = maint
        /\ UNCHANGED <<stopping, starts, halts, procs, retry>>
    BY <1>4 DEF EndUse
  <2>2. \A k \in At(use[u].port) : k \in InPool /\ pool[k].proc # NoProc
    BY DEF At, Serving, Instance
  <2>3. ASSUME NEW k \in InPool PROVE /\ pool'[k] \in Entry
                                      /\ pool'[k].proc = pool[k].proc
                                      /\ pool'[k].ready = pool[k].ready
                                      /\ pool'[k].proc = NoProc => pool'[k].uses = pool[k].uses
    <3>1. k \in Keys /\ pool[k] \in Entry BY <1>0
    <3>2. CASE k \in At(use[u].port) /\ pool[k].uses > 0
      <4>1. pool'[k] = [pool[k] EXCEPT !.uses = @ - 1] BY <2>1, <3>1, <3>2
      <4>2. QED BY <2>2, <3>1, <3>2, <4>1 DEF Entry
    <3>3. CASE ~(k \in At(use[u].port) /\ pool[k].uses > 0) BY <2>1, <3>1, <3>3
    <3>4. QED BY <3>2, <3>3
  <2>4. \A k \in Keys \ InPool : pool'[k] = None BY <2>1, <2>2 DEF InPool
  <2>5. pool' \in [Keys -> {None} \cup Entry]
    <3>1. \A k \in Keys : pool'[k] \in {None} \cup Entry BY <2>3, <2>4
    <3>2. QED BY <2>1, <3>1
  <2>6. \A e \in Entry : e # None BY DEF Entry
  <2>7. QED BY <1>2, <2>1, <2>3, <2>4, <2>5, <2>6 DEF LsTypeOK
<1>5. ASSUME NEW k \in Keys, BeginMaintenance(u, k) PROVE Counted
  <2>1. k \in Serving BY <1>5 DEF BeginMaintenance
  <2>2. Using("probe", k) \in [kind : {"none", "request", "probe"}, key : Keys,
                proc : Procs \cup {NoProc}, port : Procs \cup {DefaultPort}]
    BY <1>1, <2>1
  <2>3. QED BY <1>0, <1>5, <2>2 DEF BeginMaintenance, LsTypeOK, Entry, InPool
<1>6. ASSUME EndMaintenance(u) PROVE Counted
  BY <1>0, <1>2, <1>6 DEF EndMaintenance, LsTypeOK, Entry, InPool
<1>7. Counted BY <1>3, <1>4, <1>5, <1>6
<1>8. QueueOK' BY <1>7, LaterKeepsQueue DEF starts
<1>9. InPool' = InPool /\ \A k \in InPool : Instance(k)' = Instance(k)
  <2>1. /\ \A k \in Keys \ InPool : pool'[k] = None
        /\ \A k \in InPool : pool'[k] # None /\ pool'[k].proc = pool[k].proc
    BY <1>7
  <2> HIDE DEF Counted
  <2>2. QED BY <2>1 DEF InPool, Instance
<1>10. /\ UNCHANGED <<start, alive, owner, port>>
       /\ \A k \in InPool : /\ pool'[k].ready = pool[k].ready
                            /\ pool'[k].proc = NoProc => pool'[k].uses = pool[k].uses
  BY <1>7 DEF starts, procs
<1> HIDE DEF Counted
<1>11. EntriesStart' BY <1>9, <1>10 DEF EntriesStart, Instance
<1>12. Owned'
  <2>1. \A k \in Serving' : k \in Serving /\ Instance(k)' = Instance(k) BY <1>9 DEF Serving, Instance
  <2>2. QED BY <1>10, <2>1 DEF Owned
<1> USE DEF Counted
<1>13. QED BY <1>7, <1>8, <1>9, <1>11, <1>12 DEF LsTypeOK, Entry, starts, procs

LEMMA TypeNext == TypeInv /\ [Next]_vars => TypeInv'
<1> SUFFICES ASSUME TypeInv, [Next]_vars PROVE TypeInv'
  OBVIOUS
<1>1. ASSUME NEW k \in Keys, Ensure(k) \/ Starting(k) \/ Restart(k) \/ SweepIdle(k)
      PROVE  TypeInv'
  BY <1>1, AdmissionKeepsTypes, StartingKeepsTypes, StopsKeepTypes DEF Starting
<1>2. ASSUME NEW k \in Keys, NEW n \in Numbers, TimerFires(k, n) PROVE TypeInv'
  BY <1>2, WaitsKeepTypes
<1>3. CASE StopAll BY <1>3, StopsKeepTypes
<1>4. ASSUME NEW h \in halts, HaltEnds(h) PROVE TypeInv' BY <1>4, WaitsKeepTypes
<1>5. ASSUME NEW p \in Procs, Exit(p) PROVE TypeInv' BY <1>5, ExitKeepsTypes
<1>6. ASSUME NEW u \in Users, NEW k \in Keys, BeginUse(u, k) \/ BeginMaintenance(u, k)
      PROVE  TypeInv'
  BY <1>6, UsesKeepTypes
<1>7. ASSUME NEW u \in Users, EndUse(u) \/ EndMaintenance(u) PROVE TypeInv'
  BY <1>7, UsesKeepTypes
<1>8. CASE UNCHANGED vars
  BY <1>8 DEF vars, starts, procs, usage, TypeInv, LsTypeOK, QueueOK, EntriesStart, Owned,
              Serving, InPool, Instance
<1>9. QED BY <1>1, <1>2, <1>3, <1>4, <1>5, <1>6, <1>7, <1>8 DEF Next

\* The pool's tables keep their types, and nobody waits for admission with a key
\* that has an entry: callers of a key share one start (ensureLs, _pending).
THEOREM LsTypes == Spec => []LsTypeOK
<1>1. TypeInv => LsTypeOK BY DEF TypeInv
<1>2. QED BY <1>1, TypeInit, TypeNext, PTL DEF Spec

-----------------------------------------------------------------------------
\* Taking elements out of one finite set and some of them into another does not
\* make the two larger together.
LEMMA MoveCounts ==
    ASSUME NEW A, NEW B, NEW S, NEW T, IsFiniteSet(A), IsFiniteSet(S),
           B \subseteq A, T \subseteq S \cup (A \ B)
    PROVE  /\ IsFiniteSet(B) /\ IsFiniteSet(T)
           /\ Cardinality(B) + Cardinality(T) <= Cardinality(A) + Cardinality(S)
<1>1. IsFiniteSet(B) /\ IsFiniteSet(A \ B) BY FS_Subset
<1>2. IsFiniteSet(S \cup (A \ B)) BY <1>1, FS_Union
<1>3. IsFiniteSet(T) /\ Cardinality(T) <= Cardinality(S \cup (A \ B)) BY <1>2, FS_Subset
<1>4. Cardinality(S \cup (A \ B)) <= Cardinality(S) + Cardinality(A \ B)
  <2>1. /\ Cardinality(S \cup (A \ B)) =
              Cardinality(S) + Cardinality(A \ B) - Cardinality(S \cap (A \ B))
        /\ IsFiniteSet(S \cap (A \ B))
    BY <1>1, FS_Union, FS_Subset
  <2>2. Cardinality(S \cap (A \ B)) \in Nat /\ Cardinality(S) \in Nat /\ Cardinality(A \ B) \in Nat
    BY <1>1, <2>1, FS_CardinalityType
  <2>3. QED BY <2>1, <2>2
<1>5. Cardinality(A) = Cardinality(B) + Cardinality(A \ B)
  <2>1. Cardinality(A \ B) = Cardinality(A) - Cardinality(A \cap B) BY FS_Difference
  <2>2. A \cap B = B OBVIOUS
  <2>3. Cardinality(A \ B) = Cardinality(A) - Cardinality(B) BY <2>1, <2>2, Zenon
  <2>4. Cardinality(A) \in Nat /\ Cardinality(B) \in Nat BY <1>1, FS_CardinalityType
  <2>5. QED BY <2>3, <2>4
<1>6. /\ Cardinality(A) \in Nat /\ Cardinality(B) \in Nat /\ Cardinality(T) \in Nat
      /\ Cardinality(S) \in Nat /\ Cardinality(A \ B) \in Nat
      /\ Cardinality(S \cup (A \ B)) \in Nat
  BY <1>1, <1>2, <1>3, FS_CardinalityType
<1>7. QED BY <1>1, <1>3, <1>4, <1>5, <1>6

LEMMA FiniteTables ==
    ASSUME TypeInv
    PROVE  /\ IsFiniteSet(InPool) /\ IsFiniteSet(stopping)
           /\ Cardinality(InPool) \in Nat /\ Cardinality(stopping) \in Nat
           /\ Occupancy \in Nat
<1>1. InPool \subseteq Keys /\ stopping \subseteq Keys BY DEF InPool, TypeInv, LsTypeOK
<1>2. IsFiniteSet(InPool) /\ IsFiniteSet(stopping) BY <1>1, FS_Subset
<1>3. QED BY <1>2, FS_CardinalityType DEF Occupancy

\* Instances leave the pool, and wait for their end or do not.
LEMMA OccupancyFalls ==
    ASSUME TypeInv, InPool' \subseteq InPool, stopping' \subseteq stopping \cup (InPool \ InPool')
    PROVE  Occupancy' \in Nat /\ Occupancy' <= Occupancy
<1>1. PICK B : B = InPool' OBVIOUS
<1>2. PICK T : T = stopping' OBVIOUS
<1>3. /\ IsFiniteSet(B) /\ IsFiniteSet(T)
      /\ Cardinality(B) + Cardinality(T) <= Cardinality(InPool) + Cardinality(stopping)
  BY <1>1, <1>2, FiniteTables, MoveCounts
<1>4. QED BY <1>1, <1>2, <1>3, FS_CardinalityType DEF Occupancy

\* The head of the queue, before and after what may happen to the queue.
LEMMA QueueHeads ==
    ASSUME TypeInv
    PROVE  /\ queue # <<>> => Head(queue) \in Keys /\ start[Head(queue)].phase \in Admission
           /\ queue # <<>> /\ Tail(queue) # <<>> =>
                 /\ Head(Tail(queue)) \in Keys \ {Head(queue)}
                 /\ start[Head(Tail(queue))].phase = "admitting"
           /\ \A k \in Keys : Head(Append(queue, k)) = IF queue = <<>> THEN k ELSE Head(queue)
<1> USE DEF TypeInv
<1>1. queue \in Seq(Keys) BY DEF LsTypeOK
<1>2. ASSUME queue # <<>>
      PROVE  Head(queue) = queue[1] /\ 1 \in DOMAIN queue /\ queue[1] \in Keys
  BY <1>1, <1>2
<1>3. ASSUME queue # <<>>, Tail(queue) # <<>>
      PROVE  /\ Head(Tail(queue)) = queue[2] /\ 2 \in DOMAIN queue /\ queue[2] \in Keys
  <2>1. Tail(queue) \in Seq(Keys) /\ Len(Tail(queue)) = Len(queue) - 1 BY <1>1, <1>3
  <2>2. Len(Tail(queue)) # 0 BY <1>3, <2>1
  <2>3. Head(Tail(queue)) = Tail(queue)[1] BY <1>3, <2>1
  <2>4. Tail(queue)[1] = queue[2] /\ 2 \in DOMAIN queue BY <1>1, <1>3, <2>1, <2>2
  <2>5. QED BY <1>1, <2>3, <2>4
<1>4. ASSUME NEW k \in Keys
      PROVE  Head(Append(queue, k)) = IF queue = <<>> THEN k ELSE Head(queue)
  <2>1. Append(queue, k) \in Seq(Keys) /\ Append(queue, k) # <<>> BY <1>1
  <2>2. Head(Append(queue, k)) = Append(queue, k)[1] BY <2>1
  <2>3. QED BY <1>1, <1>2, <2>2
<1>5. QED BY <1>2, <1>3, <1>4 DEF QueueOK

Guarding == queue # <<>> /\ start[Head(queue)].phase = "guarding"
CapInv == OccupancyWithinCap /\ PlaceKept

LEMMA JoinKeepsHead ==
    ASSUME TypeInv, NEW k \in Keys, Join(k), Guarding' PROVE Guarding
<1>1. CASE UNCHANGED starts BY <1>1 DEF starts, Guarding
<1>2. CASE /\ start[k].phase = "none"
           /\ start' = [start EXCEPT ![k] = [phase |-> "admitting", proc |-> NoProc]]
           /\ queue' = Append(queue, k)
  <2>1. start'[k].phase = "admitting" BY <1>2 DEF TypeInv, LsTypeOK
  <2>2. queue # <<>> /\ Head(queue') = Head(queue) /\ Head(queue) # k
    BY <1>2, <2>1, QueueHeads DEF Guarding, Admission
  <2>3. Head(queue) \in Keys BY <2>2, QueueHeads
  <2>4. QED BY <1>2, <2>2, <2>3 DEF Guarding, TypeInv, LsTypeOK
<1>3. QED BY <1>1, <1>2 DEF Join

\* A start that is not in admission is not the head's.
LEMMA LaterKeepsHead ==
    ASSUME TypeInv, NEW k \in Keys, start[k].phase \notin Admission, queue' = queue,
           NEW s, start' = [start EXCEPT ![k] = s], Guarding'
    PROVE  Guarding
<1>1. queue # <<>> /\ Head(queue) \in Keys \ {k} BY QueueHeads DEF Guarding
<1>2. QED BY <1>1 DEF Guarding, TypeInv, LsTypeOK

\* Steps that take nothing into the pool and do not pass the test keep the cap.
LEMMA FallKeepsCap ==
    ASSUME TypeInv, CapInv, Guarding' => Guarding,
           InPool' \subseteq InPool, stopping' \subseteq stopping \cup (InPool \ InPool')
    PROVE  CapInv'
<1>1. Occupancy \in Nat /\ Occupancy' \in Nat /\ Occupancy' <= Occupancy
  BY FiniteTables, OccupancyFalls
<1>2. QED BY <1>1 DEF CapInv, OccupancyWithinCap, PlaceKept, Guarding

LEMMA AdmitKeepsCap ==
    ASSUME TypeInv, CapInv, NEW k \in Keys, Admit(k) PROVE CapInv'
<1>1. UNCHANGED <<pool, stopping>> /\ ~Full(k) BY DEF Admit
<1>2. Occupancy' = Occupancy BY <1>1 DEF Occupancy, InPool
<1>3. IsFiniteSet(Pending(k)) BY FS_Subset DEF Pending
<1>4. Cardinality(Pending(k)) \in Nat /\ Occupancy \in Nat
  BY <1>3, FS_CardinalityType, FiniteTables
<1>5. Occupancy < MaxInstances BY <1>1, <1>4 DEF Full
<1>6. QED BY <1>2, <1>5 DEF CapInv, OccupancyWithinCap, PlaceKept

LEMMA ReserveKeepsCap ==
    ASSUME TypeInv, CapInv, NEW k \in Keys, Reserve(k) PROVE CapInv'
<1>1. Occupancy \in Nat /\ Occupancy < MaxInstances
  BY FiniteTables DEF Reserve, Holds, Bootstrap, CapInv, PlaceKept
<1>2. queue # <<>> /\ Head(queue) = k /\ queue' = Tail(queue) /\ start[k].phase \in Admission
  BY DEF Reserve, Holds, Admission
<1>3. ~Guarding'
  <2>1. SUFFICES ASSUME queue' # <<>> PROVE start'[Head(queue')].phase # "guarding"
    BY DEF Guarding
  <2>2. /\ Head(queue') \in Keys \ {k}
        /\ start[Head(queue')].phase = "admitting"
    BY <1>2, <2>1, QueueHeads
  <2>3. start'[Head(queue')] = start[Head(queue')]
    BY <2>2 DEF Reserve, Moves, TypeInv, LsTypeOK
  <2>4. QED BY <2>2, <2>3
<1>4. stopping' = stopping /\ InPool' \subseteq InPool \cup {k}
  BY DEF Reserve, InPool, TypeInv, LsTypeOK
<1>5. /\ IsFiniteSet(InPool \cup {k}) /\ Cardinality(InPool \cup {k}) <= Cardinality(InPool) + 1
      /\ Cardinality(InPool \cup {k}) \in Nat
  <2>1. /\ IsFiniteSet(InPool \cup {k})
        /\ \/ Cardinality(InPool \cup {k}) = Cardinality(InPool)
           \/ Cardinality(InPool \cup {k}) = Cardinality(InPool) + 1
    BY FiniteTables, FS_AddElement
  <2>2. QED BY <2>1, FiniteTables
<1>6. PICK P : P = InPool' OBVIOUS
<1>7. Cardinality(P) \in Nat /\ Cardinality(P) <= Cardinality(InPool) + 1
  <2>1. IsFiniteSet(P) /\ Cardinality(P) <= Cardinality(InPool \cup {k})
    BY <1>4, <1>5, <1>6, FS_Subset
  <2>2. Cardinality(P) \in Nat /\ Cardinality(InPool) \in Nat BY <2>1, FS_CardinalityType, FiniteTables
  <2>3. QED BY <1>5, <2>1, <2>2
<1>8. Occupancy' = Cardinality(P) + Cardinality(stopping) BY <1>4, <1>6 DEF Occupancy
<1>9. Occupancy' <= MaxInstances BY <1>1, <1>7, <1>8, FiniteTables DEF Occupancy
<1>10. QED BY <1>3, <1>9 DEF CapInv, OccupancyWithinCap, PlaceKept, Guarding

LEMMA StopsKeepCap ==
    ASSUME TypeInv, CapInv, StopAll \/ \E k \in Keys : Restart(k) \/ SweepIdle(k)
    PROVE  CapInv'
<1> USE DEF TypeInv
<1>1. UNCHANGED starts BY DEF Restart, SweepIdle, StopAll
<1>2. Guarding' => Guarding BY <1>1 DEF Guarding, starts
<1>3. ASSUME NEW k \in Keys, Restart(k) PROVE CapInv'
  <2>1. InPool' \subseteq InPool /\ stopping' \subseteq stopping \cup (InPool \ InPool')
    BY <1>3 DEF Restart, Dismiss, InPool, LsTypeOK
  <2>2. QED BY <1>2, <2>1, FallKeepsCap
<1>4. ASSUME NEW k \in Keys, SweepIdle(k) PROVE CapInv'
  <2>1. InPool' \subseteq InPool /\ stopping' = stopping
    BY <1>4 DEF SweepIdle, Dismiss, InPool, LsTypeOK
  <2>2. QED BY <1>2, <2>1, FallKeepsCap
<1>5. CASE StopAll
  <2>1. InPool' = {} /\ stopping' = stopping \cup InPool BY <1>5 DEF StopAll, InPool
  <2>2. QED BY <1>2, <2>1, FallKeepsCap
<1>6. QED BY <1>3, <1>4, <1>5

LEMMA StartingKeepsCap ==
    ASSUME TypeInv, CapInv, NEW k \in Keys, Starting(k) PROVE CapInv'
<1> USE DEF TypeInv
<1>1. CASE Evict(k)
  <2>1. PICK j \in Keys : Dismiss(j) /\ stopping' = stopping \cup {j} /\ Idle(j)
    BY <1>1 DEF Evict
  <2>2. InPool' \subseteq InPool /\ stopping' \subseteq stopping \cup (InPool \ InPool')
    BY <2>1 DEF Dismiss, Idle, Serving, InPool, LsTypeOK
  <2>3. Head(queue) = k /\ queue' = queue /\ start'[k].phase = "evicting"
    BY <1>1 DEF Evict, Holds, Moves, LsTypeOK
  <2>4. ~Guarding' BY <2>3 DEF Guarding
  <2>5. QED BY <2>2, <2>4, FallKeepsCap
<1>2. CASE Refuse(k)
  <2>1. /\ queue # <<>> /\ Head(queue) = k /\ queue' = Tail(queue)
        /\ start' = [start EXCEPT ![k] = Started] /\ UNCHANGED <<pool, stopping>>
    BY <1>2 DEF Refuse, Fails, Over, Holds
  <2>2. ~Guarding'
    <3>1. SUFFICES ASSUME queue' # <<>> PROVE start'[Head(queue')].phase # "guarding"
      BY DEF Guarding
    <3>2. Head(queue') \in Keys \ {k} /\ start[Head(queue')].phase = "admitting"
      BY <2>1, <3>1, QueueHeads
    <3>3. start'[Head(queue')] = start[Head(queue')] BY <2>1, <3>2 DEF LsTypeOK
    <3>4. QED BY <3>2, <3>3
  <2>3. QED BY <2>1, <2>2, FallKeepsCap DEF InPool
<1>3. CASE Spawn(k)
  <2>1. PICK p \in Procs :
          /\ start' = [start EXCEPT ![k] = [phase |-> "waiting", proc |-> p]]
          /\ pool' = IF k \in InPool THEN [pool EXCEPT ![k].proc = p] ELSE pool
    BY <1>3 DEF Spawn
  <2>2. queue' = queue /\ stopping' = stopping /\ start[k].phase \notin Admission
    BY <1>3 DEF Spawn, Admission
  <2>3. InPool' \subseteq InPool BY <2>1 DEF InPool, LsTypeOK
  <2>4. Guarding' => Guarding BY <2>1, <2>2, LaterKeepsHead
  <2>5. QED BY <2>2, <2>3, <2>4, FallKeepsCap
<1>4. CASE SpawnFails(k) \/ Ready(k) \/ NotReady(k)
  <2>1. /\ start' = [start EXCEPT ![k] = Started] /\ queue' = queue
        /\ start[k].phase \notin Admission
    BY <1>4 DEF SpawnFails, Ready, NotReady, Fails, Over, Admission
  <2>2. Guarding' => Guarding BY <2>1, LaterKeepsHead
  <2>3. stopping' \subseteq stopping BY <1>4 DEF SpawnFails, Ready, NotReady
  <2>4. InPool' \subseteq InPool
    BY <1>4 DEF SpawnFails, Ready, NotReady, InPool, LsTypeOK
  <2>5. QED BY <2>2, <2>3, <2>4, FallKeepsCap
<1>5. QED BY <1>1, <1>2, <1>3, <1>4, AdmitKeepsCap, ReserveKeepsCap DEF Starting

LEMMA HaltKeepsCap ==
    ASSUME TypeInv, CapInv, NEW h \in halts, HaltEnds(h) PROVE CapInv'
<1> USE DEF TypeInv
<1>1. stopping' \subseteq stopping /\ InPool' = InPool BY DEF HaltEnds, InPool
<1>2. h.key \in Keys BY DEF LsTypeOK
<1>3. CASE h.next = "ensure"
  <2>1. Join(h.key) BY <1>3 DEF HaltEnds
  <2>2. QED BY <1>1, <1>2, <2>1, JoinKeepsHead, FallKeepsCap
<1>4. CASE h.next = "admit"
  <2>1. queue # <<>> /\ queue' = queue /\ Moves(Head(queue), "admitting")
    BY <1>4 DEF HaltEnds, QueueOK
  <2>2. Head(queue) \in Keys BY <2>1, QueueHeads
  <2>3. start'[Head(queue')].phase = "admitting" BY <2>1, <2>2 DEF Moves, LsTypeOK
  <2>4. ~Guarding' BY <2>3 DEF Guarding
  <2>5. QED BY <1>1, <2>4, FallKeepsCap
<1>5. CASE h.next = "stop"
  <2>1. Guarding' => Guarding BY <1>5 DEF HaltEnds, starts, Guarding
  <2>2. QED BY <1>1, <2>1, FallKeepsCap
<1>6. QED BY <1>3, <1>4, <1>5 DEF LsTypeOK

LEMMA RestKeepsCap ==
    ASSUME TypeInv, TypeInv', CapInv,
           \/ UNCHANGED vars
           \/ \E p \in Procs : Exit(p)
           \/ \E u \in Users, k \in Keys : BeginUse(u, k) \/ BeginMaintenance(u, k)
           \/ \E u \in Users : EndUse(u) \/ EndMaintenance(u)
    PROVE  CapInv'
<1> USE DEF TypeInv
<1>1. UNCHANGED <<starts, stopping>>
  BY DEF vars, Exit, BeginUse, BeginMaintenance, EndUse, EndMaintenance
<1>2. Guarding' => Guarding BY <1>1 DEF starts, Guarding
<1>3. InPool' \subseteq InPool
  <2>1. CASE UNCHANGED vars BY <2>1 DEF vars, InPool
  <2>2. ASSUME NEW p \in Procs, Exit(p) PROVE InPool' \subseteq InPool
    BY <2>2 DEF Exit, InPool, LsTypeOK
  <2>3. ASSUME NEW u \in Users, NEW k \in Keys, BeginUse(u, k) \/ BeginMaintenance(u, k)
        PROVE  InPool' \subseteq InPool
    BY <2>3 DEF BeginUse, BeginMaintenance, Serving, InPool, LsTypeOK
  <2>4. ASSUME NEW u \in Users, EndUse(u) \/ EndMaintenance(u) PROVE InPool' \subseteq InPool
    BY <2>4 DEF EndUse, EndMaintenance, At, Serving, InPool, LsTypeOK
  <2>5. QED BY <2>1, <2>2, <2>3, <2>4
<1>4. QED BY <1>1, <1>2, <1>3, FallKeepsCap

\* Admission alone keeps the pool within the cap: between a start's test and its
\* reservation only evictions, exits and stops happen to the count
\* (withStartAdmission, waitForPoolCapacity, waitForMemoryHeadroom).
THEOREM CapKept == Spec => []OccupancyWithinCap
<1>1. Init => CapInv
  <2> SUFFICES ASSUME Init PROVE CapInv
    OBVIOUS
  <2>1. InPool = {} /\ stopping = {} /\ queue = <<>> BY DEF Init, InPool
  <2>2. Occupancy = 0 BY <2>1, FS_EmptySet DEF Occupancy
  <2>3. QED BY <2>1, <2>2 DEF CapInv, OccupancyWithinCap, PlaceKept
<1>2. TypeInv /\ CapInv /\ [Next]_vars => CapInv'
  <2> SUFFICES ASSUME TypeInv, CapInv, [Next]_vars PROVE CapInv'
    OBVIOUS
  <2>1. ASSUME NEW k \in Keys, Ensure(k) \/ Starting(k) \/ Restart(k) \/ SweepIdle(k)
        PROVE  CapInv'
    <3>1. CASE Ensure(k)
      <4>1. UNCHANGED stopping /\ InPool' = InPool /\ Join(k) BY <3>1 DEF Ensure, InPool
      <4>2. QED BY <4>1, JoinKeepsHead, FallKeepsCap
    <3>2. QED BY <2>1, <3>1, StartingKeepsCap, StopsKeepCap
  <2>2. ASSUME NEW k \in Keys, NEW n \in Numbers, TimerFires(k, n) PROVE CapInv'
    <3>1. UNCHANGED stopping /\ InPool' = InPool /\ Join(k) BY <2>2 DEF TimerFires, InPool
    <3>2. QED BY <3>1, JoinKeepsHead, FallKeepsCap
  <2>3. CASE StopAll BY <2>3, StopsKeepCap
  <2>4. ASSUME NEW h \in halts, HaltEnds(h) PROVE CapInv'
    BY <2>4, HaltKeepsCap
  <2>5. CASE \/ UNCHANGED vars
             \/ \E p \in Procs : Exit(p)
             \/ \E u \in Users, k \in Keys : BeginUse(u, k) \/ BeginMaintenance(u, k)
             \/ \E u \in Users : EndUse(u) \/ EndMaintenance(u)
    BY <2>5, TypeNext, RestKeepsCap
  <2>6. QED BY <2>1, <2>2, <2>3, <2>4, <2>5 DEF Next
<1>3. CapInv => OccupancyWithinCap BY DEF CapInv
<1>4. QED BY <1>1, <1>2, <1>3, TypeInit, TypeNext, PTL DEF Spec

-----------------------------------------------------------------------------
TrackInv == ProcessesTracked /\ StartsKept

\* Nothing new runs, and what goes on running unasked to stop keeps its entry.
LEMMA KeptTracked ==
    ASSUME TypeInv, ProcessesTracked, alive' \ doomed' \subseteq alive \ doomed,
           \A p \in alive' \ doomed' : owner'[p] = owner[p],
           \A p \in alive' \ doomed', k \in InPool :
              Instance(k) = p => k \in InPool' /\ Instance(k)' = p
    PROVE  ProcessesTracked'
BY DEF ProcessesTracked

LEMMA StopsKeepTrack ==
    ASSUME TypeInv, TrackInv, NEW k \in Serving, Dismiss(k), UNCHANGED <<alive, owner>>
    PROVE  /\ ProcessesTracked'
           /\ UNCHANGED start => StartsKept'
<1> USE DEF TypeInv
<1>1. k \in Keys /\ k \in InPool /\ Instance(k) # NoProc BY DEF Serving, InPool, Instance
<1>2. pool' = [pool EXCEPT ![k] = None] /\ doomed' = doomed \cup {Instance(k)}
  BY <1>1 DEF Dismiss
<1>3. \A j \in InPool : j # k => j \in InPool' /\ Instance(j)' = Instance(j)
  BY <1>1, <1>2 DEF InPool, Instance, LsTypeOK
<1>4. ProcessesTracked' BY <1>2, <1>3, KeptTracked DEF TrackInv
<1>5. start[k].phase # "spawning" BY <1>1 DEF EntriesStart
<1>6. ASSUME UNCHANGED start PROVE StartsKept'
  BY <1>3, <1>5, <1>6 DEF StartsKept, TrackInv
<1>7. QED BY <1>4, <1>6

LEMMA AdmissionKeepsTrack ==
    ASSUME TypeInv, TrackInv, NEW k \in Keys,
           Admit(k) \/ Evict(k) \/ Refuse(k) \/ Reserve(k)
    PROVE  TrackInv'
<1> USE DEF TypeInv
<1>1. CASE Admit(k) \/ Refuse(k)
  <2>1. /\ UNCHANGED <<pool, alive, doomed, owner>>
        /\ \A j \in Keys : start'[j].phase = "spawning" => start[j].phase = "spawning"
    BY <1>1 DEF Admit, Refuse, Moves, Fails, Over, Started, LsTypeOK, procs
  <2>2. QED BY <2>1 DEF TrackInv, ProcessesTracked, StartsKept, InPool, Instance
<1>2. CASE Evict(k)
  <2>1. PICK j \in Keys : Idle(j) /\ Dismiss(j) BY <1>2 DEF Evict
  <2>2. j \in Serving /\ UNCHANGED <<alive, owner>> /\ Moves(k, "evicting")
    BY <1>2, <2>1 DEF Evict, Idle
  <2>3. ProcessesTracked' BY <2>1, <2>2, StopsKeepTrack
  <2>4. \A i \in Keys : start'[i].phase = "spawning" => start[i].phase = "spawning" /\ i # j
    BY <2>2 DEF Moves, LsTypeOK, EntriesStart, Serving, InPool, Instance
  <2>5. \A i \in InPool \ {j} : i \in InPool' BY <2>1 DEF Dismiss, InPool, LsTypeOK
  <2>6. QED BY <2>3, <2>4, <2>5 DEF TrackInv, StartsKept
<1>3. CASE Reserve(k)
  <2>1. k \notin InPool BY <1>3 DEF Reserve, Holds, Admission, LsTypeOK
  <2>2. /\ UNCHANGED <<alive, doomed, owner>> /\ pool' = [pool EXCEPT ![k] = Reserved]
        /\ Moves(k, "spawning")
    BY <1>3 DEF Reserve, procs
  <2>3. None # Reserved
    <3>1. Reserved \in Entry BY DEF Reserved, Entry
    <3>2. None \notin Entry BY DEF Entry
    <3>3. QED BY <3>1, <3>2
  <2>4. InPool' = InPool \cup {k} /\ \A j \in InPool : Instance(j)' = Instance(j)
    BY <2>1, <2>2, <2>3 DEF InPool, Instance, LsTypeOK
  <2>5. ProcessesTracked' BY <2>2, <2>4, KeptTracked DEF TrackInv
  <2>6. StartsKept' BY <2>2, <2>4 DEF TrackInv, StartsKept, Moves, LsTypeOK
  <2>7. QED BY <2>5, <2>6 DEF TrackInv
<1>4. QED BY <1>1, <1>2, <1>3

LEMMA StartingKeepsTrack ==
    ASSUME TypeInv, TrackInv, NEW k \in Keys,
           Spawn(k) \/ SpawnFails(k) \/ Ready(k) \/ NotReady(k)
    PROVE  TrackInv'
<1> USE DEF TypeInv
<1>1. CASE Spawn(k)
  <2>1. PICK p \in Procs :
          /\ Free(p)
          /\ alive' = alive \cup {p} /\ doomed' = doomed \ {p}
          /\ owner' = [owner EXCEPT ![p] = k]
          /\ start' = [start EXCEPT ![k] = [phase |-> "waiting", proc |-> p]]
          /\ pool' = IF k \in InPool THEN [pool EXCEPT ![k].proc = p] ELSE pool
    BY <1>1 DEF Spawn
  <2>2. start[k].phase = "spawning" BY <1>1 DEF Spawn
  <2>3. k \in InPool /\ Instance(k) = NoProc
    BY <2>2 DEF TrackInv, StartsKept, EntriesStart
  <2>4. pool[k] \in Entry BY <2>3, EntryFields
  <2>5. pool' = [pool EXCEPT ![k].proc = p] /\ pool'[k] \in Entry /\ pool'[k].proc = p
    BY <2>1, <2>3, <2>4 DEF LsTypeOK, Entry
  <2>6. /\ InPool' = InPool /\ Instance(k)' = p
        /\ \A j \in InPool \ {k} : Instance(j)' = Instance(j)
    <3>1. None \notin Entry BY DEF Entry
    <3>2. pool'[k] # None /\ k \in Keys BY <2>3, <2>5, <3>1 DEF InPool
    <3>3. \A j \in Keys \ {k} : pool'[j] = pool[j] BY <2>5 DEF LsTypeOK
    <3>4. InPool' = InPool BY <2>3, <3>2, <3>3 DEF InPool
    <3>5. \A j \in InPool \ {k} : j \in Keys \ {k} BY DEF InPool
    <3>6. QED BY <2>5, <3>3, <3>4, <3>5 DEF Instance
  <2>7. ProcessesTracked'
    <3> SUFFICES ASSUME NEW q \in alive' \ doomed'
                 PROVE  owner'[q] \in InPool' /\ pool'[owner'[q]].proc = q
      BY DEF ProcessesTracked, Instance
    <3>1. CASE q = p BY <2>1, <2>3, <2>5, <2>6, <3>1 DEF LsTypeOK
    <3>2. CASE q # p
      <4>1. q \in alive \ doomed /\ q \in Procs /\ owner'[q] = owner[q]
        BY <2>1, <3>2 DEF LsTypeOK
      <4>2. owner[q] \in InPool /\ Instance(owner[q]) = q
        BY <4>1 DEF TrackInv, ProcessesTracked
      <4>3. owner[q] # k BY <2>3, <4>1, <4>2
      <4>4. QED BY <2>6, <4>1, <4>2, <4>3 DEF Instance
    <3>3. QED BY <3>1, <3>2
  <2>8. StartsKept' BY <2>1, <2>6 DEF TrackInv, StartsKept, LsTypeOK
  <2>9. QED BY <2>7, <2>8 DEF TrackInv
<1>2. CASE Ready(k)
  <2>1. /\ UNCHANGED <<alive, doomed, owner>> /\ start' = [start EXCEPT ![k] = Started]
        /\ pool' = IF k \in InPool THEN [pool EXCEPT ![k].ready = TRUE] ELSE pool
    BY <1>2 DEF Ready, Over, procs
  <2>2. \A j \in InPool : pool[j] \in Entry BY EntryFields
  <2>3. \A j \in InPool : pool'[j] \in Entry /\ pool'[j].proc = pool[j].proc
    <3> TAKE j \in InPool
    <3>1. CASE j = k
      <4>1. pool'[k] = [pool[k] EXCEPT !.ready = TRUE] BY <2>1, <3>1 DEF LsTypeOK, InPool
      <4>2. QED BY <2>2, <3>1, <4>1 DEF Entry
    <3>2. CASE j # k BY <2>1, <2>2, <3>2 DEF LsTypeOK, InPool
    <3>3. QED BY <3>1, <3>2
  <2>4. InPool \subseteq InPool' /\ \A j \in InPool : Instance(j)' = Instance(j)
    BY <2>3 DEF InPool, Instance, Entry
  <2>5. ProcessesTracked' BY <2>1, <2>4, KeptTracked DEF TrackInv
  <2>6. StartsKept' BY <2>1, <2>4 DEF TrackInv, StartsKept, Started, LsTypeOK
  <2>7. QED BY <2>5, <2>6 DEF TrackInv
<1>3. CASE SpawnFails(k) \/ NotReady(k)
  <2>1. /\ start' = [start EXCEPT ![k] = Started] /\ UNCHANGED <<alive, owner>>
        /\ \A j \in InPool \ {k} : pool'[j] = pool[j]
        /\ doomed \subseteq doomed'
    BY <1>3 DEF SpawnFails, NotReady, Fails, Over, procs, InPool, LsTypeOK
  <2>2. \A j \in InPool \ {k} : j \in InPool' /\ Instance(j)' = Instance(j)
    BY <2>1 DEF InPool, Instance
  <2>3. k \in InPool => Instance(k) \notin alive' \ doomed'
    <3>1. CASE SpawnFails(k)
      <4>1. k \in InPool => Instance(k) = NoProc BY <3>1 DEF SpawnFails, EntriesStart
      <4>2. QED BY <2>1, <4>1 DEF LsTypeOK
    <3>2. CASE NotReady(k)
      <4>1. k \in InPool => Instance(k) = start[k].proc BY <3>2 DEF NotReady, EntriesStart
      <4>2. doomed' = doomed \cup ({start[k].proc} \cap alive) BY <3>2 DEF NotReady
      <4>3. QED BY <2>1, <4>1, <4>2
    <3>3. QED BY <1>3, <3>1, <3>2
  <2>4. ProcessesTracked' BY <2>1, <2>2, <2>3, KeptTracked DEF TrackInv
  <2>5. StartsKept' BY <2>1, <2>2 DEF TrackInv, StartsKept, Started, LsTypeOK
  <2>6. QED BY <2>4, <2>5 DEF TrackInv
<1>4. QED BY <1>1, <1>2, <1>3

LEMMA ExitKeepsTrack ==
    ASSUME TypeInv, TrackInv, NEW p \in Procs, Exit(p) PROVE TrackInv'
<1> USE DEF TypeInv
<1>1. /\ p \in alive /\ alive' = alive \ {p} /\ doomed' = doomed \ {p}
      /\ owner' = [owner EXCEPT ![p] = Default] /\ UNCHANGED start
      /\ \/ pool' = pool
         \/ /\ owner[p] \in InPool /\ Instance(owner[p]) = p
            /\ pool' = [pool EXCEPT ![owner[p]] = None]
  BY DEF Exit, starts
<1>2. \A j \in InPool : Instance(j) # p => j \in InPool' /\ Instance(j)' = Instance(j)
  BY <1>1 DEF InPool, Instance, LsTypeOK
<1>3. ProcessesTracked'
  <2>1. \A q \in alive' \ doomed' : owner'[q] = owner[q] /\ q # p /\ q \in alive \ doomed
    BY <1>1 DEF LsTypeOK
  <2>2. QED BY <1>2, <2>1, KeptTracked DEF TrackInv
<1>4. StartsKept'
  <2>1. p # NoProc OBVIOUS
  <2>2. \A j \in Keys : start[j].phase = "spawning" => j \in InPool /\ Instance(j) # p
    BY <2>1 DEF TrackInv, StartsKept, EntriesStart
  <2>3. QED BY <1>1, <1>2, <2>2 DEF StartsKept
<1>5. QED BY <1>3, <1>4 DEF TrackInv

LEMMA RestKeepsTrack ==
    ASSUME TypeInv, TypeInv', TrackInv,
           \/ UNCHANGED vars
           \/ \E k \in Keys : Ensure(k)
           \/ \E k \in Keys, n \in Numbers : TimerFires(k, n)
           \/ \E h \in halts : HaltEnds(h)
           \/ \E u \in Users, k \in Keys : BeginUse(u, k) \/ BeginMaintenance(u, k)
           \/ \E u \in Users : EndUse(u) \/ EndMaintenance(u)
    PROVE  TrackInv'
<1> USE DEF TypeInv
<1>1. \A j \in InPool : pool[j] \in Entry BY EntryFields
<1>2. UNCHANGED <<alive, doomed, owner>>
  BY DEF vars, procs, Ensure, TimerFires, HaltEnds, BeginUse, BeginMaintenance, EndUse,
         EndMaintenance
<1>3. \A j \in InPool : pool'[j] \in Entry /\ pool'[j].proc = pool[j].proc
  <2>1. ASSUME NEW u \in Users, NEW k \in Keys, BeginUse(u, k)
        PROVE  \A j \in InPool : pool'[j] \in Entry /\ pool'[j].proc = pool[j].proc
    <3>1. k \in InPool /\ pool' = [pool EXCEPT ![k].uses = @ + 1]
      BY <2>1 DEF BeginUse, Serving
    <3>2. TAKE j \in InPool
    <3>3. CASE j = k
      <4>1. pool'[k] = [pool[k] EXCEPT !.uses = @ + 1] BY <3>1 DEF LsTypeOK, InPool
      <4>2. QED BY <1>1, <3>1, <3>3, <4>1 DEF Entry
    <3>4. CASE j # k BY <1>1, <3>1, <3>4 DEF LsTypeOK, InPool
    <3>5. QED BY <3>3, <3>4
  <2>2. ASSUME NEW u \in Users, EndUse(u)
        PROVE  \A j \in InPool : pool'[j] \in Entry /\ pool'[j].proc = pool[j].proc
    <3>1. TAKE j \in InPool
    <3>2. j \in Keys /\ pool'[j] = IF j \in At(use[u].port) /\ pool[j].uses > 0
                                   THEN [pool[j] EXCEPT !.uses = @ - 1] ELSE pool[j]
      BY <2>2 DEF EndUse, InPool
    <3>3. QED BY <1>1, <3>2 DEF Entry
  <2>3. CASE \/ UNCHANGED vars
             \/ \E k \in Keys : Ensure(k)
             \/ \E k \in Keys, n \in Numbers : TimerFires(k, n)
             \/ \E h \in halts : HaltEnds(h)
             \/ \E u \in Users, k \in Keys : BeginMaintenance(u, k)
             \/ \E u \in Users : EndMaintenance(u)
    <3>1. pool' = pool
      BY <2>3 DEF vars, Ensure, TimerFires, HaltEnds, BeginMaintenance, EndMaintenance
    <3>2. QED BY <1>1, <3>1
  <2>4. QED BY <2>1, <2>2, <2>3
<1>4. InPool \subseteq InPool' /\ \A j \in InPool : Instance(j)' = Instance(j)
  BY <1>3 DEF InPool, Instance, Entry
<1>5. ProcessesTracked' BY <1>2, <1>4, KeptTracked DEF TrackInv
<1>6. \A j \in Keys : start'[j].phase = "spawning" => start[j].phase = "spawning"
  <2>1. ASSUME NEW k \in Keys, Join(k)
        PROVE  \A j \in Keys : start'[j].phase = "spawning" => start[j].phase = "spawning"
    <3>1. CASE UNCHANGED starts BY <3>1 DEF starts
    <3>2. CASE start' = [start EXCEPT ![k] = [phase |-> "admitting", proc |-> NoProc]]
      BY <3>2 DEF LsTypeOK
    <3>3. QED BY <2>1, <3>1, <3>2 DEF Join
  <2>2. ASSUME NEW h \in halts, HaltEnds(h)
        PROVE  \A j \in Keys : start'[j].phase = "spawning" => start[j].phase = "spawning"
    <3>1. h.key \in Keys /\ h.next \in {"admit", "ensure", "stop"} BY DEF LsTypeOK
    <3>2. CASE h.next = "ensure" BY <2>1, <2>2, <3>1, <3>2 DEF HaltEnds
    <3>3. CASE h.next = "admit" BY <2>2, <3>3 DEF HaltEnds, Moves, LsTypeOK
    <3>4. CASE h.next = "stop" BY <2>2, <3>4 DEF HaltEnds, starts
    <3>5. QED BY <3>1, <3>2, <3>3, <3>4
  <2>3. CASE \/ \E k \in Keys : Ensure(k)
             \/ \E k \in Keys, n \in Numbers : TimerFires(k, n)
    BY <2>1, <2>3 DEF Ensure, TimerFires
  <2>4. CASE \/ UNCHANGED vars
             \/ \E u \in Users, k \in Keys : BeginUse(u, k) \/ BeginMaintenance(u, k)
             \/ \E u \in Users : EndUse(u) \/ EndMaintenance(u)
    <3>1. UNCHANGED start
      BY <2>4 DEF vars, starts, BeginUse, BeginMaintenance, EndUse, EndMaintenance
    <3>2. QED BY <3>1
  <2>5. QED BY <2>2, <2>3, <2>4
<1>7. StartsKept' BY <1>4, <1>6 DEF TrackInv, StartsKept
<1>8. QED BY <1>5, <1>7 DEF TrackInv

\* No process is lost: what runs and was not told to stop is the instance of its
\* key, provided the operator does not stop what is about to be spawned
\* (ensureLs, stopLanguageServerAndWait, evictLruIdleNonDefault, the exit handler).
THEOREM ProcessesKept == ASSUME ~StopWhileStarting PROVE Spec => []ProcessesTracked
<1>1. Init => TrackInv BY DEF Init, TrackInv, ProcessesTracked, StartsKept, Started
<1>2. TypeInv /\ TrackInv /\ [Next]_vars => TrackInv'
  <2> SUFFICES ASSUME TypeInv, TrackInv, [Next]_vars PROVE TrackInv'
    OBVIOUS
  <2>1. ASSUME NEW k \in Keys, Restart(k) \/ SweepIdle(k) PROVE TrackInv'
    <3>1. k \in Serving /\ Dismiss(k) /\ UNCHANGED <<alive, owner, start>>
      BY <2>1 DEF Restart, SweepIdle, Stoppable, Idle, starts
    <3>2. QED BY <3>1, StopsKeepTrack DEF TrackInv
  <2>2. CASE StopAll
    <3>1. InPool \subseteq Serving /\ UNCHANGED start /\ UNCHANGED <<alive, owner>>
      BY <2>2 DEF StopAll, Stoppable, starts
    <3>2. doomed' = doomed \cup {Instance(k) : k \in Serving} BY <2>2 DEF StopAll
    <3>3. \A p \in alive' \ doomed', k \in InPool : Instance(k) # p BY <3>1, <3>2
    <3>4. ProcessesTracked' BY <3>1, <3>2, <3>3, KeptTracked DEF TrackInv
    <3>5. \A k \in Keys : start[k].phase # "spawning"
      BY <3>1 DEF TrackInv, StartsKept, TypeInv, EntriesStart, Serving, Instance
    <3>6. QED BY <3>1, <3>4, <3>5 DEF TrackInv, StartsKept
  <2>3. ASSUME NEW k \in Keys, Starting(k) PROVE TrackInv'
    BY <2>3, AdmissionKeepsTrack, StartingKeepsTrack DEF Starting
  <2>4. ASSUME NEW p \in Procs, Exit(p) PROVE TrackInv' BY <2>4, ExitKeepsTrack
  <2>5. CASE \/ UNCHANGED vars
             \/ \E k \in Keys : Ensure(k)
             \/ \E k \in Keys, n \in Numbers : TimerFires(k, n)
             \/ \E h \in halts : HaltEnds(h)
             \/ \E u \in Users, k \in Keys : BeginUse(u, k) \/ BeginMaintenance(u, k)
             \/ \E u \in Users : EndUse(u) \/ EndMaintenance(u)
    BY <2>5, TypeNext, RestKeepsTrack
  <2>6. QED BY <2>1, <2>2, <2>3, <2>4, <2>5 DEF Next
<1>3. TrackInv => ProcessesTracked BY DEF TrackInv
<1>4. QED BY <1>1, <1>2, <1>3, TypeInit, TypeNext, PTL DEF Spec

-----------------------------------------------------------------------------
\* A process has its own port, or the default one.
PortsRight == \A p \in Procs : port[p] \in {p, DefaultPort}

UsesInv == UsesExact /\ UsersRight /\ PortsRight

On(k) == {u \in Users : use[u] = Using("request", k)}

LEMMA OnIsFinite == \A k : IsFiniteSet(On(k)) /\ Cardinality(On(k)) \in Nat
BY FS_Subset, FS_CardinalityType DEF On

\* Nobody comes or goes, and what still serves is what served.
LEMMA KeptUses ==
    ASSUME TypeInv, UsesInv, PortsRight', use' = use,
           \A k \in Serving' : /\ k \in Serving /\ pool'[k].proc = pool[k].proc
                               /\ pool'[k].uses = pool[k].uses
                               /\ port'[pool[k].proc] = port[pool[k].proc]
    PROVE  UsesInv'
<1>1. \A k \in Serving' : k \in Serving /\ Instance(k)' = Instance(k)
                          /\ port'[Instance(k)] = port[Instance(k)]
  BY DEF Instance
<1>2. UsersRight'
  <2> SUFFICES ASSUME NEW u \in Users, use'[u].kind # "none"
               PROVE  /\ use'[u].proc # NoProc /\ use'[u].port \in {use'[u].proc, DefaultPort}
                      /\ \A k \in Serving' : pool'[k].proc = use'[u].proc =>
                            use'[u].key = k /\ use'[u].port = port'[pool'[k].proc]
    BY DEF UsersRight, Instance
  <2>1. QED BY <1>1 DEF UsesInv, UsersRight, Instance
<1>3. UsesExact'
  <2> SUFFICES ASSUME NEW k \in Serving' \ {Default}
               PROVE  pool'[k].uses = Cardinality({u \in Users : use'[u] = Using("request", k)'})
    BY DEF UsesExact
  <2>1. Using("request", k)' = Using("request", k) BY <1>1 DEF Using, Instance
  <2>2. QED BY <2>1 DEF UsesInv, UsesExact
<1>4. QED BY <1>2, <1>3 DEF UsesInv

LEMMA StopsKeepUses ==
    ASSUME TypeInv, UsesInv, NEW k \in Keys, Dismiss(k), UNCHANGED <<port, use>>
    PROVE  UsesInv'
<1>1. PortsRight' BY DEF UsesInv, PortsRight
<1>2. \A j \in Serving' : j \in Serving /\ pool'[j] = pool[j]
  BY DEF TypeInv, LsTypeOK, Dismiss, Serving, InPool, Instance
<1>3. QED BY <1>1, <1>2, KeptUses

LEMMA StartingKeepsUses ==
    ASSUME TypeInv, UsesInv, NEW k \in Keys, Starting(k) PROVE UsesInv'
<1> USE DEF TypeInv
<1>1. CASE Admit(k) \/ Refuse(k)
  <2>1. UNCHANGED <<pool, port, use>> BY <1>1 DEF Admit, Refuse, procs, usage
  <2>2. QED BY <2>1, KeptUses DEF UsesInv, PortsRight, Serving, InPool, Instance
<1>2. CASE Evict(k)
  <2>1. PICK j \in Keys : Dismiss(j) BY <1>2 DEF Evict
  <2>2. QED BY <1>2, <2>1, StopsKeepUses DEF Evict
<1>3. CASE Reserve(k)
  <2>1. pool' = [pool EXCEPT ![k] = Reserved] /\ UNCHANGED <<port, use>>
    BY <1>3 DEF Reserve, procs, usage
  <2>2. \A j \in Serving' : j \in Serving /\ pool'[j] = pool[j]
    BY <2>1 DEF Serving, InPool, Instance, Reserved, LsTypeOK
  <2>3. QED BY <2>1, <2>2, KeptUses DEF UsesInv, PortsRight
<1>4. CASE SpawnFails(k) \/ NotReady(k)
  <2>1. UNCHANGED <<port, use>> /\ (pool' = pool \/ pool' = [pool EXCEPT ![k] = None])
    BY <1>4 DEF SpawnFails, NotReady, procs
  <2>2. \A j \in Serving' : j \in Serving /\ pool'[j] = pool[j]
    BY <2>1 DEF Serving, InPool, Instance, LsTypeOK
  <2>3. QED BY <2>1, <2>2, KeptUses DEF UsesInv, PortsRight
<1>5. CASE Ready(k)
  <2>1. /\ UNCHANGED <<port, use>>
        /\ pool' = IF k \in InPool THEN [pool EXCEPT ![k].ready = TRUE] ELSE pool
    BY <1>5 DEF Ready, procs, usage
  <2>2. \A j \in InPool : pool'[j].proc = pool[j].proc /\ pool'[j].uses = pool[j].uses
    BY <2>1, EntryFields DEF Entry, InPool, LsTypeOK
  <2>3. \A j \in Serving' : j \in Serving
    BY <2>1, <2>2 DEF Serving, InPool, Instance, LsTypeOK
  <2>4. QED BY <2>1, <2>2, <2>3, KeptUses DEF UsesInv, PortsRight, Serving
<1>6. CASE Spawn(k)
  <2>1. PICK p \in Procs :
          /\ Free(p)
          /\ port' = [port EXCEPT ![p] =
                        IF k = Default /\ \A q \in alive : port[q] # DefaultPort
                        THEN DefaultPort ELSE p]
          /\ pool' = IF k \in InPool THEN [pool EXCEPT ![k].proc = p] ELSE pool
    BY <1>6 DEF Spawn
  <2>2. use' = use /\ start[k].phase = "spawning" BY <1>6 DEF Spawn, usage
  <2>3. PortsRight' BY <2>1 DEF UsesInv, PortsRight, LsTypeOK
  <2>4. /\ \A j \in Serving : Instance(j) # p /\ Instance(j) \in Procs
        /\ \A u \in Users : use[u].proc # p
    BY <2>1, EntryFields DEF Free, Serving, InPool, Instance, Entry
  <2>5. CASE k \notin InPool
    <3>1. pool' = pool BY <2>1, <2>5
    <3>2. \A j \in Serving' : j \in Serving /\ port'[pool[j].proc] = port[pool[j].proc]
      BY <2>1, <2>4, <3>1 DEF Serving, InPool, Instance, LsTypeOK
    <3>3. QED BY <2>2, <2>3, <3>1, <3>2, KeptUses
  <2>6. CASE k \in InPool
    <3>1. pool[k] \in Entry /\ pool[k].uses = 0 BY <2>2, <2>6, EntryFields DEF EntriesStart
    <3>2. pool' = [pool EXCEPT ![k].proc = p] /\ pool'[k].proc = p /\ pool'[k].uses = 0
      BY <2>1, <2>6, <3>1 DEF Entry, LsTypeOK
    <3>3. \A j \in Serving' \ {k} : /\ j \in Serving /\ pool'[j] = pool[j]
                                    /\ port'[pool[j].proc] = port[pool[j].proc]
      BY <2>1, <2>4, <3>2 DEF Serving, InPool, Instance, LsTypeOK
    <3>4. UsersRight'
      <4> SUFFICES ASSUME NEW u \in Users, use[u].kind # "none"
                   PROVE  /\ use[u].proc # NoProc /\ use[u].port \in {use[u].proc, DefaultPort}
                          /\ \A j \in Serving' : pool'[j].proc = use[u].proc =>
                                use[u].key = j /\ use[u].port = port'[pool'[j].proc]
        BY <2>2 DEF UsersRight, Instance
      <4>1. QED BY <2>4, <3>2, <3>3 DEF UsesInv, UsersRight, Instance
    <3>5. UsesExact'
      <4> SUFFICES ASSUME NEW j \in Serving' \ {Default}
                   PROVE  pool'[j].uses = Cardinality({u \in Users : use[u] = Using("request", j)'})
        BY <2>2 DEF UsesExact
      <4>1. CASE j = k
        <5>1. Using("request", j)'.proc = p BY <3>2, <4>1 DEF Using, Instance
        <5>2. {u \in Users : use[u] = Using("request", j)'} = {} BY <2>4, <5>1
        <5>3. QED BY <3>2, <4>1, <5>2, FS_EmptySet
      <4>2. CASE j # k
        <5>1. Using("request", j)' = Using("request", j) BY <3>3, <4>2 DEF Using, Instance
        <5>2. QED BY <3>3, <4>2, <5>1 DEF UsesInv, UsesExact
      <4>3. QED BY <4>1, <4>2
    <3>6. QED BY <2>3, <3>4, <3>5 DEF UsesInv
  <2>7. QED BY <2>5, <2>6
<1>7. QED BY <1>1, <1>2, <1>3, <1>4, <1>5, <1>6 DEF Starting

\* Instances differ in their processes, and those of requests in all they hold.
LEMMA UsingDiffers ==
    ASSUME TypeInv, NEW j \in Serving, NEW k \in Serving, j # k
    PROVE  Instance(j) # Instance(k) /\ Using("request", j) # Using("request", k)
<1>1. Instance(j) # Instance(k) BY DEF TypeInv, Owned
<1>2. Using("request", j).proc = Instance(j) /\ Using("request", k).proc = Instance(k)
  BY DEF Using
<1>3. QED BY <1>1, <1>2

LEMMA BeginsKeepUses ==
    ASSUME TypeInv, UsesInv, NEW u \in Users, NEW k \in Keys,
           BeginUse(u, k) \/ BeginMaintenance(u, k)
    PROVE  UsesInv'
<1> USE DEF TypeInv
<1>0. \A j \in InPool : pool[j] \in Entry /\ pool[j] # None BY EntryFields DEF InPool
<1>1. /\ k \in Serving /\ use[u] = Unused /\ UNCHANGED port
      /\ k \in InPool /\ k \in Keys /\ pool[k] \in Entry
  BY <1>0 DEF BeginUse, BeginMaintenance, procs, Serving
<1>2. \A j \in InPool : pool'[j] \in Entry /\ pool'[j].proc = pool[j].proc
  <2> TAKE j \in InPool
  <2>1. CASE BeginUse(u, k)
    <3>1. pool' = [pool EXCEPT ![k].uses = @ + 1] BY <2>1 DEF BeginUse
    <3>2. CASE j = k
      <4>1. pool'[k] = [pool[k] EXCEPT !.uses = @ + 1] BY <1>1, <3>1 DEF LsTypeOK
      <4>2. QED BY <1>0, <3>2, <4>1 DEF Entry
    <3>3. CASE j # k BY <1>0, <3>1, <3>3 DEF LsTypeOK, InPool
    <3>4. QED BY <3>2, <3>3
  <2>2. CASE BeginMaintenance(u, k) BY <1>0, <2>2 DEF BeginMaintenance
  <2>3. QED BY <2>1, <2>2
<1>3. Serving' = Serving /\ \A j \in Serving : Instance(j)' = Instance(j)
  <2>1. \A j \in Keys \ InPool : pool'[j] = None
    BY <1>1 DEF BeginUse, BeginMaintenance, InPool, LsTypeOK
  <2>2. \A j \in InPool : pool'[j] # None /\ pool'[j].proc = pool[j].proc BY <1>2 DEF Entry
  <2>3. InPool' = InPool BY <2>1, <2>2 DEF InPool
  <2>4. QED BY <2>2, <2>3 DEF Serving, Instance
<1>4. \A kind : \A j \in Serving : Using(kind, j)' = Using(kind, j) BY <1>1, <1>3 DEF Using
<1>5. PortsRight' BY <1>1 DEF UsesInv, PortsRight
<1>6. UsersRight'
  <2> SUFFICES ASSUME NEW v \in Users, use'[v].kind # "none"
               PROVE  /\ use'[v].proc # NoProc /\ use'[v].port \in {use'[v].proc, DefaultPort}
                      /\ \A j \in Serving' : pool'[j].proc = use'[v].proc =>
                            use'[v].key = j /\ use'[v].port = port'[pool'[j].proc]
    BY DEF UsersRight, Instance
  <2>1. CASE v = u
    <3>1. /\ use'[u].key = k /\ use'[u].proc = Instance(k) /\ use'[u].port = port[Instance(k)]
      BY DEF BeginUse, BeginMaintenance, Using, LsTypeOK
    <3>2. Instance(k) # NoProc /\ Instance(k) \in Procs
      BY <1>1 DEF Serving, Instance, Entry
    <3>3. \A j \in Serving : Instance(j) = Instance(k) => j = k BY <1>1, UsingDiffers
    <3>4. QED BY <1>1, <1>3, <2>1, <3>1, <3>2, <3>3 DEF UsesInv, PortsRight, Instance
  <2>2. CASE v # u
    <3>1. use'[v] = use[v] BY <2>2 DEF BeginUse, BeginMaintenance, LsTypeOK
    <3>2. QED BY <1>1, <1>3, <3>1 DEF UsesInv, UsersRight, Instance
  <2>3. QED BY <2>1, <2>2
<1>7. UsesExact'
  <2> SUFFICES ASSUME NEW j \in Serving, j # Default
               PROVE  pool'[j].uses = Cardinality({v \in Users : use'[v] = Using("request", j)'})
    BY <1>3 DEF UsesExact
  <2>1. pool[j].uses = Cardinality(On(j)) BY DEF UsesInv, UsesExact, On
  <2>2. u \notin On(j) BY <1>1 DEF On, Unused, Using
  <2>3. PICK S : S = {v \in Users : use'[v] = Using("request", j)'} OBVIOUS
  <2>4. CASE BeginUse(u, k) /\ j = k
    <3>1. use' = [use EXCEPT ![u] = Using("request", k)] BY <2>4 DEF BeginUse
    <3>2. S = On(k) \cup {u} BY <1>4, <2>3, <2>4, <3>1 DEF On, LsTypeOK
    <3>3. Cardinality(S) = Cardinality(On(k)) + 1 BY <2>2, <2>4, <3>2, OnIsFinite, FS_AddElement
    <3>4. pool'[k].uses = pool[k].uses + 1
      <4>1. pool'[k] = [pool[k] EXCEPT !.uses = @ + 1] BY <1>1, <2>4 DEF BeginUse, LsTypeOK
      <4>2. QED BY <1>1, <4>1 DEF Entry
    <3>5. QED BY <2>1, <2>3, <2>4, <3>3, <3>4
  <2>5. CASE ~(BeginUse(u, k) /\ j = k)
    <3>1. pool'[j] = pool[j]
      BY <1>1, <2>5 DEF BeginUse, BeginMaintenance, LsTypeOK, Serving, InPool
    <3>2. use'[u] # Using("request", j)
      <4>1. CASE BeginUse(u, k)
        <5>1. use'[u] = Using("request", k) BY <4>1 DEF BeginUse, LsTypeOK
        <5>2. QED BY <1>1, <2>5, <4>1, <5>1, UsingDiffers
      <4>2. CASE BeginMaintenance(u, k)
        <5>1. use'[u].kind = "probe" BY <4>2 DEF BeginMaintenance, Using, LsTypeOK
        <5>2. QED BY <5>1 DEF Using
      <4>3. QED BY <4>1, <4>2
    <3>3. \A v \in Users \ {u} : use'[v] = use[v] BY DEF BeginUse, BeginMaintenance, LsTypeOK
    <3>4. S = On(j) BY <1>4, <2>2, <2>3, <3>2, <3>3 DEF On
    <3>5. QED BY <2>1, <2>3, <3>1, <3>4
  <2>6. QED BY <2>4, <2>5
<1>8. QED BY <1>5, <1>6, <1>7 DEF UsesInv

LEMMA EndsKeepUses ==
    ASSUME TypeInv, UsesInv, NEW u \in Users, EndUse(u) \/ EndMaintenance(u)
    PROVE  UsesInv'
<1> USE DEF TypeInv
<1>0. \A j \in InPool : pool[j] \in Entry /\ pool[j] # None /\ j \in Keys
  BY EntryFields DEF InPool
<1>1. UNCHANGED port /\ use' = [use EXCEPT ![u] = Unused]
  BY DEF EndUse, EndMaintenance, procs
<1>2. \A j \in InPool : pool'[j] \in Entry /\ pool'[j].proc = pool[j].proc
  <2> TAKE j \in InPool
  <2>1. CASE EndUse(u)
    <3>1. pool'[j] = IF j \in At(use[u].port) /\ pool[j].uses > 0
                     THEN [pool[j] EXCEPT !.uses = @ - 1] ELSE pool[j]
      BY <1>0, <2>1 DEF EndUse
    <3>2. QED BY <1>0, <3>1 DEF Entry
  <2>2. CASE EndMaintenance(u) BY <1>0, <2>2 DEF EndMaintenance
  <2>3. QED BY <2>1, <2>2
<1>3. Serving' = Serving /\ \A j \in Serving : Instance(j)' = Instance(j)
  <2>1. \A j \in Keys \ InPool : pool'[j] = None
    BY DEF EndUse, EndMaintenance, At, Serving, InPool
  <2>2. \A j \in InPool : pool'[j] # None /\ pool'[j].proc = pool[j].proc BY <1>2 DEF Entry
  <2>3. InPool' = InPool BY <2>1, <2>2 DEF InPool
  <2>4. QED BY <2>2, <2>3 DEF Serving, Instance
<1>4. \A kind : \A j \in Serving : Using(kind, j)' = Using(kind, j) BY <1>1, <1>3 DEF Using
<1>5. PortsRight' BY <1>1 DEF UsesInv, PortsRight
<1>6. UsersRight'
  <2> SUFFICES ASSUME NEW v \in Users, use'[v].kind # "none"
               PROVE  /\ use'[v].proc # NoProc /\ use'[v].port \in {use'[v].proc, DefaultPort}
                      /\ \A j \in Serving' : pool'[j].proc = use'[v].proc =>
                            use'[v].key = j /\ use'[v].port = port'[pool'[j].proc]
    BY DEF UsersRight, Instance
  <2>1. use'[v] = use[v] BY <1>1 DEF Unused, LsTypeOK
  <2>2. QED BY <1>1, <1>3, <2>1 DEF UsesInv, UsersRight, Instance
<1>7. UsesExact'
  <2> SUFFICES ASSUME NEW j \in Serving, j # Default
               PROVE  pool'[j].uses = Cardinality({v \in Users : use'[v] = Using("request", j)'})
    BY <1>3 DEF UsesExact
  <2>1. pool[j].uses = Cardinality(On(j)) BY DEF UsesInv, UsesExact, On
  <2>2. PICK S : S = {v \in Users : use'[v] = Using("request", j)'} OBVIOUS
  <2>3. S = On(j) \ {u}
    <3>1. use'[u].kind # "request" /\ \A v \in Users \ {u} : use'[v] = use[v]
      BY <1>1 DEF Unused, LsTypeOK
    <3>2. use'[u] # Using("request", j) BY <3>1 DEF Using
    <3>3. QED BY <1>4, <2>2, <3>1, <3>2 DEF On
  <2>4. j \in InPool /\ j \in Keys BY DEF Serving, InPool
  <2>5. CASE EndUse(u) /\ u \in On(j)
    <3>1. j \in At(use[u].port) BY <2>5 DEF On, Using, At
    <3>2. /\ Cardinality(S) = Cardinality(On(j)) - 1
          /\ Cardinality(On(j)) \in Nat /\ Cardinality(S) \in Nat
      <4>1. IsFiniteSet(On(j)) /\ IsFiniteSet(S) /\ Cardinality(On(j)) \in Nat
        BY <2>3, OnIsFinite, FS_Subset
      <4>2. Cardinality(S) = Cardinality(On(j)) - 1
        BY <2>3, <2>5, <4>1, FS_RemoveElement
      <4>3. QED BY <4>1, <4>2, FS_CardinalityType
    <3>3. pool[j].uses > 0 BY <2>1, <3>2
    <3>4. pool'[j] = [pool[j] EXCEPT !.uses = @ - 1] BY <2>4, <2>5, <3>1, <3>3 DEF EndUse
    <3>5. pool'[j].uses = pool[j].uses - 1 BY <1>0, <2>4, <3>4 DEF Entry
    <3>6. QED BY <2>1, <2>2, <3>2, <3>5
  <2>6. CASE EndUse(u) /\ u \notin On(j)
    <3>1. j \notin At(use[u].port)
      <4>1. SUFFICES ASSUME port[Instance(j)] = use[u].port PROVE FALSE BY DEF At
      <4>2. Instance(j) \in Procs /\ port[Instance(j)] = Instance(j)
        BY <1>0, <2>4 DEF Owned, Serving, Instance, Entry
      <4>3. use[u].kind = "request" BY <2>6 DEF EndUse
      <4>4. use[u].proc = Instance(j) BY <4>1, <4>2, <4>3 DEF UsesInv, UsersRight
      <4>5. use[u].key = j /\ use[u].port = port[Instance(j)]
        BY <4>3, <4>4 DEF UsesInv, UsersRight
      <4>6. use[u] = Using("request", j) BY <4>3, <4>4, <4>5 DEF Using, LsTypeOK
      <4>7. QED BY <2>6, <4>6 DEF On
    <3>2. pool'[j] = pool[j] /\ S = On(j) BY <2>3, <2>4, <2>6, <3>1 DEF EndUse
    <3>3. QED BY <2>1, <2>2, <3>2
  <2>7. CASE EndMaintenance(u)
    <3>1. u \notin On(j) /\ pool' = pool BY <2>7 DEF EndMaintenance, On, Using
    <3>2. QED BY <2>1, <2>2, <2>3, <3>1
  <2>8. QED BY <2>5, <2>6, <2>7
<1>8. QED BY <1>5, <1>6, <1>7 DEF UsesInv

\* The count that keeps an instance from being evicted is that of the requests on
\* it, whatever ends late, restarts or is probed (beginLsUse, endLsUse).  The
\* default instance is left out: its port is used again.
THEOREM UsesCounted == Spec => []UsesExact
<1>1. Init => UsesInv
  BY DEF Init, UsesInv, UsesExact, UsersRight, PortsRight, Serving, InPool, Unused
<1>2. TypeInv /\ UsesInv /\ [Next]_vars => UsesInv'
  <2> SUFFICES ASSUME TypeInv, UsesInv, [Next]_vars PROVE UsesInv'
    OBVIOUS
  <2>1. ASSUME NEW k \in Keys, Restart(k) \/ SweepIdle(k) PROVE UsesInv'
    <3>1. Dismiss(k) /\ UNCHANGED <<port, use>> BY <2>1 DEF Restart, SweepIdle
    <3>2. QED BY <3>1, StopsKeepUses
  <2>2. CASE StopAll
    <3>1. Serving' = {} /\ UNCHANGED <<port, use>> BY <2>2 DEF StopAll, Serving, InPool
    <3>2. QED BY <3>1, KeptUses DEF UsesInv, PortsRight
  <2>3. ASSUME NEW k \in Keys, Starting(k) PROVE UsesInv'
    BY <2>3, StartingKeepsUses
  <2>4. ASSUME NEW p \in Procs, Exit(p) PROVE UsesInv'
    <3>1. /\ port' = [port EXCEPT ![p] = DefaultPort] /\ use' = use
          /\ \/ pool' = pool /\ ~(owner[p] \in InPool /\ Instance(owner[p]) = p)
             \/ pool' = [pool EXCEPT ![owner[p]] = None] /\ Instance(owner[p]) = p
      BY <2>4 DEF Exit
    <3>2. PortsRight' BY <3>1 DEF UsesInv, PortsRight, TypeInv, LsTypeOK
    <3>3. \A j \in Serving' : j \in Serving /\ pool'[j] = pool[j] /\ Instance(j) # p
      BY <3>1 DEF Serving, InPool, Instance, TypeInv, LsTypeOK, Owned
    <3>4. \A j \in Serving' : port'[pool[j].proc] = port[pool[j].proc]
      BY <3>1, <3>3 DEF Instance, TypeInv, LsTypeOK, Owned
    <3>5. QED BY <3>1, <3>2, <3>3, <3>4, KeptUses
  <2>5. CASE \/ UNCHANGED vars
             \/ \E k \in Keys : Ensure(k)
             \/ \E k \in Keys, n \in Numbers : TimerFires(k, n)
             \/ \E h \in halts : HaltEnds(h)
    <3>1. UNCHANGED <<pool, port, use>>
      BY <2>5 DEF vars, procs, usage, Ensure, TimerFires, HaltEnds
    <3>2. QED BY <3>1, KeptUses DEF UsesInv, PortsRight, Serving, InPool, Instance
  <2>6. QED BY <2>1, <2>2, <2>3, <2>4, <2>5, BeginsKeepUses, EndsKeepUses DEF Next
<1>3. UsesInv => UsesExact BY DEF UsesInv
<1>4. QED BY <1>1, <1>2, <1>3, TypeInit, TypeNext, PTL DEF Spec
=============================================================================
