------------------------- MODULE LanguageServerPool -------------------------
(***************************************************************************)
(* The pool of language-server processes of the Cascade backend            *)
(* (src/langserver.js), one per egress proxy and one for none: starts that *)
(* callers of the same key share, admission of one start at a time under   *)
(* the cap, eviction of idle instances, exits and automatic restarts,      *)
(* restart and stop by the operator, and the counts of who uses what.      *)
(*                                                                         *)
(* stopLanguageServer, which does not wait, only runs when the program     *)
(* exits and is left out.  A process that is told to stop, and killed when *)
(* it does not, is gone within the grace the code gives it.                *)
(***************************************************************************)
EXTENDS Integers, FiniteSets, Sequences

CONSTANTS Keys,
          Default,            \* the key of the instance without a proxy
          Procs,              \* bound: processes known at one time
          NoProc, None,
          DefaultPort,        \* the only port that is ever used again
          MaxInstances,       \* LS_MAX_INSTANCES
          MaxRetries,         \* LS_AUTO_RESTART_MAX_RETRIES
          Users,              \* requests and account probes
          StopWhileStarting,  \* the operator also stops what is about to be spawned
          MaxTimers           \* bound: restarts of one key under way

ASSUME PoolAssumption ==
    /\ IsFiniteSet(Keys) /\ IsFiniteSet(Users) /\ Default \in Keys
    /\ NoProc \notin Procs /\ DefaultPort \notin Procs
    /\ None \notin [proc : Procs \cup {NoProc}, ready : BOOLEAN, uses : Nat]
    /\ MaxInstances \in Nat \ {0} /\ MaxRetries \in Nat \ {0}
    /\ StopWhileStarting \in BOOLEAN /\ MaxTimers \in Nat \ {0}

VARIABLES
    pool,       \* pool[k]: None, or [proc, ready, uses]; a reservation has NoProc
    stopping,   \* keys whose old process still counts for the cap
    start,      \* start[k]: what the start under way of k does, on which process
    queue,      \* keys whose start is in admission; the first holds the lock
    halts,      \* waits for the exit of a process, and what follows
    alive, doomed, owner, port,     \* processes; those told to stop; the key
                                    \* and the port each runs for
    retry,      \* retry[k]: _restartAttempts, and closures of scheduleLsRestart
                \* by their number, sleeping (timers) or waiting for a start
    maint,      \* _maintenanceUses: a count is never above one
    use         \* use[u]: what u does, and the instance and the port it found

procs == <<alive, doomed, owner, port>>
starts == <<start, queue>>
usage == <<maint, use>>
vars == <<pool, stopping, starts, halts, procs, retry, usage>>

Admission == {"admitting", "evicting", "guarding"}
Phases == Admission \cup {"none", "spawning", "waiting"}
Numbers == 1 .. MaxRetries
Reserved == [proc |-> NoProc, ready |-> FALSE, uses |-> 0]
Started == [phase |-> "none", proc |-> NoProc]
Calm == [attempts |-> 0, timers |-> [n \in Numbers |-> 0], awaiting |-> [n \in Numbers |-> 0]]

InPool == {k \in Keys : pool[k] # None}
Serving == {k \in InPool : pool[k].proc # NoProc}
Instance(k) == pool[k].proc

Unused == [kind |-> "none", key |-> Default, proc |-> NoProc, port |-> DefaultPort]
Using(kind, k) == [kind |-> kind, key |-> k, proc |-> Instance(k), port |-> port[Instance(k)]]

\* Reservations of starts that were admitted and whose entry a stop took away
\* count on.  (Later starts stand behind in the queue.)
Pending(k) == {j \in Keys \ {k} : j \notin InPool /\ start[j].phase \in {"spawning", "waiting"}}
Occupancy == Cardinality(InPool) + Cardinality(stopping)

\* Mistake: instances being stopped do not count.
FullOfPool(k) == Cardinality(InPool) + Cardinality(Pending(k)) >= MaxInstances

Full(k) == Occupancy + Cardinality(Pending(k)) >= MaxInstances

\* getIdleNonDefaultEvictionCandidates, sweepIdleLanguageServers
Idle(k) == k \in Serving \ (maint \cup {Default}) /\ pool[k].ready /\ pool[k].uses = 0

Init ==
    /\ pool = [k \in Keys |-> None] /\ stopping = {}
    /\ start = [k \in Keys |-> Started] /\ queue = <<>> /\ halts = {}
    /\ alive = {} /\ doomed = {}
    /\ owner = [p \in Procs |-> Default] /\ port = [p \in Procs |-> DefaultPort]
    /\ retry = [k \in Keys |-> Calm]
    /\ maint = {} /\ use = [u \in Users |-> Unused]

-----------------------------------------------------------------------------
\* The restarts of a key under way.
RestartsOf(k) ==
    LET sum[n \in 0 .. MaxRetries] ==
          IF n = 0 THEN 0 ELSE sum[n - 1] + retry[k].timers[n] + retry[k].awaiting[n]
    IN sum[MaxRetries]

\* scheduleLsRestart: one more restart, or it gives up and forgets the count.
Scheduled(s) ==
    IF s.attempts >= MaxRetries THEN [s EXCEPT !.attempts = 0]
    ELSE [s EXCEPT !.attempts = @ + 1, !.timers[s.attempts + 1] = @ + 1]

\* The closures that wait for the start see it fail; all but those with the last
\* number schedule again.
StartFailed(s) ==
    LET again[n \in 0 .. MaxRetries - 1] == IF n = 0 THEN 0 ELSE again[n - 1] + s.awaiting[n]
        after[i \in 0 .. again[MaxRetries - 1]] ==
            IF i = 0 THEN [s EXCEPT !.awaiting = Calm.awaiting] ELSE Scheduled(after[i - 1])
    IN after[again[MaxRetries - 1]]

StartSucceeded(s) ==
    IF s.awaiting = Calm.awaiting THEN s
    ELSE [s EXCEPT !.attempts = 0, !.awaiting = Calm.awaiting]

\* The start of k is over, and with it what _pending promised.
Over(k) == start' = [start EXCEPT ![k] = Started]
Fails(k) == Over(k) /\ retry' = [retry EXCEPT ![k] = StartFailed(@)]

\* ensureLs, when no instance of k is ready: callers share the start under way.
Join(k) ==
    IF (k \in InPool /\ pool[k].ready) \/ start[k].phase # "none" THEN UNCHANGED starts
    ELSE /\ start' = [start EXCEPT ![k] = [phase |-> "admitting", proc |-> NoProc]]
         /\ queue' = Append(queue, k)

\* A request, a probe, or the operator's stop-and-start needs an instance.
Ensure(k) ==
    /\ start[k].phase = "none" /\ ~(k \in InPool /\ pool[k].ready)
    /\ Join(k)
    /\ UNCHANGED <<pool, stopping, halts, procs, retry, usage>>

\* The lock is held by the first start of the queue, until it leaves it.
Holds(k, phase) == queue # <<>> /\ Head(queue) = k /\ start[k].phase = phase
Moves(k, phase) == start' = [start EXCEPT ![k].phase = phase]

\* isDefaultBootstrapStart: the first instance does not wait for memory.
Bootstrap(k) == k = Default /\ Occupancy = 0

\* waitForPoolCapacity
Admit(k) ==
    /\ Holds(k, "admitting") /\ ~Full(k) /\ ~Bootstrap(k)
    /\ Moves(k, "guarding")
    /\ UNCHANGED <<pool, stopping, queue, halts, procs, retry, usage>>

\* An instance leaves the pool and is told to stop.
Dismiss(k) ==
    /\ pool' = [pool EXCEPT ![k] = None]
    /\ maint' = maint \ {k}
    /\ doomed' = IF Instance(k) = NoProc THEN doomed ELSE doomed \cup {Instance(k)}

\* evictLruIdleNonDefault; which idle instance is the oldest is left open.
Evict(k) ==
    /\ Holds(k, "admitting") /\ Full(k)
    /\ \E j \in Keys :
          /\ Idle(j) /\ Dismiss(j)
          /\ stopping' = stopping \cup {j}
          /\ halts' = halts \cup {[key |-> j, proc |-> Instance(j), next |-> "admit"]}
    /\ Moves(k, "evicting")
    /\ UNCHANGED <<queue, alive, owner, port, retry, use>>

\* Mistake: a start that is refused keeps the lock.
RefuseLocked(k) ==
    /\ \/ Holds(k, "admitting") /\ Full(k) /\ \A j \in Keys : ~Idle(j)
       \/ Holds(k, "guarding")
    /\ Fails(k)
    /\ UNCHANGED <<pool, stopping, queue, halts, procs, usage>>

\* Nothing became evictable, or memory did not become available, in time.
Refuse(k) ==
    /\ \/ Holds(k, "admitting") /\ Full(k) /\ \A j \in Keys : ~Idle(j)
       \/ Holds(k, "guarding")
    /\ Fails(k) /\ queue' = Tail(queue)
    /\ UNCHANGED <<pool, stopping, halts, procs, usage>>

\* waitForMemoryHeadroom has it: the entry is reserved, and the lock is free.
Reserve(k) ==
    /\ \/ Holds(k, "guarding")
       \/ Holds(k, "admitting") /\ ~Full(k) /\ Bootstrap(k)
    /\ pool' = [pool EXCEPT ![k] = Reserved]
    /\ Moves(k, "spawning") /\ queue' = Tail(queue)
    /\ UNCHANGED <<stopping, halts, procs, retry, usage>>

-----------------------------------------------------------------------------
\* Processes nothing in the program refers to any more.
Free(p) ==
    /\ p \notin alive
    /\ \A k \in Keys : start[k].proc # p /\ (k \in InPool => pool[k].proc # p)
    /\ \A h \in halts : h.proc # p
    /\ \A u \in Users : use[u].proc # p

\* A port is free, and the process is spawned on it, for an entry that may have
\* left the pool meanwhile.
Spawn(k) ==
    /\ start[k].phase = "spawning"
    /\ \E p \in Procs :
          /\ Free(p)
          /\ alive' = alive \cup {p} /\ doomed' = doomed \ {p}
          /\ owner' = [owner EXCEPT ![p] = k]
          /\ port' = [port EXCEPT ![p] =
                        IF k = Default /\ \A q \in alive : port[q] # DefaultPort
                        THEN DefaultPort ELSE p]
          /\ start' = [start EXCEPT ![k] = [phase |-> "waiting", proc |-> p]]
          /\ pool' = IF k \in InPool THEN [pool EXCEPT ![k].proc = p] ELSE pool
    /\ UNCHANGED <<stopping, queue, halts, retry, usage>>

\* No free port, or the process cannot be spawned at all ("error").
SpawnFails(k) ==
    /\ start[k].phase = "spawning" /\ Fails(k)
    /\ pool' = [pool EXCEPT ![k] = None] /\ maint' = maint \ {k}
    /\ stopping' \in {stopping, stopping \ {k}}
    /\ UNCHANGED <<queue, halts, procs, use>>

\* Mistake: the count starts anew when the instance is ready.
ReadyResets(k) ==
    /\ start[k].phase = "waiting" /\ start[k].proc \in alive
    /\ pool' = IF k \in InPool THEN [pool EXCEPT ![k].ready = TRUE, ![k].uses = 0] ELSE pool
    /\ Over(k) /\ retry' = [retry EXCEPT ![k] = StartSucceeded(@)]
    /\ UNCHANGED <<stopping, queue, halts, procs, usage>>

\* The port answers.
Ready(k) ==
    /\ start[k].phase = "waiting" /\ start[k].proc \in alive
    /\ pool' = IF k \in InPool THEN [pool EXCEPT ![k].ready = TRUE] ELSE pool
    /\ Over(k) /\ retry' = [retry EXCEPT ![k] = StartSucceeded(@)]
    /\ UNCHANGED <<stopping, queue, halts, procs, usage>>

\* Mistake: a process that does not answer in time is not killed.
NotReadyAlive(k) ==
    /\ start[k].phase = "waiting" /\ Fails(k)
    /\ IF k \in InPool
       THEN pool' = [pool EXCEPT ![k] = None] /\ maint' = maint \ {k}
       ELSE UNCHANGED <<pool, maint>>
    /\ stopping' = stopping \ {k}
    /\ UNCHANGED <<queue, halts, procs, use>>

\* The process exited first, or the port does not answer in time.
NotReady(k) ==
    /\ start[k].phase = "waiting" /\ Fails(k)
    /\ doomed' = doomed \cup ({start[k].proc} \cap alive)
    /\ IF k \in InPool
       THEN pool' = [pool EXCEPT ![k] = None] /\ maint' = maint \ {k}
       ELSE UNCHANGED <<pool, maint>>
    /\ stopping' = stopping \ {k}
    /\ UNCHANGED <<queue, halts, alive, owner, port, use>>

\* A process exits, told to or not; its entry, if it still has one, is restarted
\* after a delay.
Exit(p) ==
    LET k == owner[p]
        owns == k \in InPool /\ Instance(k) = p
    IN /\ p \in alive /\ (owns => RestartsOf(k) < MaxTimers)
       /\ alive' = alive \ {p} /\ doomed' = doomed \ {p}
       /\ owner' = [owner EXCEPT ![p] = Default] /\ port' = [port EXCEPT ![p] = DefaultPort]
       /\ IF owns
          THEN /\ pool' = [pool EXCEPT ![k] = None] /\ maint' = maint \ {k}
               /\ retry' = [retry EXCEPT ![k] = Scheduled(@)]
          ELSE UNCHANGED <<pool, maint, retry>>
       /\ UNCHANGED <<stopping, starts, halts, use>>

\* The delay of a scheduled restart is over.
TimerFires(k, n) ==
    /\ retry[k].timers[n] > 0
    /\ retry' = [retry EXCEPT ![k] =
                   IF k \in InPool /\ pool[k].ready
                   THEN [@ EXCEPT !.timers[n] = @ - 1, !.attempts = 0]
                   ELSE [@ EXCEPT !.timers[n] = @ - 1, !.awaiting[n] = @ + 1]]
    /\ Join(k)
    /\ UNCHANGED <<pool, stopping, halts, procs, usage>>

-----------------------------------------------------------------------------
Stoppable(ks) == StopWhileStarting \/ ks \subseteq Serving

\* restartLsForProxy of a key in the pool; of another one it is Ensure.
Restart(k) ==
    /\ k \in InPool /\ Stoppable({k})
    /\ Dismiss(k)
    /\ stopping' = stopping \cup {k}
    /\ halts' = halts \cup {[key |-> k, proc |-> Instance(k), next |-> "ensure"]}
    /\ UNCHANGED <<starts, alive, owner, port, retry, use>>

\* stopLanguageServerAndWait: an entry without a process has no exit to wait for,
\* and nothing takes it out of stopping.
StopAll ==
    /\ InPool # {} /\ Stoppable(InPool)
    /\ pool' = [k \in Keys |-> None] /\ maint' = {}
    /\ doomed' = doomed \cup {Instance(k) : k \in Serving}
    /\ stopping' = stopping \cup InPool
    /\ halts' = halts \cup {[key |-> k, proc |-> Instance(k), next |-> "stop"] : k \in Serving}
    /\ UNCHANGED <<starts, alive, owner, port, retry, use>>

\* The process is gone: the reservation ends, and what waited for it goes on.
HaltEnds(h) ==
    /\ h \in halts /\ h.proc \notin alive
    /\ halts' = halts \ {h} /\ stopping' = stopping \ {h.key}
    /\ CASE h.next = "ensure" -> Join(h.key)
         [] h.next = "admit" -> Moves(Head(queue), "admitting") /\ UNCHANGED queue
         [] h.next = "stop" -> UNCHANGED starts
    /\ UNCHANGED <<pool, procs, retry, usage>>

\* sweepIdleLanguageServers
SweepIdle(k) ==
    /\ Idle(k) /\ Dismiss(k)
    /\ UNCHANGED <<stopping, starts, halts, alive, owner, port, retry, use>>

-----------------------------------------------------------------------------
At(prt) == {k \in Serving : port[Instance(k)] = prt}

\* beginLsUse
BeginUse(u, k) ==
    /\ use[u] = Unused /\ k \in Serving \ maint
    /\ pool' = [pool EXCEPT ![k].uses = @ + 1]
    /\ use' = [use EXCEPT ![u] = Using("request", k)]
    /\ UNCHANGED <<stopping, starts, halts, procs, retry, maint>>

\* endLsUse, by the port
EndUse(u) ==
    /\ use[u].kind = "request"
    /\ pool' = [k \in Keys |->
                  IF k \in At(use[u].port) /\ pool[k].uses > 0
                  THEN [pool[k] EXCEPT !.uses = @ - 1] ELSE pool[k]]
    /\ use' = [use EXCEPT ![u] = Unused]
    /\ UNCHANGED <<stopping, starts, halts, procs, retry, maint>>

\* beginLsMaintenanceUse
BeginMaintenance(u, k) ==
    /\ use[u] = Unused /\ k \in Serving \ maint /\ pool[k].uses = 0
    /\ maint' = maint \cup {k}
    /\ use' = [use EXCEPT ![u] = Using("probe", k)]
    /\ UNCHANGED <<pool, stopping, starts, halts, procs, retry>>

\* endLsMaintenanceUse, by the key
EndMaintenance(u) ==
    /\ use[u].kind = "probe"
    /\ maint' = maint \ {use[u].key}
    /\ use' = [use EXCEPT ![u] = Unused]
    /\ UNCHANGED <<pool, stopping, starts, halts, procs, retry>>

Starting(k) ==
    \/ Admit(k) \/ Evict(k) \/ Refuse(k) \/ Reserve(k)
    \/ Spawn(k) \/ SpawnFails(k) \/ Ready(k) \/ NotReady(k)

Next ==
    \/ \E k \in Keys : Ensure(k) \/ Starting(k) \/ Restart(k) \/ SweepIdle(k)
    \/ \E k \in Keys, n \in Numbers : TimerFires(k, n)
    \/ StopAll
    \/ \E h \in halts : HaltEnds(h)
    \/ \E p \in Procs : Exit(p)
    \/ \E u \in Users, k \in Keys : BeginUse(u, k) \/ BeginMaintenance(u, k)
    \/ \E u \in Users : EndUse(u) \/ EndMaintenance(u)

Spec == Init /\ [][Next]_vars

\* Waits for room, memory and readiness have timers, and what is told to stop is
\* gone in the end.
FairSpec ==
    /\ Spec
    /\ \A k \in Keys : WF_vars(Starting(k))
    /\ \A p \in Procs : WF_vars(p \in doomed /\ Exit(p))
    /\ WF_vars(\E h \in halts : HaltEnds(h))

\* The delays before restarts end too.
RestartSpec == FairSpec /\ \A k \in Keys, n \in Numbers : WF_vars(TimerFires(k, n))

-----------------------------------------------------------------------------
\* Types, and one start per key: nobody waits for admission with a key that has
\* an entry.  (What retry holds is bounded by its guards.)
LsTypeOK ==
    /\ pool \in [Keys -> {None} \cup [proc : Procs \cup {NoProc}, ready : BOOLEAN, uses : Nat]]
    /\ stopping \subseteq Keys /\ maint \subseteq Keys
    /\ start \in [Keys -> [phase : Phases, proc : Procs \cup {NoProc}]]
    /\ queue \in Seq(Keys)
    /\ halts \subseteq [key : Keys, proc : Procs \cup {NoProc}, next : {"admit", "ensure", "stop"}]
    /\ alive \subseteq Procs /\ doomed \subseteq alive
    /\ owner \in [Procs -> Keys] /\ port \in [Procs -> Procs \cup {DefaultPort}]
    /\ use \in [Users -> [kind : {"none", "request", "probe"}, key : Keys,
                          proc : Procs \cup {NoProc}, port : Procs \cup {DefaultPort}]]
    /\ \A k \in Keys : start[k].phase \in Admission => k \notin InPool

\* Admission is what keeps the pool and the instances being stopped within the
\* cap, whatever a start waits for between its test and its reservation.
OccupancyWithinCap == Occupancy <= MaxInstances

\* No start, restart, eviction or exit loses a process: what runs is in the pool,
\* or was told to stop ("preventing orphan LS processes", stopLanguageServerAndWait).
ProcessesTracked ==
    \A p \in alive \ doomed : owner[p] \in InPool /\ Instance(owner[p]) = p

\* The count that protects an instance from eviction is that of the requests on
\* it, also when requests on an earlier instance of the key end late.
UsesExact ==
    \A k \in Serving \ {Default} :
        pool[k].uses = Cardinality({u \in Users : use[u] = Using("request", k)})

\* Everyone who waits for a start is answered, so the lock is always passed on.
StartSettles == \A k \in Keys : start[k].phase # "none" ~> start[k].phase = "none"

\* "Respects the retry cap and tracks per-key restart attempts to avoid infinite
\* loops on permanent errors" (langserver.js, at the exit of a process): when no
\* start of a key succeeds any more and nobody asks for one, restarts end.
RetryCapHolds ==
    \A k \in Keys :
        <>[][~(Ready(k) \/ Ensure(k) \/ Restart(k))]_vars => <>[](RestartsOf(k) = 0)
=============================================================================
