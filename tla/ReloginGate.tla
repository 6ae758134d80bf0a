----------------------------- MODULE ReloginGate -----------------------------
(***************************************************************************)
(* The fleet-wide gate on automatic re-logins (src/auth.js): a counting    *)
(* semaphore of MaxConcurrent slots with a FIFO of waiters.  A waiter is   *)
(* granted a slot by the release that frees it, or leaves the queue when   *)
(* its timer fires or its caller's AbortSignal does.                       *)
(*                                                                         *)
(* A wait is modelled by what settles it: grant() and cancel() resolve or  *)
(* reject the promise, so the attempt's pc is its state once its           *)
(* continuation has run.                                                   *)
(***************************************************************************)
EXTENDS Integers, Sequences, FiniteSets

CONSTANTS Attempts,        \* the re-login attempts that share the gate
          MaxConcurrent    \* RELOGIN_MAX_CONCURRENT()

ASSUME GateAssumption ==
    /\ MaxConcurrent \in Nat \ {0}
    /\ IsFiniteSet(Attempts)

VARIABLES active,   \* _reloginActive
          waiters,  \* _reloginWaiters, oldest first
          pc        \* what each attempt is doing: "out", "queued" or "login"

gateVars == <<active, waiters, pc>>

Positions == 1 .. Len(waiters)

\* _reloginWaiters.splice(i, 1)
Splice(s, i) == [j \in 1 .. Len(s) - 1 |-> IF j < i THEN s[j] ELSE s[j + 1]]

GateInit ==
    /\ active = 0
    /\ waiters = <<>>
    /\ pc = [a \in Attempts |-> "out"]

-----------------------------------------------------------------------------
(* Plausible mistakes in the operations below.  The checks put each in the  *)
(* place of the operation it is named after, and a property must break.     *)

\* Cancelling gives back a slot that a waiter never held.
CancelFreesSlot(a) ==
    /\ pc[a] = "queued"
    /\ \E i \in Positions : waiters[i] = a /\ waiters' = Splice(waiters, i)
    /\ pc' = [pc EXCEPT ![a] = "out"]
    /\ active' = active - 1

\* The newest waiter is served first.
ReleaseToLast(a) ==
    /\ pc[a] = "login"
    /\ waiters # <<>>
    /\ waiters' = Splice(waiters, Len(waiters))
    /\ pc' = [pc EXCEPT ![a] = "out", ![waiters[Len(waiters)]] = "login"]
    /\ UNCHANGED active

\* The slot is freed and nobody is woken.
ReleaseWakesNobody(a) ==
    /\ pc[a] = "login"
    /\ waiters # <<>>
    /\ active' = active - 1
    /\ pc' = [pc EXCEPT ![a] = "out"]
    /\ UNCHANGED waiters

-----------------------------------------------------------------------------

\* acquireReloginSlot with a slot to spare: the promise is already resolved.
AcquireAtOnce(a) ==
    /\ pc[a] = "out"
    /\ active < MaxConcurrent
    /\ active' = active + 1
    /\ pc' = [pc EXCEPT ![a] = "login"]
    /\ UNCHANGED waiters

\* acquireReloginSlot with every slot taken: join the back of the queue.
Enqueue(a) ==
    /\ pc[a] = "out"
    /\ active >= MaxConcurrent
    /\ waiters' = Append(waiters, a)
    /\ pc' = [pc EXCEPT ![a] = "queued"]
    /\ UNCHANGED active

\* The queue timer fired or the caller aborted: drop() and cancel().
Cancel(a) ==
    /\ pc[a] = "queued"
    /\ \E i \in Positions :
          /\ waiters[i] = a
          /\ waiters' = Splice(waiters, i)
    /\ pc' = [pc EXCEPT ![a] = "out"]
    /\ UNCHANGED active

\* releaseReloginSlot with somebody waiting: the slot changes hands and the
\* count of slots in use stays what it was.
ReleaseToWaiter(a) ==
    /\ pc[a] = "login"
    /\ waiters # <<>>
    /\ waiters' = Tail(waiters)
    /\ pc' = [pc EXCEPT ![a] = "out", ![Head(waiters)] = "login"]
    /\ UNCHANGED active

\* releaseReloginSlot with nobody waiting.
ReleaseIdle(a) ==
    /\ pc[a] = "login"
    /\ waiters = <<>>
    /\ active' = IF active > 0 THEN active - 1 ELSE 0
    /\ pc' = [pc EXCEPT ![a] = "out"]
    /\ UNCHANGED waiters

Acquire(a) == AcquireAtOnce(a) \/ Enqueue(a)
Release(a) == ReleaseToWaiter(a) \/ ReleaseIdle(a)

GateNext == \E a \in Attempts : Acquire(a) \/ Cancel(a) \/ Release(a)

GateSpec == GateInit /\ [][GateNext]_gateVars

\* A login ends (the RPC answers or fails, and the finally releases); whether a
\* waiter is ever cancelled, or anyone asks for a slot, is not the gate's doing.
FairGateSpec == GateSpec /\ \A a \in Attempts : WF_gateVars(Release(a))

-----------------------------------------------------------------------------

Holders == {a \in Attempts : pc[a] = "login"}
Queued  == {a \in Attempts : pc[a] = "queued"}

GateTypeOK ==
    /\ active \in 0 .. MaxConcurrent
    /\ waiters \in Seq(Attempts)
    /\ pc \in [Attempts -> {"out", "queued", "login"}]

\* The count of slots in use is the number of logins under way: no hand-over,
\* cancellation or release leaks a slot or frees one twice.  It is what bounds
\* the logins of a mass token death (auth.js:2660-2667).
SlotsAccounted == active = Cardinality(Holders)

\* The queue holds exactly the attempts whose promise is unsettled, each once:
\* "releaseReloginSlot never hands a slot to a promise nobody is awaiting".
QueueIsExact ==
    /\ Queued = {waiters[i] : i \in Positions}
    /\ \A i, j \in Positions : waiters[i] = waiters[j] => i = j

\* Nobody waits while a slot is free: a release or a cancellation in between
\* never loses the wake-up of a waiter.
NoIdleSlotWithWaiters == waiters # <<>> => active = MaxConcurrent

\* A slot goes to the oldest waiter: an attempt that arrives while others wait
\* never overtakes them, and the ones behind the granted waiter keep order.
FifoGrant ==
    [][\A a \in Attempts :
         (pc[a] # "login" /\ pc'[a] = "login" /\ waiters # <<>>)
            => /\ a = Head(waiters)
               /\ waiters' = Tail(waiters)]_gateVars

\* With logins that end, a waiter leaves the queue even if its timer never fires.
WaiterServed == \A a \in Attempts : pc[a] = "queued" ~> pc[a] # "queued"
=============================================================================
