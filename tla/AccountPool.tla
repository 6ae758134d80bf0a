---------------------------- MODULE AccountPool ----------------------------
(***************************************************************************)
(* The in-flight ledger of the account pool (src/auth.js): what a request  *)
(* takes when an account is handed to it (a slot in _inflight and a token  *)
(* in _rpmHistory), the ways it gives them back, and the sweep that zeroes *)
(* counters nobody has touched for too long.                               *)
(*                                                                         *)
(* A request names its account by the immutable id and by a snapshot of    *)
(* the session key.  Re-logins change the key under it, the operator may   *)
(* remove the row and add another one with the same key.                   *)
(*                                                                         *)
(* What makes a row selectable besides its counters (status, cooldowns,    *)
(* entitlement, maintenance, the selector latch) is its state here, and it *)
(* changes at any time.  Which of the admitted rows is picked (stickiness, *)
(* load, quota, sharding) is a choice.                                     *)
(***************************************************************************)
EXTENDS Integers, FiniteSets

CONSTANTS Rows,         \* ids of accounts
          Keys,         \* session keys
          Requests,
          ByKey,        \* the requests that release by key (special-agent)
          NoRow, NoKey,
          Cap,          \* DEVIN_CONNECT_MAX_INFLIGHT_PER_ACCOUNT, 0 when off
          RpmLimit,     \* requests per window of the tier
          Deadline,     \* ticks a request may hold its account
          Stale,        \* ticks after which the sweep zeroes a counter
          Degraded,     \* the degradedServe switch
          Pinned,       \* Cascade conversations re-acquire their account by key
          MaxInflight   \* bound: no counter grows past it

ASSUME PoolAssumption ==
    /\ IsFiniteSet(Requests) /\ ByKey \subseteq Requests
    /\ NoRow \notin Rows /\ NoKey \notin Keys
    /\ Cap \in Nat /\ RpmLimit \in Nat \ {0}
    /\ Deadline \in Nat /\ Stale \in Nat /\ Deadline <= Stale
    /\ Degraded \in BOOLEAN /\ Pinned \in BOOLEAN
    /\ MaxInflight \in Nat

VARIABLES
    pool,      \* the rows of the accounts array
    key,       \* key[a]: apiKey
    state,     \* "open": nothing but its counters bars the row; "cooled": a
               \* transient throttle does; "shut": anything else does
    inflight,  \* _inflight
    since,     \* ticks since _inflightAt
    spent,     \* tokens of _rpmHistory whose request has ended
    req        \* req[r]: the account the request holds, and what it knows of it

vars == <<pool, key, state, inflight, since, spent, req>>

States == {"open", "cooled", "shut"}
Held == [row : Rows \cup {NoRow}, key : Keys \cup {NoKey}, age : 0 .. Deadline,
         reserved : BOOLEAN]
Idle == [row |-> NoRow, key |-> NoKey, age |-> 0, reserved |-> FALSE]

Live(r) == req[r].row # NoRow
Holders(a) == {r \in Requests : req[r].row = a}

\* pruneRpmHistory: the tokens in the window.
Used(a) == spent[a] + Cardinality({r \in Holders(a) : req[r].reserved})

\* accounts.find(a => a.apiKey === k): nothing, or the first of the rows that
\* carry the key.  A pasted token may be another row's too; which one is first
\* is fixed, and does not matter here.
Found(k) ==
    LET with == {b \in pool : key[b] = k}
    IN IF with = {} THEN {} ELSE {CHOOSE b \in with : TRUE}

Capped(a) == Cap > 0 /\ inflight[a] >= Cap

\* isAdmittedForRequest
Admitted(a) == a \in pool /\ state[a] = "open" /\ Used(a) < RpmLimit /\ ~Capped(a)

Init ==
    /\ pool \in SUBSET Rows
    /\ key \in [Rows -> Keys] /\ \A a, b \in pool : key[a] = key[b] => a = b
    /\ state = [a \in Rows |-> "open"]
    /\ inflight = [a \in Rows |-> 0] /\ since = [a \in Rows |-> 0]
    /\ spent = [a \in Rows |-> 0]
    /\ req = [r \in Requests |-> Idle]

-----------------------------------------------------------------------------
\* A reservation: a token, a slot, and the time of both.
Place(r, a) ==
    /\ ~Live(r) /\ inflight[a] < MaxInflight
    /\ inflight' = [inflight EXCEPT ![a] = @ + 1]
    /\ since' = [since EXCEPT ![a] = 0]
    /\ req' = [req EXCEPT ![r] = [row |-> a, key |-> key[a], age |-> 0, reserved |-> TRUE]]
    /\ UNCHANGED <<pool, key, state, spent>>

\* getApiKey: the sticky account, or the best of the admitted ones.
Select(r) == \E a \in Rows : Admitted(a) /\ Place(r, a)

\* getApiKey with nothing admitted: pickDegradedFallback.
SelectDegraded(r) ==
    /\ Degraded /\ \A a \in Rows : ~Admitted(a)
    /\ \E a \in pool : state[a] = "cooled" /\ Used(a) < RpmLimit /\ Place(r, a)

\* acquireAccountByKey, for a conversation pinned to the account's Cascade.
AcquireByKey(r) ==
    /\ Pinned
    /\ \E a \in pool : state[a] = "open" /\ Used(a) < RpmLimit /\ Place(r, a)

\* The row whose slot the release of r gives back: releaseAccount finds it by
\* the snapshot of the key, releaseAccountById by the id.
Released(r) == IF r \in ByKey THEN Found(req[r].key) ELSE {req[r].row} \cap pool

\* refundReservation, by the snapshot of the key, while the slot is still held.
Refunds(r) ==
    /\ req[r].reserved
    /\ req[r].row \in Found(req[r].key) /\ inflight[req[r].row] > 0

\* The request is over: the failure paths that never used the account refund
\* its reservation, and every path releases the slot.
End(r, refund) ==
    /\ Live(r)
    /\ LET a == req[r].row
           kept == a \in pool /\ req[r].reserved /\ ~(refund /\ Refunds(r))
       IN spent' = [spent EXCEPT ![a] = @ + (IF kept THEN 1 ELSE 0)]
    /\ inflight' = [b \in Rows |->
                      IF b \in Released(r) /\ inflight[b] > 0
                      THEN inflight[b] - 1 ELSE inflight[b]]
    /\ since' = [b \in Rows |-> IF b \in Released(r) THEN 0 ELSE since[b]]
    /\ req' = [req EXCEPT ![r] = Idle]
    /\ UNCHANGED <<pool, key, state>>

-----------------------------------------------------------------------------
\* Mistake: a counter is stale as soon as its age reaches the threshold.
CleanupEarly ==
    LET stale == {a \in pool : inflight[a] > 0 /\ since[a] >= Stale}
    IN /\ stale # {}
       /\ inflight' = [a \in Rows |-> IF a \in stale THEN 0 ELSE inflight[a]]
       /\ since' = [a \in Rows |-> IF a \in stale THEN 0 ELSE since[a]]
       /\ UNCHANGED <<pool, key, state, spent, req>>

\* Mistake: only a counter of one is taken for a leak.
CleanupSingle ==
    LET stale == {a \in pool : inflight[a] = 1 /\ since[a] > Stale}
    IN /\ stale # {}
       /\ inflight' = [a \in Rows |-> IF a \in stale THEN 0 ELSE inflight[a]]
       /\ since' = [a \in Rows |-> IF a \in stale THEN 0 ELSE since[a]]
       /\ UNCHANGED <<pool, key, state, spent, req>>

\* runInflightCleanup
Cleanup ==
    LET stale == {a \in pool : inflight[a] > 0 /\ since[a] > Stale}
    IN /\ stale # {}
       /\ inflight' = [a \in Rows |-> IF a \in stale THEN 0 ELSE inflight[a]]
       /\ since' = [a \in Rows |-> IF a \in stale THEN 0 ELSE since[a]]
       /\ UNCHANGED <<pool, key, state, spent, req>>

\* Time passes, but no request outlives its budget.
Tick ==
    /\ \A r \in Requests : Live(r) => req[r].age < Deadline
    /\ \E a \in pool : inflight[a] > 0 /\ since[a] <= Stale
    /\ since' = [a \in Rows |-> IF inflight[a] > 0 /\ since[a] <= Stale
                                THEN since[a] + 1 ELSE since[a]]
    /\ req' = [r \in Requests |-> IF Live(r) THEN [req[r] EXCEPT !.age = @ + 1] ELSE req[r]]
    /\ UNCHANGED <<pool, key, state, inflight, spent>>

\* A token falls out of the window, whether or not its request has ended.
Expire(a) ==
    /\ \/ spent[a] > 0 /\ spent' = [spent EXCEPT ![a] = @ - 1] /\ req' = req
       \/ \E r \in Holders(a) :
             req[r].reserved /\ req' = [req EXCEPT ![r].reserved = FALSE] /\ spent' = spent
    /\ UNCHANGED <<pool, key, state, inflight, since>>

\* Cooldowns and their ends, status changes, maintenance.
SetState(a, s) ==
    /\ a \in pool /\ state[a] # s
    /\ state' = [state EXCEPT ![a] = s]
    /\ UNCHANGED <<pool, key, inflight, since, spent, req>>

\* A re-login, or a token the operator pasted, in place; nothing asks whether
\* another row has it.
Rekey(a, k) ==
    /\ a \in pool /\ k # key[a]
    /\ key' = [key EXCEPT ![a] = k]
    /\ UNCHANGED <<pool, state, inflight, since, spent, req>>

\* removeAccount
Remove(a) ==
    /\ a \in pool
    /\ pool' = pool \ {a}
    /\ state' = [state EXCEPT ![a] = "open"]
    /\ inflight' = [inflight EXCEPT ![a] = 0]
    /\ since' = [since EXCEPT ![a] = 0]
    /\ spent' = [spent EXCEPT ![a] = 0]
    /\ req' = [r \in Requests |-> IF r \in Holders(a) THEN [req[r] EXCEPT !.reserved = FALSE]
                                  ELSE req[r]]
    /\ UNCHANGED key

\* addAccountByKey: a row with an id that was never used.
Add(a, k) ==
    /\ a \notin pool /\ Holders(a) = {} /\ Found(k) = {}
    /\ pool' = pool \cup {a}
    /\ key' = [key EXCEPT ![a] = k]
    /\ UNCHANGED <<state, inflight, since, spent, req>>

Next ==
    \/ \E r \in Requests : Select(r) \/ SelectDegraded(r) \/ AcquireByKey(r)
    \/ \E r \in Requests, refund \in BOOLEAN : End(r, refund)
    \/ Cleanup
    \/ Tick
    \/ \E a \in Rows : Expire(a) \/ Remove(a)
    \/ \E a \in Rows, s \in States : SetState(a, s)
    \/ \E a \in Rows, k \in Keys : Rekey(a, k) \/ Add(a, k)

Spec == Init /\ [][Next]_vars

\* Timers fire, and every request ends by its deadline.
FairSpec ==
    /\ Spec /\ WF_vars(Tick) /\ WF_vars(Cleanup)
    /\ \A r \in Requests : WF_vars(\E refund \in BOOLEAN : End(r, refund))

-----------------------------------------------------------------------------
\* Counters stay within the window's limit and the bound, and rows outside the
\* pool hold nothing.
PoolTypeOK ==
    /\ pool \in SUBSET Rows
    /\ key \in [Rows -> Keys]
    /\ state \in [Rows -> States]
    /\ inflight \in [Rows -> 0 .. MaxInflight]
    /\ since \in [Rows -> 0 .. Stale + 1]
    /\ spent \in [Rows -> Nat]
    /\ req \in [Requests -> Held]
    /\ \A a \in Rows \ pool : inflight[a] = 0

\* _inflight counts the requests that hold the account, no more and no less:
\* no path leaks a slot, none gives one back twice, and the sweep never zeroes
\* the counter of an account somebody is using ("a normal long stream gets its
\* counter wrongly zeroed mid-flight", auth.js on inflightStaleMs).
SlotsExact == \A a \in pool : inflight[a] = Cardinality(Holders(a))

\* The hard cap of DEVIN_CONNECT_MAX_INFLIGHT_PER_ACCOUNT holds for the
\* requests themselves, not only for the counter.
LiveWithinCap == Cap > 0 => \A a \in pool : Cardinality(Holders(a)) <= Cap

\* What runInflightCleanup is for: once an account is left alone, a counter
\* that leaked comes back to zero.
LeakHeals == \A a \in Rows : <>[](Holders(a) = {}) => <>[](inflight[a] = 0)
=============================================================================
