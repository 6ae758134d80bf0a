----------------------------- MODULE CascadeTurn -----------------------------
(***************************************************************************)
(* Turns of the Cascade path (src/handlers/chat.js, both the loop that      *)
(* answers in one piece and the one that streams): a turn takes the cascade *)
(* of its conversation out of the pool, drives it or a fresh one through a  *)
(* language server with the account that owns it, tries other accounts,     *)
(* and must put the cascade back on every exit on which it is still good.   *)
(*                                                                         *)
(* Meanwhile accounts leave or get another key and language servers are     *)
(* replaced; the invalidation that follows is a dynamic import, and finds   *)
(* only what is in the pool when it comes.  The upstream forgets a cascade  *)
(* with the process that held it, and keeps it "half" when a turn ends in   *)
(* the middle of an answer.                                                *)
(*                                                                         *)
(* A turn that resumes a detached stream (DetachedRegistry) is not in this  *)
(* module, nor are the accounts' limits: an account may be refused at any   *)
(* time.                                                                    *)
(***************************************************************************)
EXTENDS ConversationPool

CONSTANTS Requests, Streaming,   \* Streaming: the turns that answer with a stream
          Strict,             \* fingerprints of models whose reuse is strict
          Keys, Ports,
          Ids,                \* names of cascades
          MaxGen,             \* bound: starts of a process on one port
          MaxAway,            \* bound: accounts away at a time
          MaxStale,           \* bound: invalidations under way at a time
          NoKey

Cascade == [id : Ids, key : Keys, port : Ports]

ASSUME TurnAssumption ==
    Streaming \subseteq Requests /\ Strict \subseteq Fps /\ NoEntry \notin Cascade

VARIABLES
    turn,      \* turn[r]: the local variables of request r
    present,   \* keys of the accounts in the pool of accounts
    gen,       \* gen[p]: generation of the process on port p
    stale,     \* invalidations that are under way
    known,     \* cascades the upstream still has
    half,      \* those it has with a turn that did not end
    twice      \* names of the cascades that were stored under two fingerprints

vars == <<pool, turn, present, gen, stale, known, half, twice>>

NoCascade == NoEntry
Idle == [pc |-> "idle", fp |-> NoKey, entry |-> NoEntry, reuse |-> FALSE,
         told |-> FALSE, first |-> TRUE, tried |-> {}, key |-> NoKey, casc |-> NoCascade,
         gen |-> NoGen, emitted |-> FALSE]

Init ==
    /\ pool = <<>>
    /\ turn = [r \in Requests |-> Idle]
    /\ present = Keys
    /\ gen = [p \in Ports |-> 1]
    /\ stale = {}
    /\ known = {}
    /\ half = {}
    /\ twice = {}

-----------------------------------------------------------------------------
\* The upstream drops what nobody can name any more, as far as this model
\* goes; a name is used again then.
Named == ({e.casc : e \in AllOf(pool)} \cup {turn[r].casc : r \in Requests}
            \cup {turn[r].entry.casc : r \in {q \in Requests : turn[q].entry # NoEntry}})
            \ {NoCascade}

Upstream(have, torn) ==
    /\ known' = have \cap Named'
    /\ half' = torn \cap known'

Torn(r) ==
    /\ known' = known \cap Named'
    /\ half' = (half \cap known') \cup {turn[r].casc}

Free == Ids \ {c.id : c \in Named \cup half}

Local(r, new) == turn' = [turn EXCEPT ![r] = new]
Elsewhere     == UNCHANGED <<present, gen, stale>>

\* restoreCheckedOutReuse
Restorable(r) ==
    turn[r].entry # NoEntry /\ ~turn[r].emitted

Restored(r) ==
    IF Restorable(r) THEN CheckedIn(<<turn[r].fp>>, turn[r].entry) ELSE pool

\* Mistake: this exit forgets the cascade.
GiveUpForgets(r) ==
    /\ pool' = IF turn[r].pc = "held" THEN pool ELSE Restored(r)
    /\ Local(r, Idle)
    /\ Upstream(known, half) /\ UNCHANGED twice /\ Elsewhere

\* An exit with an error through the gate.
GiveUp(r) ==
    /\ pool' = Restored(r)
    /\ Local(r, Idle)
    /\ Upstream(known, half) /\ UNCHANGED twice /\ Elsewhere

-----------------------------------------------------------------------------
Begin(r, f) ==
    /\ turn[r].pc = "idle"
    /\ pool' = CheckedOut(f)
    /\ Local(r, [Idle EXCEPT !.pc = "admit", !.fp = f, !.entry = Find(f),
                             !.reuse = Find(f) # NoEntry])
    /\ Upstream(known, half) /\ UNCHANGED twice /\ Elsewhere

\* The first attempt asks for the account that owns the cascade, by its key.
WantsOwner(r) == turn[r].pc = "admit" /\ turn[r].first /\ turn[r].reuse

Hold(r, k) ==
    /\ Local(r, [turn[r] EXCEPT !.pc = "held", !.key = k, !.tried = @ \cup {k}])
    /\ UNCHANGED <<pool, known, half, twice>> /\ Elsewhere

AcquireOwner(r) ==
    /\ WantsOwner(r)
    /\ turn[r].entry.key \in present
    /\ Hold(r, turn[r].entry.key)

\* Five seconds later it is still busy, or its key is nobody's.
OwnerUnavailable(r) ==
    /\ WantsOwner(r)
    /\ IF turn[r].fp \in Strict
       THEN GiveUp(r)
       ELSE /\ Local(r, [turn[r] EXCEPT !.reuse = FALSE])
            /\ UNCHANGED <<pool, known, half, twice>> /\ Elsewhere

Acquire(r, k) ==
    /\ turn[r].pc = "admit" /\ ~WantsOwner(r)
    /\ k \in present \ turn[r].tried
    /\ Hold(r, k)

\* All accounts are limited, or the queue wait ends or is aborted.
NoAccount(r) ==
    /\ turn[r].pc = "admit" /\ ~WantsOwner(r)
    /\ GiveUp(r)

\* preflightRateLimit and the account list of the native bridge.
SkipAccount(r) ==
    /\ turn[r].pc = "held"
    /\ \/ /\ turn[r].fp \in Strict /\ Restorable(r)
          /\ turn[r].entry.key = turn[r].key
          /\ GiveUp(r)
       \/ /\ Local(r, [turn[r] EXCEPT !.pc = "admit", !.first = FALSE, !.key = NoKey])
          /\ UNCHANGED <<pool, known, half, twice>> /\ Elsewhere

\* ensureLs fails, there is no process, or the budget has no turn left.
NoServer(r) ==
    /\ turn[r].pc = "held"
    /\ GiveUp(r)

\* The process of the account answers on port p.  An entry of another port
\* is dropped for good.
Dispatch(r, p) ==
    LET t     == turn[r]
        moved == t.reuse /\ t.entry.port # p
    IN
    \E i \in Free :
    LET fresh == [id |-> i, key |-> t.key, port |-> p]
        reuse == t.reuse /\ ~moved
    IN
    /\ t.pc = "held"
    /\ Local(r, [t EXCEPT !.pc = "run", !.reuse = reuse,
                          !.casc = IF reuse THEN t.entry.casc ELSE fresh,
                          !.entry = IF moved THEN NoEntry ELSE @,
                          !.gen = IF r \in Streaming THEN gen[p] ELSE NoGen])
    /\ UNCHANGED <<pool, twice>> /\ Elsewhere
    /\ Upstream(known \cup (IF reuse THEN {} ELSE {fresh}), half)

\* The upstream does not know the cascade: the client opens a fresh one and
\* sends the whole history, or cannot.
NotFound(r) ==
    LET t == turn[r] IN
    /\ t.pc = "run" /\ t.reuse /\ t.casc \notin known
    /\ UNCHANGED <<pool, twice>> /\ Elsewhere
    /\ \/ \E i \in Free :
             LET fresh == [id |-> i, key |-> t.key, port |-> t.entry.port] IN
             /\ Local(r, [t EXCEPT !.casc = fresh, !.reuse = FALSE, !.told = TRUE])
             /\ Upstream(known \cup {fresh}, half)
       \/ /\ Local(r, Idle)
          /\ Upstream(known, half)

\* The stream's first byte (hadSuccess).
Emit(r) ==
    /\ r \in Streaming /\ turn[r].pc = "run" /\ ~turn[r].emitted
    /\ turn[r].casc \in known
    /\ Local(r, [turn[r] EXCEPT !.emitted = TRUE])
    /\ UNCHANGED <<pool, known, half, twice>> /\ Elsewhere

\* What the turn stores is of the account and the process it ended on.  An
\* automatic retry with another model stores it under that model's
\* fingerprint and under the one the client asked for.
Succeed(r, fps) ==
    LET t == turn[r] IN
    /\ t.pc = "run" /\ t.casc \in known
    /\ \A i \in DOMAIN fps : TenantOf[fps[i]] = TenantOf[t.fp]
    /\ r \in Streaming => Len(fps) = 1 /\ t.emitted
    /\ pool' = CheckedIn(fps, [fp |-> t.fp, casc |-> t.casc, key |-> t.key,
                               port |-> t.casc.port, gen |-> t.gen])
    /\ Local(r, Idle)
    /\ Upstream(known, half \ {t.casc})
    /\ twice' = (twice \cap {c.id : c \in Named'})
                    \cup (IF Len(fps) > 1 THEN {t.casc.id} ELSE {})
    /\ Elsewhere

\* Mistake: a turn that hit its deadline goes through the gate all the same.
BreakOffRestores(r) ==
    /\ turn[r].pc = "run"
    /\ pool' = Restored(r)
    /\ Local(r, Idle)
    /\ Torn(r) /\ UNCHANGED twice /\ Elsewhere

\* The turn ends in the middle: an answer that is cut short, a deadline, a
\* client that leaves while the answer is written.  Nothing goes back.
BreakOff(r) ==
    /\ turn[r].pc = "run"
    /\ UNCHANGED pool
    /\ Local(r, Idle)
    /\ Torn(r) /\ UNCHANGED twice /\ Elsewhere

\* The client leaves when the answer is complete but not yet committed.
LeftAtTheEnd(r) ==
    /\ r \notin Streaming /\ turn[r].pc = "run" /\ turn[r].casc \in known
    /\ pool' = Restored(r)
    /\ Local(r, Idle)
    /\ Upstream(known, half) /\ UNCHANGED twice /\ Elsewhere

\* An error that rules out no other account: limits, transient errors, a
\* model the account has not.  Once bytes are out there is no second attempt.
Retry(r) ==
    /\ turn[r].pc = "run" /\ ~turn[r].emitted
    /\ ~(r \in Streaming /\ turn[r].fp \in Strict /\ Restorable(r)
             /\ turn[r].entry.key = turn[r].key)
    /\ Local(r, [turn[r] EXCEPT !.pc = "admit", !.reuse = FALSE,
                                !.key = NoKey, !.casc = NoCascade, !.gen = NoGen])
    /\ UNCHANGED <<pool, twice>> /\ Elsewhere
    /\ Upstream(known, half)

\* One that ends the request: a policy, a burst of limits, an account that
\* must not be left, any other error.
Fail(r) ==
    /\ turn[r].pc = "run"
    /\ pool' = Restored(r)
    /\ Local(r, Idle)
    /\ IF turn[r].emitted THEN Torn(r) ELSE Upstream(known, half)
    /\ UNCHANGED twice /\ Elsewhere

-----------------------------------------------------------------------------
Environment == UNCHANGED <<turn, twice>>

\* removeAccount, a ban: the invalidation is imported first.
RemoveAccount(k) ==
    /\ k \in present /\ Cardinality(Keys \ present) < MaxAway
    /\ Cardinality(stale) < MaxStale
    /\ present' = present \ {k}
    /\ stale' = stale \cup {[kind |-> "key", key |-> k]}
    /\ UNCHANGED <<pool, gen, known, half>> /\ Environment

\* A login swaps the key in place and says nothing to the pool.
Rekey(k) ==
    /\ k \in present /\ Cardinality(Keys \ present) < MaxAway
    /\ present' = present \ {k}
    /\ UNCHANGED <<pool, gen, stale, known, half>> /\ Environment

AddAccount(k) ==
    /\ k \notin present
    /\ present' = present \cup {k}
    /\ UNCHANGED <<pool, gen, stale, known, half>> /\ Environment

\* The process of a port exits and another takes the port.
RestartServer(p) ==
    /\ gen[p] < MaxGen /\ Cardinality(stale) < MaxStale
    /\ gen' = [gen EXCEPT ![p] = @ + 1]
    /\ stale' = stale \cup {[kind |-> "port", port |-> p, gen |-> gen[p]]}
    /\ UNCHANGED <<pool, present>> /\ Environment
    /\ Upstream({c \in known : c.port # p}, half)

Invalidate(x) ==
    /\ x \in stale
    /\ pool' = Invalidated(x)
    /\ stale' = stale \ {x}
    /\ UNCHANGED <<present, gen>> /\ Environment
    /\ Upstream(known, half)

\* The time of an entry is over: the sweep, or the checkout that finds it.
Expire(f) ==
    /\ Find(f) # NoEntry
    /\ pool' = Cleared(pool, {f})
    /\ Elsewhere /\ Environment
    /\ Upstream(known, half)

Stores == {<<f>> : f \in Fps} \cup {s \in Fps \X Fps : s[1] # s[2]}

TurnStep(r) ==
    \/ \E f \in Fps : Begin(r, f)
    \/ AcquireOwner(r)
    \/ OwnerUnavailable(r)
    \/ \E k \in Keys : Acquire(r, k)
    \/ NoAccount(r)
    \/ NoServer(r)
    \/ \E p \in Ports : Dispatch(r, p)
    \/ NotFound(r)
    \/ Emit(r)
    \/ \E s \in Stores : Succeed(r, s)
    \/ BreakOff(r)
    \/ LeftAtTheEnd(r)
    \/ Retry(r)
    \/ Fail(r)

Change ==
    \/ \E k \in Keys : RemoveAccount(k) \/ Rekey(k) \/ AddAccount(k)
    \/ \E p \in Ports : RestartServer(p)
    \/ \E x \in stale : Invalidate(x)
    \/ \E f \in Fps : Expire(f)

Next ==
    \/ \E r \in Requests : TurnStep(r) \/ SkipAccount(r)
    \/ Change

Spec == Init /\ [][Next]_vars

-----------------------------------------------------------------------------
\* Two turns drive one cascade only if it was stored under two fingerprints
\* (conversation-pool.js: a checked-out entry is removed, and the sibling is not).
ExclusiveCascade ==
    \A r, q \in Requests :
        (r # q /\ turn[r].pc = "run" /\ turn[q].pc = "run" /\ turn[r].casc = turn[q].casc)
            => turn[r].casc.id \in twice

\* A cascade with an unfinished turn does not come back into the pool: the
\* next turn would see a tool result without the question before it (#101).
NoHalfTurnPooled ==
    \A i \in DOMAIN pool : pool[i].casc \in half => pool[i].casc.id \in twice

\* Both: what is driven and what is pooled.
CascadesSound == ExclusiveCascade /\ NoHalfTurnPooled

\* A turn that fails gives back the cascade it took, if that is still good
\* upstream, whichever way it fails (chat.js: every exit between the checkout
\* and the end must funnel through the gate).
GoodCascadeComesBack ==
    [][ \A r \in Requests :
          LET e    == turn[r].entry
              mine == {e.casc, turn[r].casc}
          IN
          ( /\ turn[r].pc # "idle" /\ turn'[r].pc = "idle"
            /\ e # NoEntry /\ e.casc \in known
            /\ mine \cap (half \cup half') = {} )
          => \/ \E i \in DOMAIN pool' : pool'[i].casc \in mine
             \/ Len(pool') = PoolMax ]_vars
=============================================================================
