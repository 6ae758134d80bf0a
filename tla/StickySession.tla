---------------------------- MODULE StickySession ----------------------------
(***************************************************************************)
(* Sticky affinity (src/account/sticky-session.js), the arm of getApiKey    *)
(* that honours it (src/auth.js) and the wait for a cooling pin             *)
(* (waitForOwnPin and waitForAccount, src/handlers/chat.js).                *)
(*                                                                         *)
(* A binding leads from a caller (with its model and selector) to the       *)
(* account that served it last; the table is kept in the order of use.      *)
(* An account is ready, cooling (its own time is over soon), barred (it is  *)
(* active and not admitted for what the caller asks: its tier, its blocked  *)
(* models, a long cooldown) or off (removed, or not active).  Its key is    *)
(* replaced by a re-login, and a binding remembers the one it was made      *)
(* with.  What a slot and a request-rate limit do is AccountPool's part.    *)
(***************************************************************************)
EXTENDS Listing, FiniteSets

CONSTANTS Callers, TenantOf,      \* TenantOf[c]: the API key behind caller c
          Accounts, Askers,
          MaxBindings,            \* STICKY_SESSION_MAX
          MaxKey,                 \* bound: re-logins of an account
          NoAccount

ASSUME StickyAssumption ==
    /\ MaxBindings \in Nat \ {0} /\ MaxKey \in Nat
    /\ NoAccount \notin Accounts

VARIABLES
    binds,        \* _bindings, the least recently used first
    standing,     \* standing[a]
    keyNo,        \* keyNo[a]: which of its keys account a has
    noFallback,   \* stickyNoFallback
    ask           \* ask[r]: request r

stickyVars == <<binds, standing, keyNo, noFallback, ask>>

Standings == {"ready", "cooling", "barred", "off"}
Binding   == [caller : Callers, acct : Accounts, key : 0 .. MaxKey]
Quiet     == [pc |-> "idle", caller |-> NoAccount, tried |-> {}, acct |-> NoAccount, key |-> 0]

StickyInit ==
    /\ binds = <<>>
    /\ standing = [a \in Accounts |-> "ready"]
    /\ keyNo = [a \in Accounts |-> 0]
    /\ noFallback \in BOOLEAN
    /\ ask = [r \in Askers |-> Quiet]

-----------------------------------------------------------------------------
\* The table.

Of(c)       == {i \in DOMAIN binds : binds[i].caller = c}
Bound(c)    == IF Of(c) = {} THEN NoAccount ELSE binds[CHOOSE i \in Of(c) : TRUE].acct
BoundKey(c) == binds[CHOOSE i \in Of(c) : TRUE].key

Drop(s, c)    == OnlyOf(s, {b \in Binding : b.caller # c})
Touch(c)      == Drop(binds, c) \o OnlyOf(binds, {b \in Binding : b.caller = c})
BoundBy(s, T) == OnlyOf(s, {b \in Binding : TenantOf[b.caller] \in T})
BoundOf(s, t) == Len(BoundBy(s, {t}))
Holding       == {TenantOf[binds[i].caller] : i \in DOMAIN binds}

Share ==
    LET n == MaxBindings \div Cardinality(Holding) IN IF n > 1 THEN n ELSE 1

Oldest(T) == BoundBy(binds, T)[1].caller

\* A tenant that has its share already makes room itself.
Victim(c) ==
    Oldest(IF BoundOf(binds, TenantOf[c]) >= Share THEN {TenantOf[c]} ELSE Holding)

\* setStickyBinding
Bind(c, a, k) ==
    LET full == Len(binds) >= MaxBindings /\ Of(c) = {}
        room == IF full THEN Drop(binds, Victim(c)) ELSE binds
    IN  binds' = Append(Drop(room, c), [caller |-> c, acct |-> a, key |-> k])

-----------------------------------------------------------------------------
\* getApiKey

Free(tried) == {a \in Accounts : standing[a] = "ready" /\ <<a, keyNo[a]>> \notin tried}

AnyOf(tried, s) ==
    IF Free(tried) = {} THEN {[acct |-> NoAccount, binds |-> s]}
    ELSE {[acct |-> a, binds |-> s] : a \in Free(tried)}

\* Mistake: the pin holds only with the key it was made with.
PickBySnapshot(c, tried) ==
    LET pin == Bound(c) IN
    CASE pin = NoAccount -> AnyOf(tried, binds)
      [] pin \in Free(tried) /\ BoundKey(c) = keyNo[pin] -> {[acct |-> pin, binds |-> Touch(c)]}
      [] OTHER -> AnyOf(tried, Drop(binds, c))

\* The pin if it can serve.  If it cannot, it is given up and any account will
\* do; with stickyNoFallback it is given up only when the account is gone.
Pick(c, tried) ==
    LET pin == Bound(c) IN
    CASE pin = NoAccount -> AnyOf(tried, binds)
      [] pin \in Free(tried) -> {[acct |-> pin, binds |-> Touch(c)]}
      [] pin \in Accounts \ Free(tried) /\ noFallback /\ standing[pin] # "off" ->
            {[acct |-> NoAccount, binds |-> Touch(c)]}
      [] OTHER -> AnyOf(tried, Drop(binds, c))

Becomes(r, new) == ask' = [ask EXCEPT ![r] = new]
Around == UNCHANGED <<standing, keyNo, noFallback>>

\* Request r asks for its caller c; without an account it is then at "none".
Acquire(r, c, tried, none) ==
    \E x \in Pick(c, tried) :
        /\ binds' = x.binds
        /\ Becomes(r, IF x.acct # NoAccount
                      THEN [pc |-> "held", caller |-> c, tried |-> tried,
                            acct |-> x.acct, key |-> keyNo[x.acct]]
                      ELSE IF none = "idle" \/ noFallback THEN Quiet
                      ELSE [Quiet EXCEPT !.pc = none, !.caller = c, !.tried = tried])
        /\ Around

\* The first acquisition of a turn.
Arrive(r, c) == ask[r].pc = "idle" /\ Acquire(r, c, {}, "queue")

\* waitForOwnPin: the key the binding remembers must still be one of the pool,
\* and its account must say that it is back in time.
ArriveWaiting(r, c) ==
    /\ ask[r].pc = "idle"
    /\ Bound(c) # NoAccount /\ standing[Bound(c)] = "cooling" /\ BoundKey(c) = keyNo[Bound(c)]
    /\ Becomes(r, [Quiet EXCEPT !.pc = "pin", !.caller = c])
    /\ UNCHANGED binds /\ Around

\* A poll that succeeds; one that fails changes nothing.
PollPin(r) ==
    LET c == ask[r].caller IN
    /\ ask[r].pc = "pin" /\ Bound(c) \in Free({})
    /\ binds' = Touch(c)
    /\ Becomes(r, [ask[r] EXCEPT !.pc = "held", !.acct = Bound(c), !.key = keyNo[Bound(c)]])
    /\ Around

PinTimeout(r)   == ask[r].pc = "pin" /\ Acquire(r, ask[r].caller, {}, "queue")
Again(r)        == ask[r].pc = "queue" /\ Acquire(r, ask[r].caller, ask[r].tried, "queue")

\* The deadline of the queue, or the client is gone.
GiveUpWaiting(r) ==
    ask[r].pc \in {"pin", "queue"} /\ Becomes(r, Quiet) /\ UNCHANGED binds /\ Around

\* The turn is served: the caller is bound to the account, with its key of now
\* (connect) or the one it was acquired with (Cascade).
Serve(r) ==
    /\ ask[r].pc = "held"
    /\ \E k \in {ask[r].key, keyNo[ask[r].acct]} : Bind(ask[r].caller, ask[r].acct, k)
    /\ Becomes(r, Quiet) /\ Around

\* acquireConnectFailover: the key is tried, and nobody waits.
Hop(r) ==
    /\ ask[r].pc = "held"
    /\ Acquire(r, ask[r].caller, ask[r].tried \cup {<<ask[r].acct, ask[r].key>>}, "idle")

Fail(r) == ask[r].pc = "held" /\ Becomes(r, Quiet) /\ UNCHANGED binds /\ Around

-----------------------------------------------------------------------------
Turns(r) ==
    \/ \E c \in Callers : Arrive(r, c) \/ ArriveWaiting(r, c)
    \/ PollPin(r) \/ PinTimeout(r) \/ Again(r) \/ GiveUpWaiting(r)
    \/ Serve(r) \/ Hop(r) \/ Fail(r)

SetAccount(a, s) ==
    /\ standing[a] # s /\ standing' = [standing EXCEPT ![a] = s]
    /\ UNCHANGED <<binds, keyNo, noFallback, ask>>

ReLogin(a) ==
    /\ keyNo[a] < MaxKey /\ keyNo' = [keyNo EXCEPT ![a] = @ + 1]
    /\ UNCHANGED <<binds, standing, noFallback, ask>>

\* STICKY_SESSION_TTL_MS without a lookup.
ExpireBinding(c) ==
    /\ Of(c) # {} /\ binds' = Drop(binds, c)
    /\ UNCHANGED <<standing, keyNo, noFallback, ask>>

StickyNext ==
    \/ \E r \in Askers : Turns(r)
    \/ \E a \in Accounts : ReLogin(a) \/ \E s \in Standings : SetAccount(a, s)
    \/ \E c \in Callers : ExpireBinding(c)

StickySpec == StickyInit /\ [][StickyNext]_stickyVars

-----------------------------------------------------------------------------
\* A caller is moved to another account only while its own cannot serve it,
\* whatever was re-keyed, polled or queued in between (auth.js: the upstream
\* prompt cache lives on the account; a poll is never answered with a
\* substitute).
NoNeedlessRotation ==
    [][ \A r \in Askers :
          LET c == ask'[r].caller IN
          (ask'[r].pc = "held" /\ ask'[r] # ask[r] /\ Bound(c) # NoAccount
              /\ ask'[r].acct # Bound(c))
          => Bound(c) \notin Free(ask'[r].tried) ]_stickyVars

\* Of two tenants neither takes a binding of the other while that one is
\* within its half of the table (sticky-session.js: a tenant already holding
\* its fair share evicts its own).
ShareProtected ==
    [][ \A r \in Askers, t \in {TenantOf[c] : c \in Callers} :
          /\ ask[r].pc = "held" /\ ask'[r].pc = "idle" /\ t # TenantOf[ask[r].caller]
          /\ {TenantOf[c] : c \in Callers} = {t, TenantOf[ask[r].caller]}
          /\ BoundOf(binds, t) <= MaxBindings \div 2
          => BoundOf(binds', t) = BoundOf(binds, t) ]_stickyVars

AffinityKept == NoNeedlessRotation /\ ShareProtected
=============================================================================
