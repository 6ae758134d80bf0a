--------------------------- MODULE ConnectRequest ---------------------------
(***************************************************************************)
(* A request on the direct-connect path (src/handlers/chat.js): acquire an *)
(* account, call upstream with its key, revive the account once when the   *)
(* key is refused, hop to another account while nothing has reached the    *)
(* client, and settle every attempt on the account that made it.           *)
(*                                                                         *)
(* The account is held by its immutable id (the row); its key is a         *)
(* snapshot.  Between two steps of a request the row may get another key   *)
(* (re-login, operator), or be removed and its key given to another row.   *)
(*                                                                         *)
(* A deadline or a turn cap that is reached (src/request-budget.js) only   *)
(* ever ends the request, or its attempt: it is a choice at those places.  *)
(***************************************************************************)
EXTENDS Integers, FiniteSets

CONSTANTS Rows, Keys, Requests,
          Streaming,        \* requests whose bytes go out as they come; the
                            \* others (also a stream held back for its schema)
                            \* answer as a whole
          First,            \* rows in the pool at start, with distinct keys
          Never, Removed,   \* what stands for the key of a row not in the pool
          NoRow, NoKey,     \* the environment token
          MaxHops           \* connectFailoverMax

ASSUME ConnectAssumption ==
    /\ Never \notin Keys /\ Removed \notin Keys /\ NoKey \notin Keys
    /\ Never # Removed /\ NoRow \notin Rows
    /\ Streaming \subseteq Requests /\ First \subseteq Rows
    /\ MaxHops \in Nat /\ IsFiniteSet(Requests)

VARIABLES
    key,        \* key[a], or Never or Removed
    issued,     \* keys that have been in the pool
    inflight,   \* inflight[a]
    cooled,     \* cooled[a]: "throttled" (rate limit), "barred" (out of quota,
                \* model overloaded, selector denied) or "no"
    verdicts,   \* verdicts[a]: what stands in the error budget of a, as
                \* <<row, credential>> that earned it
    pc, row, cred, tried, hops, gone,   \* of each request: step, account, the
                \* key it presents, keys it tried, hops, client gone
    refused,    \* refused[r]: credentials that answered 401 to r
    reply, wire, saved

pool == <<key, issued, inflight, cooled, verdicts>>
conn == <<pc, row, cred, tried, hops, gone, refused>>
client == <<reply, wire, saved>>
vars == <<pool, conn, client>>

Attempts == (0 .. MaxHops) \X {"calling", "retrying"}
Holding == {"ready", "calling", "reviving", "retrying"}

InPool(a) == a \in Rows /\ key[a] \in Keys
Attempt(r) == <<hops[r], pc[r]>>

\* Mistake: recovery goes on after bytes went out.
EmittedNever(r) == FALSE

Emitted(r) == wire[r] # {}

\* Mistake: a verdict counts whatever key the row has by now.
EpochAlways(r) == TRUE

\* credentialEpochCurrent: a removed row answers with the caller's own key.
EpochCurrent(r) == InPool(row[r]) => key[row[r]] = cred[r]

\* Whom getApiKey may give: a throttled row only when nothing else is left
\* (pickDegradedFallback), a barred one never.
Selectable(excluded) ==
    LET untried(how) == {a \in Rows : InPool(a) /\ key[a] \notin excluded /\ cooled[a] = how}
    IN IF untried("no") # {} THEN untried("no") ELSE untried("throttled")

Init ==
    /\ key \in [Rows -> Keys \cup {Never}]
    /\ \A a \in Rows : key[a] \in Keys <=> a \in First
    /\ \A a, b \in First : key[a] = key[b] => a = b
    /\ issued = {key[a] : a \in First}
    /\ inflight = [a \in Rows |-> 0] /\ cooled = [a \in Rows |-> "no"]
    /\ verdicts = [a \in Rows |-> {}]
    /\ pc = [r \in Requests |-> "idle"]
    /\ row = [r \in Requests |-> NoRow]
    /\ cred = [r \in Requests |-> NoKey]
    /\ tried = [r \in Requests |-> {}] /\ refused = [r \in Requests |-> {}]
    /\ hops = [r \in Requests |-> 0] /\ gone = [r \in Requests |-> FALSE]
    /\ reply = [r \in Requests |-> "open"]
    /\ wire = [r \in Requests |-> {}] /\ saved = [r \in Requests |-> FALSE]

Goto(r, where) == pc' = [pc EXCEPT ![r] = where]
-----------------------------------------------------------------------------
Hold(r, a) ==
    /\ row' = [row EXCEPT ![r] = a]
    /\ cred' = [cred EXCEPT ![r] = IF a \in Rows THEN key[a] ELSE NoKey]
    /\ inflight' = IF a \in Rows THEN [inflight EXCEPT ![a] = @ + 1] ELSE inflight

\* releaseAccountById
Release(r) ==
    inflight' = IF InPool(row[r]) /\ inflight[row[r]] > 0
                THEN [inflight EXCEPT ![row[r]] = @ - 1] ELSE inflight

\* The request is done with its account, and goes on without one or ends.
Leave(r, where) ==
    /\ Goto(r, where)
    /\ row' = [row EXCEPT ![r] = NoRow] /\ cred' = [cred EXCEPT ![r] = NoKey]
    /\ IF where = "done"
       THEN /\ tried' = [tried EXCEPT ![r] = {}]
            /\ hops' = [hops EXCEPT ![r] = 0] /\ gone' = [gone EXCEPT ![r] = FALSE]
       ELSE UNCHANGED <<tried, hops, gone>>

\* The reply ends without an answer.
End(r) ==
    /\ Leave(r, "done")
    /\ reply' = [reply EXCEPT ![r] = IF gone[r] THEN "gone" ELSE "error"]
    /\ UNCHANGED <<wire, saved>>

\* When the pool is empty, or the wait is over, the environment's token is used.
\* (A request answered from the cache, or refused before it has an account, stays
\* "idle" here.)
Acquire(r) ==
    /\ pc[r] = "idle" /\ Goto(r, "ready")
    /\ \E a \in Selectable({}) \cup {NoRow} : Hold(r, a)
    /\ UNCHANGED <<key, issued, cooled, verdicts, tried, hops, gone, refused, client>>

\* Mistake: the account that was acquired but not yet used is kept.
StopLeaks(r) ==
    /\ pc[r] = "ready" /\ End(r)
    /\ UNCHANGED <<pool, refused>>

\* The client is gone, the budget is spent, or the turn is refused unsent.
Stop(r) ==
    /\ pc[r] = "ready" /\ Release(r) /\ End(r)
    /\ UNCHANGED <<key, issued, cooled, verdicts, refused>>

\* Mistake: the key is not put down as tried.
CallUntried(r) ==
    /\ pc[r] = "ready" /\ ~gone[r] /\ Goto(r, "calling")
    /\ UNCHANGED <<pool, row, cred, tried, hops, gone, refused, client>>

Call(r) ==
    /\ pc[r] = "ready" /\ ~gone[r] /\ Goto(r, "calling")
    /\ tried' = [tried EXCEPT ![r] = IF row[r] \in Rows THEN @ \cup {cred[r]} ELSE @]
    /\ UNCHANGED <<pool, row, cred, hops, gone, refused, client>>

\* The client closes its connection, at any time.
Disconnect(r) ==
    /\ pc[r] \notin {"idle", "done"} /\ ~gone[r]
    /\ gone' = [gone EXCEPT ![r] = TRUE]
    /\ UNCHANGED <<pool, pc, row, cred, tried, hops, refused, client>>

\* A frame of the attempt goes out.
Emit(r) ==
    /\ r \in Streaming /\ pc[r] \in {"calling", "retrying"} /\ ~gone[r]
    /\ wire' = [wire EXCEPT ![r] = @ \cup {Attempt(r)}]
    /\ UNCHANGED <<pool, conn, reply, saved>>

-----------------------------------------------------------------------------
\* The attempt succeeds.  Past this point the client gets all of it, or it is
\* gone, or a whole answer is refused for not being of the requested schema.
Succeed(r) ==
    /\ pc[r] \in {"calling", "retrying"}
    /\ verdicts' = IF InPool(row[r]) /\ EpochCurrent(r)
                   THEN [verdicts EXCEPT ![row[r]] = {}] ELSE verdicts
    /\ Release(r)
    /\ \/ /\ ~gone[r] /\ Leave(r, "done")
          /\ wire' = [wire EXCEPT ![r] = @ \cup {Attempt(r)}]
          /\ reply' = [reply EXCEPT ![r] = "ok"]
          /\ saved' = [saved EXCEPT ![r] = TRUE]
       \/ (gone[r] \/ r \notin Streaming) /\ End(r)
    /\ UNCHANGED <<key, issued, cooled, refused>>

\* finalizeConnectAccount: what a failed attempt leaves on its row, for each
\* class of error: "rate", "quota", "busy" (the model is overloaded), "denied"
\* (selector not eligible), "auth", and "none" (the fault of the request or the
\* model, or a fault that only its health record and streak keep).
Throttles(r, class) == InPool(row[r]) /\ class = "rate" /\ cooled[row[r]] = "no"

Bars(r, class) ==
    /\ InPool(row[r])
    /\ \/ class \in {"quota", "busy"}
       \/ /\ class = "denied" /\ EpochCurrent(r)
          /\ \E a \in Rows \ {row[r]} : InPool(a) /\ cooled[a] = "no"

Settle(r, class) ==
    /\ cooled' = IF Bars(r, class) THEN [cooled EXCEPT ![row[r]] = "barred"]
                 ELSE IF Throttles(r, class) THEN [cooled EXCEPT ![row[r]] = "throttled"]
                 ELSE cooled
    /\ verdicts' = IF InPool(row[r]) /\ EpochCurrent(r) /\ class = "auth"
                   THEN [verdicts EXCEPT ![row[r]] = @ \cup {<<row[r], cred[r]>>}]
                   ELSE verdicts
    /\ Release(r)
    /\ UNCHANGED <<key, issued>>

\* The reply ends, or the request looks for another account.
EndOrHop(r, mayHop) ==
    IF mayHop /\ ~gone[r] /\ ~Emitted(r) /\ hops[r] < MaxHops
    THEN Leave(r, "pausing") /\ UNCHANGED client
    ELSE End(r)

Cooling == {"rate", "quota", "busy"}

\* Any error but a refused key.  Of a client that is gone only a cooldown counts.
Fail(r, class) ==
    /\ pc[r] \in {"calling", "retrying"}
    /\ Settle(r, IF gone[r] /\ class \notin Cooling THEN "none" ELSE class)
    /\ EndOrHop(r, class \in {"rate", "quota", "denied"})
    /\ UNCHANGED refused

Refuse401(r) ==
    refused' = [refused EXCEPT ![r] = IF row[r] \in Rows THEN @ \cup {cred[r]} ELSE @]

\* The key is refused: the row gets a new one, if the one refused is still its
\* key; else it is given up at once, as it is when there is no way back.
Unauthorized(r) ==
    /\ pc[r] = "calling" /\ Refuse401(r)
    /\ IF row[r] \in Rows /\ ~gone[r] /\ ~Emitted(r) /\ EpochCurrent(r)
       THEN Goto(r, "reviving") /\ UNCHANGED <<pool, row, cred, tried, hops, gone, client>>
       ELSE /\ Settle(r, IF gone[r] THEN "none" ELSE "auth")
            /\ EndOrHop(r, row[r] \in Rows)

\* The key a login gave is refused: the model is not for this account.
UnauthorizedAgain(r) ==
    /\ pc[r] = "retrying" /\ Refuse401(r)
    /\ Settle(r, IF gone[r] \/ ~Emitted(r) THEN "none" ELSE "auth")
    /\ End(r)

\* reLoginAccount returns a key: its own login's, or that of another caller whose
\* login it joined.
Revived(r, k) ==
    /\ pc[r] = "reviving" /\ InPool(row[r])
    /\ \/ EpochCurrent(r) /\ k \in Keys \ issued
       \/ k = key[row[r]]
    /\ key' = [key EXCEPT ![row[r]] = k] /\ issued' = issued \cup {k}
    /\ verdicts' = [verdicts EXCEPT ![row[r]] = {}]
    /\ cred' = [cred EXCEPT ![r] = k]
    /\ Goto(r, "retrying")
    /\ UNCHANGED <<inflight, cooled, row, tried, hops, gone, refused, client>>

NotRevived(r) ==
    /\ pc[r] = "reviving"
    /\ Settle(r, "auth") /\ EndOrHop(r, TRUE)
    /\ UNCHANGED refused

\* Mistake: a hop waits for an account however long it takes.
HopWaits(r) ==
    /\ pc[r] = "pausing" /\ Goto(r, "ready")
    /\ \E a \in Selectable(tried[r]) : Hold(r, a)
    /\ hops' = [hops EXCEPT ![r] = @ + 1]
    /\ UNCHANGED <<key, issued, cooled, verdicts, tried, gone, refused, client>>

\* acquireConnectFailover: after a pause, another account or none.
Hop(r) ==
    /\ pc[r] = "pausing"
    /\ \/ /\ ~gone[r] /\ Goto(r, "ready")
          /\ \E a \in Selectable(tried[r]) : Hold(r, a)
          /\ hops' = [hops EXCEPT ![r] = @ + 1]
          /\ UNCHANGED <<tried, gone, client>>
       \/ End(r) /\ UNCHANGED inflight
    /\ UNCHANGED <<key, issued, cooled, verdicts, refused>>

-----------------------------------------------------------------------------
\* The rest of the server: a row gets another key, of a login or pasted (which
\* may have been in the pool before, or still be), leaves, or a new row comes
\* in, perhaps with the key of one that left; a cooldown ends.
Rekey(a, k) ==
    /\ InPool(a) /\ k # key[a]
    /\ key' = [key EXCEPT ![a] = k] /\ issued' = issued \cup {k}
    /\ verdicts' = [verdicts EXCEPT ![a] = {}]
    /\ UNCHANGED <<inflight, cooled, conn, client>>

Remove(a) ==
    /\ InPool(a) /\ key' = [key EXCEPT ![a] = Removed]
    /\ verdicts' = [verdicts EXCEPT ![a] = {}]
    /\ inflight' = [inflight EXCEPT ![a] = 0]
    /\ cooled' = [cooled EXCEPT ![a] = "no"]
    /\ UNCHANGED <<issued, conn, client>>

Add(a, k) ==
    /\ key[a] = Never /\ \A b \in Rows : key[b] # k
    /\ key' = [key EXCEPT ![a] = k] /\ issued' = issued \cup {k}
    /\ UNCHANGED <<inflight, cooled, verdicts, conn, client>>

Recover(a) ==
    /\ cooled[a] # "no"
    /\ \E c \in {"no", "throttled"} \ {cooled[a]} : cooled' = [cooled EXCEPT ![a] = c]
    /\ UNCHANGED <<key, issued, inflight, verdicts, conn, client>>

\* What the request, the upstream and the login service do for it.
Step(r) ==
    \/ Acquire(r) \/ Stop(r) \/ Call(r) \/ Succeed(r)
    \/ \E class \in Cooling \cup {"denied", "none"} : Fail(r, class)
    \/ Unauthorized(r) \/ UnauthorizedAgain(r)
    \/ (\E k \in Keys : Revived(r, k)) \/ NotRevived(r)
    \/ Hop(r)

Environment ==
    \/ \E a \in Rows : Remove(a) \/ Recover(a) \/ \E k \in Keys : Rekey(a, k) \/ Add(a, k)
    \/ \E r \in Requests : Disconnect(r)

Next == Environment \/ \E r \in Requests : Emit(r) \/ Step(r)

Spec == Init /\ [][Next]_vars

\* Upstream calls, logins, pauses and waits end: each has a timer.
FairSpec == Spec /\ \A r \in Requests : WF_vars(Step(r))

-----------------------------------------------------------------------------
ConnectTypeOK ==
    /\ key \in [Rows -> Keys \cup {Never, Removed}]
    /\ issued \subseteq Keys
    /\ cooled \in [Rows -> {"no", "throttled", "barred"}]
    /\ inflight \in [Rows -> Nat]
    /\ verdicts \in [Rows -> SUBSET (Rows \X Keys)]
    /\ pc \in [Requests -> Holding \cup {"idle", "pausing", "done"}]
    /\ row \in [Requests -> Rows \cup {NoRow}]
    /\ cred \in [Requests -> Keys \cup {NoKey}]
    /\ tried \in [Requests -> SUBSET Keys] /\ refused \in [Requests -> SUBSET Keys]
    /\ hops \in [Requests -> 0 .. MaxHops] /\ gone \in [Requests -> BOOLEAN]
    /\ reply \in [Requests -> {"open", "ok", "error", "gone"}]
    /\ wire \in [Requests -> SUBSET Attempts] /\ saved \in [Requests -> BOOLEAN]
    /\ \A r \in Requests : pc[r] = "done" <=> reply[r] # "open"

Holders(a) == {r \in Requests : row[r] = a /\ pc[r] \in Holding}

\* Every way out of the loop gives back what was acquired, once: the slots of a
\* row in the pool are those of the requests that hold it, whatever happened to
\* its key meanwhile.
SlotsBalanced == \A a \in Rows : InPool(a) => inflight[a] = Cardinality(Holders(a))

\* "An old credential's verdict must not be written onto the new credential"
\* (chat.js, credentialEpochCurrent), nor that of a removed account onto the one
\* that took its key.
EpochClean == \A a \in Rows : InPool(a) => verdicts[a] \subseteq {<<a, key[a]>>}

\* "triedKeys accumulates every session token burned this request so getApiKey
\* never re-picks a known-dead account" (chat.js): a key that was refused is not
\* tried again on another hop of the same request.
DeadKeyStaysDead ==
    [][\A r \in Requests :
         (pc[r] = "ready" /\ pc'[r] = "calling") => cred[r] \notin refused[r]]_vars

\* The client's promise (ClientReply): one attempt's bytes, one end, and nothing
\* remembered that was not delivered.
Promise == INSTANCE ClientReply
ClientPromise == Promise!ReplySpec

\* Every request is answered, or ends with its client.
RequestSettles == \A r \in Requests : pc[r] # "idle" ~> pc[r] = "done"
=============================================================================
