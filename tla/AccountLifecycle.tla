-------------------------- MODULE AccountLifecycle --------------------------
(***************************************************************************)
(* The life of an account of the pool (src/auth.js): the status of its     *)
(* row, the session key it carries, and everything that changes the two    *)
(* across an await:                                                        *)
(*   - outcomes of requests: reportSuccess, reportError, reportBanSignal;  *)
(*   - the automatic re-login of a dead key, through the fleet-wide gate;  *)
(*   - the confirmation probe a 401 asks for (requestReauthCheck);         *)
(*   - the liveness sweep (probeAndRecoverConnectAccount);                 *)
(*   - the operator: enable, disable, reset, paste a token, remove.        *)
(* The upstream retires keys, and answers a probe at some instant between  *)
(* the call and the return.  Cooldowns and time-outs are choices: whatever *)
(* they allow may happen, at any time.                                     *)
(***************************************************************************)
EXTENDS Integers, Sequences, FiniteSets

CONSTANTS Accounts,        \* ids of the rows
          Session,         \* the rows that carry a devin-session-token$ key
          Credentialed,    \* the rows with a stored password to log in with
          Keys,            \* session keys
          NoKey,           \* "no attempt" or "no probe" where a key is expected
          Threshold,       \* errorStreakThreshold
          MaxConcurrent    \* RELOGIN_MAX_CONCURRENT()

ASSUME LifecycleAssumption ==
    /\ IsFiniteSet(Accounts)
    /\ Session \subseteq Accounts /\ Credentialed \subseteq Accounts
    /\ NoKey \notin Keys
    /\ Threshold \in Nat \ {0}
    /\ MaxConcurrent \in Nat \ {0}

VARIABLES
    row,      \* row[a]: the account record, as long as its status is not "removed"
    active, waiters, pc,    \* the re-login gate; an account is its own attempt
    attempt,  \* attempt[a]: tokenAtStart of the re-login in flight for a
    sent,     \* the attempts whose login RPC is under way
    check,    \* check[a]: the confirmation probe in flight
    probe,    \* probe[a]: the sweep's probe, and what it is waiting for
    minted,   \* keys the upstream has issued
    retired,  \* keys the upstream answers UNAUTHORIZED to
    benched,  \* history: rows whose present key a probe confirmed dead
    moved     \* history: benched rows whose status the operator then wrote

gateVars == <<active, waiters, pc>>
upstreamVars == <<minted, retired>>
vars == <<row, active, waiters, pc, attempt, sent, check, probe, minted, retired,
          benched, moved>>

Gate == INSTANCE ReloginGate WITH Attempts <- Accounts

Stamps == {"erroredAt", "_errorAt"}

Row == [status  : {"active", "error", "disabled", "banned", "reauth", "removed"},
        key     : Keys,
        errors  : 0 .. Threshold,   \* errorCount, kept at Threshold once there
        strikes : 0 .. 2,           \* _banSignalCount
        clock   : SUBSET Stamps]    \* which of the two error stamps are set

Call == [token : Keys \cup {NoKey}, verdict : {"none", "alive", "dead"}]
SweepCall == [token   : Keys \cup {NoKey},
              verdict : {"none", "alive", "dead", "recovering", "fresh", "failed"}]

Idle == [token |-> NoKey, verdict |-> "none"]

\* The accounts array holds the row.
InPool(a) == row[a].status # "removed"

\* isOperatorTerminalStatus
Terminal(a) == row[a].status \in {"disabled", "banned"}

\* Mistake: a late result is checked against the row and the key only.
StillOwnsIfParked(a, token) == InPool(a) /\ row[a].key = token

\* isCurrentAccount, same credential, and no operator intent against it: what
\* every continuation revalidates before it commits.
StillOwns(a, token) == InPool(a) /\ row[a].key = token /\ ~Terminal(a)

\* What a successful login of row a may return: a new key, or the one it has.
LoginKeys(a) == (Keys \ minted) \cup ({row[a].key} \ retired)

\* clearBanState and the fields that every proof of a good credential resets.
Revived(r, k) == [r EXCEPT !.status = "active", !.key = k, !.errors = 0,
                           !.strikes = 0, !.clock = {}]

Init ==
    /\ row \in [Accounts -> {[status |-> "active", key |-> k, errors |-> 0,
                              strikes |-> 0, clock |-> {}] : k \in Keys}]
    /\ \A a, b \in Accounts : row[a].key = row[b].key => a = b
    /\ Gate!GateInit
    /\ attempt = [a \in Accounts |-> NoKey]
    /\ sent = {}
    /\ check = [a \in Accounts |-> Idle]
    /\ probe = [a \in Accounts |-> Idle]
    /\ minted = {row[a].key : a \in Accounts}
    /\ retired = {}
    /\ benched = {}
    /\ moved = {}

-----------------------------------------------------------------------------
(* The status field.                                                       *)

\* markNeedsReauth: bench the row on a probe's UNAUTHORIZED.
MarkNeedsReauth(a) ==
    IF ~InPool(a) \/ Terminal(a) \/ row[a].status = "reauth"
    THEN UNCHANGED <<row, benched, moved>>
    ELSE /\ row' = [row EXCEPT ![a].status = "reauth"]
         /\ benched' = benched \cup {a}
         /\ moved' = moved \ {a}

\* clearNeedsReauth: back into rotation on a probe's ALIVE.
ClearNeedsReauth(a) ==
    IF row[a].status # "reauth"
    THEN UNCHANGED <<row, benched, moved>>
    ELSE /\ row' = [row EXCEPT ![a].status = "active", ![a].errors = 0,
                               ![a].clock = @ \ {"erroredAt"}]
         /\ benched' = benched \ {a}
         /\ moved' = moved \ {a}

\* Mistake: the exemption of the last account is gone.
NeverLastUsable(a) == a \notin Accounts

\* The last account in rotation is not taken out by its own errors
\* (isLastUsableAccount, lastAccountExempt on).
LastUsable(a) == \A b \in Accounts \ {a} : row[b].status # "active"

\* reportError: count the error, in a streak that goes on or starts over, and
\* open the breaker at the threshold.  A peer that is cooled or of a lower tier
\* is no fallback, so the exemption may apply beside an active peer too.
ReportErrorOn(a) ==
    IF ~InPool(a) \/ Terminal(a) \/ row[a].status = "reauth"
    THEN UNCHANGED row
    ELSE \E streak \in {0, row[a].errors}, exempt \in BOOLEAN :
           LET n       == IF streak < Threshold THEN streak + 1 ELSE Threshold
               charged == [row[a] EXCEPT !.errors = n, !.clock = @ \cup {"_errorAt"}]
               opens   == n >= Threshold /\ row[a].status # "error" /\ ~exempt
           IN  /\ LastUsable(a) => exempt
               /\ row' = [row EXCEPT ![a] =
                            IF opens THEN [charged EXCEPT !.status = "error",
                                                          !.clock = Stamps]
                                     ELSE charged]

-----------------------------------------------------------------------------
(* Outcomes of requests.  The handlers report one only while the key the   *)
(* request presented is still the row's (credentialEpochCurrent).          *)

RequestFails(a) ==
    /\ ReportErrorOn(a)
    /\ UNCHANGED <<gateVars, attempt, sent, check, probe, upstreamVars, benched, moved>>

\* Mistake: a success promotes whatever status the row has.
RequestRevives(a) ==
    /\ InPool(a)
    /\ row' = [row EXCEPT ![a].errors = 0, ![a].strikes = 0, ![a].status = "active"]
    /\ UNCHANGED <<gateVars, attempt, sent, check, probe, upstreamVars, benched, moved>>

\* reportSuccess: promotes "error" and nothing else.
RequestSucceeds(a) ==
    /\ InPool(a)
    /\ row' = [row EXCEPT
                 ![a].errors = 0,
                 ![a].strikes = 0,
                 ![a].status = IF @ = "error" THEN "active" ELSE @,
                 ![a].clock = IF row[a].status = "error" THEN @ \ {"erroredAt"} ELSE @]
    /\ UNCHANGED <<gateVars, attempt, sent, check, probe, upstreamVars, benched, moved>>

\* reportBanSignal: two ban-shaped errors within the window ban the row.
RequestBanned(a) ==
    /\ InPool(a) /\ ~Terminal(a)
    /\ \E n \in {1, IF row[a].strikes < 2 THEN row[a].strikes + 1 ELSE 2} :
          row' = [row EXCEPT ![a].strikes = n,
                             ![a].status = IF n >= 2 THEN "banned" ELSE @]
    /\ UNCHANGED <<gateVars, attempt, sent, check, probe, upstreamVars, benched, moved>>

\* maybeRecoverErrorAccount: a selection finds the row's error older than the
\* recovery TTL and half-opens it.
HalfOpen(a) ==
    /\ row[a].status = "error"
    /\ row[a].clock # {}
    /\ row' = [row EXCEPT ![a].status = "active", ![a].errors = 0]
    /\ UNCHANGED <<gateVars, attempt, sent, check, probe, upstreamVars, benched, moved>>

-----------------------------------------------------------------------------
(* reLoginAccount.  attempt[a] # NoKey from the capture of tokenAtStart     *)
(* until the attempt settles; callers in between share it.                 *)

\* The entry checks, which capture the token before the import is awaited.
CanRelogin(a) == InPool(a) /\ ~Terminal(a) /\ a \in Credentialed

ReloginBegin(a) ==
    /\ CanRelogin(a)
    /\ attempt[a] = NoKey
    /\ attempt' = [attempt EXCEPT ![a] = row[a].key]
    /\ UNCHANGED <<row, gateVars, sent, check, probe, upstreamVars, benched, moved>>

\* Mistake: the callers that coalesced onto the attempt are not told.
ReloginUnsettled(a) ==
    /\ attempt' = [attempt EXCEPT ![a] = NoKey]
    /\ UNCHANGED probe

\* The attempt settles without a new key; a sweep waiting for it sees `false`.
ReloginFalse(a) ==
    /\ attempt' = [attempt EXCEPT ![a] = NoKey]
    /\ probe' = IF probe[a].verdict = "recovering"
                THEN [probe EXCEPT ![a].verdict = "failed"] ELSE probe

\* A second call within the cooldown, or a credential that cannot be read.
ReloginSkipped(a) ==
    /\ attempt[a] # NoKey /\ pc[a] = "out"
    /\ ReloginFalse(a)
    /\ UNCHANGED <<row, gateVars, sent, check, upstreamVars, benched, moved>>

ReloginAcquire(a) ==
    /\ attempt[a] # NoKey
    /\ Gate!Acquire(a)
    /\ UNCHANGED <<row, attempt, sent, check, probe, upstreamVars, benched, moved>>

\* The queue wait timed out or was aborted.
ReloginCancelled(a) ==
    /\ Gate!Cancel(a)
    /\ ReloginFalse(a)
    /\ UNCHANGED <<row, sent, check, upstreamVars, benched, moved>>

\* The slot is granted: revalidate the row before the login is spent.
ReloginDispatch(a) ==
    /\ pc[a] = "login" /\ a \notin sent
    /\ StillOwns(a, attempt[a])
    /\ sent' = sent \cup {a}
    /\ UNCHANGED <<row, gateVars, attempt, check, probe, upstreamVars, benched, moved>>

\* Mistakes: the early return leaks the slot; or drops it and leaves the count.
ReloginStaleLeaks(a) ==
    /\ pc[a] = "login" /\ a \notin sent
    /\ ~StillOwns(a, attempt[a])
    /\ ReloginFalse(a)
    /\ UNCHANGED <<row, gateVars, sent, check, upstreamVars, benched, moved>>

ReloginStaleUncounted(a) ==
    /\ pc[a] = "login" /\ a \notin sent
    /\ ~StillOwns(a, attempt[a])
    /\ ReloginFalse(a)
    /\ pc' = [pc EXCEPT ![a] = "out"]
    /\ UNCHANGED <<row, active, waiters, sent, check, upstreamVars, benched, moved>>

ReloginStale(a) ==
    /\ pc[a] = "login" /\ a \notin sent
    /\ ~StillOwns(a, attempt[a])
    /\ ReloginFalse(a)
    /\ Gate!Release(a)
    /\ UNCHANGED <<row, sent, check, upstreamVars, benched, moved>>

\* Mistake: the row is not revalidated after the login.
ReloginReturnsBlind(a) ==
    /\ a \in sent
    /\ sent' = sent \ {a}
    /\ Gate!Release(a)
    /\ ReloginFalse(a)
    /\ \E k \in LoginKeys(a) :
         /\ minted' = minted \cup {k}
         /\ row' = [row EXCEPT ![a] = Revived(row[a], k)]
    /\ benched' = benched \ {a}
    /\ moved' = moved \ {a}
    /\ UNCHANGED <<check, retired>>

\* The login RPC returns key k: install it if the row is still the attempt's,
\* discard it otherwise; release the slot in both cases.
ReloginReturns(a) ==
    /\ a \in sent
    /\ sent' = sent \ {a}
    /\ Gate!Release(a)
    /\ \E k \in LoginKeys(a) :
         /\ minted' = minted \cup {k}
         /\ \/ /\ StillOwns(a, attempt[a])
               /\ row' = [row EXCEPT ![a] = Revived(row[a], k)]
               /\ benched' = benched \ {a}
               /\ moved' = moved \ {a}
               /\ attempt' = [attempt EXCEPT ![a] = NoKey]
               /\ probe' = IF probe[a].verdict = "recovering"
                           THEN [probe EXCEPT ![a].verdict = "fresh"] ELSE probe
            \/ /\ ~StillOwns(a, attempt[a])
               /\ ReloginFalse(a)
               /\ UNCHANGED <<row, benched, moved>>
    /\ UNCHANGED <<check, retired>>

\* Mistake: a failed attempt stays registered as the one in flight.
ReloginFailsInflight(a) ==
    /\ a \in sent
    /\ sent' = sent \ {a}
    /\ Gate!Release(a)
    /\ UNCHANGED <<row, attempt, probe, check, upstreamVars, benched, moved>>

\* The login RPC fails.
ReloginFails(a) ==
    /\ a \in sent
    /\ sent' = sent \ {a}
    /\ Gate!Release(a)
    /\ ReloginFalse(a)
    /\ UNCHANGED <<row, check, upstreamVars, benched, moved>>

-----------------------------------------------------------------------------
(* requestReauthCheck: one confirmation probe per row.                     *)

CheckBegin(a) ==
    /\ a \in Session
    /\ InPool(a) /\ ~Terminal(a)
    /\ check[a] = Idle
    /\ check' = [check EXCEPT ![a].token = row[a].key]
    /\ UNCHANGED <<row, gateVars, attempt, sent, probe, upstreamVars, benched, moved>>

\* GetUserStatus is evaluated upstream, on the token the probe carries.
Verdict(k) == IF k \in retired THEN "dead" ELSE "alive"

CheckAnswered(a) ==
    /\ check[a].token # NoKey /\ check[a].verdict = "none"
    /\ check' = [check EXCEPT ![a].verdict = Verdict(check[a].token)]
    /\ UNCHANGED <<row, gateVars, attempt, sent, probe, upstreamVars, benched, moved>>

\* No answer, or one that proves nothing (CAPACITY, UPSTREAM_INTERNAL).
CheckLost(a) ==
    /\ check[a].token # NoKey /\ check[a].verdict = "none"
    /\ check' = [check EXCEPT ![a] = Idle]
    /\ UNCHANGED <<row, gateVars, attempt, sent, probe, upstreamVars, benched, moved>>

\* The answer arrives: revalidate the row, then clear or mark.
CheckSettles(a) ==
    /\ check[a].verdict # "none"
    /\ check' = [check EXCEPT ![a] = Idle]
    /\ IF ~StillOwns(a, check[a].token)
       THEN UNCHANGED <<row, benched, moved>>
       ELSE IF check[a].verdict = "alive" THEN ClearNeedsReauth(a)
                                          ELSE MarkNeedsReauth(a)
    /\ UNCHANGED <<gateVars, attempt, sent, probe, upstreamVars>>

-----------------------------------------------------------------------------
(* probeAndRecoverConnectAccount, called by the liveness sweep.            *)

ProbeBegin(a) ==
    /\ a \in Session
    /\ InPool(a) /\ ~Terminal(a)
    /\ probe[a] = Idle
    /\ probe' = [probe EXCEPT ![a].token = row[a].key]
    /\ UNCHANGED <<row, gateVars, attempt, sent, check, upstreamVars, benched, moved>>

ProbeAnswered(a) ==
    /\ probe[a].token # NoKey /\ probe[a].verdict = "none"
    /\ probe' = [probe EXCEPT ![a].verdict = Verdict(probe[a].token)]
    /\ UNCHANGED <<row, gateVars, attempt, sent, check, upstreamVars, benched, moved>>

\* No answer, or an answer about a row that is no longer the probe's.
ProbeDropped(a) ==
    /\ \/ probe[a].token # NoKey /\ probe[a].verdict = "none"
       \/ probe[a].verdict \in {"alive", "dead"} /\ ~StillOwns(a, probe[a].token)
    /\ probe' = [probe EXCEPT ![a] = Idle]
    /\ UNCHANGED <<row, gateVars, attempt, sent, check, upstreamVars, benched, moved>>

ProbeAlive(a) ==
    /\ probe[a].verdict = "alive"
    /\ StillOwns(a, probe[a].token)
    /\ probe' = [probe EXCEPT ![a] = Idle]
    /\ IF row[a].status = "error"
       THEN /\ row' = [row EXCEPT ![a].status = "active", ![a].errors = 0,
                                  ![a].clock = @ \ {"_errorAt"}]
            /\ UNCHANGED <<benched, moved>>
       ELSE ClearNeedsReauth(a)
    /\ UNCHANGED <<gateVars, attempt, sent, check, upstreamVars>>

\* The token is dead: charge the error, then wait for a re-login, the one in
\* flight or one of its own.
ProbeDead(a) ==
    /\ probe[a].verdict = "dead"
    /\ StillOwns(a, probe[a].token)
    /\ ReportErrorOn(a)
    /\ IF a \in Credentialed
       THEN /\ attempt' = [attempt EXCEPT ![a] = IF @ = NoKey THEN row[a].key ELSE @]
            /\ probe' = [probe EXCEPT ![a].verdict = "recovering"]
       ELSE /\ probe' = [probe EXCEPT ![a].verdict = "failed"]
            /\ UNCHANGED attempt
    /\ UNCHANGED <<gateVars, sent, check, upstreamVars, benched, moved>>

\* Mistake: a dead token that no login replaced is not benched.
ProbeSettlesUnbenched(a) ==
    /\ probe[a].verdict \in {"fresh", "failed"}
    /\ probe' = [probe EXCEPT ![a] = Idle]
    /\ UNCHANGED <<row, benched, moved, gateVars, attempt, sent, check, upstreamVars>>

\* The re-login has settled.  Without a fresh key the row is benched, unless
\* it changed in the meantime.
ProbeSettles(a) ==
    /\ probe[a].verdict \in {"fresh", "failed"}
    /\ probe' = [probe EXCEPT ![a] = Idle]
    /\ IF probe[a].verdict = "failed" /\ StillOwns(a, probe[a].token)
       THEN MarkNeedsReauth(a)
       ELSE UNCHANGED <<row, benched, moved>>
    /\ UNCHANGED <<gateVars, attempt, sent, check, upstreamVars>>

-----------------------------------------------------------------------------
(* The operator.                                                           *)

\* setAccountStatus, with the statuses PATCH accepts.  reauth -> active is
\* refused without force.
SetAccountStatus(a, s, force) ==
    /\ InPool(a)
    /\ row[a].status = "reauth" /\ s = "active" => force
    /\ row' = [row EXCEPT ![a] =
                 IF s = "active" THEN [@ EXCEPT !.status = s, !.errors = 0, !.strikes = 0]
                                 ELSE [@ EXCEPT !.status = s]]
    /\ benched' = IF s = "active" /\ force THEN benched \ {a} ELSE benched
    /\ moved' = benched' \cap (moved \cup {a})
    /\ UNCHANGED <<gateVars, attempt, sent, check, probe, upstreamVars>>

\* resetAccountErrors: refused on a benched row.
ResetAccountErrors(a) ==
    /\ InPool(a)
    /\ row[a].status # "reauth"
    /\ row' = [row EXCEPT ![a].status = "active", ![a].errors = 0, ![a].strikes = 0]
    /\ moved' = benched \cap (moved \cup {a})
    /\ UNCHANGED <<gateVars, attempt, sent, check, probe, upstreamVars, benched>>

\* markAccountReauthenticated: a bound login (the same key will do) or a pasted
\* token (a benched row needs another key).
MarkAccountReauthenticated(a, k, allowSameKey) ==
    /\ InPool(a) /\ ~Terminal(a)
    /\ row[a].status = "reauth" /\ k = row[a].key => allowSameKey
    /\ row' = [row EXCEPT ![a] = Revived(row[a], k)]
    /\ minted' = minted \cup {k}
    /\ benched' = benched \ {a}
    /\ moved' = moved \ {a}
    /\ UNCHANGED <<gateVars, attempt, sent, check, probe, retired>>

\* applyReauthToken: any session token, also the one of another row.
PasteToken(a) == \E k \in Keys : MarkAccountReauthenticated(a, k, FALSE)

BoundLogin(a) ==
    \E k \in LoginKeys(a) : MarkAccountReauthenticated(a, k, TRUE)

\* setAccountTokens with a new key: the status is left as it is.
SetAccountTokens(a) ==
    /\ InPool(a)
    /\ \E k \in Keys \ minted :
          /\ row' = [row EXCEPT ![a].key = k]
          /\ minted' = minted \cup {k}
    /\ benched' = benched \ {a}
    /\ moved' = moved \ {a}
    /\ UNCHANGED <<gateVars, attempt, sent, check, probe, retired>>

\* addAccountByEmail on an address the pool already has.
AddAccountByEmail(a) ==
    /\ InPool(a)
    /\ \E k \in LoginKeys(a) :
          /\ row' = [row EXCEPT ![a].key = k, ![a].errors = 0,
                                ![a].status = IF @ = "error" THEN "active" ELSE @]
          /\ minted' = minted \cup {k}
    /\ benched' = benched \ {a}
    /\ moved' = moved \ {a}
    /\ UNCHANGED <<gateVars, attempt, sent, check, probe, retired>>

\* removeAccount: whatever is in flight for the row finds it gone.
RemoveAccount(a) ==
    /\ InPool(a)
    /\ row' = [row EXCEPT ![a].status = "removed"]
    /\ UNCHANGED <<gateVars, attempt, sent, check, probe, upstreamVars, benched, moved>>

-----------------------------------------------------------------------------
(* The upstream.                                                           *)

RetireKey(k) ==
    /\ k \in minted \ retired
    /\ retired' = retired \cup {k}
    /\ UNCHANGED <<row, gateVars, attempt, sent, check, probe, minted, benched, moved>>

\* A broken proxy or upstream that answered for the key is back.
RestoreKey(k) ==
    /\ k \in retired
    /\ retired' = retired \ {k}
    /\ UNCHANGED <<row, gateVars, attempt, sent, check, probe, minted, benched, moved>>

-----------------------------------------------------------------------------

Request(a) == RequestFails(a) \/ RequestSucceeds(a) \/ RequestBanned(a) \/ HalfOpen(a)

Relogin(a) ==
    \/ ReloginBegin(a) \/ ReloginSkipped(a) \/ ReloginAcquire(a) \/ ReloginCancelled(a)
    \/ ReloginDispatch(a) \/ ReloginStale(a) \/ ReloginReturns(a) \/ ReloginFails(a)

Check(a) == CheckBegin(a) \/ CheckAnswered(a) \/ CheckLost(a) \/ CheckSettles(a)

Sweep(a) ==
    \/ ProbeBegin(a) \/ ProbeAnswered(a) \/ ProbeDropped(a)
    \/ ProbeAlive(a) \/ ProbeDead(a) \/ ProbeSettles(a)

Operator(a) ==
    \/ \E s \in {"active", "error", "disabled"}, force \in BOOLEAN :
          SetAccountStatus(a, s, force)
    \/ ResetAccountErrors(a) \/ PasteToken(a) \/ BoundLogin(a)
    \/ SetAccountTokens(a) \/ AddAccountByEmail(a) \/ RemoveAccount(a)

Upstream == \E k \in Keys : RetireKey(k) \/ RestoreKey(k)

Next ==
    \/ \E a \in Accounts : Request(a) \/ Relogin(a) \/ Check(a) \/ Sweep(a) \/ Operator(a)
    \/ Upstream

Spec == Init /\ [][Next]_vars

\* What the process does by itself: an attempt goes on (its queue wait and its
\* login RPC are bounded), an answered call is settled, and the sweep comes
\* round; of the sweep's probes the upstream answers some.
ReloginGoesOn(a) == Relogin(a) /\ ~ReloginBegin(a)

Fairness ==
    \A a \in Accounts :
        /\ WF_vars(ReloginGoesOn(a))
        /\ WF_vars(CheckAnswered(a) \/ CheckLost(a)) /\ WF_vars(CheckSettles(a))
        /\ WF_vars(ProbeBegin(a)) /\ SF_vars(ProbeAnswered(a))
        /\ WF_vars(ProbeDropped(a) \/ ProbeAlive(a) \/ ProbeDead(a) \/ ProbeSettles(a))

FairSpec == Spec /\ Fairness

-----------------------------------------------------------------------------

LifecycleTypeOK ==
    /\ row \in [Accounts -> Row]
    /\ Gate!GateTypeOK
    /\ attempt \in [Accounts -> Keys \cup {NoKey}]
    /\ sent \subseteq Accounts
    /\ check \in [Accounts -> Call]
    /\ probe \in [Accounts -> SweepCall]
    /\ retired \subseteq minted /\ minted \subseteq Keys
    /\ moved \subseteq benched /\ benched \subseteq Accounts

\* A row the operator parked, or the ban detector banned, stays there until the
\* operator says otherwise: a request, probe or login that began before it and
\* ends after it changes nothing (auth.js:2307-2313).
OperatorIntentHolds ==
    [][\A a \in Accounts :
         Terminal(a) /\ row'[a].status # row[a].status => Operator(a)]_vars

\* A key that a probe confirmed dead is not handed to requests again by late
\* outcomes, half-open recovery, or probes, logins and pastes that fail or come
\* too late (auth.js:4266-4270): only by a probe that says ALIVE, a new key, or a
\* status the operator wrote by hand.
BenchedStaysOut ==
    \A a \in benched \ moved : row[a].status # "active" /\ row[a].status # "error"

\* A login that returns replaces the key it set out to replace, on a row that
\* is still in the pool and that nobody parked: never a key installed since.
LoginReplacesItsOwnKey ==
    [][\A a \in sent : row'[a].key # row[a].key /\ a \notin sent'
         => StillOwns(a, attempt[a])]_vars

\* A slot or a place in the queue belongs to an attempt that is in flight, and
\* a login RPC to one that holds a slot: no path out of an attempt leaks either.
SlotHasAttempt ==
    /\ \A a \in Accounts : pc[a] # "out" => attempt[a] # NoKey
    /\ \A a \in sent : pc[a] = "login"

\* However attempts, revalidations and cancellations interleave, the pool uses
\* the gate as the gate is specified.
GateProtocol == Gate!GateSpec

\* Errors and ban-free outcomes alone never take the last account out of
\* rotation: only a probe's verdict, a ban or the operator may.
LastAccountKept ==
    [][(\E a \in Accounts : row[a].status = "active")
         /\ (\A a \in Accounts : row'[a].status # "active")
       => \A a \in Accounts : row'[a].status = "error" => row[a].status = "error"
                               \/ Operator(a)]_vars

\* An attempt settles whatever happens to its row, so that neither the callers
\* that coalesced onto it nor the sweep wait for ever.
AttemptSettles == \A a \in Accounts : attempt[a] # NoKey ~> attempt[a] = NoKey

\* The sweep gets a dead key out of rotation: no row stays active for ever with
\* one and the same key that the upstream has retired.
DeadKeyLeaves ==
    \A a \in Session, k \in Keys :
        []<>~(row[a].status = "active" /\ row[a].key = k /\ k \in retired)

=============================================================================
