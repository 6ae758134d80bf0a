----------------------- MODULE AccountLifecycleProofs -----------------------
(***************************************************************************)
(* Type correctness of the account life cycle, and the properties that a   *)
(* late answer, a cancellation or an error of the last account must not    *)
(* break, for any accounts, keys and thresholds.                           *)
(*                                                                         *)
(* The argument: a step writes at most one row, and OneRowWritten says     *)
(* what the written record must satisfy for the bench to hold.  The pool   *)
(* implements the gate, so that the theorems of ReloginGateProofs hold of  *)
(* it, and who owns a slot follows from the exactness of the queue.        *)
(***************************************************************************)
EXTENDS AccountLifecycle, TLAPS

USE LifecycleAssumption

\* The gate keeps its types whichever of its operations is taken.
GateStep(a) == Gate!Acquire(a) \/ Gate!Cancel(a) \/ Gate!Release(a)

LEMMA GateTyped ==
    ASSUME Gate!GateTypeOK, NEW a \in Accounts, GateStep(a)
    PROVE  Gate!GateTypeOK'
  <1> USE DEF Gate!GateTypeOK
  <1>1. CASE Gate!AcquireAtOnce(a)
    BY <1>1 DEF Gate!AcquireAtOnce
  <1>2. CASE Gate!Enqueue(a)
    BY <1>2 DEF Gate!Enqueue
  <1>3. CASE Gate!Cancel(a)
    <2>1. PICK i \in 1 .. Len(waiters) : waiters' = Gate!Splice(waiters, i)
      BY <1>3 DEF Gate!Cancel, Gate!Positions
    <2>2. Gate!Splice(waiters, i) \in Seq(Accounts)
      BY DEF Gate!Splice
    <2> QED BY <1>3, <2>1, <2>2 DEF Gate!Cancel
  <1>4. CASE Gate!ReleaseToWaiter(a)
    BY <1>4 DEF Gate!ReleaseToWaiter
  <1>5. CASE Gate!ReleaseIdle(a)
    BY <1>5 DEF Gate!ReleaseIdle
  <1> QED BY <1>1, <1>2, <1>3, <1>4, <1>5 DEF GateStep, Gate!Acquire, Gate!Release

LEMMA Zeros == 0 \in 0 .. Threshold /\ 0 \in 0 .. 2
  OBVIOUS

LEMMA RowFields ==
    ASSUME NEW r \in Row
    PROVE  /\ r.status \in {"active", "error", "disabled", "banned", "reauth", "removed"}
           /\ r.key \in Keys /\ r.errors \in 0 .. Threshold
           /\ r.strikes \in 0 .. 2 /\ r.clock \subseteq Stamps
  BY DEF Row

\* What concerns the rows, as one inductive invariant.
RowsOK ==
    /\ row \in [Accounts -> Row]
    /\ moved \subseteq benched /\ benched \subseteq Accounts
    /\ BenchedStaysOut

\* Rotation: the statuses from which requests are served or soon will be.
InRotation(r) == r.status = "active" \/ r.status = "error"

\* A step that writes row a, and the two history sets at a only, keeps RowsOK
\* if it does not put a benched row into rotation.
LEMMA OneRowWritten ==
    ASSUME RowsOK, NEW a \in Accounts, NEW r \in Row,
           row' = [row EXCEPT ![a] = r],
           \A b \in Accounts \ {a} : /\ b \in benched' <=> b \in benched
                                     /\ b \in moved' <=> b \in moved,
           benched' \subseteq Accounts, moved' \subseteq benched',
           a \in benched' /\ a \notin moved' => ~InRotation(r)
    PROVE  RowsOK'
  <1>1. row' \in [Accounts -> Row]
    BY DEF RowsOK
  <1>2. row'[a] = r /\ \A b \in Accounts \ {a} : row'[b] = row[b]
    BY DEF RowsOK
  <1>3. BenchedStaysOut'
    <2> SUFFICES ASSUME NEW b \in Accounts, b \in benched', b \notin moved'
                 PROVE  row'[b].status # "active" /\ row'[b].status # "error"
      BY DEF BenchedStaysOut
    <2>1. CASE b = a
      BY <2>1, <1>2 DEF InRotation
    <2>2. CASE b # a
      BY <2>2, <1>2 DEF RowsOK, BenchedStaysOut
    <2> QED BY <2>1, <2>2
  <1> QED BY <1>1, <1>3 DEF RowsOK

LEMMA NoRowWritten ==
    ASSUME RowsOK, UNCHANGED <<row, benched, moved>>
    PROVE  RowsOK'
  BY DEF RowsOK, BenchedStaysOut

\* The same when the history sets stay as they are.
LEMMA OnlyRowWritten ==
    ASSUME RowsOK, NEW a \in Accounts, NEW r \in Row,
           row' = [row EXCEPT ![a] = r], UNCHANGED <<benched, moved>>,
           InRotation(r) => InRotation(row[a])
    PROVE  RowsOK'
  <1>1. a \in benched /\ a \notin moved => ~InRotation(r)
    BY DEF RowsOK, BenchedStaysOut, InRotation
  <1> QED BY <1>1, OneRowWritten DEF RowsOK

\* The same when the row leaves the two history sets.
LEMMA RowReleased ==
    ASSUME RowsOK, NEW a \in Accounts, NEW r \in Row,
           row' = [row EXCEPT ![a] = r],
           benched' = benched \ {a}, moved' = moved \ {a}
    PROVE  RowsOK'
  BY OneRowWritten DEF RowsOK

LEMMA MarkKeepsRows ==
    ASSUME RowsOK, NEW a \in Accounts, MarkNeedsReauth(a)
    PROVE  RowsOK'
  <1>1. CASE UNCHANGED <<row, benched, moved>>
    BY <1>1, NoRowWritten
  <1>2. CASE ~UNCHANGED <<row, benched, moved>>
    <2> DEFINE r == [row[a] EXCEPT !.status = "reauth"]
    <2>1. row' = [row EXCEPT ![a] = r] /\ benched' = benched \cup {a}
            /\ moved' = moved \ {a}
      BY <1>2 DEF MarkNeedsReauth
    <2>2. r \in Row /\ ~InRotation(r)
      BY DEF Row, RowsOK, InRotation
    <2> HIDE DEF r
    <2> QED BY <2>1, <2>2, OneRowWritten DEF RowsOK
  <1> QED BY <1>1, <1>2

LEMMA ClearKeepsRows ==
    ASSUME RowsOK, NEW a \in Accounts, ClearNeedsReauth(a)
    PROVE  RowsOK'
  <1>1. CASE row[a].status # "reauth"
    BY <1>1, NoRowWritten DEF ClearNeedsReauth
  <1>2. CASE row[a].status = "reauth"
    <2> DEFINE r == [row[a] EXCEPT !.status = "active", !.errors = 0,
                                   !.clock = @ \ {"erroredAt"}]
    <2>1. row' = [row EXCEPT ![a] = r] /\ benched' = benched \ {a}
            /\ moved' = moved \ {a}
      BY <1>2 DEF ClearNeedsReauth
    <2>2. row[a] \in Row /\ (row[a].clock \ {"erroredAt"}) \in SUBSET Stamps
      BY RowFields DEF RowsOK
    <2>3. r \in Row
      BY <2>2, Zeros DEF Row
    <2> HIDE DEF r
    <2> QED BY <2>1, <2>3, RowReleased
  <1> QED BY <1>1, <1>2

LEMMA ErrorKeepsRows ==
    ASSUME RowsOK, NEW a \in Accounts, ReportErrorOn(a), UNCHANGED <<benched, moved>>
    PROVE  RowsOK'
  <1>1. CASE UNCHANGED row
    BY <1>1, NoRowWritten
  <1>2. CASE ~UNCHANGED row
    <2>1. InRotation(row[a])
      BY <1>2 DEF ReportErrorOn, InPool, Terminal, InRotation, RowsOK, Row
    <2>2. PICK streak \in {0, row[a].errors}, exempt \in BOOLEAN :
            LET n       == IF streak < Threshold THEN streak + 1 ELSE Threshold
                charged == [row[a] EXCEPT !.errors = n, !.clock = @ \cup {"_errorAt"}]
                opens   == n >= Threshold /\ row[a].status # "error" /\ ~exempt
            IN  row' = [row EXCEPT ![a] =
                          IF opens THEN [charged EXCEPT !.status = "error",
                                                        !.clock = Stamps]
                                   ELSE charged]
      BY <1>2 DEF ReportErrorOn
    <2> DEFINE n       == IF streak < Threshold THEN streak + 1 ELSE Threshold
               charged == [row[a] EXCEPT !.errors = n, !.clock = @ \cup {"_errorAt"}]
    <2>3. n \in 0 .. Threshold
      BY DEF RowsOK, Row
    <2>4. charged \in Row
      <3> HIDE DEF n
      <3> QED BY <2>3 DEF Row, RowsOK, Stamps
    <2>5. [charged EXCEPT !.status = "error", !.clock = Stamps] \in Row
      <3> HIDE DEF charged
      <3> QED BY <2>4 DEF Row
    <2>6. PICK r \in Row : row' = [row EXCEPT ![a] = r]
      BY <2>2, <2>4, <2>5
    <2> QED BY <2>1, <2>6, OnlyRowWritten
  <1> QED BY <1>1, <1>2

-----------------------------------------------------------------------------

LEMMA RevivedIsRow ==
    ASSUME NEW r \in Row, NEW k \in Keys
    PROVE  Revived(r, k) \in Row
  <1>1. {} \in SUBSET Stamps
    OBVIOUS
  <1> QED BY <1>1, Zeros DEF Revived, Row

LEMMA RowsInit == Init => RowsOK
  <1> SUFFICES ASSUME Init PROVE RowsOK
    OBVIOUS
  <1>1. ASSUME NEW k \in Keys
        PROVE  [status |-> "active", key |-> k, errors |-> 0,
                strikes |-> 0, clock |-> {}] \in Row
    BY DEF Row
  <1>2. row \in [Accounts -> Row]
    BY <1>1 DEF Init
  <1> QED BY <1>2 DEF Init, RowsOK, BenchedStaysOut

LEMMA RequestKeepsRows ==
    ASSUME RowsOK, NEW a \in Accounts, Request(a)
    PROVE  RowsOK'
  <1>0. row[a] \in Row /\ (row[a].clock \ {"erroredAt"}) \in SUBSET Stamps
    BY RowFields DEF RowsOK
  <1>1. CASE RequestFails(a)
    BY <1>1, ErrorKeepsRows DEF RequestFails
  <1>2. CASE RequestSucceeds(a)
    <2> DEFINE r == [row[a] EXCEPT
                 !.errors = 0,
                 !.strikes = 0,
                 !.status = IF row[a].status = "error" THEN "active" ELSE row[a].status,
                 !.clock = IF row[a].status = "error" THEN row[a].clock \ {"erroredAt"}
                                                      ELSE row[a].clock]
    <2>1. row' = [row EXCEPT ![a] = r] /\ UNCHANGED <<benched, moved>>
      BY <1>2 DEF RequestSucceeds
    <2>2. r \in Row /\ (InRotation(r) => InRotation(row[a]))
      BY <1>0, Zeros DEF Row, InRotation
    <2> HIDE DEF r
    <2> QED BY <2>1, <2>2, OnlyRowWritten
  <1>3. CASE RequestBanned(a)
    <2>1. PICK n \in {1, IF row[a].strikes < 2 THEN row[a].strikes + 1 ELSE 2} :
            row' = [row EXCEPT ![a].strikes = n,
                               ![a].status = IF n >= 2 THEN "banned" ELSE @]
      BY <1>3 DEF RequestBanned
    <2> DEFINE r == [row[a] EXCEPT !.strikes = n,
                                   !.status = IF n >= 2 THEN "banned" ELSE row[a].status]
    <2>2. n \in 0 .. 2
      BY <1>0, RowFields
    <2>3. r \in Row /\ (InRotation(r) => InRotation(row[a]))
      BY <1>0, <2>2 DEF Row, InRotation
    <2>4. row' = [row EXCEPT ![a] = r] /\ UNCHANGED <<benched, moved>>
      BY <2>1, <1>3 DEF RequestBanned
    <2> HIDE DEF r
    <2> QED BY <2>3, <2>4, OnlyRowWritten
  <1>4. CASE HalfOpen(a)
    <2> DEFINE r == [row[a] EXCEPT !.status = "active", !.errors = 0]
    <2>1. row' = [row EXCEPT ![a] = r] /\ UNCHANGED <<benched, moved>>
      BY <1>4 DEF HalfOpen
    <2>2. r \in Row /\ InRotation(row[a])
      BY <1>0, <1>4, Zeros DEF Row, InRotation, HalfOpen
    <2> HIDE DEF r
    <2> QED BY <2>1, <2>2, OnlyRowWritten
  <1> QED BY <1>1, <1>2, <1>3, <1>4 DEF Request

\* A login that returns is the only step of a re-login that writes a row.
LEMMA ReloginKeepsRows ==
    ASSUME RowsOK, minted \subseteq Keys, NEW a \in Accounts, Relogin(a)
    PROVE  RowsOK'
  <1>1. CASE ReloginReturns(a)
    <2>1. CASE UNCHANGED <<row, benched, moved>>
      BY <2>1, NoRowWritten
    <2>2. CASE ~UNCHANGED <<row, benched, moved>>
      <3>1. PICK k \in LoginKeys(a) :
              /\ row' = [row EXCEPT ![a] = Revived(row[a], k)]
              /\ benched' = benched \ {a}
              /\ moved' = moved \ {a}
        BY <1>1, <2>2 DEF ReloginReturns
      <3>2. row[a] \in Row /\ k \in Keys
        BY RowFields DEF RowsOK, LoginKeys
      <3> QED BY <3>1, <3>2, RevivedIsRow, RowReleased
    <2> QED BY <2>1, <2>2
  <1>2. CASE ~ReloginReturns(a)
    <2>1. UNCHANGED <<row, benched, moved>>
      BY <1>2 DEF Relogin, ReloginBegin, ReloginSkipped, ReloginAcquire, ReloginCancelled,
                  ReloginDispatch, ReloginStale, ReloginFails
    <2> QED BY <2>1, NoRowWritten
  <1> QED BY <1>1, <1>2

LEMMA ProbesKeepRows ==
    ASSUME RowsOK, NEW a \in Accounts, Check(a) \/ Sweep(a)
    PROVE  RowsOK'
  <1>1. CASE UNCHANGED <<row, benched, moved>>
    BY <1>1, NoRowWritten
  <1>2. CASE CheckSettles(a)
    BY <1>2, NoRowWritten, MarkKeepsRows, ClearKeepsRows DEF CheckSettles
  <1>3. CASE ProbeAlive(a)
    <2>1. CASE row[a].status = "error"
      <3> DEFINE r == [row[a] EXCEPT !.status = "active", !.errors = 0,
                                     !.clock = @ \ {"_errorAt"}]
      <3>1. row' = [row EXCEPT ![a] = r] /\ UNCHANGED <<benched, moved>>
        BY <1>3, <2>1 DEF ProbeAlive
      <3>2. row[a] \in Row /\ (row[a].clock \ {"_errorAt"}) \in SUBSET Stamps
        BY RowFields DEF RowsOK
      <3>3. r \in Row /\ InRotation(row[a])
        BY <3>2, <2>1, Zeros DEF Row, InRotation
      <3> HIDE DEF r
      <3> QED BY <3>1, <3>3, OnlyRowWritten
    <2>2. CASE row[a].status # "error"
      BY <1>3, <2>2, ClearKeepsRows DEF ProbeAlive
    <2> QED BY <2>1, <2>2
  <1>4. CASE ProbeDead(a)
    BY <1>4, ErrorKeepsRows DEF ProbeDead
  <1>5. CASE ProbeSettles(a)
    BY <1>5, NoRowWritten, MarkKeepsRows DEF ProbeSettles
  <1> QED BY <1>1, <1>2, <1>3, <1>4, <1>5
          DEF Check, Sweep, CheckBegin, CheckAnswered, CheckLost,
              ProbeBegin, ProbeAnswered, ProbeDropped

LEMMA OperatorKeepsRows ==
    ASSUME RowsOK, minted \subseteq Keys, NEW a \in Accounts, Operator(a)
    PROVE  RowsOK'
  <1>0. row[a] \in Row /\ row[a].key \in Keys
    BY RowFields DEF RowsOK
  <1>1. ASSUME NEW s \in {"active", "error", "disabled"}, NEW force \in BOOLEAN,
               SetAccountStatus(a, s, force)
        PROVE  RowsOK'
    <2> DEFINE r == IF s = "active"
                    THEN [row[a] EXCEPT !.status = s, !.errors = 0, !.strikes = 0]
                    ELSE [row[a] EXCEPT !.status = s]
    <2>1. row' = [row EXCEPT ![a] = r]
      BY <1>1 DEF SetAccountStatus
    <2>2. r \in Row
      BY <1>0, Zeros DEF Row
    <2>3. /\ benched' \subseteq benched /\ benched \ {a} \subseteq benched'
          /\ moved' = benched' \cap (moved \cup {a})
      BY <1>1 DEF SetAccountStatus
    <2> HIDE DEF r
    <2> QED BY <2>1, <2>2, <2>3, OneRowWritten DEF RowsOK
  <1>2. CASE ResetAccountErrors(a)
    <2> DEFINE r == [row[a] EXCEPT !.status = "active", !.errors = 0, !.strikes = 0]
    <2>1. /\ row' = [row EXCEPT ![a] = r]
          /\ benched' = benched /\ moved' = benched' \cap (moved \cup {a})
      BY <1>2 DEF ResetAccountErrors
    <2>2. r \in Row
      BY <1>0, Zeros DEF Row
    <2> HIDE DEF r
    <2> QED BY <2>1, <2>2, OneRowWritten DEF RowsOK
  <1>3. CASE PasteToken(a) \/ BoundLogin(a)
    <2>1. PICK k \in Keys, same \in BOOLEAN : MarkAccountReauthenticated(a, k, same)
      BY <1>3, <1>0 DEF PasteToken, BoundLogin, LoginKeys
    <2>2. /\ row' = [row EXCEPT ![a] = Revived(row[a], k)]
          /\ benched' = benched \ {a} /\ moved' = moved \ {a}
      BY <2>1 DEF MarkAccountReauthenticated
    <2> QED BY <1>0, <2>2, RevivedIsRow, RowReleased
  <1>4. CASE SetAccountTokens(a)
    <2>1. PICK k \in Keys : row' = [row EXCEPT ![a].key = k]
      BY <1>4 DEF SetAccountTokens
    <2> DEFINE r == [row[a] EXCEPT !.key = k]
    <2>2. r \in Row
      BY <1>0 DEF Row
    <2>3. row' = [row EXCEPT ![a] = r] /\ benched' = benched \ {a} /\ moved' = moved \ {a}
      BY <2>1, <1>4 DEF SetAccountTokens
    <2> HIDE DEF r
    <2> QED BY <2>2, <2>3, RowReleased
  <1>5. CASE AddAccountByEmail(a)
    <2>1. PICK k \in Keys :
            row' = [row EXCEPT ![a].key = k, ![a].errors = 0,
                               ![a].status = IF @ = "error" THEN "active" ELSE @]
      BY <1>5, <1>0 DEF AddAccountByEmail, LoginKeys
    <2> DEFINE r == [row[a] EXCEPT !.key = k, !.errors = 0,
                       !.status = IF row[a].status = "error" THEN "active" ELSE row[a].status]
    <2>2. r \in Row
      BY <1>0, Zeros DEF Row
    <2>3. row' = [row EXCEPT ![a] = r]
      BY <2>1
    <2>4. benched' = benched \ {a} /\ moved' = moved \ {a}
      BY <1>5 DEF AddAccountByEmail
    <2> HIDE DEF r
    <2> QED BY <2>2, <2>3, <2>4, RowReleased
  <1>6. CASE RemoveAccount(a)
    <2> DEFINE r == [row[a] EXCEPT !.status = "removed"]
    <2>1. row' = [row EXCEPT ![a] = r] /\ UNCHANGED <<benched, moved>>
      BY <1>6 DEF RemoveAccount
    <2>2. r \in Row /\ ~InRotation(r)
      BY <1>0 DEF Row, InRotation
    <2> HIDE DEF r
    <2> QED BY <2>1, <2>2, OnlyRowWritten
  <1> QED BY <1>1, <1>2, <1>3, <1>4, <1>5, <1>6 DEF Operator

\* What concerns the calls in flight, and the upstream.
CallsOK ==
    /\ attempt \in [Accounts -> Keys \cup {NoKey}]
    /\ sent \subseteq Accounts
    /\ check \in [Accounts -> Call]
    /\ probe \in [Accounts -> SweepCall]
    /\ retired \subseteq minted /\ minted \subseteq Keys

LEMMA LifecycleTypeOKParts ==
    LifecycleTypeOK /\ BenchedStaysOut <=> RowsOK /\ CallsOK /\ Gate!GateTypeOK
  BY DEF LifecycleTypeOK, RowsOK, CallsOK

LEMMA CallsInit == Init => CallsOK
  BY DEF Init, CallsOK, Idle, Call, SweepCall

LEMMA CallSteps ==
    ASSUME RowsOK, CallsOK, NEW a \in Accounts,
           Request(a) \/ Relogin(a) \/ Check(a) \/ Sweep(a) \/ Operator(a)
    PROVE  CallsOK'
  <1>0. row[a] \in Row /\ row[a].key \in Keys
    BY RowFields DEF RowsOK
  <1> USE DEF CallsOK
  <1>1. CASE Request(a)
    BY <1>1 DEF Request, RequestFails, RequestSucceeds, RequestBanned, HalfOpen, upstreamVars
  <1>2. CASE Relogin(a)
    BY <1>0, <1>2 DEF Relogin, ReloginBegin, ReloginSkipped, ReloginAcquire,
                ReloginCancelled, ReloginDispatch, ReloginStale, ReloginReturns, ReloginFails,
                ReloginFalse, SweepCall, LoginKeys, upstreamVars
  <1>3. CASE Check(a)
    BY <1>0, <1>3 DEF Check, CheckBegin, CheckAnswered, CheckLost, CheckSettles,
                Call, Idle, Verdict, upstreamVars
  <1>4. CASE Sweep(a)
    BY <1>0, <1>4 DEF Sweep, ProbeBegin, ProbeAnswered, ProbeDropped, ProbeAlive, ProbeDead,
                ProbeSettles, SweepCall, Idle, Verdict, upstreamVars
  <1>5. CASE Operator(a)
    BY <1>0, <1>5 DEF Operator, SetAccountStatus, ResetAccountErrors, PasteToken, BoundLogin,
                MarkAccountReauthenticated, SetAccountTokens, AddAccountByEmail,
                RemoveAccount, LoginKeys, upstreamVars
  <1> QED BY <1>1, <1>2, <1>3, <1>4, <1>5

LEMMA GateSteps ==
    ASSUME Gate!GateTypeOK, NEW a \in Accounts,
           Request(a) \/ Relogin(a) \/ Check(a) \/ Sweep(a) \/ Operator(a)
    PROVE  UNCHANGED gateVars \/ GateStep(a)
  <1>1. CASE Relogin(a)
    BY <1>1 DEF Relogin, ReloginBegin, ReloginSkipped, ReloginAcquire, ReloginCancelled,
                ReloginDispatch, ReloginStale, ReloginReturns, ReloginFails, GateStep
  <1>2. CASE Request(a) \/ Check(a) \/ Sweep(a)
    BY <1>2 DEF Request, RequestFails, RequestSucceeds, RequestBanned, HalfOpen,
                Check, CheckBegin, CheckAnswered, CheckLost, CheckSettles,
                Sweep, ProbeBegin, ProbeAnswered, ProbeDropped, ProbeAlive, ProbeDead,
                ProbeSettles
  <1>3. CASE Operator(a)
    BY <1>3 DEF Operator, SetAccountStatus, ResetAccountErrors, PasteToken, BoundLogin,
                MarkAccountReauthenticated, SetAccountTokens, AddAccountByEmail,
                RemoveAccount
  <1> QED BY <1>1, <1>2, <1>3

\* The inductive invariant: BenchedStaysOut is inductive beside the types, since
\* every path that writes a status reads the row again first.
IInv == RowsOK /\ CallsOK /\ Gate!GateTypeOK

LEMMA InitIInv == Init => IInv
  <1>1. Init => Gate!GateTypeOK
    BY DEF Init, Gate!GateInit, Gate!GateTypeOK
  <1> QED BY <1>1, RowsInit, CallsInit DEF IInv

LEMMA NextIInv == IInv /\ [Next]_vars => IInv'
  <1> SUFFICES ASSUME IInv, [Next]_vars PROVE IInv'
    OBVIOUS
  <1> USE DEF IInv
  <1>1. ASSUME NEW a \in Accounts,
               Request(a) \/ Relogin(a) \/ Check(a) \/ Sweep(a) \/ Operator(a)
        PROVE  IInv'
    <2>1. RowsOK'
      BY <1>1, RequestKeepsRows, ReloginKeepsRows, ProbesKeepRows, OperatorKeepsRows
         DEF CallsOK
    <2>2. CallsOK'
      BY <1>1, CallSteps
    <2>3. Gate!GateTypeOK'
      <3>1. CASE UNCHANGED gateVars
        BY <3>1 DEF gateVars, Gate!GateTypeOK
      <3>2. CASE GateStep(a)
        BY <3>2, GateTyped
      <3> QED BY <1>1, <3>1, <3>2, GateSteps
    <2> QED BY <2>1, <2>2, <2>3
  <1>2. CASE Upstream
    <2>1. /\ UNCHANGED <<row, benched, moved, gateVars, attempt, sent, check, probe, minted>>
          /\ retired' \subseteq minted
      BY <1>2 DEF Upstream, RetireKey, RestoreKey, CallsOK
    <2>2. RowsOK'
      BY <2>1, NoRowWritten
    <2> QED BY <2>1, <2>2 DEF CallsOK, Gate!GateTypeOK, gateVars
  <1>3. CASE UNCHANGED vars
    <2>1. RowsOK'
      BY <1>3, NoRowWritten DEF vars
    <2> QED BY <1>3, <2>1 DEF vars, CallsOK, Gate!GateTypeOK
  <1> QED BY <1>1, <1>2, <1>3 DEF Next

\* Every account record, gate and call in flight keeps its type (src/auth.js).
THEOREM LifecycleTypes == Spec => []LifecycleTypeOK
  <1>1. IInv => LifecycleTypeOK
    BY LifecycleTypeOKParts DEF IInv
  <1> QED BY <1>1, InitIInv, NextIInv, PTL DEF Spec

\* A key that a probe confirmed dead stays out of rotation through outcomes of
\* requests, half-open recovery, dropped probes and late logins, until a probe
\* says ALIVE.
THEOREM BenchHolds == Spec => []BenchedStaysOut
  <1>1. IInv => BenchedStaysOut
    BY DEF IInv, RowsOK
  <1> QED BY <1>1, InitIInv, NextIInv, PTL DEF Spec

-----------------------------------------------------------------------------

\* A step that is not the operator's does not touch the status of a parked row.
LEMMA ParkedRowUntouched ==
    ASSUME RowsOK, NEW a \in Accounts, NEW b \in Accounts, Terminal(b),
           Request(a) \/ Relogin(a) \/ Check(a) \/ Sweep(a)
    PROVE  row'[b].status = row[b].status
  <1> USE DEF RowsOK, Terminal
  <1>1. CASE RequestFails(a) \/ ProbeDead(a)
    <2>1. CASE UNCHANGED row
      BY <2>1
    <2>2. CASE ~UNCHANGED row
      <3>1. \A c \in Accounts \ {a} : row'[c] = row[c]
        BY <1>1, <2>2 DEF RequestFails, ProbeDead, ReportErrorOn
      <3>2. a # b
        BY <1>1, <2>2 DEF RequestFails, ProbeDead, ReportErrorOn
      <3> QED BY <3>1, <3>2
    <2> QED BY <2>1, <2>2
  <1>2. CASE RequestSucceeds(a) \/ RequestBanned(a) \/ HalfOpen(a)
    BY <1>2 DEF RequestSucceeds, RequestBanned, HalfOpen, Row
  <1>3. CASE Relogin(a)
    BY <1>3 DEF Relogin, ReloginBegin, ReloginSkipped, ReloginAcquire, ReloginCancelled,
                ReloginDispatch, ReloginStale, ReloginReturns, ReloginFails, StillOwns
  <1>4. CASE Check(a)
    BY <1>4 DEF Check, CheckBegin, CheckAnswered, CheckLost, CheckSettles,
                MarkNeedsReauth, ClearNeedsReauth
  <1>5. CASE ProbeBegin(a) \/ ProbeAnswered(a) \/ ProbeDropped(a)
             \/ ProbeAlive(a) \/ ProbeSettles(a)
    BY <1>5 DEF ProbeBegin, ProbeAnswered, ProbeDropped, ProbeAlive, ProbeSettles,
                MarkNeedsReauth, ClearNeedsReauth
  <1> QED BY <1>1, <1>2, <1>3, <1>4, <1>5 DEF Request, Sweep

\* The operator acts on one row, and leaves the others as they are.
LEMMA OperatorOneRow ==
    ASSUME RowsOK, NEW a \in Accounts, NEW b \in Accounts, Operator(a), b # a
    PROVE  row'[b] = row[b]
  BY DEF RowsOK, Operator, SetAccountStatus, ResetAccountErrors, PasteToken, BoundLogin,
         MarkAccountReauthenticated, SetAccountTokens, AddAccountByEmail, RemoveAccount

\* What the operator parked, only the operator moves.
THEOREM OperatorIntent == Spec => OperatorIntentHolds
  <1> DEFINE Intent == \A a \in Accounts :
                         Terminal(a) /\ row'[a].status # row[a].status => Operator(a)
  <1>1. IInv /\ [Next]_vars => [Intent]_vars
    <2> SUFFICES ASSUME IInv, Next, NEW b \in Accounts,
                        Terminal(b), row'[b].status # row[b].status
                 PROVE  Operator(b)
      BY DEF Intent
    <2>1. PICK a \in Accounts :
            Request(a) \/ Relogin(a) \/ Check(a) \/ Sweep(a) \/ Operator(a)
      BY DEF Next, Upstream, RetireKey, RestoreKey
    <2>2. Operator(a)
      BY <2>1, ParkedRowUntouched DEF IInv
    <2>3. a = b
      BY <2>2, OperatorOneRow DEF IInv
    <2> QED BY <2>2, <2>3
  <1> QED BY <1>1, InitIInv, NextIInv, PTL DEF Spec, OperatorIntentHolds

\* The re-login paths of the pool implement the gate: no revalidation, failure or
\* cancellation takes or frees a slot except as the gate allows.
THEOREM UsesGate == Spec => GateProtocol
  <1>1. Init => Gate!GateInit
    BY DEF Init
  <1>2. IInv /\ [Next]_vars => [Gate!GateNext]_(Gate!gateVars)
    <2> SUFFICES ASSUME IInv, [Next]_vars
                 PROVE  Gate!GateNext \/ UNCHANGED Gate!gateVars
      OBVIOUS
    <2> USE DEF gateVars, Gate!gateVars
    <2>1. ASSUME NEW a \in Accounts,
                 Request(a) \/ Relogin(a) \/ Check(a) \/ Sweep(a) \/ Operator(a)
          PROVE  Gate!GateNext \/ UNCHANGED Gate!gateVars
      <3>1. UNCHANGED gateVars \/ GateStep(a)
        BY <2>1, GateSteps DEF IInv
      <3> QED BY <3>1 DEF GateStep, Gate!GateNext
    <2>2. CASE Upstream
      BY <2>2 DEF Upstream, RetireKey, RestoreKey
    <2>3. CASE UNCHANGED vars
      BY <2>3 DEF vars
    <2> QED BY <2>1, <2>2, <2>3 DEF Next
  <1> QED BY <1>1, <1>2, InitIInv, NextIInv, PTL DEF Spec, GateProtocol, Gate!GateSpec

-----------------------------------------------------------------------------

\* What ReloginGateProofs proves of any attempts, read for the accounts.
GateFacts == INSTANCE ReloginGateProofs WITH Attempts <- Accounts

\* The queue of the pool's re-logins holds each waiting row once, and no other: the
\* theorem about the gate carries over, because the pool implements the gate.
THEOREM PoolQueueExact == Spec => []Gate!QueueIsExact
  <1>1. MaxConcurrent \in Nat \ {0} /\ GateFacts!IsFiniteSet(Accounts)
    BY LifecycleAssumption DEF GateFacts!IsFiniteSet, IsFiniteSet
  <1>2. GateFacts!GateSpec => [](GateFacts!QueueIsExact /\ GateFacts!NoIdleSlotWithWaiters)
    BY <1>1, GateFacts!GateNoLostWaiter, PTL
  <1>3. Gate!QueueIsExact <=> GateFacts!QueueIsExact
    BY DEF Gate!QueueIsExact, GateFacts!QueueIsExact, Gate!Queued, GateFacts!Queued,
           Gate!Positions, GateFacts!Positions
  <1>4. Gate!GateInit <=> GateFacts!GateInit
    BY DEF Gate!GateInit, GateFacts!GateInit
  <1>5. [Gate!GateNext]_(Gate!gateVars) <=> [GateFacts!GateNext]_(GateFacts!gateVars)
    <2>1. /\ Gate!gateVars = GateFacts!gateVars
          /\ Gate!gateVars' = GateFacts!gateVars'
      BY DEF Gate!gateVars, GateFacts!gateVars
    <2>2. Gate!GateNext <=> GateFacts!GateNext
      BY DEF Gate!GateNext, GateFacts!GateNext, Gate!Acquire, GateFacts!Acquire,
             Gate!AcquireAtOnce, GateFacts!AcquireAtOnce, Gate!Enqueue, GateFacts!Enqueue,
             Gate!Cancel, GateFacts!Cancel, Gate!Positions, GateFacts!Positions,
             Gate!Splice, GateFacts!Splice, Gate!Release, GateFacts!Release,
             Gate!ReleaseIdle, GateFacts!ReleaseIdle,
             Gate!ReleaseToWaiter, GateFacts!ReleaseToWaiter
    <2> QED BY <2>1, <2>2
  <1>6. Gate!GateSpec => GateFacts!GateSpec
    BY <1>4, <1>5, PTL DEF Gate!GateSpec, GateFacts!GateSpec
  <1>7. Spec => Gate!GateSpec
    BY UsesGate DEF GateProtocol
  <1> QED BY <1>2, <1>3, <1>6, <1>7, PTL

\* A step that is no operation of the gate writes no slot of it, and one that is
\* leaves every slot, place in the queue and login RPC with an attempt in flight.
LEMMA SlotSteps ==
    ASSUME IInv, Gate!QueueIsExact, SlotHasAttempt, [Next]_vars
    PROVE  SlotHasAttempt'
  <1> USE LifecycleAssumption DEF SlotHasAttempt, IInv, CallsOK, Gate!GateTypeOK, ReloginFalse
  <1>1. ASSUME NEW a \in Accounts, Relogin(a)
        PROVE  SlotHasAttempt'
    <2>1. CASE ReloginBegin(a) \/ ReloginSkipped(a) \/ ReloginDispatch(a)
      <3>1. \A b \in Accounts \ {a} : attempt'[b] = attempt[b]
        BY <2>1 DEF ReloginBegin, ReloginSkipped, ReloginDispatch
      <3>2. attempt'[a] # NoKey \/ pc[a] = "out" 
        BY <2>1, RowFields DEF ReloginBegin, ReloginSkipped, ReloginDispatch, RowsOK
      <3>3. pc' = pc /\ sent' \subseteq sent \cup {a} /\ (a \in sent' \ sent => pc[a] = "login")
        BY <2>1 DEF ReloginBegin, ReloginSkipped, ReloginDispatch, gateVars
      <3> QED BY <3>1, <3>2, <3>3
    <2>2. CASE ReloginAcquire(a)
      <3>1. pc[a] = "out" /\ \A b \in Accounts \ {a} : pc'[b] = pc[b]
        BY <2>2 DEF ReloginAcquire, Gate!Acquire, Gate!AcquireAtOnce, Gate!Enqueue
      <3>2. attempt[a] # NoKey /\ UNCHANGED <<attempt, sent>>
        BY <2>2 DEF ReloginAcquire
      <3> QED BY <3>1, <3>2
    <2>3. CASE ReloginCancelled(a)
      <3>1. pc[a] = "queued" /\ pc' = [pc EXCEPT ![a] = "out"] /\ UNCHANGED sent
        BY <2>3 DEF ReloginCancelled, Gate!Cancel
      <3>2. attempt' = [attempt EXCEPT ![a] = NoKey]
        BY <2>3 DEF ReloginCancelled
      <3> QED BY <3>1, <3>2
    <2>4. CASE ReloginStale(a) \/ ReloginReturns(a) \/ ReloginFails(a)
      <3>1. Gate!Release(a) /\ attempt' = [attempt EXCEPT ![a] = NoKey]
               /\ sent' \subseteq sent /\ a \notin sent'
        BY <2>4 DEF ReloginStale, ReloginReturns, ReloginFails
      <3>2. CASE Gate!ReleaseToWaiter(a)
        <4>1. Head(waiters) \in Accounts /\ pc[Head(waiters)] = "queued"
          BY <3>2 DEF Gate!ReleaseToWaiter, Gate!QueueIsExact, Gate!Queued, Gate!Positions
        <4>2. pc' = [pc EXCEPT ![a] = "out", ![Head(waiters)] = "login"] /\ pc[a] = "login"
          BY <3>2 DEF Gate!ReleaseToWaiter
        <4> QED BY <3>1, <4>1, <4>2
      <3>3. CASE Gate!ReleaseIdle(a)
        <4>1. pc' = [pc EXCEPT ![a] = "out"]
          BY <3>3 DEF Gate!ReleaseIdle
        <4> QED BY <3>1, <4>1
      <3> QED BY <3>1, <3>2, <3>3 DEF Gate!Release
    <2> QED BY <1>1, <2>1, <2>2, <2>3, <2>4 DEF Relogin
  <1>2. ASSUME NEW a \in Accounts, Request(a) \/ Check(a) \/ Operator(a)
        PROVE  UNCHANGED <<pc, attempt, sent>>
    <2>1. CASE Request(a)
      BY <2>1 DEF Request, RequestFails, RequestSucceeds, RequestBanned, HalfOpen, gateVars
    <2>2. CASE Check(a)
      BY <2>2 DEF Check, CheckBegin, CheckAnswered, CheckLost, CheckSettles, gateVars
    <2>3. CASE Operator(a)
      BY <2>3 DEF Operator, SetAccountStatus, ResetAccountErrors, PasteToken, BoundLogin,
              MarkAccountReauthenticated, SetAccountTokens, AddAccountByEmail,
              RemoveAccount, gateVars
    <2> QED BY <1>2, <2>1, <2>2, <2>3
  <1>3. ASSUME NEW a \in Accounts, Sweep(a)
        PROVE  /\ UNCHANGED <<pc, sent>>
               /\ \A b \in Accounts : attempt[b] # NoKey => attempt'[b] # NoKey
    BY <1>3 DEF Sweep, ProbeBegin, ProbeAnswered, ProbeDropped, ProbeAlive, ProbeDead,
                ProbeSettles, gateVars
  <1>4. CASE Upstream \/ UNCHANGED vars
    BY <1>4 DEF Upstream, RetireKey, RestoreKey, vars, gateVars
  <1> QED BY <1>1, <1>2, <1>3, <1>4 DEF Next

\* No revalidation, cancellation or failure of a re-login leaves a slot, a place in
\* the queue or a login RPC behind without an attempt (src/auth.js).
THEOREM SlotsOwned == Spec => []SlotHasAttempt
  <1>1. Init => SlotHasAttempt
    BY DEF Init, SlotHasAttempt, Gate!GateInit
  <1>2. IInv /\ Gate!QueueIsExact /\ SlotHasAttempt /\ [Next]_vars => SlotHasAttempt'
    BY SlotSteps
  <1> QED BY <1>1, <1>2, PoolQueueExact, InitIInv, NextIInv, PTL DEF Spec

\* Charging an error, benching a row and clearing it write the status, the count and
\* the stamps of that row.
LEMMA StatusWrites ==
    ASSUME row \in [Accounts -> Row], NEW a \in Accounts,
           ReportErrorOn(a) \/ MarkNeedsReauth(a) \/ ClearNeedsReauth(a)
    PROVE  /\ \A b \in Accounts \ {a} : row'[b] = row[b]
           /\ row'[a].key = row[a].key
           /\ row'[a].status = "error" /\ row[a].status # "error" => ReportErrorOn(a)
  <1>1. CASE ReportErrorOn(a)
    <2>1. CASE UNCHANGED row
      BY <1>1, <2>1
    <2>2. CASE ~UNCHANGED row
      <3>1. PICK streak \in {0, row[a].errors}, exempt \in BOOLEAN :
              LET n       == IF streak < Threshold THEN streak + 1 ELSE Threshold
                  charged == [row[a] EXCEPT !.errors = n, !.clock = @ \cup {"_errorAt"}]
                  opens   == n >= Threshold /\ row[a].status # "error" /\ ~exempt
              IN  row' = [row EXCEPT ![a] =
                            IF opens THEN [charged EXCEPT !.status = "error",
                                                          !.clock = Stamps]
                                     ELSE charged]
        BY <1>1, <2>2 DEF ReportErrorOn
      <3>2. /\ row'[a].key = row[a].key
            /\ \A b \in Accounts \ {a} : row'[b] = row[b]
        BY <3>1 DEF Row
      <3> QED BY <1>1, <3>2
    <2> QED BY <2>1, <2>2
  <1>2. CASE MarkNeedsReauth(a)
    BY <1>2 DEF MarkNeedsReauth, Row
  <1>3. CASE ClearNeedsReauth(a)
    BY <1>3 DEF ClearNeedsReauth, Row
  <1> QED BY <1>1, <1>2, <1>3

\* Only a login that returns in time, or the operator, changes the key of a row.
LEMMA KeyWriters ==
    ASSUME IInv, NEW a \in Accounts, NEW b \in Accounts, row'[b].key # row[b].key,
           Request(a) \/ Relogin(a) \/ Check(a) \/ Sweep(a) \/ Operator(a)
    PROVE  a = b /\ (Operator(a) \/ (ReloginReturns(a) /\ StillOwns(a, attempt[a])))
  <1> USE DEF IInv, RowsOK
  <1>1. CASE Request(a) \/ Check(a) \/ Sweep(a)
    <2>1. CASE RequestFails(a) \/ ProbeDead(a)
      BY <2>1, StatusWrites DEF RequestFails, ProbeDead
    <2>2. CASE RequestSucceeds(a) \/ RequestBanned(a) \/ HalfOpen(a)
      BY <2>2 DEF RequestSucceeds, RequestBanned, HalfOpen, Row
    <2>3. CASE Check(a)
      BY <2>3, StatusWrites DEF Check, CheckBegin, CheckAnswered, CheckLost, CheckSettles
    <2>4. CASE ProbeBegin(a) \/ ProbeAnswered(a) \/ ProbeDropped(a)
             \/ ProbeAlive(a) \/ ProbeSettles(a)
      BY <2>4, StatusWrites
         DEF ProbeBegin, ProbeAnswered, ProbeDropped, ProbeAlive, ProbeSettles, Row
    <2> QED BY <1>1, <2>1, <2>2, <2>3, <2>4 DEF Request, Sweep
  <1>2. CASE Relogin(a)
    BY <1>2 DEF Relogin, ReloginBegin, ReloginSkipped, ReloginAcquire, ReloginCancelled,
                ReloginDispatch, ReloginStale, ReloginReturns, ReloginFails
  <1>3. CASE Operator(a)
    BY <1>3, OperatorOneRow
  <1> QED BY <1>1, <1>2, <1>3

\* A login that returns late installs its key on the row it set out for and over the
\* key it set out from, or nowhere.
THEOREM LoginKeyOwned == Spec => LoginReplacesItsOwnKey
  <1> DEFINE Owned == \A a \in sent : row'[a].key # row[a].key /\ a \notin sent'
                        => StillOwns(a, attempt[a])
  <1>1. IInv /\ [Next]_vars => [Owned]_vars
    <2> SUFFICES ASSUME IInv, Next, NEW b \in sent,
                        row'[b].key # row[b].key, b \notin sent'
                 PROVE  StillOwns(b, attempt[b])
      BY DEF Owned
    <2>1. b \in Accounts
      BY DEF IInv, CallsOK
    <2>2. PICK a \in Accounts :
            Request(a) \/ Relogin(a) \/ Check(a) \/ Sweep(a) \/ Operator(a)
      BY <2>1 DEF Next, Upstream, RetireKey, RestoreKey
    <2>3. a = b /\ (Operator(a) \/ (ReloginReturns(a) /\ StillOwns(a, attempt[a])))
      BY <2>1, <2>2, KeyWriters
    <2>4. ~Operator(a)
      BY <2>3 DEF Operator, SetAccountStatus, ResetAccountErrors, PasteToken, BoundLogin,
              MarkAccountReauthenticated, SetAccountTokens, AddAccountByEmail,
              RemoveAccount
    <2> QED BY <2>3, <2>4
  <1> QED BY <1>1, InitIInv, NextIInv, PTL DEF Spec, LoginReplacesItsOwnKey

\* A row goes into error by reportError or by the operator's hand.
LEMMA ErrorWriters ==
    ASSUME IInv, NEW a \in Accounts, NEW b \in Accounts,
           row'[b].status = "error", row[b].status # "error",
           Request(a) \/ Relogin(a) \/ Check(a) \/ Sweep(a) \/ Operator(a)
    PROVE  a = b /\ (Operator(a) \/ ReportErrorOn(a))
  <1> USE DEF IInv, RowsOK
  <1>1. CASE RequestFails(a) \/ ProbeDead(a)
    BY <1>1, StatusWrites DEF RequestFails, ProbeDead
  <1>2. CASE RequestSucceeds(a) \/ RequestBanned(a) \/ HalfOpen(a)
    BY <1>2 DEF RequestSucceeds, RequestBanned, HalfOpen, Row
  <1>3. CASE Check(a)
    BY <1>3, StatusWrites
       DEF Check, CheckBegin, CheckAnswered, CheckLost, CheckSettles, MarkNeedsReauth,
           ClearNeedsReauth
  <1>4. CASE ProbeBegin(a) \/ ProbeAnswered(a) \/ ProbeDropped(a)
           \/ ProbeAlive(a) \/ ProbeSettles(a)
    BY <1>4, StatusWrites
       DEF ProbeBegin, ProbeAnswered, ProbeDropped, ProbeAlive, ProbeSettles, Row
  <1>5. CASE Relogin(a)
    <2>1. CASE ReloginReturns(a)
      <3>1. PICK k : row' = [row EXCEPT ![a] = Revived(row[a], k)]
        BY <2>1 DEF ReloginReturns
      <3> QED BY <3>1 DEF Revived, Row
    <2>2. CASE ~ReloginReturns(a)
      BY <1>5, <2>2
         DEF Relogin, ReloginBegin, ReloginSkipped, ReloginAcquire, ReloginCancelled,
             ReloginDispatch, ReloginStale, ReloginFails
    <2> QED BY <2>1, <2>2
  <1>6. CASE Operator(a)
    BY <1>6, OperatorOneRow
  <1> QED BY <1>1, <1>2, <1>3, <1>4, <1>5, <1>6 DEF Request, Sweep

\* The breaker opens on a row only while another one is in rotation, and that one
\* is not touched.
LEMMA BreakerSparesTheLast ==
    ASSUME IInv, NEW a \in Accounts, ReportErrorOn(a),
           row'[a].status = "error", row[a].status # "error"
    PROVE  \E b \in Accounts \ {a} : row'[b].status = "active"
  <1> USE DEF IInv, RowsOK
  <1>1. row' # row
    OBVIOUS
  <1>2. PICK streak \in {0, row[a].errors}, exempt \in BOOLEAN :
          LET n       == IF streak < Threshold THEN streak + 1 ELSE Threshold
              charged == [row[a] EXCEPT !.errors = n, !.clock = @ \cup {"_errorAt"}]
              opens   == n >= Threshold /\ row[a].status # "error" /\ ~exempt
          IN  /\ LastUsable(a) => exempt
              /\ row' = [row EXCEPT ![a] =
                           IF opens THEN [charged EXCEPT !.status = "error",
                                                         !.clock = Stamps]
                                    ELSE charged]
    BY <1>1 DEF ReportErrorOn
  <1>3. ~exempt
    BY <1>2 DEF Row
  <1>4. ~LastUsable(a)
    BY <1>2, <1>3
  <1>5. \A b \in Accounts \ {a} : row'[b] = row[b]
    BY StatusWrites
  <1> QED BY <1>4, <1>5 DEF LastUsable

\* No outcome of a request and no probe that only counts an error leaves the pool
\* without an account in rotation.
THEOREM LastAccount == Spec => LastAccountKept
  <1> DEFINE Kept == (\E a \in Accounts : row[a].status = "active")
         /\ (\A a \in Accounts : row'[a].status # "active")
       => \A a \in Accounts : row'[a].status = "error" => row[a].status = "error"
                               \/ Operator(a)
  <1>1. IInv /\ [Next]_vars => [Kept]_vars
    <2> SUFFICES ASSUME IInv, Next, NEW b \in Accounts,
                        \A a \in Accounts : row'[a].status # "active",
                        row'[b].status = "error", row[b].status # "error"
                 PROVE  Operator(b)
      BY DEF Kept
    <2>1. PICK a \in Accounts :
            Request(a) \/ Relogin(a) \/ Check(a) \/ Sweep(a) \/ Operator(a)
      BY DEF Next, Upstream, RetireKey, RestoreKey
    <2>2. a = b /\ (Operator(a) \/ ReportErrorOn(a))
      BY <2>1, ErrorWriters
    <2>3. ~ReportErrorOn(b)
      BY BreakerSparesTheLast
    <2> QED BY <2>2, <2>3
  <1> QED BY <1>1, InitIInv, NextIInv, PTL DEF Spec, LastAccountKept
=============================================================================
