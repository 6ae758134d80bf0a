----------------------- MODULE ConnectRequestProofs -----------------------
(***************************************************************************)
(* The Connect path: the failover loop, for any rows, keys and requests,   *)
(* any mix of streams and whole answers, and any bound on the hops; and    *)
(* the sessions of the dialogs that come that way (SessionContinuity), for *)
(* any dialogs and answers and any window.  What makes these apart is that *)
(* a pair tells who asked it and where, and so the way that led to it: the *)
(* last pair of a window stands for a whole history, however short the     *)
(* window, and a state for a place in the tree of histories.               *)
(***************************************************************************)
EXTENDS ConnectRequest, SessionContinuity, ListingProofs, FiniteSetTheorems, TLAPS

USE ConnectAssumption

\* A request that looks for another account has a hop left.
HopsLeft == \A r \in Requests : pc[r] = "pausing" => hops[r] < MaxHops

\* A request that has an account has a key to present.
KeyInHand == \A r \in Requests : row[r] \in Rows => cred[r] \in Keys

-----------------------------------------------------------------------------
\* The pieces of actions, in the terms their callers need.
LEMMA LeaveTypes ==
    ASSUME NEW r \in Requests, NEW where \in {"pausing", "done"}, ConnectTypeOK,
           Leave(r, where)
    PROVE  /\ pc' \in [Requests -> Holding \cup {"idle", "pausing", "done"}]
           /\ row' \in [Requests -> Rows \cup {NoRow}]
           /\ cred' \in [Requests -> Keys \cup {NoKey}]
           /\ tried' \in [Requests -> SUBSET Keys]
           /\ hops' \in [Requests -> 0 .. MaxHops]
           /\ gone' \in [Requests -> BOOLEAN]
           /\ pc' = [pc EXCEPT ![r] = where]
<1>1. 0 \in 0 .. MaxHops /\ {} \in SUBSET Keys OBVIOUS
<1>2. /\ pc' = [pc EXCEPT ![r] = where]
      /\ row' = [row EXCEPT ![r] = NoRow] /\ cred' = [cred EXCEPT ![r] = NoKey]
  BY DEF Leave, Goto
<1>3. /\ tried' \in [Requests -> SUBSET Keys]
      /\ hops' \in [Requests -> 0 .. MaxHops]
      /\ gone' \in [Requests -> BOOLEAN]
  <2>1. CASE where = "done"
    <3>1. /\ tried' = [tried EXCEPT ![r] = {}] /\ hops' = [hops EXCEPT ![r] = 0]
          /\ gone' = [gone EXCEPT ![r] = FALSE]
      BY <2>1 DEF Leave
    <3>2. QED BY <1>1, <3>1 DEF ConnectTypeOK
  <2>2. CASE where # "done"
    <3>1. UNCHANGED <<tried, hops, gone>> BY <2>2 DEF Leave
    <3>2. QED BY <3>1 DEF ConnectTypeOK
  <2>3. QED BY <2>1, <2>2
<1>4. QED BY <1>2, <1>3 DEF ConnectTypeOK, Holding

LEMMA ReleaseTypes ==
    ASSUME NEW r \in Requests, ConnectTypeOK, Release(r)
    PROVE  inflight' \in [Rows -> Nat]
BY DEF Release, InPool, ConnectTypeOK

\* What a request leaves behind when it ends or goes to look for another
\* account: well typed, and its reply open exactly if it goes on.
LEMMA EndTypes ==
    ASSUME NEW r \in Requests, ConnectTypeOK, pc[r] # "done", End(r)
    PROVE  /\ pc' \in [Requests -> Holding \cup {"idle", "pausing", "done"}]
           /\ row' \in [Requests -> Rows \cup {NoRow}]
           /\ cred' \in [Requests -> Keys \cup {NoKey}]
           /\ tried' \in [Requests -> SUBSET Keys]
           /\ hops' \in [Requests -> 0 .. MaxHops]
           /\ gone' \in [Requests -> BOOLEAN]
           /\ reply' \in [Requests -> {"open", "ok", "error", "gone"}]
           /\ UNCHANGED <<wire, saved>>
           /\ \A s \in Requests : pc'[s] = "done" <=> reply'[s] # "open"
<1>1. Leave(r, "done") BY DEF End
<1>2. pc' = [pc EXCEPT ![r] = "done"] BY <1>1, LeaveTypes
<1>3. reply' = [reply EXCEPT ![r] = IF gone[r] THEN "gone" ELSE "error"] BY DEF End
<1>4. \A s \in Requests : pc'[s] = "done" <=> reply'[s] # "open"
  BY <1>2, <1>3 DEF ConnectTypeOK
<1>5. QED BY <1>1, <1>3, <1>4, LeaveTypes DEF End, ConnectTypeOK

LEMMA EndOrHopTypes ==
    ASSUME NEW r \in Requests, NEW mayHop, ConnectTypeOK, pc[r] # "done",
           EndOrHop(r, mayHop)
    PROVE  /\ pc' \in [Requests -> Holding \cup {"idle", "pausing", "done"}]
           /\ row' \in [Requests -> Rows \cup {NoRow}]
           /\ cred' \in [Requests -> Keys \cup {NoKey}]
           /\ tried' \in [Requests -> SUBSET Keys]
           /\ hops' \in [Requests -> 0 .. MaxHops]
           /\ gone' \in [Requests -> BOOLEAN]
           /\ reply' \in [Requests -> {"open", "ok", "error", "gone"}]
           /\ UNCHANGED <<wire, saved>>
           /\ \A s \in Requests : pc'[s] = "done" <=> reply'[s] # "open"
<1>1. CASE End(r) BY <1>1, EndTypes
<1>2. CASE Leave(r, "pausing") /\ UNCHANGED client
  <2>1. pc' = [pc EXCEPT ![r] = "pausing"] BY <1>2, LeaveTypes
  <2>2. UNCHANGED <<reply, wire, saved>> BY <1>2 DEF client
  <2>3. \A s \in Requests : pc'[s] = "done" <=> reply'[s] # "open"
    BY <2>1, <2>2 DEF ConnectTypeOK
  <2>4. QED BY <1>2, <2>2, <2>3, LeaveTypes DEF ConnectTypeOK
<1>3. QED BY <1>1, <1>2 DEF EndOrHop

LEMMA SettleTypes ==
    ASSUME NEW r \in Requests, NEW class, ConnectTypeOK, Settle(r, class),
           pc[r] \in Holding
    PROVE  /\ key' = key /\ issued' = issued
           /\ inflight' \in [Rows -> Nat]
           /\ cooled' \in [Rows -> {"no", "throttled", "barred"}]
           /\ verdicts' \in [Rows -> SUBSET (Rows \X Keys)]
<1>1. inflight' \in [Rows -> Nat] BY ReleaseTypes DEF Settle
<1>2. cooled' \in [Rows -> {"no", "throttled", "barred"}] BY DEF Settle, ConnectTypeOK
<1>3. verdicts' \in [Rows -> SUBSET (Rows \X Keys)]
  <2>1. CASE InPool(row[r]) /\ EpochCurrent(r)
    <3>1. <<row[r], cred[r]>> \in Rows \X Keys BY <2>1 DEF InPool, EpochCurrent
    <3>2. QED BY <3>1 DEF Settle, ConnectTypeOK
  <2>2. CASE ~(InPool(row[r]) /\ EpochCurrent(r)) BY <2>2 DEF Settle, ConnectTypeOK
  <2>3. QED BY <2>1, <2>2
<1>4. QED BY <1>1, <1>2, <1>3 DEF Settle

\* The account a request is given is a row of the pool, its key that row's key.
LEMMA HoldTypes ==
    ASSUME NEW r \in Requests, NEW a \in Rows \cup {NoRow}, ConnectTypeOK,
           Hold(r, a), a \in Rows => InPool(a)
    PROVE  /\ row' \in [Requests -> Rows \cup {NoRow}]
           /\ cred' \in [Requests -> Keys \cup {NoKey}]
           /\ inflight' \in [Rows -> Nat]
BY DEF Hold, InPool, ConnectTypeOK

-----------------------------------------------------------------------------
\* The inductive invariant of the loop itself: types, and what a request that
\* looks for an account or has one can count on.
THEOREM ConnectInduction == Spec => [](ConnectTypeOK /\ HopsLeft /\ KeyInHand)
<1>1. Init => ConnectTypeOK
  <2> SUFFICES ASSUME Init PROVE ConnectTypeOK OBVIOUS
  <2>1. 0 \in 0 .. MaxHops /\ 0 \in Nat OBVIOUS
  <2>2. issued \subseteq Keys BY DEF Init
  <2>3. key \in [Rows -> Keys \cup {Never, Removed}] BY DEF Init
  <2>4. QED BY <2>1, <2>2, <2>3 DEF Init, ConnectTypeOK, Holding
<1>2. ConnectTypeOK /\ HopsLeft /\ KeyInHand /\ [Next]_vars => ConnectTypeOK'
  <2> SUFFICES ASSUME ConnectTypeOK, HopsLeft, KeyInHand, [Next]_vars
               PROVE  ConnectTypeOK' OBVIOUS
  <2>1. ASSUME NEW a \in Rows, Remove(a) PROVE ConnectTypeOK'
    BY <2>1 DEF Remove, ConnectTypeOK, conn, client, Attempts
  <2>2. ASSUME NEW a \in Rows, Recover(a) PROVE ConnectTypeOK'
    BY <2>2 DEF Recover, ConnectTypeOK, conn, client, Attempts
  <2>3. ASSUME NEW a \in Rows, NEW k \in Keys, Rekey(a, k) PROVE ConnectTypeOK'
    BY <2>3 DEF Rekey, ConnectTypeOK, conn, client, Attempts
  <2>4. ASSUME NEW a \in Rows, NEW k \in Keys, Add(a, k) PROVE ConnectTypeOK'
    BY <2>4 DEF Add, ConnectTypeOK, conn, client, Attempts
  <2>5. ASSUME NEW r \in Requests, Disconnect(r) PROVE ConnectTypeOK'
    BY <2>5 DEF Disconnect, ConnectTypeOK, pool, client, Attempts
  <2>6. ASSUME NEW r \in Requests, Emit(r) PROVE ConnectTypeOK'
    <3>1. Attempt(r) \in Attempts BY <2>6 DEF Emit, Attempt, Attempts, ConnectTypeOK
    <3>2. QED BY <2>6, <3>1 DEF Emit, ConnectTypeOK, pool, conn
  <2>7. ASSUME NEW r \in Requests, Acquire(r) PROVE ConnectTypeOK'
    <3>1. PICK a \in Selectable({}) \cup {NoRow} : Hold(r, a) BY <2>7 DEF Acquire
    <3>2. a \in Rows \cup {NoRow} /\ (a \in Rows => InPool(a)) BY DEF Selectable
    <3>3. /\ row' \in [Requests -> Rows \cup {NoRow}]
          /\ cred' \in [Requests -> Keys \cup {NoKey}]
          /\ inflight' \in [Rows -> Nat]
      BY <3>1, <3>2, HoldTypes
    <3>4. QED BY <2>7, <3>3 DEF Acquire, Goto, ConnectTypeOK, client, Attempts, Holding
  <2>8. ASSUME NEW r \in Requests, Stop(r) PROVE ConnectTypeOK'
    <3>1. inflight' \in [Rows -> Nat] BY <2>8, ReleaseTypes DEF Stop
    <3>2. End(r) /\ pc[r] # "done" BY <2>8 DEF Stop
    <3>3. QED BY <2>8, <3>1, <3>2, EndTypes DEF Stop, ConnectTypeOK
  <2>9. ASSUME NEW r \in Requests, Call(r) PROVE ConnectTypeOK'
    <3>1. row[r] \in Rows => cred[r] \in Keys BY DEF KeyInHand
    <3>2. QED BY <2>9, <3>1 DEF Call, Goto, ConnectTypeOK, pool, client, Attempts, Holding
  <2>10. ASSUME NEW r \in Requests, Succeed(r) PROVE ConnectTypeOK'
    <3>1. inflight' \in [Rows -> Nat] BY <2>10, ReleaseTypes DEF Succeed
    <3>2. verdicts' \in [Rows -> SUBSET (Rows \X Keys)]
      BY <2>10 DEF Succeed, ConnectTypeOK
    <3>3. pc[r] # "done" BY <2>10 DEF Succeed
    <3>4. CASE End(r)
      BY <2>10, <3>1, <3>2, <3>3, <3>4, EndTypes DEF Succeed, ConnectTypeOK
    <3>5. CASE ~End(r)
      <4>1. /\ Leave(r, "done")
            /\ wire' = [wire EXCEPT ![r] = @ \cup {Attempt(r)}]
            /\ reply' = [reply EXCEPT ![r] = "ok"]
            /\ saved' = [saved EXCEPT ![r] = TRUE]
        BY <2>10, <3>5 DEF Succeed
      <4>2. Attempt(r) \in Attempts BY <2>10 DEF Succeed, Attempt, Attempts, ConnectTypeOK
      <4>3. pc' = [pc EXCEPT ![r] = "done"] BY <4>1, LeaveTypes
      <4>4. \A s \in Requests : pc'[s] = "done" <=> reply'[s] # "open"
        BY <4>1, <4>3 DEF ConnectTypeOK
      <4>5. /\ wire' \in [Requests -> SUBSET Attempts]
            /\ reply' \in [Requests -> {"open", "ok", "error", "gone"}]
            /\ saved' \in [Requests -> BOOLEAN]
        BY <4>1, <4>2 DEF ConnectTypeOK
      <4>6. UNCHANGED <<key, issued, cooled, refused>> BY <2>10 DEF Succeed
      <4>7. QED BY <3>1, <3>2, <4>1, <4>4, <4>5, <4>6, LeaveTypes DEF ConnectTypeOK
    <3>6. QED BY <3>4, <3>5
  <2>11. ASSUME NEW r \in Requests, NEW class, Fail(r, class) PROVE ConnectTypeOK'
    <3>1. pc[r] \in Holding /\ pc[r] # "done" /\ refused' = refused
      BY <2>11 DEF Fail, Holding
    <3>2. EndOrHop(r, class \in {"rate", "quota", "denied"}) BY <2>11 DEF Fail
    <3>3. PICK c : Settle(r, c) BY <2>11 DEF Fail
    <3>4. QED BY <3>1, <3>2, <3>3, SettleTypes, EndOrHopTypes DEF ConnectTypeOK
  <2>12. ASSUME NEW r \in Requests, Refuse401(r) PROVE refused' \in [Requests -> SUBSET Keys]
    BY <2>12 DEF Refuse401, ConnectTypeOK, KeyInHand
  <2>13. ASSUME NEW r \in Requests, Unauthorized(r) PROVE ConnectTypeOK'
    <3>1. refused' \in [Requests -> SUBSET Keys] BY <2>12, <2>13 DEF Unauthorized
    <3>2. CASE row[r] \in Rows /\ ~gone[r] /\ ~Emitted(r) /\ EpochCurrent(r)
      <4>1. Goto(r, "reviving") /\ UNCHANGED <<pool, row, cred, tried, hops, gone, client>>
        BY <2>13, <3>2 DEF Unauthorized
      <4>2. pc[r] = "calling" BY <2>13 DEF Unauthorized
      <4>3. QED BY <3>1, <4>1, <4>2 DEF Goto, pool, client, ConnectTypeOK, Attempts, Holding
    <3>3. CASE ~(row[r] \in Rows /\ ~gone[r] /\ ~Emitted(r) /\ EpochCurrent(r))
      <4>1. EndOrHop(r, row[r] \in Rows) BY <2>13, <3>3 DEF Unauthorized
      <4>2. PICK c : Settle(r, c) BY <2>13, <3>3 DEF Unauthorized
      <4>3. pc[r] \in Holding /\ pc[r] # "done" BY <2>13 DEF Unauthorized, Holding
      <4>4. QED BY <3>1, <4>1, <4>2, <4>3, SettleTypes, EndOrHopTypes DEF ConnectTypeOK
    <3>4. QED BY <3>2, <3>3
  <2>14. ASSUME NEW r \in Requests, UnauthorizedAgain(r) PROVE ConnectTypeOK'
    <3>1. refused' \in [Requests -> SUBSET Keys] BY <2>12, <2>14 DEF UnauthorizedAgain
    <3>2. pc[r] \in Holding /\ pc[r] # "done" /\ End(r)
      BY <2>14 DEF UnauthorizedAgain, Holding
    <3>3. PICK c : Settle(r, c) BY <2>14 DEF UnauthorizedAgain
    <3>4. QED BY <3>1, <3>2, <3>3, SettleTypes, EndTypes DEF ConnectTypeOK
  <2>15. ASSUME NEW r \in Requests, NEW k \in Keys, Revived(r, k) PROVE ConnectTypeOK'
    BY <2>15 DEF Revived, Goto, ConnectTypeOK, client, Attempts, Holding
  <2>16. ASSUME NEW r \in Requests, NotRevived(r) PROVE ConnectTypeOK'
    <3>1. pc[r] \in Holding /\ pc[r] # "done" /\ refused' = refused
      BY <2>16 DEF NotRevived, Holding
    <3>2. EndOrHop(r, TRUE) /\ Settle(r, "auth") BY <2>16 DEF NotRevived
    <3>3. QED BY <3>1, <3>2, SettleTypes, EndOrHopTypes DEF ConnectTypeOK
  <2>17. ASSUME NEW r \in Requests, Hop(r) PROVE ConnectTypeOK'
    <3>1. UNCHANGED <<key, issued, cooled, verdicts, refused>> /\ pc[r] # "done"
      BY <2>17 DEF Hop
    <3>2. CASE End(r) /\ UNCHANGED inflight BY <3>1, <3>2, EndTypes DEF ConnectTypeOK
    <3>3. CASE ~(End(r) /\ UNCHANGED inflight)
      <4>1. PICK a \in Selectable(tried[r]) : Hold(r, a) BY <2>17, <3>3 DEF Hop
      <4>2. a \in Rows /\ InPool(a) BY DEF Selectable
      <4>3. /\ row' \in [Requests -> Rows \cup {NoRow}]
            /\ cred' \in [Requests -> Keys \cup {NoKey}]
            /\ inflight' \in [Rows -> Nat]
        BY <4>1, <4>2, HoldTypes
      <4>4. /\ Goto(r, "ready") /\ hops' = [hops EXCEPT ![r] = @ + 1]
            /\ UNCHANGED <<tried, gone, client>> /\ pc[r] = "pausing"
        BY <2>17, <3>3 DEF Hop
      <4>5. hops[r] + 1 \in 0 .. MaxHops BY <4>4 DEF HopsLeft, ConnectTypeOK
      <4>6. QED BY <3>1, <4>3, <4>4, <4>5 DEF Goto, ConnectTypeOK, client, Attempts, Holding
    <3>4. QED BY <3>2, <3>3
  <2>18. CASE UNCHANGED vars
    BY <2>18 DEF vars, pool, conn, client, ConnectTypeOK, Attempts
  <2>19. QED
    BY <2>1, <2>2, <2>3, <2>4, <2>5, <2>6, <2>7, <2>8, <2>9, <2>10, <2>11, <2>13,
       <2>14, <2>15, <2>16, <2>17, <2>18
    DEF Next, Environment, Step
<1>3. Init => HopsLeft BY DEF Init, HopsLeft
<1>4. ConnectTypeOK /\ HopsLeft /\ [Next]_vars => HopsLeft'
  <2> SUFFICES ASSUME ConnectTypeOK, HopsLeft, [Next]_vars PROVE HopsLeft' OBVIOUS
  <2> USE DEF ConnectTypeOK, HopsLeft
  <2>1. ASSUME UNCHANGED <<pc, hops>> PROVE HopsLeft' BY <2>1
  <2>2. ASSUME NEW r \in Requests, NEW mayHop, EndOrHop(r, mayHop) \/ End(r)
        PROVE  HopsLeft'
    BY <2>2 DEF EndOrHop, End, Leave, Goto
  <2>3. ASSUME NEW r \in Requests, NEW where \in Holding, Goto(r, where),
               \A s \in Requests \ {r} : hops'[s] = hops[s]
        PROVE  HopsLeft'
    BY <2>3 DEF Goto, Holding
  <2>4. ASSUME NEW r \in Requests, Acquire(r) \/ Call(r) \/ (\E k \in Keys : Revived(r, k))
        PROVE  HopsLeft'
    BY <2>4 DEF Acquire, Call, Revived, Goto
  <2>5. ASSUME NEW r \in Requests, Succeed(r) PROVE HopsLeft'
    BY <2>5 DEF Succeed, End, Leave, Goto
  <2>6. ASSUME NEW r \in Requests, Hop(r) PROVE HopsLeft'
    BY <2>2, <2>6 DEF Hop, Goto
  <2>7. ASSUME NEW r \in Requests, Unauthorized(r) PROVE HopsLeft'
    BY <2>2, <2>3, <2>7 DEF Unauthorized, Holding
  <2>8. ASSUME NEW r \in Requests, Stop(r) \/ UnauthorizedAgain(r) \/ NotRevived(r)
        PROVE  HopsLeft'
    BY <2>2, <2>8 DEF Stop, UnauthorizedAgain, NotRevived
  <2>9. ASSUME NEW r \in Requests, NEW class, Fail(r, class) PROVE HopsLeft'
    BY <2>2, <2>9 DEF Fail
  <2>10. ASSUME NEW a \in Rows, NEW k \in Keys, Rekey(a, k) \/ Add(a, k) PROVE HopsLeft'
    BY <2>1, <2>10 DEF Rekey, Add, conn
  <2>11. ASSUME NEW r \in Requests, Disconnect(r) \/ Emit(r) PROVE HopsLeft'
    BY <2>1, <2>11 DEF Disconnect, Emit, conn
  <2>12. CASE UNCHANGED vars BY <2>1, <2>12 DEF vars, conn
  <2>13. ASSUME NEW a \in Rows, Remove(a) \/ Recover(a) PROVE HopsLeft'
    BY <2>1, <2>13 DEF Remove, Recover, conn
  <2>20. QED
    BY <2>4, <2>5, <2>6, <2>7, <2>8, <2>9, <2>10, <2>11, <2>12, <2>13
    DEF Next, Environment, Step
<1>5. Init => KeyInHand BY DEF Init, KeyInHand
<1>6. ConnectTypeOK /\ KeyInHand /\ [Next]_vars => KeyInHand'
  <2> SUFFICES ASSUME ConnectTypeOK, KeyInHand, [Next]_vars PROVE KeyInHand' OBVIOUS
  <2> USE DEF ConnectTypeOK, KeyInHand
  <2>1. ASSUME UNCHANGED <<row, cred>> PROVE KeyInHand' BY <2>1
  <2>2. ASSUME NEW r \in Requests, NEW where, Leave(r, where) PROVE KeyInHand'
    BY <2>2 DEF Leave
  <2>3. ASSUME NEW r \in Requests, NEW mayHop, EndOrHop(r, mayHop) \/ End(r)
        PROVE  KeyInHand'
    BY <2>2, <2>3 DEF EndOrHop, End
  <2>4. ASSUME NEW r \in Requests, NEW a, Hold(r, a), a \in Rows => InPool(a)
        PROVE  KeyInHand'
    BY <2>4 DEF Hold, InPool
  <2>5. ASSUME NEW r \in Requests, Acquire(r) PROVE KeyInHand'
    BY <2>4, <2>5 DEF Acquire, Selectable
  <2>6. ASSUME NEW r \in Requests, Hop(r) PROVE KeyInHand'
    BY <2>3, <2>4, <2>6 DEF Hop, Selectable
  <2>7. ASSUME NEW r \in Requests, NEW k \in Keys, Revived(r, k) PROVE KeyInHand'
    BY <2>7 DEF Revived
  <2>8. ASSUME NEW r \in Requests, Succeed(r) PROVE KeyInHand'
    BY <2>2, <2>3, <2>8 DEF Succeed
  <2>9. ASSUME NEW r \in Requests, Unauthorized(r) PROVE KeyInHand'
    BY <2>1, <2>3, <2>9 DEF Unauthorized
  <2>10. ASSUME NEW r \in Requests, Stop(r) \/ UnauthorizedAgain(r) \/ NotRevived(r)
         PROVE  KeyInHand'
    BY <2>3, <2>10 DEF Stop, UnauthorizedAgain, NotRevived
  <2>11. ASSUME NEW r \in Requests, NEW class, Fail(r, class) PROVE KeyInHand'
    BY <2>3, <2>11 DEF Fail
  <2>12. ASSUME NEW r \in Requests, Call(r) \/ Disconnect(r) \/ Emit(r) PROVE KeyInHand'
    BY <2>1, <2>12 DEF Call, Disconnect, Emit, conn
  <2>13. ASSUME NEW a \in Rows, NEW k \in Keys, Rekey(a, k) \/ Add(a, k) PROVE KeyInHand'
    BY <2>1, <2>13 DEF Rekey, Add, conn
  <2>14. ASSUME NEW a \in Rows, Remove(a) \/ Recover(a) PROVE KeyInHand'
    BY <2>1, <2>14 DEF Remove, Recover, conn
  <2>15. CASE UNCHANGED vars BY <2>1, <2>15 DEF vars, conn
  <2>16. QED
    BY <2>5, <2>6, <2>7, <2>8, <2>9, <2>10, <2>11, <2>12, <2>13, <2>14, <2>15
    DEF Next, Environment, Step
<1>7. QED BY <1>1, <1>2, <1>3, <1>4, <1>5, <1>6, PTL DEF Spec

\* Rows, keys, counters, steps and replies keep their types, and a request is
\* done exactly when its reply has ended.
THEOREM ConnectTypes == Spec => []ConnectTypeOK
BY ConnectInduction, PTL

-----------------------------------------------------------------------------
\* A row out of the pool has no verdict standing: what is found against a row
\* that has gone is dropped.
EpochInv ==
    \A a \in Rows : /\ verdicts[a] \subseteq {<<a, key[a]>>}
                    /\ ~InPool(a) => verdicts[a] = {}

\* A failed attempt charges its row only for the key the row has now.
LEMMA SettleEpoch ==
    ASSUME NEW r \in Requests, NEW class, ConnectTypeOK, EpochInv, Settle(r, class)
    PROVE  EpochInv'
<1>1. key' = key BY DEF Settle
<1>2. CASE InPool(row[r]) /\ EpochCurrent(r) /\ class = "auth"
  <2>1. verdicts' = [verdicts EXCEPT ![row[r]] = @ \cup {<<row[r], cred[r]>>}]
    BY <1>2 DEF Settle
  <2>2. cred[r] = key[row[r]] BY <1>2 DEF EpochCurrent
  <2>3. QED BY <1>1, <1>2, <2>1, <2>2 DEF EpochInv, InPool, ConnectTypeOK
<1>3. CASE ~(InPool(row[r]) /\ EpochCurrent(r) /\ class = "auth")
  BY <1>1, <1>3 DEF Settle, EpochInv, InPool
<1>4. QED BY <1>2, <1>3

\* No verdict stands against a credential that did not earn it: neither one of a
\* retired key against the row's new key, nor one of a removed row against the
\* row that took its key.
THEOREM EpochStaysClean == Spec => []EpochClean
<1>1. Init => EpochInv BY DEF Init, EpochInv
<1>2. ConnectTypeOK /\ EpochInv /\ [Next]_vars => EpochInv'
  <2> SUFFICES ASSUME ConnectTypeOK, EpochInv, [Next]_vars PROVE EpochInv' OBVIOUS
  <2>1. ASSUME UNCHANGED <<key, verdicts>> PROVE EpochInv' BY <2>1 DEF EpochInv, InPool
  <2>2. ASSUME NEW r \in Requests,
               \/ Acquire(r) \/ Stop(r) \/ Call(r) \/ Hop(r) \/ Disconnect(r) \/ Emit(r)
        PROVE  EpochInv'
    BY <2>1, <2>2 DEF Acquire, Stop, Call, Hop, Disconnect, Emit, pool
  <2>3. ASSUME NEW r \in Requests, NEW class, Fail(r, class) PROVE EpochInv'
    BY <2>3, SettleEpoch DEF Fail
  <2>4. ASSUME NEW r \in Requests, Unauthorized(r) PROVE EpochInv'
    BY <2>1, <2>4, SettleEpoch DEF Unauthorized, pool
  <2>5. ASSUME NEW r \in Requests, UnauthorizedAgain(r) \/ NotRevived(r) PROVE EpochInv'
    BY <2>5, SettleEpoch DEF UnauthorizedAgain, NotRevived
  <2>6. ASSUME NEW r \in Requests, Succeed(r) PROVE EpochInv'
    BY <2>6 DEF Succeed, EpochInv, InPool, ConnectTypeOK
  <2>7. ASSUME NEW r \in Requests, NEW k \in Keys, Revived(r, k) PROVE EpochInv'
    BY <2>7 DEF Revived, EpochInv, InPool, ConnectTypeOK
  <2>8. ASSUME NEW a \in Rows, NEW k \in Keys, Rekey(a, k) \/ Add(a, k) PROVE EpochInv'
    BY <2>8 DEF Rekey, Add, EpochInv, InPool, ConnectTypeOK
  <2>9. ASSUME NEW a \in Rows, Remove(a) \/ Recover(a) PROVE EpochInv'
    BY <2>9 DEF Remove, Recover, EpochInv, InPool, ConnectTypeOK
  <2>10. CASE UNCHANGED vars BY <2>1, <2>10 DEF vars, pool
  <2>11. QED
    BY <2>2, <2>3, <2>4, <2>5, <2>6, <2>7, <2>8, <2>9, <2>10
    DEF Next, Environment, Step
<1>3. EpochInv => EpochClean BY DEF EpochInv, EpochClean
<1>4. QED BY <1>1, <1>2, <1>3, ConnectTypes, PTL DEF Spec

-----------------------------------------------------------------------------
\* Nobody holds a row that never was in the pool.
SlotInv ==
    /\ SlotsBalanced
    /\ \A a \in Rows : key[a] = Never => inflight[a] = 0 /\ Holders(a) = {}

LEMMA HoldersFinite ==
    ASSUME NEW a PROVE IsFiniteSet(Holders(a)) /\ Cardinality(Holders(a)) \in Nat
<1>1. Holders(a) \subseteq Requests BY DEF Holders
<1>2. QED BY <1>1, FS_Subset, FS_CardinalityType

\* As long as the rows and the counters stay, and nobody starts or stops holding
\* one, the slots are balanced.
LEMMA SlotsFrame ==
    ASSUME ConnectTypeOK, SlotInv, UNCHANGED <<key, inflight>>,
           \A s \in Requests : (pc'[s] \in Holding <=> pc[s] \in Holding)
                              /\ (pc[s] \in Holding => row'[s] = row[s])
    PROVE  SlotInv'
<1>1. ASSUME NEW a \in Rows PROVE Holders(a)' = Holders(a) BY DEF Holders
<1>2. \A a \in Rows : InPool(a)' <=> InPool(a) BY DEF InPool
<1>3. QED BY <1>1, <1>2 DEF SlotInv, SlotsBalanced

\* A request that is given a row of the pool is one more holder of that row.
LEMMA HoldBalanced ==
    ASSUME NEW r \in Requests, NEW a \in Rows \cup {NoRow}, ConnectTypeOK, SlotInv,
           pc[r] \notin Holding, Goto(r, "ready"), Hold(r, a), key' = key,
           a \in Rows => InPool(a)
    PROVE  SlotInv'
<1>1. /\ pc' = [pc EXCEPT ![r] = "ready"] /\ row' = [row EXCEPT ![r] = a]
      /\ inflight' = IF a \in Rows THEN [inflight EXCEPT ![a] = @ + 1] ELSE inflight
  BY DEF Goto, Hold
<1>2. ASSUME NEW b \in Rows, b # a PROVE Holders(b)' = Holders(b)
  BY <1>1, <1>2 DEF Holders, Holding, ConnectTypeOK
<1>3. \A b \in Rows : InPool(b)' <=> InPool(b) BY DEF InPool
<1>4. ASSUME NEW b \in Rows, b # a PROVE inflight'[b] = inflight[b]
  BY <1>1, <1>4 DEF ConnectTypeOK
<1>5. CASE a \in Rows
  <2>1. Holders(a)' = Holders(a) \cup {r} /\ r \notin Holders(a)
    BY <1>1, <1>5 DEF Holders, Holding, ConnectTypeOK
  <2>2. Cardinality(Holders(a)') = Cardinality(Holders(a)) + 1
    BY <2>1, HoldersFinite, FS_AddElement
  <2>3. inflight'[a] = inflight[a] + 1 /\ inflight[a] = Cardinality(Holders(a))
    BY <1>1, <1>5 DEF ConnectTypeOK, SlotInv, SlotsBalanced
  <2>4. key[a] # Never BY <1>5 DEF InPool
  <2>5. QED BY <1>2, <1>3, <1>4, <2>2, <2>3, <2>4 DEF SlotInv, SlotsBalanced
<1>6. CASE a \notin Rows
  <2>1. \A b \in Rows : b # a BY <1>6
  <2>2. QED BY <1>2, <1>3, <1>4, <2>1 DEF SlotInv, SlotsBalanced
<1>7. QED BY <1>5, <1>6

\* A request that releases its row and leaves it is one holder less of that row,
\* if the row is still in the pool.
LEMMA LeaveBalanced ==
    ASSUME NEW r \in Requests, NEW where \in {"pausing", "done"}, ConnectTypeOK, SlotInv,
           pc[r] \in Holding, Release(r), Leave(r, where), key' = key
    PROVE  SlotInv'
<1>1. pc' = [pc EXCEPT ![r] = where] /\ row' = [row EXCEPT ![r] = NoRow]
  BY DEF Leave, Goto
<1>2. \A b \in Rows : InPool(b)' <=> InPool(b) BY DEF InPool
<1>3. ASSUME NEW b \in Rows, b # row[r]
      PROVE  Holders(b)' = Holders(b) /\ inflight'[b] = inflight[b]
  BY <1>1, <1>3 DEF Holders, Release, Holding, ConnectTypeOK
<1>4. CASE row[r] \in Rows
  <2> DEFINE a == row[r]
  <2>1. Holders(a)' \subseteq Requests /\ a \in Rows BY <1>4 DEF Holders
  <2>2. PICK b : b = a OBVIOUS
  <2>3. Holders(b)' = Holders(b) \ {r} /\ r \in Holders(b) /\ b \in Rows
    BY <1>1, <1>4, <2>2 DEF Holders, Holding, ConnectTypeOK
  <2>4. /\ Cardinality(Holders(b)') = Cardinality(Holders(b)) - 1
        /\ Cardinality(Holders(b)) > 0 /\ Holders(b) # {}
    <3> DEFINE S == Holders(b)
    <3>1. IsFiniteSet(S) /\ Cardinality(S) \in Nat BY HoldersFinite
    <3>2. S # {} /\ r \in S BY <2>3
    <3>3. Cardinality(S \ {r}) = Cardinality(S) - 1
      <4> HIDE DEF S
      <4>1. QED BY <3>1, <3>2, FS_RemoveElement
    <3>4. Cardinality(S) # 0
      <4> HIDE DEF S
      <4>1. QED BY <3>1, <3>2, FS_EmptySet
    <3>5. Cardinality(S) > 0 BY <3>1, <3>4
    <3>6. QED BY <2>3, <3>2, <3>3, <3>5
  <2>5. InPool(b) => inflight'[b] = Cardinality(Holders(b)')
    BY <2>2, <2>3, <2>4 DEF SlotInv, SlotsBalanced, Release, ConnectTypeOK
  <2>6. key[b] # Never BY <2>3, <2>4 DEF SlotInv
  <2>7. QED BY <1>2, <1>3, <2>2, <2>5, <2>6 DEF SlotInv, SlotsBalanced
<1>5. CASE row[r] \notin Rows
  <2>1. \A b \in Rows : b # row[r] BY <1>5
  <2>2. QED BY <1>2, <1>3, <2>1 DEF SlotInv, SlotsBalanced
<1>6. QED BY <1>4, <1>5

\* The slots of a row in the pool are those of the requests that hold it: every
\* way out of the failover loop gives back what was acquired, exactly once.
THEOREM SlotsStayBalanced == Spec => []SlotsBalanced
<1>1. Init => SlotInv
  <2> SUFFICES ASSUME Init PROVE SlotInv OBVIOUS
  <2>1. \A a \in Rows : Holders(a) = {} BY DEF Init, Holders, Holding
  <2>2. \A a \in Rows : inflight[a] = 0 BY DEF Init
  <2>3. QED BY <2>1, <2>2, FS_EmptySet DEF SlotInv, SlotsBalanced
<1>2. ConnectTypeOK /\ SlotInv /\ [Next]_vars => SlotInv'
  <2> SUFFICES ASSUME ConnectTypeOK, SlotInv, [Next]_vars PROVE SlotInv' OBVIOUS
  <2>1. ASSUME NEW r \in Requests, NEW mayHop, pc[r] \in Holding, Release(r), key' = key,
               EndOrHop(r, mayHop) \/ End(r)
        PROVE  SlotInv'
    BY <2>1, LeaveBalanced DEF EndOrHop, End
  <2>2. ASSUME NEW r \in Requests, Acquire(r) PROVE SlotInv'
    BY <2>2, HoldBalanced DEF Acquire, Selectable, Holding
  <2>3. ASSUME NEW r \in Requests, Stop(r) PROVE SlotInv'
    BY <2>1, <2>3 DEF Stop, Holding
  <2>4. ASSUME NEW r \in Requests, Call(r) \/ Disconnect(r) \/ Emit(r) PROVE SlotInv'
    BY <2>4, SlotsFrame DEF Call, Disconnect, Emit, Goto, pool, conn, Holding, ConnectTypeOK
  <2>5. ASSUME NEW r \in Requests, Succeed(r) PROVE SlotInv'
    BY <2>5, LeaveBalanced DEF Succeed, End, Holding
  <2>6. ASSUME NEW r \in Requests, NEW class, Fail(r, class) PROVE SlotInv'
    BY <2>1, <2>6 DEF Fail, Settle, Holding
  <2>7. ASSUME NEW r \in Requests, Unauthorized(r) PROVE SlotInv'
    <3>1. CASE row[r] \in Rows /\ ~gone[r] /\ ~Emitted(r) /\ EpochCurrent(r)
      BY <2>7, <3>1, SlotsFrame DEF Unauthorized, Goto, pool, Holding, ConnectTypeOK
    <3>2. CASE ~(row[r] \in Rows /\ ~gone[r] /\ ~Emitted(r) /\ EpochCurrent(r))
      BY <2>1, <2>7, <3>2 DEF Unauthorized, Settle, Holding
    <3>3. QED BY <3>1, <3>2
  <2>8. ASSUME NEW r \in Requests, UnauthorizedAgain(r) \/ NotRevived(r) PROVE SlotInv'
    <3>1. pc[r] \in Holding /\ Release(r) /\ key' = key
      BY <2>8 DEF UnauthorizedAgain, NotRevived, Settle, Holding
    <3>2. End(r) \/ EndOrHop(r, TRUE) BY <2>8 DEF UnauthorizedAgain, NotRevived
    <3>3. QED BY <2>1, <3>1, <3>2
  <2>9. ASSUME NEW r \in Requests, NEW k \in Keys, Revived(r, k) PROVE SlotInv'
    <3>1. ASSUME NEW a \in Rows PROVE Holders(a)' = Holders(a)
      BY <2>9 DEF Revived, Goto, Holders, Holding, ConnectTypeOK
    <3>2. /\ \A a \in Rows : InPool(a)' <=> InPool(a)
          /\ \A a \in Rows : key'[a] = Never => key[a] = Never
          /\ inflight' = inflight
      BY <2>9 DEF Revived, InPool, ConnectTypeOK
    <3>3. QED BY <3>1, <3>2 DEF SlotInv, SlotsBalanced
  <2>10. ASSUME NEW r \in Requests, Hop(r) PROVE SlotInv'
    <3>1. pc[r] \notin Holding /\ key' = key BY <2>10 DEF Hop, Holding
    <3>2. CASE End(r) /\ UNCHANGED inflight
      BY <3>1, <3>2, SlotsFrame DEF End, Leave, Goto, Holding, ConnectTypeOK
    <3>3. CASE ~(End(r) /\ UNCHANGED inflight)
      BY <2>10, <3>1, <3>3, HoldBalanced DEF Hop, Selectable
    <3>4. QED BY <3>2, <3>3
  <2>11. ASSUME row' = row /\ pc' = pc PROVE \A a \in Rows : Holders(a)' = Holders(a)
    BY <2>11 DEF Holders
  <2>12. ASSUME NEW a \in Rows, NEW k \in Keys, Rekey(a, k) \/ Add(a, k) PROVE SlotInv'
    <3>1. \A b \in Rows : Holders(b)' = Holders(b) BY <2>11, <2>12 DEF Rekey, Add, conn
    <3>2. inflight' = inflight /\ key' = [key EXCEPT ![a] = k]
      BY <2>12 DEF Rekey, Add
    <3>3. InPool(a) \/ key[a] = Never BY <2>12 DEF Rekey, Add
    <3>4. inflight[a] = Cardinality(Holders(a)) BY <3>3, FS_EmptySet DEF SlotInv, SlotsBalanced
    <3>5. QED BY <3>1, <3>2, <3>4 DEF SlotInv, SlotsBalanced, InPool, ConnectTypeOK
  <2>13. ASSUME NEW a \in Rows, Remove(a) PROVE SlotInv'
    <3>1. \A b \in Rows : Holders(b)' = Holders(b) BY <2>11, <2>13 DEF Remove, conn
    <3>2. inflight' = [inflight EXCEPT ![a] = 0] /\ key' = [key EXCEPT ![a] = Removed]
      BY <2>13 DEF Remove
    <3>3. QED BY <3>1, <3>2 DEF SlotInv, SlotsBalanced, InPool, ConnectTypeOK
  <2>14. ASSUME NEW a \in Rows, Recover(a) PROVE SlotInv'
    BY <2>14, SlotsFrame DEF Recover, conn
  <2>15. CASE UNCHANGED vars BY <2>15, SlotsFrame DEF vars, pool, conn
  <2>16. QED
    BY <2>2, <2>3, <2>4, <2>5, <2>6, <2>7, <2>8, <2>9, <2>10, <2>12, <2>13, <2>14, <2>15
    DEF Next, Environment, Step
<1>3. SlotInv => SlotsBalanced BY DEF SlotInv
<1>4. QED BY <1>1, <1>2, <1>3, ConnectTypes, PTL DEF Spec

-----------------------------------------------------------------------------
\* While its reply is open, a request has sent bytes of the attempt it is in, and
\* of no other: none at all between attempts.
WireClean ==
    \A r \in Requests :
        /\ pc[r] \in {"calling", "retrying"} => wire[r] \subseteq {Attempt(r)}
        /\ pc[r] \in {"idle", "ready", "reviving", "pausing"} => wire[r] = {}

\* A request that ends without an answer, or looks on, refuses the reply or
\* leaves it as it is, with nothing sent if it looks on.
LEMMA EndOrHopWire ==
    ASSUME NEW r \in Requests, NEW mayHop, ConnectTypeOK, WireClean, pc[r] # "done",
           EndOrHop(r, mayHop) \/ End(r)
    PROVE  /\ WireClean'
           /\ \/ \E how \in {"error", "gone"} : Promise!Refuse(r, how)
              \/ UNCHANGED client
<1>1. reply[r] = "open" BY DEF ConnectTypeOK
<1>2. CASE End(r)
  <2>1. pc' = [pc EXCEPT ![r] = "done"] /\ UNCHANGED <<wire, saved>>
    BY <1>2 DEF End, Leave, Goto
  <2>2. \A s \in Requests \ {r} : hops'[s] = hops[s] /\ pc'[s] = pc[s]
    BY <1>2 DEF End, Leave, Goto, ConnectTypeOK
  <2>3. WireClean' BY <2>1, <2>2 DEF WireClean, Attempt, ConnectTypeOK
  <2>4. \E how \in {"error", "gone"} : Promise!Refuse(r, how)
    BY <1>1, <1>2, <2>1 DEF End, Promise!Refuse
  <2>5. QED BY <2>3, <2>4
<1>3. CASE Leave(r, "pausing") /\ UNCHANGED client /\ ~Emitted(r)
  <2>1. pc' = [pc EXCEPT ![r] = "pausing"] /\ UNCHANGED <<wire, hops>>
    BY <1>3 DEF Leave, Goto, client
  <2>2. wire[r] = {} BY <1>3 DEF Emitted
  <2>3. WireClean' BY <2>1, <2>2 DEF WireClean, Attempt, ConnectTypeOK
  <2>4. QED BY <1>3, <2>3
<1>4. QED BY <1>2, <1>3 DEF EndOrHop

\* The failover loop implements the client's promise: whatever accounts, keys,
\* re-logins and hops it takes, the bytes of a reply come from one attempt, the
\* reply ends once, and only an answer that was delivered is remembered.
THEOREM RequestKeepsPromise == Spec => ClientPromise
<1>1. Init => Promise!ReplyInit /\ WireClean
  BY DEF Init, Promise!ReplyInit, WireClean
<1>2. ConnectTypeOK /\ WireClean /\ [Next]_vars
      => WireClean' /\ [Promise!ReplyNext]_(Promise!replyVars)
  <2> SUFFICES ASSUME ConnectTypeOK, WireClean, [Next]_vars
               PROVE  WireClean' /\ (Promise!ReplyNext \/ UNCHANGED client)
    BY DEF Promise!replyVars, client
  <2>1. ASSUME NEW r \in Requests, \E how \in {"error", "gone"} : Promise!Refuse(r, how)
        PROVE  Promise!ReplyNext
    BY <2>1 DEF Promise!ReplyNext
  <2>2. ASSUME NEW r \in Requests, NEW mayHop, pc[r] # "done", EndOrHop(r, mayHop) \/ End(r)
        PROVE  WireClean' /\ (Promise!ReplyNext \/ UNCHANGED client)
    BY <2>1, <2>2, EndOrHopWire
  <2>3. ASSUME UNCHANGED <<pc, hops, client>> PROVE WireClean'
    BY <2>3 DEF WireClean, Attempt, client
  <2>4. ASSUME NEW r \in Requests, NEW to \in {"ready", "calling", "reviving", "retrying"},
               wire[r] = {}, Goto(r, to), UNCHANGED client,
               \A s \in Requests \ {r} : hops'[s] = hops[s]
        PROVE  WireClean'
    BY <2>4 DEF Goto, WireClean, Attempt, client, ConnectTypeOK
  <2>5. ASSUME NEW r \in Requests, Acquire(r) \/ Call(r) \/ (\E k \in Keys : Revived(r, k))
        PROVE  WireClean' /\ UNCHANGED client
    <3>1. wire[r] = {} BY <2>5 DEF Acquire, Call, Revived, WireClean
    <3>2. \E to \in {"ready", "calling", "reviving", "retrying"} : Goto(r, to)
      BY <2>5 DEF Acquire, Call, Revived
    <3>3. UNCHANGED client /\ hops' = hops BY <2>5 DEF Acquire, Call, Revived
    <3>4. QED BY <2>4, <3>1, <3>2, <3>3
  <2>6. ASSUME NEW r \in Requests, Emit(r)
        PROVE  WireClean' /\ Promise!ReplyNext
    <3>1. /\ wire' = [wire EXCEPT ![r] = @ \cup {Attempt(r)}]
          /\ UNCHANGED <<pc, hops, reply, saved>>
      BY <2>6 DEF Emit, conn
    <3>2. /\ wire[r] \subseteq {Attempt(r)} /\ reply[r] = "open"
          /\ Attempt(r) \in Attempts
      BY <2>6 DEF Emit, WireClean, Attempt, Attempts, ConnectTypeOK
    <3>3. wire' = [wire EXCEPT ![r] = {Attempt(r)}] BY <3>1, <3>2 DEF ConnectTypeOK
    <3>4. Promise!Bytes(r, Attempt(r)) BY <3>1, <3>2, <3>3 DEF Promise!Bytes
    <3>5. WireClean'
      BY <2>6, <3>1, <3>3 DEF Emit, WireClean, Attempt, ConnectTypeOK
    <3>6. QED BY <3>2, <3>4, <3>5 DEF Promise!ReplyNext
  <2>7. ASSUME NEW r \in Requests, Succeed(r)
        PROVE  WireClean' /\ (Promise!ReplyNext \/ UNCHANGED client)
    <3>1. pc[r] # "done" BY <2>7 DEF Succeed
    <3>2. CASE End(r) BY <2>2, <3>1, <3>2
    <3>3. CASE ~End(r)
      <4>1. /\ Leave(r, "done") /\ saved' = [saved EXCEPT ![r] = TRUE]
            /\ wire' = [wire EXCEPT ![r] = @ \cup {Attempt(r)}]
            /\ reply' = [reply EXCEPT ![r] = "ok"]
        BY <2>7, <3>3 DEF Succeed
      <4>2. /\ wire[r] \subseteq {Attempt(r)} /\ reply[r] = "open"
            /\ Attempt(r) \in Attempts
        BY <2>7 DEF Succeed, WireClean, Attempt, Attempts, ConnectTypeOK
      <4>3. wire' = [wire EXCEPT ![r] = {Attempt(r)}] BY <4>1, <4>2 DEF ConnectTypeOK
      <4>4. Promise!Answer(r, Attempt(r)) BY <4>1, <4>2, <4>3 DEF Promise!Answer
      <4>5. pc' = [pc EXCEPT ![r] = "done"]
            /\ \A s \in Requests \ {r} : hops'[s] = hops[s]
        BY <4>1 DEF Leave, Goto, ConnectTypeOK
      <4>6. WireClean' BY <4>3, <4>5 DEF WireClean, Attempt, ConnectTypeOK
      <4>7. QED BY <4>2, <4>4, <4>6 DEF Promise!ReplyNext
    <3>4. QED BY <3>2, <3>3
  <2>8. ASSUME NEW r \in Requests, Unauthorized(r)
        PROVE  WireClean' /\ (Promise!ReplyNext \/ UNCHANGED client)
    <3>1. pc[r] # "done" BY <2>8 DEF Unauthorized
    <3>2. CASE row[r] \in Rows /\ ~gone[r] /\ ~Emitted(r) /\ EpochCurrent(r)
      <4>1. /\ Goto(r, "reviving") /\ UNCHANGED client /\ hops' = hops /\ wire[r] = {}
        BY <2>8, <3>2 DEF Unauthorized, Emitted
      <4>2. QED BY <2>4, <4>1
    <3>3. CASE ~(row[r] \in Rows /\ ~gone[r] /\ ~Emitted(r) /\ EpochCurrent(r))
      BY <2>2, <2>8, <3>1, <3>3 DEF Unauthorized
    <3>4. QED BY <3>2, <3>3
  <2>9. ASSUME NEW r \in Requests, Stop(r) \/ UnauthorizedAgain(r) \/ NotRevived(r)
        PROVE  WireClean' /\ (Promise!ReplyNext \/ UNCHANGED client)
    <3>1. pc[r] # "done" /\ (EndOrHop(r, TRUE) \/ End(r))
      BY <2>9 DEF Stop, UnauthorizedAgain, NotRevived
    <3>2. QED BY <2>2, <3>1
  <2>10. ASSUME NEW r \in Requests, NEW class, Fail(r, class)
         PROVE  WireClean' /\ (Promise!ReplyNext \/ UNCHANGED client)
    BY <2>2, <2>10 DEF Fail
  <2>11. ASSUME NEW r \in Requests, Hop(r)
         PROVE  WireClean' /\ (Promise!ReplyNext \/ UNCHANGED client)
    <3>1. pc[r] # "done" /\ wire[r] = {} BY <2>11 DEF Hop, WireClean
    <3>2. CASE End(r) BY <2>2, <3>1, <3>2
    <3>3. CASE ~End(r)
      <4>1. Goto(r, "ready") /\ UNCHANGED client /\ hops' = [hops EXCEPT ![r] = @ + 1]
        BY <2>11, <3>3 DEF Hop
      <4>2. \A s \in Requests \ {r} : hops'[s] = hops[s] BY <4>1 DEF ConnectTypeOK
      <4>3. QED BY <2>4, <3>1, <4>1, <4>2
    <3>4. QED BY <3>2, <3>3
  <2>12. ASSUME NEW r \in Requests, Disconnect(r) PROVE WireClean' /\ UNCHANGED client
    BY <2>3, <2>12 DEF Disconnect
  <2>13. ASSUME NEW a \in Rows, NEW k \in Keys, Rekey(a, k) \/ Add(a, k)
         PROVE  WireClean' /\ UNCHANGED client
    BY <2>3, <2>13 DEF Rekey, Add, conn
  <2>14. ASSUME NEW a \in Rows, Remove(a) \/ Recover(a) PROVE WireClean' /\ UNCHANGED client
    BY <2>3, <2>14 DEF Remove, Recover, conn
  <2>15. CASE UNCHANGED vars BY <2>3, <2>15 DEF vars, conn
  <2>16. QED
    BY <2>5, <2>6, <2>7, <2>8, <2>9, <2>10, <2>11, <2>12, <2>13, <2>14, <2>15
    DEF Next, Environment, Step
<1>3. QED BY <1>1, <1>2, ConnectTypes, PTL DEF Spec, ClientPromise, Promise!ReplySpec

-----------------------------------------------------------------------------
\* What a request has been refused, it has put down as tried, and it only ever
\* acquires a row whose key it has not tried.  A key that a login gave it, and
\* that is refused, is not put down: that ends the request.
TriedInv ==
    \A r \in Requests :
        /\ pc[r] # "done" => refused[r] \subseteq tried[r]
        /\ pc[r] = "idle" => tried[r] = {}
        /\ pc[r] = "calling" /\ row[r] \in Rows => cred[r] \in tried[r]
        /\ pc[r] = "ready" => cred[r] \notin tried[r]

\* A request that ends, or looks on with what it has tried, keeps the bargain.
LEMMA EndOrHopTried ==
    ASSUME NEW r \in Requests, NEW mayHop, ConnectTypeOK, TriedInv,
           EndOrHop(r, mayHop) \/ End(r),
           \A s \in Requests \ {r} : refused'[s] = refused[s],
           pc[r] # "done",
           mayHop /\ EndOrHop(r, mayHop) => refused'[r] \subseteq tried[r]
    PROVE  TriedInv'
<1>1. CASE End(r)
  <2>1. pc' = [pc EXCEPT ![r] = "done"] BY <1>1 DEF End, Leave, Goto
  <2>2. \A s \in Requests \ {r} :
            UNCHANGED <<pc[s], tried[s], row[s], cred[s], refused[s]>>
    BY <1>1 DEF End, Leave, Goto, ConnectTypeOK
  <2>3. QED BY <2>1, <2>2 DEF TriedInv, ConnectTypeOK
<1>2. CASE Leave(r, "pausing") /\ ~End(r)
  <2>1. pc' = [pc EXCEPT ![r] = "pausing"] /\ tried' = tried BY <1>2 DEF Leave, Goto
  <2>2. \A s \in Requests \ {r} :
            UNCHANGED <<pc[s], tried[s], row[s], cred[s], refused[s]>>
    BY <1>2 DEF Leave, Goto, ConnectTypeOK
  <2>3. mayHop /\ EndOrHop(r, mayHop) BY <1>2 DEF EndOrHop
  <2>4. QED BY <2>1, <2>2, <2>3 DEF TriedInv, ConnectTypeOK
<1>3. QED BY <1>1, <1>2 DEF EndOrHop

\* A request that is given an account is given one it has not tried.
LEMMA HoldTried ==
    ASSUME NEW r \in Requests, NEW a, ConnectTypeOK, TriedInv,
           a \in Selectable(tried[r]) \cup {NoRow}, pc[r] \in {"idle", "pausing"},
           Goto(r, "ready"), Hold(r, a), UNCHANGED <<tried, refused>>
    PROVE  TriedInv'
<1>1. /\ pc' = [pc EXCEPT ![r] = "ready"] /\ row' = [row EXCEPT ![r] = a]
      /\ cred' = [cred EXCEPT ![r] = IF a \in Rows THEN key[a] ELSE NoKey]
  BY DEF Goto, Hold
<1>2. a \in Rows => key[a] \notin tried[r] BY DEF Selectable
<1>3. cred'[r] \notin tried[r] BY <1>1, <1>2 DEF ConnectTypeOK
<1>4. pc'[r] = "ready" /\ \A s \in Requests \ {r} :
          UNCHANGED <<pc[s], tried[s], row[s], cred[s], refused[s]>>
  BY <1>1 DEF ConnectTypeOK
<1>5. QED BY <1>3, <1>4 DEF TriedInv

\* A key that was refused is not tried again on another hop of the same request.
THEOREM DeadKeysStayDead == Spec => DeadKeyStaysDead
<1>1. Init => TriedInv BY DEF Init, TriedInv
<1>2. ConnectTypeOK /\ KeyInHand /\ TriedInv /\ [Next]_vars => TriedInv'
  <2> SUFFICES ASSUME ConnectTypeOK, KeyInHand, TriedInv, [Next]_vars PROVE TriedInv' OBVIOUS
  <2>1. ASSUME UNCHANGED <<pc, tried, row, cred, refused>> PROVE TriedInv'
    BY <2>1 DEF TriedInv
  <2>2. ASSUME NEW r \in Requests, Acquire(r) PROVE TriedInv'
    <3>1. tried[r] = {} BY <2>2 DEF Acquire, TriedInv
    <3>2. PICK a \in Selectable({}) \cup {NoRow} : Hold(r, a) BY <2>2 DEF Acquire
    <3>3. QED BY <2>2, <3>1, <3>2, HoldTried DEF Acquire
  <2>3. ASSUME NEW r \in Requests, Stop(r) PROVE TriedInv'
    BY <2>3, EndOrHopTried DEF Stop, EndOrHop
  <2>4. ASSUME NEW r \in Requests, Call(r) PROVE TriedInv'
    <3>1. /\ pc' = [pc EXCEPT ![r] = "calling"] /\ UNCHANGED <<row, cred, refused>>
          /\ tried' = [tried EXCEPT ![r] = IF row[r] \in Rows THEN @ \cup {cred[r]} ELSE @]
      BY <2>4 DEF Call, Goto
    <3>2. \A s \in Requests \ {r} : UNCHANGED <<pc[s], tried[s]>>
      BY <3>1 DEF ConnectTypeOK
    <3>3. /\ pc'[r] = "calling" /\ tried[r] \subseteq tried'[r] /\ pc[r] # "done"
          /\ row[r] \in Rows => cred[r] \in tried'[r]
      BY <2>4, <3>1 DEF Call, ConnectTypeOK
    <3>4. QED BY <3>1, <3>2, <3>3 DEF TriedInv
  <2>5. ASSUME NEW r \in Requests, Succeed(r) PROVE TriedInv'
    <3>1. Leave(r, "done") /\ refused' = refused BY <2>5 DEF Succeed, End
    <3>2. pc' = [pc EXCEPT ![r] = "done"] /\ \A s \in Requests \ {r} :
              UNCHANGED <<pc[s], tried[s], row[s], cred[s], refused[s]>>
      BY <3>1 DEF Leave, Goto, ConnectTypeOK
    <3>3. QED BY <3>2 DEF TriedInv, ConnectTypeOK
  <2>6. ASSUME NEW r \in Requests, NEW class, Fail(r, class) PROVE TriedInv'
    <3>1. refused[r] \subseteq tried[r] /\ refused' = refused /\ pc[r] # "done"
      BY <2>6 DEF Fail, TriedInv
    <3>2. QED BY <2>6, <3>1, EndOrHopTried DEF Fail
  <2>7. ASSUME NEW r \in Requests, Refuse401(r)
        PROVE  /\ \A s \in Requests \ {r} : refused'[s] = refused[s]
               /\ pc[r] = "calling" => refused'[r] \subseteq tried[r]
    BY <2>7 DEF Refuse401, TriedInv, ConnectTypeOK
  <2>8. ASSUME NEW r \in Requests, Unauthorized(r) PROVE TriedInv'
    <3>1. /\ \A s \in Requests \ {r} : refused'[s] = refused[s]
          /\ refused'[r] \subseteq tried[r] /\ pc[r] = "calling"
      BY <2>7, <2>8 DEF Unauthorized
    <3>2. CASE row[r] \in Rows /\ ~gone[r] /\ ~Emitted(r) /\ EpochCurrent(r)
      <4>1. pc' = [pc EXCEPT ![r] = "reviving"] /\ UNCHANGED <<tried, row, cred>>
        BY <2>8, <3>2 DEF Unauthorized, Goto
      <4>2. QED BY <3>1, <4>1 DEF TriedInv, ConnectTypeOK
    <3>3. CASE ~(row[r] \in Rows /\ ~gone[r] /\ ~Emitted(r) /\ EpochCurrent(r))
      BY <2>8, <3>1, <3>3, EndOrHopTried DEF Unauthorized
    <3>4. QED BY <3>2, <3>3
  <2>9. ASSUME NEW r \in Requests, UnauthorizedAgain(r) PROVE TriedInv'
    <3>1. pc[r] # "done" /\ End(r) /\ \A s \in Requests \ {r} : refused'[s] = refused[s]
      BY <2>7, <2>9 DEF UnauthorizedAgain
    <3>2. EndOrHop(r, FALSE) BY <3>1 DEF EndOrHop
    <3>3. QED BY <3>1, <3>2, EndOrHopTried
  <2>10. ASSUME NEW r \in Requests, NEW k \in Keys, Revived(r, k) PROVE TriedInv'
    <3>1. /\ pc' = [pc EXCEPT ![r] = "retrying"] /\ cred' = [cred EXCEPT ![r] = k]
          /\ UNCHANGED <<tried, row, refused>> /\ pc[r] = "reviving"
      BY <2>10 DEF Revived, Goto
    <3>2. QED BY <3>1 DEF TriedInv, ConnectTypeOK
  <2>11. ASSUME NEW r \in Requests, NotRevived(r) PROVE TriedInv'
    <3>1. refused[r] \subseteq tried[r] /\ refused' = refused /\ pc[r] # "done"
      BY <2>11 DEF NotRevived, TriedInv
    <3>2. QED BY <2>11, <3>1, EndOrHopTried DEF NotRevived
  <2>12. ASSUME NEW r \in Requests, Hop(r) PROVE TriedInv'
    <3>1. refused[r] \subseteq tried[r] /\ refused' = refused /\ pc[r] = "pausing"
      BY <2>12 DEF Hop, TriedInv
    <3>2. CASE End(r)
      <4>1. EndOrHop(r, FALSE) BY <3>2 DEF EndOrHop
      <4>2. QED BY <3>1, <3>2, <4>1, EndOrHopTried
    <3>3. CASE ~End(r) BY <2>12, <3>1, <3>3, HoldTried DEF Hop
    <3>4. QED BY <3>2, <3>3
  <2>13. ASSUME NEW r \in Requests, Disconnect(r) \/ Emit(r) PROVE TriedInv'
    BY <2>1, <2>13 DEF Disconnect, Emit, conn
  <2>14. ASSUME NEW a \in Rows, NEW k \in Keys, Rekey(a, k) \/ Add(a, k) PROVE TriedInv'
    BY <2>1, <2>14 DEF Rekey, Add, conn
  <2>15. ASSUME NEW a \in Rows, Remove(a) \/ Recover(a) PROVE TriedInv'
    BY <2>1, <2>15 DEF Remove, Recover, conn
  <2>16. CASE UNCHANGED vars BY <2>1, <2>16 DEF vars, conn
  <2>17. QED
    BY <2>2, <2>3, <2>4, <2>5, <2>6, <2>8, <2>9, <2>10, <2>11, <2>12, <2>13, <2>14,
       <2>15, <2>16
    DEF Next, Environment, Step
<1>3. ConnectTypeOK /\ TriedInv
      => [\A r \in Requests :
            (pc[r] = "ready" /\ pc'[r] = "calling") => cred[r] \notin refused[r]]_vars
  BY DEF TriedInv
<1>4. QED BY <1>1, <1>2, <1>3, ConnectInduction, PTL DEF Spec, DeadKeyStaysDead

-----------------------------------------------------------------------------
USE ContAssumption

\* What a turn may ask, and the pairs that make a history.
Asked == {<<x>> : x \in Openers} \cup (Dialogs \X Nat)
Pairs == [ask : Asked, out : UNION {Answers[d] : d \in Dialogs}]
HeldState ==
    [id : Nat, window : Seq(Pairs), keys : SUBSET Pairs, root : Asked \cup {NoQuestion}]

DialogsOf == [Dialogs -> [hist : Seq(Pairs), ask : Asked \cup {NoQuestion},
                         id : Nat \cup {NoSession}, done : BOOLEAN]]

ContTypes ==
    /\ states \in Seq(HeldState)
    /\ commits \in SUBSET [window : Seq(Pairs), id : Nat]
    /\ minted \in Nat /\ lost \in BOOLEAN
    /\ dlg \in DialogsOf

\* Two histories have the same first n pairs.
Agree(h, g, n) == n <= Len(h) /\ n <= Len(g) /\ \A k \in 1 .. n : h[k] = g[k]

\* A pair tells who asked first and where, and with it all pairs before it.
RootedIn(D) ==
    \A d \in Dialogs : \A n \in 1 .. Len(D[d].hist) :
        \/ n = 1 /\ \E x \in Openers : D[d].hist[n].ask = <<x>>
        \/ /\ n > 1
           /\ \E e \in Dialogs : /\ D[d].hist[n].ask = <<e, n - 1>>
                                 /\ Agree(D[e].hist, D[d].hist, n)

Rooted == RootedIn(dlg)

\* What is being asked is the next question of the dialog.
Asking ==
    \A d \in Dialogs : dlg[d].ask # NoQuestion => dlg[d].ask \in Questions(d)

IdsOK ==
    /\ \A s, t \in AllOf(states) : s.id = t.id => s = t
    /\ \A s \in AllOf(states) : s.id \in 1 .. minted
    /\ \A d \in Dialogs : /\ dlg[d].hist # <<>> => dlg[d].id \in 1 .. minted
                          /\ dlg[d].done => dlg[d].hist # <<>>
    /\ \A c \in commits : c.id \in Living(states)

\* The window w ends with pair n of the history h; 0: it is empty.
Tip(w, h, n) == IF n = 0 THEN w = <<>> ELSE w # <<>> /\ w[Len(w)] = h[n]

\* State s has come to pair n of dialog e: whoever answered in its session, and
\* whatever it was committed with, lies on the way there.
StandsAt(s, e, n) ==
    /\ n \in 0 .. Len(dlg[e].hist) /\ Tip(s.window, dlg[e].hist, n)
    /\ \A d \in Dialogs : dlg[d].done /\ dlg[d].id = s.id
            => Len(dlg[d].hist) <= n /\ Agree(dlg[d].hist, dlg[e].hist, Len(dlg[d].hist))
    /\ \A c \in commits : c.id = s.id
            => \E m \in 1 .. n : Tip(c.window, dlg[e].hist, m) /\ dlg[e].hist[m] \in s.keys

AllPlaced == \A s \in AllOf(states) : \E e \in Dialogs, n \in Nat : StandsAt(s, e, n)

\* The state of a dialog indexes some pair of its history.
Findable ==
    \A d \in Dialogs : dlg[d].hist # <<>> =>
        \E s \in AllOf(states) : s.id = dlg[d].id /\ s.keys \cap AllOf(dlg[d].hist) # {}

ContSound == ContTypes /\ Rooted /\ Asking /\ IdsOK

ContInv == ContSound /\ (~lost => AllPlaced /\ Findable)

\* At the start there is no state and no dialog.
LEMMA ContStart == ContInit => ContInv
<1> SUFFICES ASSUME ContInit PROVE ContInv
  OBVIOUS
<1>1. AllOf(states) = {} /\ AllOf(<<>>) = {} /\ states \in Seq(HeldState)
  BY DEF ContInit, AllOf
<1>2. dlg \in DialogsOf
  BY DEF ContInit, DialogsOf
<1>3. ContTypes
  BY <1>1, <1>2 DEF ContInit, ContTypes
<1>4. \A d \in Dialogs : dlg[d].hist = <<>> /\ dlg[d].ask = NoQuestion /\ ~dlg[d].done
  BY DEF ContInit
<1>5. Rooted /\ Asking /\ IdsOK
  BY <1>1, <1>4 DEF ContInit, Rooted, RootedIn, Asking, IdsOK
<1>6. AllPlaced /\ Findable
  BY <1>1, <1>4 DEF AllPlaced, Findable
<1> QED BY <1>3, <1>5, <1>6 DEF ContInv, ContSound

\* What a dialog is made of.
LEMMA DialogIs ==
  ASSUME NEW D \in DialogsOf, NEW d \in Dialogs
  PROVE  /\ D[d].hist \in Seq(Pairs) /\ Len(D[d].hist) \in Nat
         /\ D[d].ask \in Asked \cup {NoQuestion}
         /\ D[d].id \in Nat \cup {NoSession} /\ D[d].done \in BOOLEAN
BY DEF DialogsOf

\* The same pair in two histories has the same way to it.
LEMMA SamePair ==
  ASSUME NEW D \in DialogsOf, RootedIn(D), NEW d \in Dialogs, NEW e \in Dialogs,
         NEW a \in 1 .. Len(D[d].hist), NEW b \in 1 .. Len(D[e].hist),
         D[d].hist[a] = D[e].hist[b]
  PROVE  a = b /\ Agree(D[d].hist, D[e].hist, a)
<1>0. Len(D[d].hist) \in Nat /\ Len(D[e].hist) \in Nat
  BY DialogIs
<1>1. \A x, f, n : <<x>> # <<f, n>>
  <2> SUFFICES ASSUME NEW x, NEW f, NEW n, <<x>> = <<f, n>> PROVE FALSE
    OBVIOUS
  <2>1. Len(<<x>>) = 1 /\ Len(<<f, n>>) = 2
    OBVIOUS
  <2> QED BY <2>1
<1>2. \/ a = 1 /\ \E x \in Openers : D[d].hist[a].ask = <<x>>
      \/ a > 1 /\ \E f \in Dialogs : D[d].hist[a].ask = <<f, a - 1>> /\ Agree(D[f].hist, D[d].hist, a)
  BY DEF RootedIn
<1>3. \/ b = 1 /\ \E x \in Openers : D[e].hist[b].ask = <<x>>
      \/ b > 1 /\ \E f \in Dialogs : D[e].hist[b].ask = <<f, b - 1>> /\ Agree(D[f].hist, D[e].hist, b)
  BY DEF RootedIn
<1>4. D[d].hist[a].ask = D[e].hist[b].ask
  OBVIOUS
<1>5. CASE a = 1
  <2>1. b = 1
    <3>1. PICK x \in Openers : D[d].hist[a].ask = <<x>>
      BY <1>2, <1>5
    <3> QED BY <1>1, <1>3, <1>4, <3>1
  <2> QED BY <1>0, <1>5, <2>1 DEF Agree
<1>6. CASE a > 1
  <2>1. PICK f \in Dialogs : D[d].hist[a].ask = <<f, a - 1>> /\ Agree(D[f].hist, D[d].hist, a)
    BY <1>2, <1>6
  <2>2. b > 1
    BY <1>1, <1>3, <1>4, <2>1
  <2>3. PICK g \in Dialogs : D[e].hist[b].ask = <<g, b - 1>> /\ Agree(D[g].hist, D[e].hist, b)
    BY <1>3, <2>2
  <2>4. f = g /\ a = b
    BY <1>4, <2>1, <2>3
  <2> QED BY <1>0, <2>1, <2>3, <2>4 DEF Agree
<1> QED BY <1>5, <1>6

\* The window of a history ends as the history does.
LEMMA RecentEnds ==
  ASSUME NEW h \in Seq(Pairs), h # <<>>
  PROVE  /\ Recent(h) \in Seq(Pairs) /\ Recent(h) # <<>>
         /\ Len(Recent(h)) \in 1 .. Len(h)
         /\ Recent(h)[Len(Recent(h))] = h[Len(h)]
         /\ h[Len(h)] \in AllOf(Recent(h))
<1> DEFINE a == IF Len(h) > Window THEN Len(h) - Window + 1 ELSE 1
           w == Recent(h)
<1>1. Len(h) \in Nat /\ Len(h) >= 1
  <2>1. Len(h) # 0
    BY EmptySeq
  <2> QED BY <2>1
<1>2. a \in 1 .. Len(h)
  BY <1>1
<1>3. w = SubSeq(h, a, Len(h))
  BY DEF Recent
<1> HIDE DEF a, w
<1>4. w \in Seq(Pairs) /\ Len(w) = Len(h) - a + 1
  BY <1>1, <1>2, <1>3
<1>5. \A i \in 1 .. Len(w) : w[i] = h[a + i - 1]
  BY <1>1, <1>2, <1>3, <1>4
<1>6. Len(w) \in 1 .. Len(h) /\ w[Len(w)] = h[Len(h)]
  BY <1>1, <1>2, <1>4, <1>5
<1>7. w # <<>> /\ h[Len(h)] \in AllOf(w)
  BY <1>4, <1>6 DEF AllOf
<1> QED BY <1>4, <1>6, <1>7 DEF w

\* What overlaps with a window has its last pair.
LEMMA CommonTip ==
  ASSUME NEW h \in Seq(Pairs), NEW w \in Seq(Pairs), Common(h, w) > 0
  PROVE  w # <<>> /\ \E a \in 1 .. Len(h) : w[Len(w)] = h[a]
<1> DEFINE ends == {a \in DOMAIN h : w # <<>> /\ h[a] = w[Len(w)]}
<1>1. CASE ends = {}
  <2>1. Common(h, w) = 0
    BY <1>1 DEF Common
  <2> QED BY <2>1
<1>2. CASE ends # {}
  BY <1>2
<1> QED BY <1>1, <1>2

\* The oldest of some states is one of them.
LEMMA EarliestIn ==
  ASSUME ContTypes, NEW S \in SUBSET AllOf(states), S # {}
  PROVE  Earliest(S) \in S
<1>1. \A s \in S : s \in HeldState /\ s.id \in Nat
  <2>1. AllOf(states) \subseteq HeldState
    BY DEF ContTypes, AllOf
  <2> QED BY <2>1 DEF HeldState
<1> DEFINE M == {s.id : s \in S}
<1>2. M \in SUBSET Nat /\ M # {}
  BY <1>1
<1> HIDE DEF M
<1>3. PICK x \in M : \A y \in M : x <= y
  BY <1>2, LeastOf
<1>4. \E s \in S : \A t \in S : s.id <= t.id
  BY <1>3 DEF M
<1> QED BY <1>4 DEF Earliest

\* What a state is made of.
LEMMA StateIs ==
  ASSUME ContTypes, NEW s \in AllOf(states)
  PROVE  s \in HeldState /\ s.window \in Seq(Pairs) /\ s.keys \in SUBSET Pairs /\ s.id \in Nat
<1>1. AllOf(states) \subseteq HeldState
  BY DEF ContTypes, AllOf
<1> QED BY <1>1 DEF HeldState

\* What the operations make of the states, as sets.
LEMMA NowIs ==
  ASSUME ContTypes, NEW s \in AllOf(states), NEW w \in Seq(Pairs)
  PROVE  /\ Now(s, w) \in Seq(HeldState)
         /\ AllOf(Now(s, w)) = (AllOf(states) \ {s})
                \cup {[s EXCEPT !.window = w, !.keys = @ \cup AllOf(w)]}
<1> DEFINE x == [s EXCEPT !.window = w, !.keys = @ \cup AllOf(w)]
           T == AllOf(states) \ {s}
           l == OnlyOf(states, T)
<1>1. s \in HeldState /\ AllOf(w) \in SUBSET Pairs
  BY DEF ContTypes, AllOf
<1>2. x \in HeldState
  BY <1>1 DEF HeldState
<1>3. states \in Seq(HeldState)
  BY DEF ContTypes
<1>4. AllOf(states) \cap T = T
  OBVIOUS
<1> HIDE DEF T
<1>5. l \in Seq(HeldState) /\ AllOf(l) = T
  BY <1>3, <1>4, AllOfKept, OnlyOfIn
<1> HIDE DEF l, x
<1>6. AllOf(Append(l, x)) = AllOf(l) \cup {x} /\ Append(l, x) \in Seq(HeldState)
  BY <1>2, <1>5, AllOfAppend
<1> QED BY <1>5, <1>6 DEF Now, l, x, T

\* A new state, and at most one less of the others.
LEMMA CreatedIs ==
  ASSUME ContTypes, NEW w \in Seq(Pairs), NEW q \in Asked \cup {NoQuestion}
  PROVE  /\ Created(w, q) \in Seq(HeldState)
         /\ \E B \in SUBSET AllOf(states) : AllOf(Created(w, q)) = B
                \cup {[id |-> minted + 1, window |-> w, keys |-> AllOf(w), root |-> q]}
<1> DEFINE x == [id |-> minted + 1, window |-> w, keys |-> AllOf(w), root |-> q]
           l == Crowded(states)
<1>1. x \in HeldState
  BY DEF HeldState, ContTypes, AllOf
<1>2. states \in Seq(HeldState)
  BY DEF ContTypes
<1>3. l \in Seq(HeldState) /\ AllOf(l) \in SUBSET AllOf(states)
  BY <1>2, AllOfKept, OnlyOfIn DEF Crowded
<1> HIDE DEF l, x
<1>4. AllOf(Append(l, x)) = AllOf(l) \cup {x} /\ Append(l, x) \in Seq(HeldState)
  BY <1>1, <1>3, AllOfAppend
<1> QED BY <1>3, <1>4 DEF Created, l, x

-----------------------------------------------------------------------------
\* Histories only grow.
Growing ==
    \A d \in Dialogs : /\ Len(dlg[d].hist) <= Len(dlg'[d].hist)
                       /\ \A k \in 1 .. Len(dlg[d].hist) : dlg'[d].hist[k] = dlg[d].hist[k]

\* Nobody answers in session id who did not before, but for the dialogs in D.
OnlyNew(id, D) ==
    \A c \in Dialogs : dlg'[c].done /\ dlg'[c].id = id
        => \/ c \in D
           \/ dlg[c].done /\ dlg[c].id = id /\ dlg'[c].hist = dlg[c].hist

\* A state that does not move stays where it was, when those who join it are
\* on the way there.
LEMMA StaysFor ==
  ASSUME ContTypes, ContTypes', Growing, NEW s, NEW t, NEW e \in Dialogs, NEW n, StandsAt(s, e, n),
         t.id = s.id, t.window = s.window, s.keys \subseteq t.keys,
         \A d \in Dialogs : dlg'[d].done /\ dlg'[d].id = s.id
            => \/ dlg[d].done /\ dlg[d].id = s.id /\ dlg'[d].hist = dlg[d].hist
               \/ /\ Len(dlg'[d].hist) <= n
                  /\ Agree(dlg'[d].hist, dlg'[e].hist, Len(dlg'[d].hist)),
         \A c \in commits' : c.id = s.id
            => \/ c \in commits
               \/ \E m \in 1 .. n : Tip(c.window, dlg'[e].hist, m) /\ dlg'[e].hist[m] \in t.keys
  PROVE  StandsAt(t, e, n)'
<1>1. /\ Len(dlg[e].hist) \in Nat /\ Len(dlg'[e].hist) \in Nat
      /\ Len(dlg[e].hist) <= Len(dlg'[e].hist)
      /\ \A k \in 1 .. Len(dlg[e].hist) : dlg'[e].hist[k] = dlg[e].hist[k]
  BY DialogIs DEF Growing, ContTypes
<1>2. n \in 0 .. Len(dlg[e].hist) /\ n \in 0 .. Len(dlg'[e].hist)
  BY <1>1 DEF StandsAt
<1>3. Tip(t.window, dlg'[e].hist, n)
  BY <1>1, <1>2 DEF StandsAt, Tip
<1>4. ASSUME NEW d \in Dialogs, dlg'[d].done /\ dlg'[d].id = t.id
      PROVE  Len(dlg'[d].hist) <= n /\ Agree(dlg'[d].hist, dlg'[e].hist, Len(dlg'[d].hist))
  <2>1. CASE dlg[d].done /\ dlg[d].id = s.id /\ dlg'[d].hist = dlg[d].hist
    <3>1. Len(dlg[d].hist) \in Nat
      BY DialogIs DEF ContTypes
    <3> QED BY <1>1, <1>2, <2>1, <3>1 DEF StandsAt, Agree
  <2> QED BY <1>4, <2>1
<1>5. ASSUME NEW c \in commits', c.id = t.id
      PROVE  \E m \in 1 .. n : Tip(c.window, dlg'[e].hist, m) /\ dlg'[e].hist[m] \in t.keys
  <2>1. CASE c \in commits
    <3>1. PICK m \in 1 .. n : Tip(c.window, dlg[e].hist, m) /\ dlg[e].hist[m] \in s.keys
      BY <1>5, <2>1 DEF StandsAt
    <3> QED BY <1>1, <1>2, <3>1 DEF Tip
  <2> QED BY <1>5, <2>1
<1> QED BY <1>2, <1>3, <1>4, <1>5 DEF StandsAt

\* In particular when nobody joins it.
LEMMA Stays ==
  ASSUME ContTypes, ContTypes', Growing, NEW s, NEW t, NEW e \in Dialogs, NEW n, StandsAt(s, e, n),
         t.id = s.id, t.window = s.window, s.keys \subseteq t.keys, OnlyNew(s.id, {}),
         \A c \in commits' : c.id = s.id => c \in commits
  PROVE  StandsAt(t, e, n)'
BY StaysFor DEF OnlyNew

\* A state whose window leads to the history of dialog d moves on to its end.
LEMMA MovesOn ==
  ASSUME ContTypes, ContTypes', Rooted', Growing, NEW s, NEW t, NEW e \in Dialogs, NEW n,
         StandsAt(s, e, n), NEW d \in Dialogs, dlg'[d].hist # <<>>,
         s.window = <<>> \/ \E a \in 1 .. Len(dlg'[d].hist) :
                                s.window[Len(s.window)] = dlg'[d].hist[a],
         t.id = s.id, t.window = Recent(dlg'[d].hist), s.keys \subseteq t.keys,
         OnlyNew(s.id, {d}),
         \A c \in commits' : c.id = s.id
              => \/ c \in commits
                 \/ c.window = Recent(dlg'[d].hist)
                    /\ dlg'[d].hist[Len(dlg'[d].hist)] \in t.keys
  PROVE  StandsAt(t, d, Len(dlg[d].hist))'
<1> DEFINE h == dlg'[d].hist
           g == dlg'[e].hist
<1>0. /\ Len(dlg[e].hist) \in Nat /\ Len(g) \in Nat /\ Len(dlg[e].hist) <= Len(g)
      /\ \A k \in 1 .. Len(dlg[e].hist) : g[k] = dlg[e].hist[k]
      /\ h \in Seq(Pairs) /\ Len(h) \in Nat
  BY DialogIs DEF Growing, ContTypes
<1>1. Len(h) >= 1
  BY <1>0, EmptySeq
<1>2. n \in 0 .. Len(dlg[e].hist) /\ n \in 0 .. Len(g)
  BY <1>0 DEF StandsAt
<1>3. n <= Len(h) /\ Agree(g, h, n)
  <2>1. CASE n = 0
    BY <1>0, <2>1 DEF Agree
  <2>2. CASE n # 0
    <3>1. s.window # <<>> /\ s.window[Len(s.window)] = dlg[e].hist[n] /\ n \in 1 .. Len(g)
      BY <1>2, <2>2 DEF StandsAt, Tip
    <3>2. PICK a \in 1 .. Len(h) : g[n] = h[a]
      BY <1>0, <1>2, <2>2, <3>1
    <3>3. n = a /\ Agree(g, h, n)
      BY <3>1, <3>2, SamePair DEF ContTypes, Rooted
    <3> QED BY <3>2, <3>3
  <2> QED BY <2>1, <2>2
<1>4. Tip(t.window, h, Len(h)) /\ Tip(Recent(h), h, Len(h))
  BY <1>0, <1>1, RecentEnds DEF Tip
<1>5. ASSUME NEW c \in Dialogs, dlg'[c].done /\ dlg'[c].id = t.id
      PROVE  Len(dlg'[c].hist) <= Len(h) /\ Agree(dlg'[c].hist, h, Len(dlg'[c].hist))
  <2>1. CASE c = d
    BY <1>0, <2>1 DEF Agree
  <2>2. CASE c # d
    <3>1. dlg[c].done /\ dlg[c].id = s.id /\ dlg'[c].hist = dlg[c].hist
      BY <1>5, <2>2 DEF OnlyNew
    <3>2. Len(dlg[c].hist) \in Nat
      BY DialogIs DEF ContTypes
    <3>3. Len(dlg[c].hist) <= n /\ Agree(dlg[c].hist, dlg[e].hist, Len(dlg[c].hist))
      BY <3>1 DEF StandsAt
    <3> QED BY <1>0, <1>2, <1>3, <3>1, <3>2, <3>3 DEF Agree
  <2> QED BY <2>1, <2>2
<1>6. ASSUME NEW c \in commits', c.id = t.id
      PROVE  \E m \in 1 .. Len(h) : Tip(c.window, h, m) /\ h[m] \in t.keys
  <2>1. CASE c \in commits
    <3>1. PICK m \in 1 .. n : Tip(c.window, dlg[e].hist, m) /\ dlg[e].hist[m] \in s.keys
      BY <1>6, <2>1 DEF StandsAt
    <3>2. m \in 1 .. Len(h) /\ h[m] = dlg[e].hist[m]
      BY <1>0, <1>2, <1>3, <3>1 DEF Agree
    <3> QED BY <3>1, <3>2 DEF Tip
  <2>2. CASE c.window = Recent(h) /\ h[Len(h)] \in t.keys
    BY <1>0, <1>1, <1>4, <2>2
  <2> QED BY <1>6, <2>1, <2>2
<1> QED BY <1>0, <1>4, <1>5, <1>6 DEF StandsAt

\* A state that is new has the history of the dialog it was made for.
LEMMA NewStands ==
  ASSUME ContTypes', NEW t, NEW d \in Dialogs, dlg'[d].hist # <<>>,
         t.window = Recent(dlg'[d].hist),
         \A c \in Dialogs : dlg'[c].done /\ dlg'[c].id = t.id => c = d,
         \A c \in commits' : c.id = t.id => /\ c.window = Recent(dlg'[d].hist)
                                            /\ dlg'[d].hist[Len(dlg'[d].hist)] \in t.keys
  PROVE  StandsAt(t, d, Len(dlg[d].hist))'
<1> DEFINE h == dlg'[d].hist
<1>0. h \in Seq(Pairs) /\ Len(h) \in Nat
  BY DialogIs DEF ContTypes
<1>1. Len(h) >= 1
  BY <1>0, EmptySeq
<1>2. Tip(Recent(h), h, Len(h))
  BY <1>0, <1>1, RecentEnds DEF Tip
<1>3. Agree(h, h, Len(h))
  BY <1>0 DEF Agree
<1>4. \A c \in commits' : c.id = t.id
         => \E m \in 1 .. Len(h) : Tip(c.window, h, m) /\ h[m] \in t.keys
  BY <1>0, <1>1, <1>2
<1> QED BY <1>0, <1>2, <1>3, <1>4 DEF StandsAt

\* One state is new, or is made of another one.
Renewed(B, t) ==
    /\ B \subseteq AllOf(states) /\ t \in HeldState /\ AllOf(states') = B \cup {t}
    /\ \/ /\ \E s \in AllOf(states) : /\ B = AllOf(states) \ {s}
                                      /\ t.id = s.id /\ s.keys \subseteq t.keys
          /\ minted' = minted
       \/ t.id = minted + 1 /\ minted' = minted + 1

\* Ids stay apart, and no state forgets a pair.
LEMMA IdsRenewed ==
  ASSUME ContTypes, IdsOK, NEW B, NEW t, Renewed(B, t)
  PROVE  /\ \A s, u \in AllOf(states') : s.id = u.id => s = u
         /\ \A s \in AllOf(states') : s.id \in 1 .. minted'
         /\ \A s \in B : s.id # t.id
         /\ \A s \in AllOf(states), u \in AllOf(states') : s.id = u.id => s.keys \subseteq u.keys
         /\ 1 .. minted \subseteq 1 .. minted'
<1>0. minted \in Nat
  BY DEF ContTypes
<1>1. \A s \in B : s.id # t.id
  <2>1. ASSUME NEW s \in AllOf(states), B = AllOf(states) \ {s}, t.id = s.id
        PROVE  \A u \in B : u.id # t.id
    BY <2>1 DEF IdsOK
  <2>2. ASSUME t.id = minted + 1 PROVE \A u \in B : u.id # t.id
    BY <1>0, <2>2 DEF IdsOK, Renewed
  <2> QED BY <2>1, <2>2 DEF Renewed
<1>2. \A s, u \in AllOf(states') : s.id = u.id => s = u
  BY <1>1 DEF Renewed, IdsOK
<1>3. t.id \in 1 .. minted' /\ 1 .. minted \subseteq 1 .. minted'
  BY <1>0 DEF Renewed, IdsOK
<1>4. \A s \in AllOf(states') : s.id \in 1 .. minted'
  BY <1>3 DEF Renewed, IdsOK
<1>5. ASSUME NEW s \in AllOf(states), NEW u \in AllOf(states'), s.id = u.id
      PROVE  s.keys \subseteq u.keys
  <2>1. CASE u \in B
    BY <1>5, <2>1 DEF Renewed, IdsOK
  <2>2. CASE u = t
    <3>1. t.id # minted + 1
      BY <1>0, <1>5, <2>2 DEF IdsOK
    <3>2. PICK r \in AllOf(states) : t.id = r.id /\ r.keys \subseteq t.keys
      BY <3>1 DEF Renewed
    <3> QED BY <1>5, <2>2, <3>2 DEF IdsOK
  <2> QED BY <1>5, <2>1, <2>2 DEF Renewed
<1> QED BY <1>1, <1>2, <1>3, <1>4, <1>5

\* Dialog d stays as it is, but for what it asks.
SameDialog(d) == /\ dlg'[d].hist = dlg[d].hist
           /\ dlg'[d].id = dlg[d].id /\ dlg'[d].done = dlg[d].done

\* Whose state lives on still finds it.
LEMMA StillFound ==
  ASSUME IdsOK, Findable, ~lost', lost' = (lost \/ Bereft), NEW d \in Dialogs, SameDialog(d),
         dlg[d].hist # <<>>,
         \A s \in AllOf(states), u \in AllOf(states') : s.id = u.id => s.keys \subseteq u.keys
  PROVE  \E u \in AllOf(states') : u.id = dlg'[d].id /\ u.keys \cap AllOf(dlg'[d].hist) # {}
<1>1. PICK s \in AllOf(states) : s.id = dlg[d].id /\ s.keys \cap AllOf(dlg[d].hist) # {}
  BY DEF Findable
<1>2. dlg[d].id \in Living(states')
  BY <1>1 DEF Bereft, Living
<1>3. PICK u \in AllOf(states') : u.id = dlg[d].id
  BY <1>2 DEF Living
<1>4. s.keys \subseteq u.keys
  BY <1>1, <1>3
<1> QED BY <1>1, <1>3, <1>4 DEF SameDialog

\* What a turn leaves sound, given that the state it is about stands somewhere.
LEMMA TurnSound ==
  ASSUME ContInv, NEW d \in Dialogs, NEW B, NEW t, Renewed(B, t),
         ContTypes', Rooted', Asking', Growing, lost' = (lost \/ Bereft),
         \A c \in Dialogs \ {d} : SameDialog(c),
         \/ SameDialog(d)
         \/ /\ dlg'[d].id = t.id /\ dlg'[d].hist # <<>>
            /\ ~lost' => t.keys \cap AllOf(dlg'[d].hist) # {},
         \A c \in commits' : c.id \in Living(states') /\ (c \in commits \/ c.id = t.id),
         ~lost' => \E e \in Dialogs, n \in Nat : StandsAt(t, e, n)'
  PROVE  ContInv'
<1>0. ContTypes /\ IdsOK /\ minted \in Nat
  BY DEF ContInv, ContSound, ContTypes
<1>1. /\ \A s, u \in AllOf(states') : s.id = u.id => s = u
      /\ \A s \in AllOf(states') : s.id \in 1 .. minted'
      /\ \A s \in B : s.id # t.id
      /\ \A s \in AllOf(states), u \in AllOf(states') : s.id = u.id => s.keys \subseteq u.keys
      /\ 1 .. minted \subseteq 1 .. minted'
  BY <1>0, IdsRenewed
<1>2. t \in AllOf(states') /\ B \subseteq AllOf(states) /\ AllOf(states') = B \cup {t}
  BY DEF Renewed
<1>3. ASSUME NEW c \in Dialogs
      PROVE  /\ dlg'[c].hist # <<>> => dlg'[c].id \in 1 .. minted'
             /\ dlg'[c].done => dlg'[c].hist # <<>>
  <2>1. CASE SameDialog(c)
    BY <1>0, <1>1, <2>1 DEF SameDialog, IdsOK
  <2>2. CASE dlg'[c].id = t.id /\ dlg'[c].hist # <<>>
    BY <1>1, <1>2, <2>2
  <2> QED BY <2>1, <2>2
<1>4. IdsOK'
  BY <1>1, <1>3 DEF IdsOK
<1>5. ASSUME ~lost' PROVE AllPlaced' /\ Findable'
  <2>1. AllPlaced /\ Findable
    BY <1>5 DEF ContInv
  <2>2. ASSUME NEW u \in B PROVE \E e \in Dialogs, n \in Nat : StandsAt(u, e, n)'
    <3>1. PICK e \in Dialogs, n \in Nat : StandsAt(u, e, n)
      BY <1>2, <2>1, <2>2 DEF AllPlaced
    <3>2. OnlyNew(u.id, {})
      BY <1>1 DEF OnlyNew, SameDialog
    <3>3. \A c \in commits' : c.id = u.id => c \in commits
      BY <1>1
    <3>4. StandsAt(u, e, n)'
      BY <1>0, <3>1, <3>2, <3>3, Stays
    <3> QED BY <3>4
  <2>3. AllPlaced'
    BY <1>2, <1>5, <2>2 DEF AllPlaced
  <2>4. ASSUME NEW c \in Dialogs, dlg'[c].hist # <<>>
        PROVE  \E u \in AllOf(states') : u.id = dlg'[c].id /\ u.keys \cap AllOf(dlg'[c].hist) # {}
    <3>1. CASE SameDialog(c)
      <4>1. dlg[c].hist # <<>>
        BY <2>4, <3>1 DEF SameDialog
      <4> QED BY <1>0, <1>1, <1>5, <2>1, <3>1, <4>1, StillFound
    <3>2. CASE dlg'[c].id = t.id /\ (~lost' => t.keys \cap AllOf(dlg'[c].hist) # {})
      BY <1>2, <1>5, <3>2
    <3> QED BY <3>1, <3>2
  <2> QED BY <2>3, <2>4 DEF Findable
<1> QED BY <1>4, <1>5 DEF ContInv, ContSound

-----------------------------------------------------------------------------
\* As long as histories stay the same, so does what their pairs tell.
LEMMA RootedStill ==
  ASSUME Rooted, \A c \in Dialogs : dlg'[c].hist = dlg[c].hist
  PROVE  Rooted'
<1> SUFFICES ASSUME NEW d \in Dialogs, NEW n \in 1 .. Len(dlg'[d].hist)
             PROVE  \/ n = 1 /\ \E x \in Openers : dlg'[d].hist[n].ask = <<x>>
                    \/ /\ n > 1
                       /\ \E e \in Dialogs : /\ dlg'[d].hist[n].ask = <<e, n - 1>>
                                             /\ Agree(dlg'[e].hist, dlg'[d].hist, n)
  BY DEF Rooted, RootedIn
<1>1. dlg'[d].hist = dlg[d].hist /\ n \in 1 .. Len(dlg[d].hist)
  OBVIOUS
<1>2. \/ n = 1 /\ \E x \in Openers : dlg[d].hist[n].ask = <<x>>
      \/ /\ n > 1
         /\ \E e \in Dialogs : /\ dlg[d].hist[n].ask = <<e, n - 1>>
                               /\ Agree(dlg[e].hist, dlg[d].hist, n)
  BY <1>1 DEF Rooted, RootedIn
<1> QED BY <1>1, <1>2, Zenon

\* A state as it is after Now, and what becomes of the others.
LEMMA NowRenews ==
  ASSUME ContTypes, NEW s \in AllOf(states), NEW w \in Seq(Pairs),
         states' = Now(s, w), minted' = minted
  PROVE  \E B, t : /\ Renewed(B, t) /\ states' \in Seq(HeldState)
                   /\ t.id = s.id /\ t.window = w /\ s.keys \subseteq t.keys
                   /\ AllOf(w) \subseteq t.keys
<1> DEFINE t == [s EXCEPT !.window = w, !.keys = @ \cup AllOf(w)]
           B == AllOf(states) \ {s}
<1>1. AllOf(states) \subseteq HeldState /\ AllOf(w) \subseteq Pairs
  BY DEF ContTypes, AllOf
<1>2. /\ t \in HeldState /\ t.id = s.id /\ t.window = w
      /\ t.keys = s.keys \cup AllOf(w)
  BY <1>1 DEF HeldState
<1>3. AllOf(states') = B \cup {t} /\ states' \in Seq(HeldState)
  BY NowIs
<1>4. Renewed(B, t)
  <2> HIDE DEF t
  <2> QED BY <1>2, <1>3 DEF Renewed
<1> QED BY <1>2, <1>3, <1>4

\* A new state renews none of the others.
LEMMA CreatedRenews ==
  ASSUME ContTypes, NEW w \in Seq(Pairs), NEW q \in Asked \cup {NoQuestion},
         states' = Created(w, q), minted' = minted + 1
  PROVE  \E B, t : /\ Renewed(B, t) /\ states' \in Seq(HeldState)
                   /\ t.id = minted + 1 /\ t.window = w /\ t.keys = AllOf(w)
<1> DEFINE t == [id |-> minted + 1, window |-> w, keys |-> AllOf(w), root |-> q]
<1>1. t \in HeldState
  BY DEF HeldState, ContTypes, AllOf
<1>2. PICK B \in SUBSET AllOf(states) : AllOf(states') = B \cup {t}
  BY CreatedIs
<1>3. states' \in Seq(HeldState)
  BY CreatedIs
<1>4. t.id = minted + 1 /\ t.window = w /\ t.keys = AllOf(w)
  OBVIOUS
<1>5. Renewed(B, t)
  <2> HIDE DEF t
  <2> QED BY <1>1, <1>2, <1>4 DEF Renewed
<1> QED BY <1>3, <1>4, <1>5

\* resolveSessionId keeps what is sound: it moves a state that leads to the
\* history, or makes one. The root fallback needs a dialog none of whose pairs
\* is indexed, which has lost its state.
LEMMA ResolveSound ==
  ASSUME ContInv, NEW d \in Dialogs, NEW q \in Questions(d), Resolve(d, q)
  PROVE  ContInv'
<1> DEFINE h == dlg[d].hist
<1>0. ContTypes /\ Rooted /\ Asking /\ IdsOK
  BY DEF ContInv, ContSound
<1>1. h \in Seq(Pairs) /\ Len(h) \in Nat /\ q \in Asked /\ dlg \in DialogsOf
  <2>1. h \in Seq(Pairs) /\ Len(h) \in Nat
    BY <1>0, DialogIs DEF ContTypes
  <2> QED BY <1>0, <2>1 DEF Questions, Asked, ContTypes
<1>2. /\ Resolved(h, q) /\ dlg' = [dlg EXCEPT ![d].ask = q]
      /\ commits' = Led(commits, states') /\ lost' = (lost \/ Bereft)
  BY DEF Resolve, Follow
<1>3. dlg' \in DialogsOf /\ dlg'[d].ask = q /\ \A c \in Dialogs \ {d} : dlg'[c] = dlg[c]
  BY <1>1, <1>2 DEF DialogsOf
<1>4. \A c \in Dialogs : SameDialog(c)
  BY <1>1, <1>2 DEF DialogsOf, SameDialog
<1>5. Rooted'
  BY <1>0, <1>4, RootedStill DEF SameDialog
<1>6. Growing
  BY <1>0, <1>4, DialogIs DEF Growing, SameDialog, ContTypes
<1>7. Asking'
  BY <1>0, <1>3, <1>4 DEF Asking, Questions, SameDialog
<1>8. \A c \in commits' : c \in commits /\ c.id \in Living(states')
  BY <1>2 DEF Led
<1>9. \A id : OnlyNew(id, {})
  BY <1>4 DEF OnlyNew, SameDialog
<1>10. SUFFICES \E B, t : /\ Renewed(B, t) /\ states' \in Seq(HeldState)
                          /\ ~lost' => \E e \in Dialogs, n \in Nat : StandsAt(t, e, n)'
  <2>1. PICK B, t : /\ Renewed(B, t) /\ states' \in Seq(HeldState)
                    /\ ~lost' => \E e \in Dialogs, n \in Nat : StandsAt(t, e, n)'
    BY <1>10
  <2>2. ContTypes'
    BY <1>0, <1>2, <1>3, <1>8, <2>1 DEF ContTypes, Renewed
  <2> QED BY <1>2, <1>4, <1>5, <1>6, <1>7, <1>8, <2>1, <2>2, TurnSound
<1>11. ASSUME states' \in Seq(HeldState), minted' \in Nat PROVE ContTypes'
  BY <1>0, <1>2, <1>3, <1>8, <1>11 DEF ContTypes
<1>12. minted \in Nat
  BY <1>0 DEF ContTypes
<1>13. CASE h = <<>> /\ UnderRoot(Root(h, q)) # {}
  <2> DEFINE s == Earliest(UnderRoot(Root(h, q)))
  <2>1. s \in AllOf(states)
    BY <1>0, <1>13, EarliestIn DEF UnderRoot
  <2>2. states' = Now(s, s.window) /\ minted' = minted
    BY <1>2, <1>13 DEF Resolved
  <2> HIDE DEF s
  <2>3. s.window \in Seq(Pairs)
    BY <1>0, <2>1, StateIs
  <2>4. PICK B, t : /\ Renewed(B, t) /\ states' \in Seq(HeldState)
                    /\ t.id = s.id /\ t.window = s.window /\ s.keys \subseteq t.keys
    BY <1>0, <2>1, <2>2, <2>3, NowRenews
  <2>5. ASSUME ~lost' PROVE \E e \in Dialogs, n \in Nat : StandsAt(t, e, n)'
    <3>1. PICK e \in Dialogs, n \in Nat : StandsAt(s, e, n)
      BY <1>2, <2>1, <2>5 DEF ContInv, AllPlaced
    <3>2. StandsAt(t, e, n)'
      BY <1>0, <1>6, <1>8, <1>9, <1>11, <1>12, <2>2, <2>4, <3>1, Stays
    <3> QED BY <3>2
  <2> QED BY <2>4, <2>5
<1>14. CASE h = <<>> /\ Mint /\ states' = Created(<<>>, q)
  <2>1. minted' = minted + 1 /\ <<>> \in Seq(Pairs)
    BY <1>14 DEF Mint
  <2>2. PICK B, t : /\ Renewed(B, t) /\ states' \in Seq(HeldState)
                    /\ t.id = minted + 1 /\ t.window = <<>>
    BY <1>0, <1>1, <1>14, <2>1, CreatedRenews
  <2>3. \A c \in Dialogs : ~ (dlg'[c].done /\ dlg'[c].id = t.id)
    BY <1>0, <1>4, <1>12, <2>2 DEF SameDialog, IdsOK
  <2>4. \A c \in commits' : c.id # t.id
    BY <1>0, <1>8, <1>12, <2>2 DEF IdsOK, Living
  <2>5. StandsAt(t, d, 0)'
    <3>1. Len(dlg'[d].hist) \in Nat
      BY <1>1, <1>4 DEF SameDialog
    <3> QED BY <2>2, <2>3, <2>4, <3>1 DEF StandsAt, Tip
  <2> QED BY <2>2, <2>5
<1>15. CASE h # <<>> /\ Best(h) # {}
            /\ states' = Now(Earliest(Best(h)), Recent(h)) /\ minted' = minted
  <2> DEFINE s == Earliest(Best(h))
  <2>1. s \in Best(h)
    BY <1>0, <1>15, EarliestIn DEF Best, Seen
  <2>2. states' = Now(s, Recent(h)) /\ minted' = minted
    BY <1>15
  <2> HIDE DEF s
  <2>3. s \in AllOf(states) /\ Common(h, s.window) > 0
    BY <2>1 DEF Best, Seen
  <2>4. s.window \in Seq(Pairs) /\ Recent(h) \in Seq(Pairs)
    BY <1>0, <1>1, <1>15, <2>3, RecentEnds, StateIs
  <2>5. PICK B, t : /\ Renewed(B, t) /\ states' \in Seq(HeldState)
                    /\ t.id = s.id /\ t.window = Recent(h) /\ s.keys \subseteq t.keys
    BY <1>0, <2>2, <2>3, <2>4, NowRenews
  <2>6. ASSUME ~lost' PROVE \E e \in Dialogs, n \in Nat : StandsAt(t, e, n)'
    <3>1. PICK e \in Dialogs, n \in Nat : StandsAt(s, e, n)
      BY <1>2, <2>3, <2>6 DEF ContInv, AllPlaced
    <3>2. dlg'[d].hist = h
      BY <1>4 DEF SameDialog
    <3>3. \E a \in 1 .. Len(h) : s.window[Len(s.window)] = h[a]
      BY <1>1, <2>3, <2>4, CommonTip
    <3>4. OnlyNew(s.id, {d})
      BY <1>9 DEF OnlyNew
    <3>5. StandsAt(t, d, Len(dlg[d].hist))'
      BY <1>0, <1>5, <1>6, <1>8, <1>11, <1>12, <1>15, <2>2, <2>5, <3>1, <3>2, <3>3, <3>4, MovesOn
    <3> QED BY <1>1, <3>2, <3>5
  <2> QED BY <2>5, <2>6
<1>16. CASE h # <<>> /\ Seen(h) = {} /\ Cardinality(UnderRoot(Root(h, q))) = 1
            /\ states' = Now(Earliest(UnderRoot(Root(h, q))), Recent(h)) /\ minted' = minted
  <2> DEFINE s == Earliest(UnderRoot(Root(h, q)))
  <2>1. s \in AllOf(states)
    <3>1. UnderRoot(Root(h, q)) # {}
      <4>1. \A one : one = {} => Cardinality(one) = 0
        BY FS_EmptySet
      <4>2. UnderRoot(Root(h, q)) = {} => 1 = 0
        BY <1>16, <4>1, Zenon
      <4> QED BY <4>2
    <3> QED BY <1>0, <3>1, EarliestIn DEF UnderRoot
  <2>2. states' = Now(s, Recent(h)) /\ minted' = minted
    BY <1>16
  <2> HIDE DEF s
  <2>3. Recent(h) \in Seq(Pairs)
    BY <1>1, <1>16, RecentEnds
  <2>4. PICK B, t : Renewed(B, t) /\ states' \in Seq(HeldState)
    BY <1>0, <2>1, <2>2, <2>3, NowRenews
  <2>5. lost
    <3>1. ~Findable
      BY <1>16 DEF Findable, Seen
    <3> QED BY <3>1 DEF ContInv
  <2> QED BY <1>2, <2>4, <2>5
<1>17. CASE h # <<>> /\ Mint /\ states' = Created(Recent(h), NoQuestion)
  <2>1. minted' = minted + 1 /\ Recent(h) \in Seq(Pairs)
    BY <1>1, <1>17, RecentEnds DEF Mint
  <2>2. PICK B, t : /\ Renewed(B, t) /\ states' \in Seq(HeldState)
                    /\ t.id = minted + 1 /\ t.window = Recent(h)
    BY <1>0, <1>17, <2>1, CreatedRenews
  <2>3. \A c \in Dialogs : ~ (dlg'[c].done /\ dlg'[c].id = t.id)
    BY <1>0, <1>4, <1>12, <2>2 DEF SameDialog, IdsOK
  <2>4. \A c \in commits' : c.id # t.id
    BY <1>0, <1>8, <1>12, <2>2 DEF IdsOK, Living
  <2>5. dlg'[d].hist = h
    BY <1>4 DEF SameDialog
  <2>6. StandsAt(t, d, Len(dlg[d].hist))'
    BY <1>11, <1>12, <1>17, <2>1, <2>2, <2>3, <2>4, <2>5, NewStands
  <2> QED BY <1>1, <2>2, <2>5, <2>6
<1> QED BY <1>2, <1>13, <1>14, <1>15, <1>16, <1>17 DEF Resolved

\* A dialog belongs to one session.
LEMMA OneSession ==
  ASSUME ContTypes, NEW d \in Dialogs, NEW h, NEW i, NEW id, Belongs(d, h, i), Belongs(d, h, id)
  PROVE  i = id
<1>1. DOMAIN dlg = Dialogs
  BY DEF ContTypes, DialogsOf
<1>2. dlg'[d].id = i /\ dlg'[d].id = id
  BY <1>1 DEF Belongs
<1> QED BY <1>2

\* An answer makes a dialog longer by a pair that is its own, or the first.
LEMMA AnswerRooted ==
  ASSUME ContTypes, Rooted, Asking, NEW d \in Dialogs, NEW o \in Answers[d],
         dlg[d].ask # NoQuestion, NEW id \in Nat, NEW h,
         h = Append(dlg[d].hist, [ask |-> dlg[d].ask, out |-> o]), Belongs(d, h, id)
  PROVE  /\ h \in Seq(Pairs) /\ h # <<>> /\ Len(h) \in Nat /\ Len(h) >= 1
         /\ dlg' \in DialogsOf /\ dlg'[d].hist = h /\ dlg'[d].id = id /\ dlg'[d].done
         /\ \A c \in Dialogs \ {d} : dlg'[c] = dlg[c]
         /\ Rooted' /\ Asking' /\ Growing
<1> DEFINE g == dlg[d].hist
           p == [ask |-> dlg[d].ask, out |-> o]
<1>0. /\ g \in Seq(Pairs) /\ Len(g) \in Nat /\ dlg[d].ask \in Questions(d) /\ p \in Pairs
  BY DialogIs DEF ContTypes, Asking, Pairs
<1>1. p.ask = dlg[d].ask
  OBVIOUS
<1> HIDE DEF p
<1>2. /\ h \in Seq(Pairs) /\ Len(h) = Len(g) + 1 /\ h[Len(h)] = p
      /\ \A k \in 1 .. Len(g) : h[k] = g[k]
  BY <1>0 DEF p
<1>3. h # <<>> /\ Len(h) >= 1
  BY <1>0, <1>2
<1>4. /\ dlg' \in DialogsOf /\ dlg'[d].hist = h /\ dlg'[d].id = id /\ dlg'[d].done
      /\ dlg'[d].ask = NoQuestion
      /\ \A c \in Dialogs \ {d} : dlg'[c] = dlg[c]
  BY <1>2 DEF Belongs, ContTypes, DialogsOf
<1>5. \A c \in Dialogs : Len(dlg[c].hist) \in Nat /\ Len(dlg'[c].hist) \in Nat
  BY <1>4, DialogIs DEF ContTypes
<1>6. Growing
  <2> SUFFICES ASSUME NEW c \in Dialogs
               PROVE  /\ Len(dlg[c].hist) <= Len(dlg'[c].hist)
                      /\ \A k \in 1 .. Len(dlg[c].hist) : dlg'[c].hist[k] = dlg[c].hist[k]
    BY DEF Growing
  <2>1. CASE c = d
    BY <1>0, <1>2, <1>4, <2>1
  <2>2. CASE c # d
    BY <1>4, <1>5, <2>2
  <2> QED BY <2>1, <2>2
<1>7. Asking'
  BY <1>4 DEF Asking, Questions
<1>8. ASSUME NEW c \in Dialogs, NEW n \in 1 .. Len(dlg'[c].hist)
      PROVE  \/ n = 1 /\ \E x \in Openers : dlg'[c].hist[n].ask = <<x>>
             \/ /\ n > 1
                /\ \E e \in Dialogs : /\ dlg'[c].hist[n].ask = <<e, n - 1>>
                                      /\ Agree(dlg'[e].hist, dlg'[c].hist, n)
  <2>1. CASE n \in 1 .. Len(dlg[c].hist)
    <3>1. dlg'[c].hist[n] = dlg[c].hist[n]
      BY <1>6, <2>1 DEF Growing
    <3>2. \/ n = 1 /\ \E x \in Openers : dlg[c].hist[n].ask = <<x>>
          \/ /\ n > 1
             /\ \E e \in Dialogs : /\ dlg[c].hist[n].ask = <<e, n - 1>>
                                   /\ Agree(dlg[e].hist, dlg[c].hist, n)
      BY <2>1 DEF Rooted, RootedIn
    <3>3. ASSUME NEW e \in Dialogs, Agree(dlg[e].hist, dlg[c].hist, n)
          PROVE  Agree(dlg'[e].hist, dlg'[c].hist, n)
      <4>1. /\ Len(dlg[e].hist) <= Len(dlg'[e].hist) /\ Len(dlg[c].hist) <= Len(dlg'[c].hist)
            /\ \A k \in 1 .. Len(dlg[e].hist) : dlg'[e].hist[k] = dlg[e].hist[k]
            /\ \A k \in 1 .. Len(dlg[c].hist) : dlg'[c].hist[k] = dlg[c].hist[k]
        BY <1>6 DEF Growing
      <4>2. /\ n <= Len(dlg[e].hist) /\ n <= Len(dlg[c].hist)
            /\ \A k \in 1 .. n : dlg[e].hist[k] = dlg[c].hist[k]
        BY <3>3 DEF Agree
      <4>3. \A k \in 1 .. n : k \in 1 .. Len(dlg[e].hist) /\ k \in 1 .. Len(dlg[c].hist)
        BY <1>5, <4>2
      <4>4. \A k \in 1 .. n : dlg'[e].hist[k] = dlg'[c].hist[k]
        BY <4>1, <4>2, <4>3
      <4>5. n <= Len(dlg'[e].hist) /\ n <= Len(dlg'[c].hist)
        BY <1>5, <4>1, <4>2
      <4> QED BY <4>4, <4>5 DEF Agree
    <3> QED BY <3>1, <3>2, <3>3
  <2>2. CASE n \notin 1 .. Len(dlg[c].hist)
    <3>1. c = d /\ n = Len(h)
      BY <1>0, <1>2, <1>4, <1>5, <2>2
    <3>2. dlg'[c].hist[n].ask = dlg[d].ask
      BY <1>1, <1>2, <1>4, <3>1
    <3>3. CASE g = <<>>
      <4>1. n = 1
        BY <1>2, <3>1, <3>3
      <4>2. \E x \in Openers : dlg[d].ask = <<x>>
        BY <1>0, <3>3 DEF Questions
      <4> QED BY <3>2, <4>1, <4>2
    <3>4. CASE g # <<>>
      <4>1. Len(g) >= 1
        BY <1>0, <3>4, EmptySeq
      <4>2. dlg[d].ask = <<d, n - 1>> /\ n > 1
        BY <1>0, <1>2, <3>1, <3>4, <4>1 DEF Questions
      <4>3. Agree(dlg'[d].hist, dlg'[d].hist, n)
        BY <1>2, <1>4, <1>5, <3>1 DEF Agree
      <4> QED BY <3>1, <3>2, <4>2, <4>3
    <3> QED BY <3>3, <3>4
  <2> QED BY <2>1, <2>2
<1>9. Rooted'
  BY <1>8 DEF Rooted, RootedIn
<1> QED BY <1>2, <1>3, <1>4, <1>5, <1>6, <1>7, <1>9

\* commitAfterResponse keeps what is sound: the state it takes leads to the
\* history, or was committed with it, or was claimed by nobody.
LEMMA CommitSound ==
  ASSUME ContInv, NEW d \in Dialogs, NEW o \in Answers[d], Commit(d, o)
  PROVE  ContInv'
<1>0. ContTypes /\ Rooted /\ Asking /\ IdsOK /\ minted \in Nat
  BY DEF ContInv, ContSound, ContTypes
<1>1. PICK h : h = Append(dlg[d].hist, [ask |-> dlg[d].ask, out |-> o])
  OBVIOUS
<1>2. dlg[d].ask # NoQuestion /\ Committed(d, h)
  BY <1>1 DEF Commit
<1>3. Earliest(Own(h)) \in AllOf(states) \/ Own(h) = {}
  BY <1>0, EarliestIn DEF Own
<1>4. ASSUME NEW q PROVE Earliest(Claimable(q)) \in Claimable(q) \/ Claimable(q) = {}
  BY <1>0, EarliestIn DEF Claimable, UnderRoot
<1>5. \A s \in Matching(h) : s \in AllOf(states) /\ Common(h, s.window) > 0
  BY DEF Matching
<1>6. PICK id \in Nat : Belongs(d, h, id)
  <2>1. ASSUME NEW s \in AllOf(states), NEW w, Taken(d, h, s, w)
        PROVE  \E i \in Nat : Belongs(d, h, i)
    BY <1>0, <2>1, StateIs DEF Taken
  <2>2. \A q : Claimable(q) \subseteq AllOf(states)
    BY DEF Claimable, UnderRoot
  <2>3. minted + 1 \in Nat
    BY <1>0
  <2> QED BY <1>2, <1>3, <1>4, <1>5, <2>1, <2>2, <2>3 DEF Committed
<1>7. /\ h \in Seq(Pairs) /\ h # <<>> /\ Len(h) \in Nat /\ Len(h) >= 1
      /\ dlg' \in DialogsOf /\ dlg'[d].hist = h /\ dlg'[d].id = id /\ dlg'[d].done
      /\ \A c \in Dialogs \ {d} : dlg'[c] = dlg[c]
      /\ Rooted' /\ Asking' /\ Growing
  BY <1>0, <1>1, <1>2, <1>6, AnswerRooted
<1>8. \A c \in Dialogs \ {d} : SameDialog(c)
  BY <1>7 DEF SameDialog
<1>9. /\ lost' = (lost \/ Bereft)
      /\ commits' = Led({c \in commits : c.window # Recent(h)}
                          \cup {[window |-> Recent(h), id |-> id]}, states')
  BY <1>2, <1>7 DEF Committed
<1>10. \A c \in commits' : /\ c.id \in Living(states')
                           /\ c \in commits \/ (c.window = Recent(h) /\ c.id = id)
  <2> SUFFICES ASSUME NEW c \in commits'
               PROVE  /\ c.id \in Living(states')
                      /\ c \in commits \/ (c.window = Recent(h) /\ c.id = id)
    OBVIOUS
  <2>1. /\ c.id \in Living(states')
        /\ c \in commits \/ c = [window |-> Recent(h), id |-> id]
    BY <1>9 DEF Led
  <2>2. [window |-> Recent(h), id |-> id].window = Recent(h)
        /\ [window |-> Recent(h), id |-> id].id = id
    OBVIOUS
  <2> QED BY <2>1, <2>2, Zenon
<1>11. Recent(h) \in Seq(Pairs) /\ h[Len(h)] \in AllOf(Recent(h)) /\ h[Len(h)] \in AllOf(h)
  BY <1>7, RecentEnds DEF AllOf
<1>12. commits' \in SUBSET [window : Seq(Pairs), id : Nat]
  BY <1>0, <1>6, <1>9, <1>11 DEF Led, ContTypes
<1>13. ASSUME states' \in Seq(HeldState), minted' \in Nat PROVE ContTypes'
  BY <1>0, <1>7, <1>9, <1>12, <1>13 DEF ContTypes
<1>14. OnlyNew(id, {d})
  <2> SUFFICES ASSUME NEW c \in Dialogs, c # d, dlg'[c].done, dlg'[c].id = id
               PROVE  dlg[c].done /\ dlg[c].id = id /\ dlg'[c].hist = dlg[c].hist
    BY DEF OnlyNew
  <2>1. dlg'[c] = dlg[c]
    BY <1>7
  <2> QED BY <2>1
<1>15. SUFFICES \E B, t : /\ Renewed(B, t) /\ states' \in Seq(HeldState)
                          /\ t.id = id
                          /\ ~lost' => /\ h[Len(h)] \in t.keys
                                       /\ \E e \in Dialogs, n \in Nat : StandsAt(t, e, n)'
  <2>1. PICK B, t : /\ Renewed(B, t) /\ states' \in Seq(HeldState)
                    /\ t.id = id
                    /\ ~lost' => /\ h[Len(h)] \in t.keys
                                 /\ \E e \in Dialogs, n \in Nat : StandsAt(t, e, n)'
    BY <1>15
  <2>2. ContTypes'
    BY <1>0, <1>13, <2>1 DEF Renewed
  <2>3. ~lost' => t.keys \cap AllOf(dlg'[d].hist) # {}
    BY <1>7, <1>11, <2>1
  <2> QED BY <1>7, <1>8, <1>9, <1>10, <2>1, <2>2, <2>3, TurnSound
\* A state that leads to the history, or that nobody claimed, moves on.
<1>16. ASSUME NEW s \in AllOf(states), Taken(d, h, s, Recent(h)),
              s.window = <<>> \/ \E a \in 1 .. Len(h) : s.window[Len(s.window)] = h[a]
       PROVE  \E B, t : /\ Renewed(B, t) /\ states' \in Seq(HeldState)
                        /\ t.id = id
                        /\ ~lost' => /\ h[Len(h)] \in t.keys
                                     /\ \E e \in Dialogs, n \in Nat : StandsAt(t, e, n)'
  <2>1. states' = Now(s, Recent(h)) /\ minted' = minted /\ Belongs(d, h, s.id)
    BY <1>16 DEF Taken
  <2>2. s.id = id
    BY <1>0, <1>6, <2>1, OneSession
  <2>3. PICK B, t : /\ Renewed(B, t) /\ states' \in Seq(HeldState)
                    /\ t.id = s.id /\ t.window = Recent(h) /\ s.keys \subseteq t.keys
                    /\ AllOf(Recent(h)) \subseteq t.keys
    BY <1>0, <1>11, <2>1, NowRenews
  <2>4. ASSUME ~lost' PROVE \E e \in Dialogs, n \in Nat : StandsAt(t, e, n)'
    <3>1. PICK e \in Dialogs, n \in Nat : StandsAt(s, e, n)
      BY <1>9, <2>4 DEF ContInv, AllPlaced
    <3>2. ContTypes'
      BY <1>0, <1>13, <2>1, <2>3
    <3>3. \A c \in commits' : c.id = s.id
              => c \in commits \/ (c.window = Recent(h) /\ h[Len(h)] \in t.keys)
      BY <1>10, <1>11, <2>3
    <3>4. /\ dlg'[d].hist # <<>> /\ t.window = Recent(dlg'[d].hist)
          /\ s.window = <<>> \/ \E a \in 1 .. Len(dlg'[d].hist) :
                                    s.window[Len(s.window)] = dlg'[d].hist[a]
          /\ OnlyNew(s.id, {d})
          /\ \A c \in commits' : c.id = s.id
                 => \/ c \in commits
                    \/ c.window = Recent(dlg'[d].hist)
                       /\ dlg'[d].hist[Len(dlg'[d].hist)] \in t.keys
      BY <1>7, <1>14, <1>16, <2>2, <2>3, <3>3
    <3>5. StandsAt(t, d, Len(dlg[d].hist))'
      BY <1>0, <1>7, <2>3, <3>1, <3>2, <3>4, MovesOn
    <3> QED BY <1>7, <3>5
  <2> QED BY <1>11, <2>2, <2>3, <2>4
<1>17. CASE Own(h) # {} /\ Taken(d, h, Earliest(Own(h)), Earliest(Own(h)).window)
  <2> DEFINE s == Earliest(Own(h))
  <2>1. s \in Own(h)
    BY <1>0, <1>17, EarliestIn DEF Own
  <2>2. states' = Now(s, s.window) /\ minted' = minted /\ Belongs(d, h, s.id)
    BY <1>17 DEF Taken
  <2> HIDE DEF s
  <2>3. s \in AllOf(states) /\ s.window \in Seq(Pairs) /\ s.id \in Nat
    BY <1>0, <2>1, StateIs DEF Own
  <2>4. s.id = id
    BY <1>0, <1>6, <2>2, OneSession
  <2>5. PICK B, t : /\ Renewed(B, t) /\ states' \in Seq(HeldState)
                    /\ t.id = s.id /\ t.window = s.window /\ s.keys \subseteq t.keys
    BY <1>0, <2>2, <2>3, NowRenews
  <2>6. PICK k \in commits : k.window = Recent(h) /\ k.id = s.id
    BY <2>1 DEF Own
  <2>7. ContTypes'
    BY <1>0, <1>13, <2>2, <2>5
\* The window it was committed with ends as the history does, so that they are
\* the same history.
  <2>8. ASSUME NEW e \in Dialogs, NEW n, StandsAt(s, e, n)
        PROVE  /\ n \in Nat /\ Len(h) \in 1 .. n /\ Agree(h, dlg'[e].hist, Len(h))
               /\ Tip(Recent(h), dlg'[e].hist, Len(h)) /\ dlg'[e].hist[Len(h)] = h[Len(h)]
               /\ h[Len(h)] \in s.keys
    <3>1. PICK m \in 1 .. n : Tip(k.window, dlg[e].hist, m) /\ dlg[e].hist[m] \in s.keys
      BY <2>6, <2>8 DEF StandsAt
    <3>2. n \in 0 .. Len(dlg[e].hist) /\ Len(dlg[e].hist) \in Nat /\ Len(dlg'[e].hist) \in Nat
      BY <1>0, <1>7, <2>8, DialogIs DEF StandsAt, ContTypes
    <3>3. m \in 1 .. Len(dlg[e].hist) /\ m \in 1 .. Len(dlg'[e].hist)
          /\ dlg'[e].hist[m] = dlg[e].hist[m]
      BY <1>7, <3>1, <3>2 DEF Growing
    <3>4. dlg[e].hist[m] = h[Len(h)]
      BY <1>7, <2>6, <3>1, <3>2, RecentEnds DEF Tip
    <3>5. Len(h) \in 1 .. Len(dlg'[d].hist) /\ dlg'[d].hist[Len(h)] = dlg'[e].hist[m]
      BY <1>7, <3>3, <3>4
    <3>6. Len(h) = m /\ Agree(dlg'[d].hist, dlg'[e].hist, Len(h))
      BY <1>7, <3>3, <3>5, SamePair DEF Rooted
    <3>7. Tip(Recent(h), dlg'[e].hist, m)
      BY <1>7, <2>6, <3>1, <3>2, <3>3 DEF Tip
    <3> QED BY <1>7, <3>1, <3>2, <3>3, <3>4, <3>6, <3>7
  <2>9. ASSUME ~lost'
        PROVE  h[Len(h)] \in t.keys /\ \E e \in Dialogs, n \in Nat : StandsAt(t, e, n)'
    <3>1. PICK e \in Dialogs, n \in Nat : StandsAt(s, e, n)
      BY <1>9, <2>3, <2>9 DEF ContInv, AllPlaced
    <3>2. /\ Len(h) \in 1 .. n /\ Agree(h, dlg'[e].hist, Len(h))
          /\ Tip(Recent(h), dlg'[e].hist, Len(h)) /\ dlg'[e].hist[Len(h)] \in t.keys
          /\ h[Len(h)] \in t.keys
      BY <2>5, <2>8, <3>1
    <3>3. ASSUME NEW c \in Dialogs, dlg'[c].done /\ dlg'[c].id = s.id
          PROVE  \/ dlg[c].done /\ dlg[c].id = s.id /\ dlg'[c].hist = dlg[c].hist
                 \/ /\ Len(dlg'[c].hist) <= n
                    /\ Agree(dlg'[c].hist, dlg'[e].hist, Len(dlg'[c].hist))
      <4>1. CASE c = d
        BY <1>7, <3>2, <4>1
      <4>2. CASE c # d
        BY <1>14, <2>4, <3>3, <4>2 DEF OnlyNew
      <4> QED BY <4>1, <4>2
    <3>4. ASSUME NEW c \in commits', c.id = s.id
          PROVE  \/ c \in commits
                 \/ \E m \in 1 .. n : Tip(c.window, dlg'[e].hist, m) /\ dlg'[e].hist[m] \in t.keys
      BY <1>10, <3>2
    <3>5. StandsAt(t, e, n)'
      BY <1>0, <1>7, <2>5, <2>7, <3>1, <3>3, <3>4, StaysFor
    <3> QED BY <3>2, <3>5
  <2> QED BY <2>4, <2>5, <2>9
<1>18. CASE \E s \in Matching(h) : Taken(d, h, s, Recent(h))
  <2>1. PICK s \in Matching(h) : Taken(d, h, s, Recent(h))
    BY <1>18
  <2>2. s \in AllOf(states) /\ s.window \in Seq(Pairs) /\ Common(h, s.window) > 0
    BY <1>0, <1>5, StateIs
  <2>3. \E a \in 1 .. Len(h) : s.window[Len(s.window)] = h[a]
    BY <1>7, <2>2, CommonTip
  <2> QED BY <1>16, <2>1, <2>2, <2>3
<1>19. ASSUME NEW q, Claimable(q) # {}, Taken(d, h, Earliest(Claimable(q)), Recent(h))
       PROVE  \E B, t : /\ Renewed(B, t) /\ states' \in Seq(HeldState)
                        /\ t.id = id
                        /\ ~lost' => /\ h[Len(h)] \in t.keys
                                     /\ \E e \in Dialogs, n \in Nat : StandsAt(t, e, n)'
  <2>1. Earliest(Claimable(q)) \in AllOf(states) /\ Earliest(Claimable(q)).window = <<>>
    BY <1>4, <1>19 DEF Claimable, UnderRoot
  <2> QED BY <1>16, <1>19, <2>1
<1>20. CASE /\ Mint /\ states' = Created(Recent(h), Root(h, NoQuestion))
            /\ Belongs(d, h, minted + 1)
  <2>1. minted' = minted + 1 /\ Root(h, NoQuestion) \in Asked \cup {NoQuestion}
    <3>1. h[1] \in Pairs
      BY <1>7
    <3>2. h[1].ask \in Asked
      BY <3>1 DEF Pairs
    <3> QED BY <1>20, <3>2 DEF Mint, Root
  <2>2. PICK B, t : /\ Renewed(B, t) /\ states' \in Seq(HeldState)
                    /\ t.id = minted + 1 /\ t.window = Recent(h) /\ t.keys = AllOf(Recent(h))
    BY <1>0, <1>11, <1>20, <2>1, CreatedRenews
  <2>3. id = minted + 1
    BY <1>0, <1>6, <1>20, OneSession
  <2>4. ASSUME NEW c \in Dialogs, dlg'[c].done /\ dlg'[c].id = t.id PROVE c = d
    BY <1>0, <1>8, <2>2, <2>4 DEF SameDialog, IdsOK
  <2>5. ASSUME NEW c \in commits', c.id = t.id
        PROVE  c.window = Recent(h) /\ h[Len(h)] \in t.keys
    <3>1. c \notin commits
      BY <1>0, <2>2, <2>5 DEF IdsOK, Living
    <3> QED BY <1>10, <1>11, <2>2, <3>1
  <2>6. ContTypes'
    BY <1>0, <1>13, <2>1, <2>2
  <2>7. StandsAt(t, d, Len(dlg[d].hist))'
    BY <1>7, <2>2, <2>4, <2>5, <2>6, NewStands
  <2> QED BY <1>7, <1>11, <2>2, <2>3, <2>7
<1> QED BY <1>2, <1>17, <1>18, <1>19, <1>20 DEF Committed

\* What clients do leaves the states as they are.
LEMMA ClientsSound ==
  ASSUME ContInv, UNCHANGED <<states, commits, minted>>, ContTypes', Rooted', Asking', Growing,
         lost => lost',
         \A c \in Dialogs :
            \/ SameDialog(c)
            \/ /\ ~dlg'[c].done
               /\ \E b \in Dialogs : dlg[b].hist # <<>> /\ dlg'[c].id = dlg[b].id
               /\ ~lost' => \E s \in AllOf(states) : /\ s.id = dlg'[c].id
                                                     /\ s.keys \cap AllOf(dlg'[c].hist) # {}
  PROVE  ContInv'
<1>0. ContTypes /\ IdsOK
  BY DEF ContInv, ContSound
<1>1. /\ AllOf(states') = AllOf(states) /\ Living(states') = Living(states)
      /\ commits' = commits /\ minted' = minted
  OBVIOUS
<1>2. ASSUME NEW c \in Dialogs
      PROVE  /\ dlg'[c].hist # <<>> => dlg'[c].id \in 1 .. minted'
             /\ dlg'[c].done => dlg'[c].hist # <<>>
  <2>1. CASE SameDialog(c)
    BY <1>0, <1>1, <2>1 DEF SameDialog, IdsOK
  <2>2. CASE ~SameDialog(c)
    BY <1>0, <1>1, <2>2 DEF IdsOK
  <2> QED BY <2>1, <2>2
<1>3. IdsOK'
  BY <1>0, <1>1, <1>2 DEF IdsOK
<1>4. \A id : OnlyNew(id, {})
  BY DEF OnlyNew, SameDialog
<1>5. ASSUME ~lost' PROVE AllPlaced' /\ Findable'
  <2>1. AllPlaced /\ Findable
    BY <1>5 DEF ContInv
  <2>2. ASSUME NEW s \in AllOf(states) PROVE \E e \in Dialogs, n \in Nat : StandsAt(s, e, n)'
    <3>1. PICK e \in Dialogs, n \in Nat : StandsAt(s, e, n)
      BY <2>1 DEF AllPlaced
    <3>2. StandsAt(s, e, n)'
      BY <1>0, <1>1, <1>4, <3>1, Stays
    <3> QED BY <3>2
  <2>3. ASSUME NEW c \in Dialogs, dlg'[c].hist # <<>>
        PROVE  \E u \in AllOf(states') : u.id = dlg'[c].id /\ u.keys \cap AllOf(dlg'[c].hist) # {}
    <3>1. CASE SameDialog(c)
      BY <1>1, <2>1, <2>3, <3>1 DEF SameDialog, Findable
    <3>2. CASE ~SameDialog(c)
      BY <1>1, <1>5, <3>2
    <3> QED BY <3>1, <3>2
  <2> QED BY <1>1, <2>2, <2>3 DEF AllPlaced, Findable
<1> QED BY <1>3, <1>5 DEF ContInv, ContSound

\* A turn without an answer leaves nothing behind but its state.
LEMMA DropTurnSound ==
  ASSUME ContInv, NEW d \in Dialogs, DropTurn(d)
  PROVE  ContInv'
<1>0. ContTypes /\ Rooted /\ Asking
  BY DEF ContInv, ContSound
<1>1. /\ dlg' = [dlg EXCEPT ![d].ask = NoQuestion]
      /\ UNCHANGED <<states, commits, minted>> /\ lost' = lost
  BY DEF DropTurn
<1>2. dlg' \in DialogsOf /\ \A c \in Dialogs : SameDialog(c)
  BY <1>0, <1>1 DEF ContTypes, DialogsOf, SameDialog
<1>3. \A c \in Dialogs : dlg'[c].ask \in {dlg[c].ask, NoQuestion}
  BY <1>0, <1>1 DEF ContTypes, DialogsOf
<1>4. ContTypes'
  BY <1>0, <1>1, <1>2 DEF ContTypes
<1>5. Rooted'
  BY <1>0, <1>2, RootedStill DEF SameDialog
<1>6. Asking'
  BY <1>0, <1>2, <1>3 DEF Asking, Questions, SameDialog
<1>7. Growing
  BY <1>0, <1>2, DialogIs DEF Growing, SameDialog, ContTypes
<1> QED BY <1>1, <1>2, <1>4, <1>5, <1>6, <1>7, ClientsSound

\* The branch has the first pairs of another dialog, and its session.
LEMMA BranchSound ==
  ASSUME ContInv, NEW d \in Dialogs, NEW e \in Dialogs, Branch(d, e)
  PROVE  ContInv'
<1>0. ContTypes /\ Rooted /\ Asking /\ IdsOK
  BY DEF ContInv, ContSound
<1>1. PICK n \in 1 .. Len(dlg[d].hist) :
         /\ dlg' = [dlg EXCEPT ![e].hist = SubSeq(dlg[d].hist, 1, n), ![e].id = dlg[d].id]
         /\ lost' = (lost \/ dlg[d].id \notin {s.id : s \in Seen(SubSeq(dlg[d].hist, 1, n))})
  BY DEF Branch
<1>2. /\ dlg[e].hist = <<>> /\ dlg[e].ask = NoQuestion /\ UNCHANGED <<states, commits, minted>>
  BY DEF Branch
<1> DEFINE h == SubSeq(dlg[d].hist, 1, n)
<1>3. \A c \in Dialogs : dlg[c].hist \in Seq(Pairs) /\ Len(dlg[c].hist) \in Nat
  BY <1>0, DialogIs DEF ContTypes
<1>4. h \in Seq(Pairs) /\ Len(h) = n /\ \A k \in 1 .. n : h[k] = dlg[d].hist[k]
  BY <1>1, <1>3
<1>5. /\ dlg' \in DialogsOf /\ dlg'[e].hist = h /\ dlg'[e].id = dlg[d].id
      /\ dlg'[e].ask = dlg[e].ask /\ dlg'[e].done = dlg[e].done
      /\ \A c \in Dialogs \ {e} : dlg'[c] = dlg[c]
  <2> HIDE DEF h
  <2>1. dlg' = [dlg EXCEPT ![e].hist = h, ![e].id = dlg[d].id]
    BY <1>1 DEF h
  <2>2. dlg[d].id \in Nat \cup {NoSession}
    BY <1>0, DialogIs DEF ContTypes
  <2> QED BY <1>0, <1>4, <2>1, <2>2 DEF ContTypes, DialogsOf
<1> HIDE DEF h
<1>6. ~dlg[e].done /\ dlg[d].hist # <<>> /\ Len(dlg[e].hist) = 0
  BY <1>0, <1>1, <1>2, <1>3 DEF IdsOK
<1>7. Growing
  <2> SUFFICES ASSUME NEW c \in Dialogs
               PROVE  /\ Len(dlg[c].hist) <= Len(dlg'[c].hist)
                      /\ \A k \in 1 .. Len(dlg[c].hist) : dlg'[c].hist[k] = dlg[c].hist[k]
    BY DEF Growing
  <2>1. CASE c = e
    <3>1. Len(dlg[c].hist) = 0 /\ Len(dlg'[c].hist) = n /\ n \in Nat
      BY <1>1, <1>3, <1>4, <1>5, <1>6, <2>1
    <3>2. 1 .. Len(dlg[c].hist) = {}
      BY <3>1
    <3> QED BY <3>1, <3>2
  <2>2. CASE c # e
    BY <1>3, <1>5, <2>2
  <2> QED BY <2>1, <2>2
<1>8. ASSUME NEW f \in Dialogs, NEW c \in Dialogs, NEW m \in Nat, Agree(dlg[f].hist, dlg[c].hist, m)
      PROVE  Agree(dlg'[f].hist, dlg[c].hist, m)
  <2>1. /\ Len(dlg[f].hist) <= Len(dlg'[f].hist)
        /\ \A k \in 1 .. Len(dlg[f].hist) : dlg'[f].hist[k] = dlg[f].hist[k]
    BY <1>7 DEF Growing
  <2>2. Len(dlg'[f].hist) \in Nat
    BY <1>5, DialogIs
  <2> QED BY <1>3, <1>8, <2>1, <2>2 DEF Agree
\* A pair of the branch is one of the dialog it was taken from.
<1>9. ASSUME NEW c \in Dialogs, NEW m \in 1 .. Len(dlg'[c].hist)
      PROVE  \/ m = 1 /\ \E x \in Openers : dlg'[c].hist[m].ask = <<x>>
             \/ /\ m > 1
                /\ \E f \in Dialogs : /\ dlg'[c].hist[m].ask = <<f, m - 1>>
                                      /\ Agree(dlg'[f].hist, dlg'[c].hist, m)
  <2>1. PICK b \in Dialogs : /\ m \in 1 .. Len(dlg[b].hist)
                             /\ m <= Len(dlg'[c].hist)
                             /\ \A k \in 1 .. m : dlg'[c].hist[k] = dlg[b].hist[k]
    <3>1. CASE c = e
      <4>1. m \in 1 .. n
        BY <1>4, <1>5, <1>9, <3>1
      <4>2. m \in 1 .. Len(dlg[d].hist) /\ \A k \in 1 .. m : k \in 1 .. n
        BY <1>1, <1>3, <4>1
      <4> QED BY <1>4, <1>5, <3>1, <4>1, <4>2
    <3>2. CASE c # e
      BY <1>3, <1>5, <1>9, <3>2
    <3> QED BY <3>1, <3>2
  <2>2. dlg'[c].hist[m] = dlg[b].hist[m]
    BY <1>3, <2>1
  <2>3. \/ m = 1 /\ \E x \in Openers : dlg[b].hist[m].ask = <<x>>
        \/ /\ m > 1
           /\ \E f \in Dialogs : /\ dlg[b].hist[m].ask = <<f, m - 1>>
                                 /\ Agree(dlg[f].hist, dlg[b].hist, m)
    BY <1>0, <2>1 DEF Rooted, RootedIn
  <2>4. ASSUME NEW f \in Dialogs, Agree(dlg[f].hist, dlg[b].hist, m)
        PROVE  Agree(dlg'[f].hist, dlg'[c].hist, m)
    <3>1. Agree(dlg'[f].hist, dlg[b].hist, m)
      BY <1>3, <1>8, <2>1, <2>4
    <3> QED BY <2>1, <3>1 DEF Agree
  <2> QED BY <2>2, <2>3, <2>4
<1>10. Rooted'
  BY <1>9 DEF Rooted, RootedIn
<1>11. Asking'
  <2> SUFFICES ASSUME NEW c \in Dialogs, dlg'[c].ask # NoQuestion PROVE dlg'[c].ask \in Questions(c)'
    BY DEF Asking
  <2>1. c # e /\ dlg'[c] = dlg[c]
    BY <1>2, <1>5
  <2> QED BY <1>0, <2>1 DEF Asking, Questions
<1>12. ContTypes'
  BY <1>0, <1>1, <1>2, <1>5 DEF ContTypes
<1>13. ASSUME ~lost'
       PROVE  \E s \in AllOf(states) : s.id = dlg'[e].id /\ s.keys \cap AllOf(dlg'[e].hist) # {}
  BY <1>1, <1>5, <1>13 DEF Seen, h
<1>14. \A c \in Dialogs : c # e => SameDialog(c)
  BY <1>5 DEF SameDialog
<1> QED BY <1>1, <1>2, <1>5, <1>6, <1>7, <1>10, <1>11, <1>12, <1>13, <1>14, ClientsSound

\* A state whose time is over is nobody's, or its dialog has lost it.
LEMMA ExpireSound ==
  ASSUME ContInv, NEW s \in AllOf(states), ExpireState(s)
  PROVE  ContInv'
<1>0. ContTypes /\ Rooted /\ Asking /\ IdsOK
  BY DEF ContInv, ContSound
<1>1. /\ states' = OnlyOf(states, AllOf(states) \ {s})
      /\ commits' = Led(commits, states') /\ lost' = (lost \/ Bereft)
      /\ minted' = minted /\ dlg' = dlg
  BY DEF ExpireState, Follow
<1>2. AllOf(states') = AllOf(states) \ {s} /\ states' \in Seq(HeldState)
  <2>1. states \in Seq(HeldState)
    BY <1>0 DEF ContTypes
  <2>2. AllOf(states) \cap (AllOf(states) \ {s}) = AllOf(states) \ {s}
    OBVIOUS
  <2> QED BY <1>1, <2>1, <2>2, AllOfKept, OnlyOfIn
<1>3. commits' \subseteq commits /\ \A c \in commits' : c.id \in Living(states')
  BY <1>1 DEF Led
<1>4. ContTypes'
  BY <1>0, <1>1, <1>2, <1>3 DEF ContTypes
<1>5. Rooted' /\ Asking'
  BY <1>0, <1>1, RootedStill DEF Asking, Questions
<1>6. IdsOK'
  BY <1>0, <1>1, <1>2, <1>3 DEF IdsOK
<1>7. Growing /\ \A c \in Dialogs : SameDialog(c)
  BY <1>0, <1>1, DialogIs DEF Growing, SameDialog, ContTypes
<1>8. \A id : OnlyNew(id, {})
  BY <1>7 DEF OnlyNew, SameDialog
<1>9. ASSUME ~lost' PROVE AllPlaced' /\ Findable'
  <2>1. AllPlaced /\ Findable
    BY <1>1, <1>9 DEF ContInv
  <2>2. ASSUME NEW u \in AllOf(states') PROVE \E e \in Dialogs, n \in Nat : StandsAt(u, e, n)'
    <3>1. PICK e \in Dialogs, n \in Nat : StandsAt(u, e, n)
      BY <1>2, <2>1, <2>2 DEF AllPlaced
    <3>2. StandsAt(u, e, n)'
      BY <1>0, <1>3, <1>4, <1>7, <1>8, <3>1, Stays
    <3> QED BY <3>2
  <2>3. \A r \in AllOf(states), u \in AllOf(states') : r.id = u.id => r.keys \subseteq u.keys
    BY <1>0, <1>2 DEF IdsOK
  <2>4. ASSUME NEW c \in Dialogs, dlg'[c].hist # <<>>
        PROVE  \E u \in AllOf(states') : u.id = dlg'[c].id /\ u.keys \cap AllOf(dlg'[c].hist) # {}
    <3>1. dlg[c].hist # <<>> /\ SameDialog(c)
      BY <1>1, <1>7, <2>4
    <3> QED BY <1>0, <1>1, <1>9, <2>1, <2>3, <3>1, StillFound
  <2> QED BY <2>2, <2>4 DEF AllPlaced, Findable
<1> QED BY <1>4, <1>5, <1>6, <1>9 DEF ContInv, ContSound

\* Every step keeps the invariant.
LEMMA ContStep == ~Compacts /\ ContInv /\ [ContNext]_contVars => ContInv'
<1> SUFFICES ASSUME ~Compacts, ContInv, [ContNext]_contVars PROVE ContInv'
  OBVIOUS
<1>1. CASE UNCHANGED contVars
  BY <1>1 DEF contVars, ContInv, ContSound, ContTypes, Rooted, Asking, Questions, IdsOK, Living,
              AllPlaced, StandsAt, Findable
<1>2. ASSUME NEW d \in Dialogs, NEW q \in Questions(d), Resolve(d, q) PROVE ContInv'
  BY <1>2, ResolveSound
<1>3. ASSUME NEW d \in Dialogs, NEW o \in Answers[d], Commit(d, o) PROVE ContInv'
  BY <1>3, CommitSound
<1>4. ASSUME NEW d \in Dialogs, DropTurn(d) PROVE ContInv'
  BY <1>4, DropTurnSound
<1>5. ASSUME NEW d \in Dialogs, NEW e \in Dialogs, Branch(d, e) PROVE ContInv'
  BY <1>5, BranchSound
<1>6. \A d \in Dialogs : ~Compact(d)
  BY DEF Compact
<1>7. ASSUME NEW s \in AllOf(states), ExpireState(s) PROVE ContInv'
  BY <1>7, ExpireSound
<1> QED BY <1>1, <1>2, <1>3, <1>4, <1>5, <1>6, <1>7 DEF ContNext

\* Those who answer in one session lie on the way to where its state stands.
LEMMA SoundApart == ContInv => DialogsApart
<1> SUFFICES ASSUME ContInv, ~lost, NEW d \in Dialogs, NEW e \in Dialogs,
                    dlg[d].done, dlg[e].done, Parted(dlg[d].hist, dlg[e].hist),
                    dlg[d].id = dlg[e].id
             PROVE  FALSE
  BY DEF DialogsApart
<1>0. ContTypes /\ IdsOK /\ AllPlaced /\ Findable
  BY DEF ContInv, ContSound
<1>1. PICK s \in AllOf(states) : s.id = dlg[d].id
  BY <1>0 DEF IdsOK, Findable
<1>2. PICK f \in Dialogs, n \in Nat : StandsAt(s, f, n)
  BY <1>0 DEF AllPlaced
<1>3. /\ Agree(dlg[d].hist, dlg[f].hist, Len(dlg[d].hist))
      /\ Agree(dlg[e].hist, dlg[f].hist, Len(dlg[e].hist))
  BY <1>1, <1>2 DEF StandsAt
<1>4. /\ DOMAIN dlg[d].hist = 1 .. Len(dlg[d].hist)
      /\ DOMAIN dlg[e].hist = 1 .. Len(dlg[e].hist)
  BY <1>0, DialogIs DEF ContTypes
<1>5. \A k \in DOMAIN dlg[d].hist \cap DOMAIN dlg[e].hist : dlg[d].hist[k] = dlg[e].hist[k]
  BY <1>3, <1>4 DEF Agree
<1> QED BY <1>5 DEF Parted

\* Dialogs that have parted never share a session upstream, as long as no dialog
\* has lost its state and no client compacts: whatever the window, for any
\* number of dialogs, answers and states, and in any order of their turns.
THEOREM DialogsStayApart == ~Compacts /\ ContSpec => []DialogsApart
<1> SUFFICES ASSUME ~Compacts PROVE ContSpec => []DialogsApart
  OBVIOUS
<1>1. ContInv /\ [ContNext]_contVars => ContInv'
  BY ContStep
<1> QED BY <1>1, ContStart, SoundApart, PTL DEF ContSpec
=============================================================================
