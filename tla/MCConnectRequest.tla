-------------------------- MODULE MCConnectRequest --------------------------
(***************************************************************************)
(* Requests and what is left of them, in three kinds of behaviours.  The   *)
(* failover loop over a small pool, for one request at a time: one that    *)
(* streams, while rows get fresh keys, or one that answers at the end,     *)
(* while rows get any keys but no row is added; that several requests do   *)
(* not disturb each other is proved                                        *)
(* (ConnectRequestProofs).  And the registry of the turns whose clients    *)
(* left, with three keys of two callers.                                   *)
(***************************************************************************)
EXTENDS ConnectRequest, DetachedRegistry, TLC

CONSTANTS d1, d2, d3, c1, c2, nobody      \* model values

MCDetachKeys == {d1, d2, d3}
MCCallerOf == (d1 :> c1) @@ (d2 :> c1) @@ (d3 :> c2)

VARIABLE asks       \* the request that takes place, or nobody: the registry moves

FirstKeys == CHOOSE f \in [First -> Keys] : \A a, b \in First : f[a] = f[b] => a = b

MCInit ==
    /\ Init /\ RegInit /\ asks \in Requests \cup {nobody}
    /\ asks = nobody => \A a \in First : key[a] = FirstKeys[a]

Failover ==
    /\ asks # nobody /\ UNCHANGED regVars
    /\ \/ \E a \in Rows : Remove(a) \/ Recover(a)
       \/ \E a \in Rows, k \in Keys :
             (asks \in Streaming => k \notin issued) /\ Rekey(a, k)
       \/ asks \in Streaming /\ \E a \in Rows, k \in Keys : Add(a, k)
       \/ Disconnect(asks) \/ Emit(asks) \/ Step(asks)

Detached == asks = nobody /\ RegNext /\ UNCHANGED vars

MCNext == UNCHANGED asks /\ (Failover \/ Detached)

\* What moves has the fairness of its own specification.
MCSpec ==
    /\ MCInit /\ [][MCNext]_<<vars, regVars, asks>>
    /\ \A r \in Requests : WF_vars(asks = r /\ Step(r))
    /\ WF_regVars(asks = nobody /\ Tick)
    /\ \A k \in DetachKeys : WF_regVars(asks = nobody /\ Timer(k))
=============================================================================
