------------------------------ MODULE MCTimers ------------------------------
(***************************************************************************)
(* Small instances of what has to come to an end: the gate, an account, the *)
(* ledger, the accounts file, an upstream's stream and a client's.  A       *)
(* behaviour is one of exactly one of them, the others stand still, and the *)
(* states are the sum and not the product.                                 *)
(***************************************************************************)
EXTENDS ReloginGate, AccountsFile, ConnectStream, StreamEgress, TLC

CONSTANT none       \* a model value

VARIABLES
    part,                                                       \* who moves
    row, inUse, line, step, attempt, sent, check, probe,        \* AccountLifecycle
    minted, retired, benched, moved,
    rows, keys, states, counts, since, spent, reqs              \* AccountPool

Account == INSTANCE AccountLifecycle WITH
    Accounts <- {"a1"}, Session <- {"a1"}, Credentialed <- {"a1"}, Keys <- {"k1"},
    NoKey <- none, Threshold <- 1, MaxConcurrent <- 1,
    active <- inUse, waiters <- line, pc <- step

Ledger == INSTANCE AccountPool WITH
    Rows <- {"a1"}, Keys <- {"k1", "k2"}, Requests <- {"r1", "r2"}, ByKey <- {"r1"},
    NoRow <- none, NoKey <- none, Cap <- 0, RpmLimit <- 2, Deadline <- 1, Stale <- 1,
    Degraded <- TRUE, Pinned <- TRUE, MaxInflight <- 2,
    pool <- rows, key <- keys, state <- states, inflight <- counts, req <- reqs

-----------------------------------------------------------------------------
Parts == {"gate", "account", "ledger", "file", "upstream", "egress"}

accountVars == <<row, inUse, line, step, attempt, sent, check, probe, minted, retired,
                 benched, moved>>
ledgerVars  == <<rows, keys, states, counts, since, spent, reqs>>

MCInit ==
    /\ part \in Parts
    /\ GateInit /\ FileInit
    /\ Account!Init
    /\ Ledger!Init /\ (part # "ledger" => rows = {} /\ keys["a1"] = "k1")
    /\ StreamInit
    /\ EgressInit

Moves ==
    \/ part = "gate" /\ GateNext
    \/ part = "account" /\ Account!Next
    \/ part = "ledger" /\ Ledger!Next
    \/ part = "file" /\ FileNext
    \/ part = "upstream" /\ StreamNext
    \/ part = "egress" /\ EgressNext

\* The variables v belong to p, and stand still while another part moves.
Still(p, v) == IF part = p THEN TRUE ELSE UNCHANGED v

MCNext ==
    /\ UNCHANGED part
    /\ Still("gate", gateVars) /\ Still("account", accountVars) /\ Still("ledger", ledgerVars)
    /\ Still("file", fileVars) /\ Still("upstream", connVars)
    /\ Still("egress", egressVars)
    /\ Moves

\* Each part has the fairness of its own specification, while it moves.
GateFairness ==
    \A a \in Attempts : WF_gateVars(part = "gate" /\ Release(a))

AccountFairness ==
    /\ WF_accountVars(part = "account" /\ Account!ReloginGoesOn("a1"))
    /\ WF_accountVars(part = "account" /\ (Account!CheckAnswered("a1") \/ Account!CheckLost("a1")))
    /\ WF_accountVars(part = "account" /\ Account!CheckSettles("a1"))
    /\ WF_accountVars(part = "account" /\ Account!ProbeBegin("a1"))
    /\ SF_accountVars(part = "account" /\ Account!ProbeAnswered("a1"))
    /\ WF_accountVars(part = "account" /\ (\/ Account!ProbeDropped("a1")
                                           \/ Account!ProbeAlive("a1")
                                           \/ Account!ProbeDead("a1")
                                           \/ Account!ProbeSettles("a1")))

LedgerFairness ==
    /\ WF_ledgerVars(part = "ledger" /\ Ledger!Tick)
    /\ WF_ledgerVars(part = "ledger" /\ Ledger!Cleanup)
    /\ \A r \in {"r1", "r2"} :
          WF_ledgerVars(part = "ledger" /\ \E refund \in BOOLEAN : Ledger!End(r, refund))

MCSpec ==
    /\ MCInit
    /\ [][MCNext]_<<part, gateVars, fileVars, connVars, accountVars, ledgerVars,
                  egressVars>>
    /\ GateFairness /\ AccountFairness /\ LedgerFairness
    /\ SF_fileVars(part = "file" /\ FlushWorks)
    /\ WF_connVars(part = "upstream" /\ Runs)
    /\ WF_connVars(part = "upstream" /\ DeadlineTimer)
    /\ WF_egressVars(part = "egress" /\ Handler)
    /\ WF_egressVars(part = "egress" /\ DrainTimeout)

-----------------------------------------------------------------------------
\* Attempts settle, and a dead key leaves rotation: a sweep that waits for an
\* attempt is told how it ended (AccountLifecycle).
RowSettles == part = "account" => Account!AttemptSettles /\ Account!DeadKeyLeaves
\* A leaked slot heals (AccountPool).
LeakHeals == Ledger!LeakHeals
\* A stream ends: for a client that stops reading (StreamEgress), and for an
\* upstream or a caller that falls silent (ConnectStream).
StreamsEnd ==
    /\ part = "egress" => StreamEnds
    /\ part = "upstream" => NoHang
=============================================================================
