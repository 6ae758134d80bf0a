------------------------------ MODULE SelfUpdate ------------------------------
(***************************************************************************)
(* The update of a source checkout from the dashboard (src/dashboard/       *)
(* api.js): POST /self-update moves HEAD to the newest release, POST        *)
(* /self-update/rollback moves it back, GET /self-update/check settles the  *)
(* journal.  Both mutations hold one lock from their first line to the exit *)
(* of the process; a check needs no lock and runs between any two of their  *)
(* awaits.  The process may be killed at any of them: its supervisor starts *)
(* it again, on whatever the checkout is then.                             *)
(*                                                                         *)
(* Three small files are what survives: the rollback point of the last      *)
(* update, the pending one that is written before Git is let loose, and the *)
(* journal.  Each is replaced as a whole; each write may fail.             *)
(*                                                                         *)
(* Commits are the releases, in order.  Left out: which release is chosen   *)
(* and its attestation, branches and local commits (refused before anything *)
(* is written), what a protective stash holds, and the update of a          *)
(* container.  Nobody else uses Git while a mutation runs.                  *)
(***************************************************************************)
EXTENDS Integers

CONSTANT MaxRelease       \* bound: releases

Commits == Nat

VARIABLES
    head,       \* the checkout
    edited,      \* tracked files differ from it
    latest,     \* the newest release
    files,       \* the three files
    task,       \* the mutation that holds the lock
    moved,      \* history: the last move of HEAD by an update
    swept       \* history: a rollback was confirmed since that update began

updateVars == <<head, edited, latest, files, task, moved, swept>>

NoPoint == [commit |-> 0, after |-> 0]      \* no update leads where it began
Point(from, to) == [commit |-> from, after |-> to]
NoTask == [op |-> "none", step |-> "idle", from |-> 0, to |-> 0]

\* An entry without an expected commit corresponds to no commit.
Unknown    == -1
NoJournal  == [op |-> "none", state |-> "none", expected |-> Unknown]
Unsettled  == {"pending-restart", "restart-failed"}

Points   == [commit : Commits, after : Commits]
Journals == [op : {"none", "update", "rollback"},
             state : {"none", "failed", "confirmed"} \cup Unsettled,
             expected : Commits \cup {Unknown}]
Files    == [final : Points, pending : Points, journal : Journals]
Tasks    == [op : {"none", "update", "rollback"},
             step : {"idle", "reading", "prepared", "mutated", "restarting"},
             from : Commits, to : Commits]

UpdateTypeOK ==
    /\ head \in Commits /\ latest \in Commits /\ edited \in BOOLEAN
    /\ files \in Files /\ task \in Tasks /\ moved \in Points /\ swept \in BOOLEAN

UpdateInit ==
    /\ head = 0 /\ latest = 0 /\ edited = FALSE
    /\ files = [final |-> NoPoint, pending |-> NoPoint, journal |-> NoJournal]
    /\ task = NoTask /\ moved = NoPoint /\ swept = FALSE

-----------------------------------------------------------------------------
\* What the files may be after a write: done, or failed.
Journalled(d, j) == {d, [d EXCEPT !.journal = j]}
Marked(d, state) == Journalled(d, [d.journal EXCEPT !.state = state])

\* The rename reports a failure after it was done, too.
Promoted(d) == {d, [d EXCEPT !.final = d.pending, !.pending = NoPoint]}
Discarded(d) == [d EXCEPT !.pending = NoPoint]

\* getVersionInfo asks Git for HEAD, whenever it is called.
RunningCommit == head

\* reconcileSelfUpdateJournal: a confirmed rollback needs no point any more.
\* The journal may report a failure after it was replaced, too.
Settles(d) == d.journal.state \in Unsettled /\ d.journal.expected = RunningCommit

Reconciled(d) ==
    IF ~Settles(d) THEN {d}
    ELSE LET c == [d EXCEPT !.journal.state = "confirmed"]
         IN  {d, c} \cup IF d.journal.op = "rollback"
                         THEN {[c EXCEPT !.final = NoPoint, !.pending = NoPoint]} ELSE {c}

ConfirmsRollback(d, e) == d.journal # e.journal /\ e.journal.op = "rollback"

PendingHolds(d) == d.pending # NoPoint /\ d.pending.after = head

\* A pending point whose update reached its target becomes the point; another
\* one is of an update that never did.
\* Mistake: any pending point of an earlier update is dropped.
PendingForgotten(d) == {Discarded(d)}

PendingReconciled(d) == IF PendingHolds(d) THEN Promoted(d) ELSE {Discarded(d)}

Declined(d) == files' = d /\ task' = NoTask /\ UNCHANGED <<head, edited, latest, moved, swept>>

-----------------------------------------------------------------------------
\* POST /self-update.  A point that could not be promoted stops it; so do a
\* dirty tree without force, no supervisor, a divergence; and a point that
\* cannot be written for certain.
UpdateStarts ==
    /\ task = NoTask
    /\ \E d \in PendingReconciled(files) :
          \/ Declined(d)
          \/ /\ ~PendingHolds(d) /\ (head < latest \/ edited)
             /\ LET next == [d EXCEPT !.pending = IF head < latest THEN Point(head, latest) ELSE @]
                IN  \/ Declined(next)
                    \/ /\ files' = next
                       /\ task' = [op |-> "update", step |-> "prepared", from |-> head,
                                   to |-> IF head < latest THEN latest ELSE head]
                       /\ swept' = FALSE /\ moved' = IF swept THEN NoPoint ELSE moved
                       /\ UNCHANGED <<head, edited, latest>>

\* POST /self-update/rollback, up to the choice of the point.
RollbackReads ==
    /\ task = NoTask
    /\ \E d \in Reconciled(files) : \E e \in PendingReconciled(d) :
          LET point == IF PendingHolds(d) THEN d.pending ELSE d.final
          IN  /\ files' = e /\ swept' = (swept \/ ConfirmsRollback(files, d))
              /\ \/ task' = NoTask
                 \/ /\ point # NoPoint /\ point.after = head
                    /\ task' = [op |-> "rollback", step |-> "reading",
                                from |-> head, to |-> point.commit]
              /\ UNCHANGED <<head, edited, latest, moved>>

\* The intent is journalled before the tree is touched.  A dirty tree without
\* force is refused after that, as is a journal that may be there and may not:
\* it is left as it is.
RollbackStarts ==
    /\ task.step = "reading"
    /\ LET intent == [op |-> "rollback", state |-> "pending-restart", expected |-> task.to]
           d      == [files EXCEPT !.journal = intent]
       IN  \/ Declined(files) \/ Declined(d)
           \/ /\ files' = d /\ task' = [task EXCEPT !.step = "prepared"]
              /\ UNCHANGED <<head, edited, latest, moved, swept>>

\* The stash fails: nothing was changed.
StashFails ==
    /\ task.step = "prepared" /\ edited
    /\ \E d \in IF task.op = "rollback" THEN Marked(files, "failed")
                ELSE {IF task.from # task.to THEN Discarded(files) ELSE files} :
          Declined(d)

\* git stash, then git merge or git reset, which may stop half-way.
GitRuns ==
    /\ task.step = "prepared"
    /\ head' \in {task.from, task.to} /\ edited' \in BOOLEAN
    /\ moved' = IF task.op = "update" /\ head' # head THEN Point(head, head') ELSE moved
    /\ task' = [task EXCEPT !.step = "mutated"]
    /\ UNCHANGED <<latest, files, swept>>

\* The state cannot be inspected, or is not the one asked for.
GitFailed ==
    /\ task.step = "mutated"
    /\ \/ Declined(files) /\ task.op = "update"
       \/ \E d \in Marked(files, "failed") : Declined(d) /\ task.op = "rollback"
       \/ /\ task.op = "update" /\ (head # task.to \/ edited)
          /\ LET unchanged == head = task.from /\ ~edited
                 honest    == [files EXCEPT !.pending = Point(task.from, head)]
             IN  \E d \in IF head # task.from THEN {files} \cup Promoted(honest)
                          ELSE IF unchanged /\ task.from # task.to THEN {Discarded(files)}
                          ELSE {files} :
                    Declined(d)

\* HEAD is where it should be: the point is published, the journal says what
\* to expect, and the restart is scheduled.
GitReached ==
    /\ task.step = "mutated" /\ head = task.to /\ ~edited
    /\ \E d \in IF task.op = "update" /\ task.from # task.to /\ files.pending # NoPoint
                THEN Promoted(files) ELSE {files} :
       \E e \in IF task.op = "update"
                THEN Journalled(d, [op |-> "update", state |-> "pending-restart",
                                       expected |-> head])
                ELSE {d} :
          files' \in Marked(e, "pending-restart")
    /\ task' = [task EXCEPT !.step = "restarting"]
    /\ UNCHANGED <<head, edited, latest, moved, swept>>

-----------------------------------------------------------------------------
StartsAgain == task' = NoTask /\ UNCHANGED <<head, edited, latest, moved, swept>>

\* gracefulRestart: 800 ms later the process drains and exits.
Restart == task.step = "restarting" /\ StartsAgain /\ UNCHANGED files

RestartFails ==
    /\ task.step = "restarting"
    /\ \E d \in Marked(files, "restart-failed") : Declined(d)

\* At any moment; the lock of a dead process is taken over.
Killed == StartsAgain /\ UNCHANGED files

\* GET /self-update/check, also while a mutation runs.
Check ==
    /\ files' \in Reconciled(files) /\ swept' = (swept \/ ConfirmsRollback(files, files'))
    /\ UNCHANGED <<head, edited, latest, task, moved>>

-----------------------------------------------------------------------------
Publish ==
    /\ latest < MaxRelease /\ latest' = latest + 1
    /\ UNCHANGED <<head, edited, files, task, moved, swept>>

\* The operator edits, cleans up, or checks out another release by hand.
Operator ==
    /\ task = NoTask
    /\ edited' \in BOOLEAN /\ head' \in 0 .. latest
    /\ moved' = IF head' # head THEN NoPoint ELSE moved
    /\ UNCHANGED <<latest, files, task, swept>>

UpdateNext ==
    \/ UpdateStarts \/ RollbackReads \/ RollbackStarts \/ StashFails
    \/ GitRuns \/ GitFailed \/ GitReached
    \/ Restart \/ RestartFails \/ Killed \/ Check
    \/ Publish \/ Operator

UpdateSpec == UpdateInit /\ [][UpdateNext]_updateVars

-----------------------------------------------------------------------------
\* An update that moved HEAD can be undone, whatever failed and whenever the
\* process was killed: while HEAD is where it went, a point on the disk leads
\* back (api.js: a pending point before Git, promoted after).  The confirmation
\* of an earlier rollback is the one thing that may take it away.
UndoKept ==
    moved # NoPoint /\ head = moved.after /\ ~swept => moved \in {files.final, files.pending}
=============================================================================
