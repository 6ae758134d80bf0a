----------------------------- MODULE AccountsFile -----------------------------
(***************************************************************************)
(* accounts.json (src/auth.js, src/fs-atomic.js): the accounts live in      *)
(* memory, and the file follows.  Some changes save at once, others mark    *)
(* the pool dirty and leave it to a timer.  A save writes a temporary file  *)
(* and flushes it, renames it over the file, and flushes the directory;     *)
(* each step may fail, and the process may be killed between two of them.   *)
(*                                                                         *)
(* What the file holds is a revision of the accounts of this instance and   *)
(* the records that WAPI_ACCOUNTS_ONLY keeps out of it (a save must write   *)
(* them back).  A file that was renamed before the directory was flushed is *)
(* visible, and a power loss may still undo it.                            *)
(*                                                                         *)
(* saveAccounts is synchronous from its first line to its last: the flags   *)
(* _saveInFlight and _savePending are never seen set, and are left out.     *)
(* So are the migration of old per-replica files and a second instance on   *)
(* the same file.                                                          *)
(***************************************************************************)
EXTENDS Naturals

CONSTANTS Others,       \* records of accounts that are filtered out
          MaxRev        \* bound: revisions

ASSUME FileAssumption == MaxRev \in Nat

VARIABLES
    running,     \* the process is up, and has loaded the file
    mem,         \* revision of the accounts in memory
    kept,        \* filteredAccountRecords
    dirty,       \* _dirty
    file,        \* accounts.json as a reader sees it
    disk,        \* what a power loss may leave of it
    saved,       \* revision of the last save that reported success
    blind        \* some start could not read the file

fileVars == <<running, mem, kept, dirty, file, disk, saved, blind>>

Contents == [rev : Nat, others : SUBSET Others]
Snapshot == [rev |-> mem, others |-> kept]

FileTypeOK ==
    /\ running \in BOOLEAN /\ dirty \in BOOLEAN /\ blind \in BOOLEAN
    /\ mem \in Nat /\ kept \in SUBSET Others /\ saved \in Nat
    /\ file \in Contents /\ disk \in SUBSET Contents

FileInit ==
    /\ running = FALSE /\ mem = 0 /\ kept = {} /\ dirty = FALSE
    /\ file = [rev |-> 0, others |-> Others]
    /\ disk = {file}
    /\ saved = 0 /\ blind = FALSE

-----------------------------------------------------------------------------
\* How a save of the contents c ends.

Published(c) == file' = c /\ disk' = {c} /\ saved' = c.rev /\ dirty' = FALSE

\* The temporary file or the rename fails: nothing has happened.
NotWritten == dirty' = TRUE /\ UNCHANGED <<file, disk, saved>>

\* The directory cannot be flushed: the new file is there, for now.
\* Mistake: it counts as saved.
UnprovenTrusted(c) ==
    file' = c /\ disk' = disk \cup {c} /\ saved' = c.rev /\ dirty' = FALSE

Unproven(c) ==
    file' = c /\ disk' = disk \cup {c} /\ dirty' = TRUE /\ UNCHANGED saved

Save(c) == Published(c) \/ NotWritten \/ Unproven(c)

Change == running /\ mem < MaxRev /\ mem' = mem + 1 /\ UNCHANGED <<running, kept, blind>>

\* A change that is saved in the same turn of the event loop.
SavedChange == Change /\ Save([Snapshot EXCEPT !.rev = mem + 1])

\* One on a hot path: markDirty.
LazyChange == Change /\ dirty' = TRUE /\ UNCHANGED <<file, disk, saved>>

\* Mistake: a file that shows the new contents is not written again.
FlushSkipsShown ==
    running /\ dirty /\ file # Snapshot /\ Save(Snapshot)
        /\ UNCHANGED <<running, mem, kept, blind>>

\* flushDirty, every thirty seconds.
Flush == running /\ dirty /\ Save(Snapshot) /\ UNCHANGED <<running, mem, kept, blind>>

-----------------------------------------------------------------------------
Down == running' = FALSE /\ mem' = 0 /\ kept' = {} /\ dirty' = FALSE

\* Also between two steps of a save: then the file is the new one or the old.
Kill ==
    /\ running /\ Down
    /\ \/ UNCHANGED <<file, disk>>
       \/ file' = Snapshot /\ disk' = disk \cup {Snapshot}
    /\ UNCHANGED <<saved, blind>>

PowerLoss ==
    /\ Down
    /\ \E c \in disk : file' = c /\ disk' = {c}
    /\ UNCHANGED <<saved, blind>>

Start ==
    /\ ~running /\ running' = TRUE
    /\ mem' = file.rev /\ kept' = file.others
    /\ dirty' = FALSE /\ UNCHANGED <<file, disk, saved, blind>>

\* The file cannot be read or parsed: the error is logged, the pool is empty.
StartBlind ==
    /\ ~running /\ running' = TRUE
    /\ mem' = 0 /\ kept' = {} /\ blind' = TRUE
    /\ dirty' = FALSE /\ UNCHANGED <<file, disk, saved>>

FileNext ==
    \/ SavedChange \/ LazyChange \/ Flush
    \/ Kill \/ PowerLoss \/ Start \/ StartBlind

FileSpec == FileInit /\ [][FileNext]_fileVars

\* The timer runs for ever, and a disk that works again is found working.
FlushWorks == Flush /\ Published(Snapshot)
FairFileSpec == FileSpec /\ SF_fileVars(FlushWorks)

-----------------------------------------------------------------------------
\* No crash, at whichever step of whichever save, gives back an older file
\* than the last save that reported success, nor one without the records this
\* instance only keeps for others (auth.js: temp, fsync, rename, fsync).
SavedSurvives ==
    ~blind => \A c \in disk \cup {file} : c.rev >= saved /\ c.others = Others

\* While the dirty flag is down the file is what is in memory: a save that
\* failed is not forgotten (auth.js: the write's outcome owns the flag).
CleanIsPublished == running /\ ~dirty /\ ~blind => file = Snapshot

FileSafe == SavedSurvives /\ CleanIsPublished

\* A batch of lazy changes reaches the disk, if the process lives.
BatchReachesDisk == dirty ~> (~dirty \/ ~running)
=============================================================================
