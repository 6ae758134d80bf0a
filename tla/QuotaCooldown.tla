--------------------------- MODULE QuotaCooldown ---------------------------
(***************************************************************************)
(* The quota cooldown of one account (src/auth.js): one deadline with two   *)
(* writers.  A credits snapshot (applyQuotaSnapshot) sets it when the       *)
(* weekly quota is dry and the balance may not be spent, and takes it back  *)
(* when that is over; a request that is refused for want of quota           *)
(* (markQuotaExhausted) sets it too, and a snapshot is no evidence against  *)
(* that.  The source of the deadline is recorded, and saved with it.        *)
(*                                                                         *)
(* What a refresh finds is saved in the same turn of the event loop; a      *)
(* refusal only marks the pool dirty, and a timer writes it.  A process     *)
(* that stops writes nothing more: the next one starts from the file.  How  *)
(* a save comes about, and what a power loss may leave, is AccountsFile.    *)
(*                                                                         *)
(* The spend policy and the reserve only decide whether a balance may be    *)
(* spent, and are part of what a snapshot says.  While the cooldown is      *)
(* switched off neither writer does anything.                              *)
(***************************************************************************)
EXTENDS Integers

CONSTANTS Lengths,      \* lengths of a cooldown: the tunable's, the upstream's
          FlushEvery,   \* DIRTY_FLUSH_INTERVAL_MS
          MaxTime       \* bound of the clock

ASSUME QuotaAssumption ==
    Lengths \subseteq Nat \ {0} /\ FlushEvery \in Nat \ {0} /\ MaxTime \in Nat

VARIABLES
    now,
    until,      \* quotaResetAt
    source,     \* quotaResetSource
    stored,     \* the two in accounts.json, and the histories that go with them
    unsaved,    \* _dirty
    flushIn,    \* ticks until the timer of flushDirty fires
    armed,      \* history: the last deadline that a refusal made
    made,       \* the same, unless a dry snapshot made it longer since
    refusedAt,  \* history: when it was made
    failed      \* history: the last save failed

quotaVars == <<now, until, source, stored, unsaved, flushIn, armed, made, refusedAt, failed>>

\* _serializeAccounts: the source goes with a live deadline only.
Written == [until  |-> until,
            source |-> IF until > now THEN source ELSE "none",
            armed  |-> armed, made |-> made]

QuotaInit ==
    /\ now = 1 /\ until = 0 /\ source = "none" /\ armed = 0 /\ made = 0 /\ refusedAt = 0
    /\ stored = Written
    /\ unsaved = FALSE /\ flushIn = FlushEvery /\ failed = FALSE

Later(s, t) == IF s >= t THEN s ELSE t

\* saveAccounts, after what this step changes.  A save that fails may still have
\* replaced the file.
SaveQuota ==
    \/ stored' = Written' /\ unsaved' = FALSE /\ failed' = FALSE
    \/ stored' \in {stored, Written'} /\ unsaved' = TRUE /\ failed' = TRUE

-----------------------------------------------------------------------------
\* The weekly quota is dry, and there is no balance to spend.
DrySnapshot(n) ==
    /\ until' = Later(until, now + n)
    /\ source' = IF until' > until THEN "snapshot" ELSE source
    /\ made' = IF until' > until THEN 0 ELSE made
    /\ UNCHANGED <<now, flushIn, armed, refusedAt>>
    /\ SaveQuota

\* Mistake: whatever the snapshot says is believed.
RecoveredFromAnything ==
    /\ until # 0 /\ until' = 0 /\ source' = "none"
    /\ UNCHANGED <<now, flushIn, armed, made, refusedAt>>
    /\ SaveQuota

\* The quota is back, or the balance may be spent.
Recovered ==
    /\ until # 0
    /\ until <= now \/ source = "snapshot"
    /\ until' = 0 /\ source' = "none"
    /\ UNCHANGED <<now, flushIn, armed, made, refusedAt>>
    /\ SaveQuota

\* Mistake: a refusal is not marked for the flush.
RefusedUnmarked(n) ==
    /\ until' = Later(until, now + n)
    /\ source' = IF until' > until THEN "live402" ELSE source
    /\ armed' = IF until' > until THEN now + n ELSE armed
    /\ made' = IF until' > until THEN now + n ELSE made
    /\ refusedAt' = IF until' > until THEN now ELSE refusedAt
    /\ UNCHANGED <<now, stored, unsaved, flushIn, failed>>

\* markQuotaExhausted; recordHealthEvent marks the pool dirty.
Refused(n) ==
    /\ until' = Later(until, now + n)
    /\ source' = IF until' > until THEN "live402" ELSE source
    /\ armed' = IF until' > until THEN now + n ELSE armed
    /\ made' = IF until' > until THEN now + n ELSE made
    /\ refusedAt' = IF until' > until THEN now ELSE refusedAt
    /\ unsaved' = TRUE
    /\ UNCHANGED <<now, stored, flushIn, failed>>

-----------------------------------------------------------------------------
\* A refresh that finds the deadline no concern of its own, and every other
\* change of the accounts that is saved at once.
SavedByOthers == UNCHANGED <<now, until, source, flushIn, armed, made, refusedAt>> /\ SaveQuota

\* flushDirty
QuotaFlush ==
    /\ flushIn = 0 /\ flushIn' = FlushEvery
    /\ UNCHANGED <<now, until, source, armed, made, refusedAt>>
    /\ IF unsaved THEN SaveQuota ELSE UNCHANGED <<stored, unsaved, failed>>

\* What a restart may lose: a refusal younger than the interval of the flush, or
\* what a save failed to write.
MayBeLost == failed \/ now <= refusedAt + FlushEvery

\* The process stops, however it does, and another one reads the file
\* (_deserializeAccount): a source without a live deadline is dropped.
Restarted ==
    /\ until' = stored.until
    /\ source' = IF stored.until > now THEN stored.source ELSE "none"
    /\ armed' = IF MayBeLost THEN stored.armed ELSE armed
    /\ made' = IF MayBeLost THEN stored.made ELSE made
    /\ unsaved' = FALSE /\ failed' = FALSE /\ flushIn' = FlushEvery
    /\ UNCHANGED <<now, stored, refusedAt>>

\* A timer that is due fires before time goes on.
QuotaTick ==
    /\ now < MaxTime /\ flushIn > 0
    /\ now' = now + 1 /\ flushIn' = flushIn - 1
    /\ UNCHANGED <<until, source, stored, unsaved, armed, made, refusedAt, failed>>

QuotaNext ==
    \/ \E n \in Lengths : DrySnapshot(n) \/ Refused(n)
    \/ Recovered \/ SavedByOthers \/ QuotaFlush \/ Restarted \/ QuotaTick

QuotaSpec == QuotaInit /\ [][QuotaNext]_quotaVars

-----------------------------------------------------------------------------
\* A deadline that a refusal made stands to its end, whatever snapshots and
\* shorter refusals come in between, unless a dry snapshot makes it longer
\* (auth.js: a weekly snapshot is no evidence against a live-402 deadline).  A
\* restart keeps it too, except one within a flush interval of the refusal or
\* after a save that failed, which gives back what the file has (auth.js: a hard
\* kill loses at most one interval); and what the file has of a refusal is as
\* safe from snapshots as the refusal was.
RefusalHolds == made > now => until >= made

\* The same with a dry snapshot in between: a recovery that is no evidence
\* against the refusal does not end its time because a longer deadline was
\* written over it (auth.js: a live-402 deadline is a newer statement that an
\* actual request could not be served).
RefusalAlwaysHolds == armed > now => until >= armed
=============================================================================
