-------------------------- MODULE DetachedRegistry --------------------------
(***************************************************************************)
(* Detached Cascade turns (src/detached-registry.js): when the client of a *)
(* stream goes away, the turn's snapshot is frozen under a key; a retry    *)
(* with the same body claims it, replays it and goes on polling.           *)
(*                                                                         *)
(* The requests (src/handlers/chat.js) hold their claim across awaits in   *)
(* which a timer, a sweep, an administrator or a request with the same key *)
(* may touch the registry.  A claim's token is the request that made it: a *)
(* request forgets its token before it can claim again.                    *)
(*                                                                         *)
(* Time is what is left of an entry's admission window and of the request  *)
(* deadline it was admitted with.  What a snapshot holds is its size only. *)
(***************************************************************************)
EXTENDS Integers, Sequences, Listing

CONSTANTS DetachKeys,
          CallerOf,       \* CallerOf[k]: the caller whose scope is part of the key
          Turns,          \* requests
          NoTurn, NoDetachKey,
          Sizes,          \* sizes a snapshot may have
          Ttl, MaxLeft,   \* admission window; the longest deadline ahead
          MaxEntries, MaxPerCaller, MaxEntryBytes, MaxTotalBytes,
          MaxAdmits       \* bound: turns that detach

ASSUME RegistryAssumption ==
    /\ NoTurn \notin Turns /\ NoDetachKey \notin DetachKeys
    /\ Sizes \subseteq Nat \ {0}
    /\ Ttl \in Nat \ {0} /\ MaxLeft \in Nat \ {0} /\ MaxAdmits \in Nat
    /\ MaxEntries \in Nat /\ MaxPerCaller \in 1 .. MaxEntries
    /\ MaxTotalBytes \in Nat /\ MaxEntryBytes \in 0 .. MaxTotalBytes

VARIABLES
    entries,     \* the Map, in insertion order, which is the order of createdAt
    totalBytes,
    draining,
    phase,       \* phase[t]: "idle", "fresh" (its own upstream turn) or "resuming"
    keyOf,       \* keyOf[t]: the detach key of the request
    admits

regVars == <<entries, totalBytes, draining, phase, keyOf, admits>>

Entry == [key : DetachKeys, bytes : Sizes, ttl : 0 .. Ttl, left : 0 .. MaxLeft,
          state : {"running", "claimed"}, owner : Turns \cup {NoTurn}]

Bytes == [e \in Entry |-> e.bytes]
BytesOf(s) == Total(s, Bytes)

\* The window bounds admission only; a claim lives until the deadline.
Expired(e) == e.left = 0 \/ (e.state = "running" /\ e.ttl = 0)

At(k) == {i \in DOMAIN entries : entries[i].key = k}
Without(s, k) == OnlyOf(s, {e \in Entry : e.key # k})
Swept(s) == OnlyOf(s, {e \in Entry : ~Expired(e)})

\* #delete of all that is not in s, which is a subsequence of entries.
Keep(s) ==
    /\ entries' = s
    /\ totalBytes' = LET n == totalBytes - (BytesOf(entries) - BytesOf(s))
                     IN IF n < 0 THEN 0 ELSE n

CallerKeys == {CallerOf[k] : k \in DetachKeys}

OfCallers(s, callers) == OnlyOf(s, {e \in Entry : CallerOf[e.key] \in callers})
Running(s, callers) ==
    OnlyOf(s, {e \in Entry : e.state = "running" /\ CallerOf[e.key] \in callers})

\* What is left after making room: #evictOldestRunning, or nothing at all when
\* every candidate is claimed.
Room(s, full, callers) ==
    LET oldest == Running(s, callers)
    IN  IF ~full THEN {s} ELSE IF oldest = <<>> THEN {} ELSE {Without(s, oldest[1].key)}

\* Mistake: any live claim of the key passes for one's own.
OwnsByKey(t) == \E i \in At(keyOf[t]) : entries[i].state = "claimed"

\* The token of t is the one in the entry.
Owns(t) == \E i \in At(keyOf[t]) : entries[i].state = "claimed" /\ entries[i].owner = t

RegInit ==
    /\ entries = <<>> /\ totalBytes = 0 /\ draining = FALSE
    /\ phase = [t \in Turns |-> "idle"]
    /\ keyOf = [t \in Turns |-> NoDetachKey]
    /\ admits = 0

-----------------------------------------------------------------------------
\* The key of a request goes with it.
Becomes(t, at) ==
    /\ phase' = [phase EXCEPT ![t] = at]
    /\ keyOf' = IF at = "idle" THEN [keyOf EXCEPT ![t] = NoDetachKey] ELSE keyOf

Arrives(t, k, at) == phase' = [phase EXCEPT ![t] = at] /\ keyOf' = [keyOf EXCEPT ![t] = k]

\* A request arrives: lookup, and claim if the entry is there to be claimed and
\* the language server of the frozen turn is still the same one.
Arrive(t, k) ==
    /\ phase[t] = "idle"
    /\ \/ /\ \A i \in At(k) : entries[i].state = "claimed" /\ ~Expired(entries[i])
          /\ Arrives(t, k, "fresh") /\ UNCHANGED <<entries, totalBytes>>
       \/ /\ \E i \in At(k) : Expired(entries[i]) \/ entries[i].state = "running"
          /\ Keep(Without(entries, k))       \* expired, or the language server is gone
          /\ Arrives(t, k, "fresh")
       \/ /\ \E i \in At(k) :
                /\ entries[i].state = "running" /\ ~Expired(entries[i])
                /\ entries' = [entries EXCEPT ![i].state = "claimed", ![i].owner = t]
          /\ totalBytes' = totalBytes
          /\ Arrives(t, k, "resuming")
    /\ UNCHANGED <<draining, admits>>

\* The turn ends and nothing is frozen.
Finish(t) ==
    /\ phase[t] = "fresh" /\ Becomes(t, "idle")
    /\ UNCHANGED <<entries, totalBytes, draining, admits>>

\* Where an admission of a snapshot of the given size leads: the entries that
\* stay, and whether the new one joins them.
Admission(k, size) ==
    LET live == Swept(entries)
        old == OnlyOf(live, {e \in Entry : e.key = k})
        busy == \E i \in DOMAIN old : old[i].state = "claimed"
        over == \/ size > MaxEntryBytes
                \/ totalBytes - (BytesOf(entries) - BytesOf(live)) - BytesOf(old) + size
                     > MaxTotalBytes
        rest == Without(live, k)
        mine == Len(OfCallers(rest, {CallerOf[k]}))
        forMe == Room(rest, mine >= MaxPerCaller, {CallerOf[k]})
    IN IF draining THEN [kept |-> entries, in |-> FALSE]
       ELSE IF busy \/ over THEN [kept |-> live, in |-> FALSE]
       ELSE IF forMe = {} THEN [kept |-> rest, in |-> FALSE]
       ELSE LET s == CHOOSE x \in forMe : TRUE
                room == Room(s, Len(s) >= MaxEntries, CallerKeys)
            IN IF room = {} THEN [kept |-> s, in |-> FALSE]
               ELSE [kept |-> CHOOSE x \in room : TRUE, in |-> TRUE]

\* admit: the client of a fresh turn is gone.
Admit(t, size, left) ==
    /\ phase[t] = "fresh" /\ admits < MaxAdmits
    /\ LET a == Admission(keyOf[t], size)
           e == [key |-> keyOf[t], bytes |-> size, ttl |-> Ttl, left |-> left,
                 state |-> "running", owner |-> NoTurn]
       IN /\ entries' = IF a.in THEN Append(a.kept, e) ELSE a.kept
          /\ totalBytes' = LET n == totalBytes - (BytesOf(entries) - BytesOf(a.kept))
                           IN (IF n < 0 THEN 0 ELSE n) + (IF a.in THEN size ELSE 0)
    /\ admits' = admits + 1
    /\ Becomes(t, "idle")
    /\ UNCHANGED draining

-----------------------------------------------------------------------------
\* What ends a claim, when it is still one's own, drops its entry.
DropOwn(t) == Keep(IF Owns(t) THEN Without(entries, keyOf[t]) ELSE entries)

\* The resumed turn is over: release(served).  Past the deadline the entry goes
\* all the same, and the turn is not served.
Serve(t) ==
    /\ phase[t] = "resuming" /\ DropOwn(t) /\ Becomes(t, "idle")
    /\ UNCHANGED <<draining, admits>>

\* The resume failed: evict by token; the request may go on with a turn of its
\* own.  Also the ownership test that finds the deadline passed.
Abandon(t) ==
    /\ phase[t] = "resuming" /\ DropOwn(t)
    /\ Becomes(t, "idle") \/ Becomes(t, "fresh")
    /\ UNCHANGED <<draining, admits>>

\* Mistake: the bytes of the snapshot that is replaced stay on the account.
RedetachCountsTwice(t, size) ==
    /\ phase[t] = "resuming"
    /\ IF Owns(t) /\ \A i \in At(keyOf[t]) : entries[i].left > 0 /\ entries[i].ttl > 0
       THEN /\ entries' = [i \in DOMAIN entries |->
                             IF i \in At(keyOf[t])
                             THEN [entries[i] EXCEPT !.bytes = size, !.state = "running",
                                                     !.owner = NoTurn]
                             ELSE entries[i]]
            /\ totalBytes' = totalBytes + size
       ELSE DropOwn(t)
    /\ Becomes(t, "idle")
    /\ UNCHANGED <<draining, admits>>

\* release(running): the client of the resumed turn is gone too.  The window
\* goes on; a snapshot that does not fit any more costs the entry.
Redetach(t, size) ==
    /\ phase[t] = "resuming"
    /\ LET i == CHOOSE j \in At(keyOf[t]) : TRUE
           bytes == totalBytes - entries[i].bytes + size
       IN IF /\ Owns(t) /\ entries[i].left > 0 /\ entries[i].ttl > 0
             /\ size <= MaxEntryBytes /\ bytes <= MaxTotalBytes
          THEN /\ entries' = [entries EXCEPT ![i].bytes = size, ![i].state = "running",
                                             ![i].owner = NoTurn]
               /\ totalBytes' = bytes
          ELSE DropOwn(t)
    /\ Becomes(t, "idle")
    /\ UNCHANGED <<draining, admits>>

-----------------------------------------------------------------------------
\* Mistake: a claim disarms the timer of its entry for good.
TimerSkipsClaims(k) ==
    /\ \E i \in At(k) : entries[i].state = "running" /\ Expired(entries[i])
    /\ Keep(Without(entries, k))
    /\ UNCHANGED <<draining, phase, keyOf, admits>>

\* The timer of an entry: the window or the deadline of a running one, the
\* deadline of a claimed one.
Timer(k) ==
    /\ \E i \in At(k) : Expired(entries[i])
    /\ Keep(Without(entries, k))
    /\ UNCHANGED <<draining, phase, keyOf, admits>>

\* evictForAccount: the entries pinned to a removed account, claimed or not.
EvictForAccount(keys) ==
    /\ \E k \in keys : At(k) # {}
    /\ Keep(OnlyOf(entries, {e \in Entry : e.key \notin keys}))
    /\ UNCHANGED <<draining, phase, keyOf, admits>>

\* beginDrain
BeginDrain ==
    /\ ~draining /\ draining' = TRUE
    /\ Keep(<<>>)
    /\ UNCHANGED <<phase, keyOf, admits>>

Tick ==
    /\ \E i \in DOMAIN entries : entries[i].ttl > 0 \/ entries[i].left > 0
    /\ entries' = [i \in DOMAIN entries |->
                     [entries[i] EXCEPT !.ttl = IF @ > 0 THEN @ - 1 ELSE 0,
                                        !.left = IF @ > 0 THEN @ - 1 ELSE 0]]
    /\ UNCHANGED <<totalBytes, draining, phase, keyOf, admits>>

RegNext ==
    \/ \E t \in Turns, k \in DetachKeys : Arrive(t, k)
    \/ \E t \in Turns, size \in Sizes, left \in 1 .. MaxLeft : Admit(t, size, left)
    \/ \E t \in Turns : Finish(t) \/ Serve(t) \/ Abandon(t)
    \/ \E t \in Turns, size \in Sizes : Redetach(t, size)
    \/ \E k \in DetachKeys : Timer(k)
    \/ \E keys \in SUBSET DetachKeys : EvictForAccount(keys)
    \/ BeginDrain
    \/ Tick

RegSpec == RegInit /\ [][RegNext]_regVars

\* The clock and the timers run; requests may hang for ever.
FairRegSpec == RegSpec /\ WF_regVars(Tick) /\ \A k \in DetachKeys : WF_regVars(Timer(k))

-----------------------------------------------------------------------------
\* One entry per key, and a token exactly while it is claimed.
RegistryTypeOK ==
    /\ entries \in Seq(Entry)
    /\ \A i, j \in DOMAIN entries : entries[i].key = entries[j].key => i = j
    /\ \A i \in DOMAIN entries : entries[i].state = "running" <=> entries[i].owner = NoTurn
    /\ totalBytes \in Nat /\ draining \in BOOLEAN
    /\ phase \in [Turns -> {"idle", "fresh", "resuming"}] /\ keyOf \in [Turns -> DetachKeys \cup {NoDetachKey}]
    /\ admits \in 0 .. MaxAdmits

\* totalBytes is the size of what is held, across supersession, eviction,
\* re-detach with another size, and the deletes that come too late: otherwise
\* the registry ends up refusing everything, or holding more than it may.
BytesExact == totalBytes = BytesOf(entries)

\* The caps: entries, entries of a caller, bytes.
WithinLimits ==
    /\ Len(entries) <= MaxEntries /\ totalBytes <= MaxTotalBytes
    /\ \A c \in CallerKeys :
          Len(OfCallers(entries, {c})) <= MaxPerCaller

\* The entry of k is worth something to somebody: it can still be claimed, or
\* its resumer can still finish.
Live(k) == \E i \in At(k) :
    entries[i].left > 0 /\ (entries[i].state = "claimed" \/ entries[i].ttl > 0)

\* "A refused admission must not delete the same-key entry or evict capacity
\* entries: those belong to live callers whose retries depend on them"
\* (detached-registry.js, admit).
RefusalIsPure ==
    [][\A t \in Turns :
         (phase[t] = "fresh" /\ admits' # admits /\ phase'[t] = "idle"
            /\ ~\E i \in DOMAIN entries' :
                  entries'[i].key = keyOf[t] /\ entries'[i].ttl = Ttl
                  /\ entries'[i].state = "running")
         => \A k \in DetachKeys : Live(k) => \E i \in DOMAIN entries' : entries'[i].key = k]_regVars

\* Once claimed, an entry is its resumer's until the deadline: no sweep, lookup
\* or admission of others takes it away; only a removed account or a drain do.
ClaimIsSafe ==
    [][\A t \in Turns :
         (phase[t] = "resuming" /\ phase'[t] = "resuming" /\ Owns(t) /\ Live(keyOf[t]))
         => \/ Owns(t)' \/ draining' # draining
            \/ \E keys \in SUBSET DetachKeys : EvictForAccount(keys)]_regVars

\* A resumer that lost its claim cannot touch the entry that took its key: "a
\* same-key successor may have been admitted since the caller looked (ABA)"
\* (detached-registry.js, evict).
StaleOwnerHarmless ==
    [][\A t \in Turns :
         (phase[t] = "resuming" /\ phase'[t] # "resuming"
            /\ \A i \in At(keyOf[t]) : entries[i].owner # t)
         => entries' = entries]_regVars

\* The ledger is exact, and the limits hold.
LimitsHold == BytesExact /\ WithinLimits

\* What belongs to another request stays its own: its retry's entry through a
\* refused admission, its claim, and the entry that took the key of a lost one.
OthersUntouched == RefusalIsPure /\ ClaimIsSafe /\ StaleOwnerHarmless

\* Whatever requests do, and even if they hang with their claims, a frozen turn
\* does not stay for ever.
NothingLingers == <>[](entries = <<>>)
=============================================================================
