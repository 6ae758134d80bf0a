# TLA+ models of WindsurfAPI

WindsurfAPI is a Node.js proxy: it serves the OpenAI, Anthropic and Gemini chat
APIs from a pool of upstream accounts, over a direct wire protocol ("Connect")
and over local language-server processes ("Cascade"). It runs on one event loop,
so there are no data races; what is hard about it is that nearly every operation
has an await in the middle. Between the two halves of a request the account it
holds may be re-keyed, benched, removed or given to somebody else, its client may
leave, a timer may fire, an operator may press a button, and the process it
talks to may die. What it keeps between requests (bindings, sessions, stored
responses, pooled cascades, lockouts) it keeps in bounded tables that tenants who
do not know of each other share. This directory models the parts whose correctness
depends on the order in which such things happen.

Source paths in the modules are given without the leading `src/` directory of
the tree: `src/auth.js` in a module is `src/src/auth.js` in `PROJECT.json`.

| module | models | state | runs |
|---|---|---|---|
| `ReloginGate` | fleet-wide limit on logins | slots in use, queue of waiters | timers, inside lifecycle_pair |
| `AccountLifecycle` | status and key of an account | rows, gate, calls in flight, upstream | lifecycle_one, lifecycle_pair, timers |
| `AccountPool` | in-flight ledger | counters, reservations, requests | tables, timers, pool_leak |
| `QuotaCooldown` | the quota deadline of an account | deadline, who wrote it | tables, quota_takeover |
| `AccountsFile` | accounts.json | memory, dirty flag, file, disk | timers |
| `StickySession` | affinity of callers to accounts, the wait for a pin | bindings in order of use, accounts, requests | tables |
| `ConnectRequest`, `ClientReply` | the failover loop of a request, and what its client is promised | pool rows, steps of requests, replies | connect |
| `CascadeTurn`, `ConversationPool` | turns of the Cascade path, and the pool of their cascades | pool, local variables of turns, accounts, processes, upstream | cascade, tables |
| `CascadePoll` | one turn of the Cascade path, poll by poll | trajectory, cursors, what the client was sent, snapshot | cascade |
| `DetachedRegistry` | streams whose client has left | frozen entries, byte ledger, claims | connect |
| `SessionContinuity` | session ids for clients that resend their history | states, commit index, dialogs | tables, session_hijack |
| `ResponseStore` | conversations kept for `previous_response_id` | entries, ledgers of tenants | tables |
| `ConnectStream` | a stream from the upstream on its way in | frames on their way, queue, request, timers, generator | timers, stream_overflow |
| `StreamEgress` | a streamed answer's way to its client | handler, commit gate, writer, socket | timers |
| `AnthropicStream` | the stream of /v1/messages | open block, held text and tools | tables |
| `LanguageServerPool` | pool of language-server processes | entries, starts, queue, processes, restarts, counts | ls_pool, ls_restart |
| `Lockout` | lockout of dashboard callers | attempts in order | tables |
| `SelfUpdate` | update and rollback of a checkout | HEAD, process, three files | tables |
| `Listing` | lists: what is kept of them, what they add up to | | with the tables that use it |
| `*Proofs` | theorems (section 4 says about which modules) | | `tlapm` |

Conventions. One action per piece of code between two awaits; the guard is what
the code tests after the await, not before it. A synchronous operation on a table
is one action, with the pruning, indexing and ledgers it ends with. An operator
whose comment begins with "Mistake:" is not part of the specification: it is a
plausible wrong version of the operator that follows it, kept because each property
must fail when it is put in place (`mutants` in `PROJECT.json`). Time-outs and
cooldowns are free choices unless a property is about them: whatever they allow may
happen at any time. A Map whose order matters (all of them are used as LRU lists) is
a sequence in that order.

## 1. Inventory

The system's parts, what each keeps, what it does, and what makes it correct.
Sections marked (M) are modelled, (m) in part; section 6 says why the others are
not.

### Accounts (src/auth.js, one array of rows)

* **Re-login gate (M).** `_reloginActive` and `_reloginWaiters`.
  `acquireReloginSlot` takes a slot or queues with a timer and an AbortSignal;
  `releaseReloginSlot` hands the slot to the first waiter without touching the
  count. Correct when slots are neither leaked nor doubled, no wake-up is lost,
  no slot goes to a promise that nobody awaits, and grants are first come first
  served.
* **Life cycle (M).** A row has an id that never changes, a session key that is
  swapped in place, a status (`active`, `error`, `disabled`, `banned`, `reauth`),
  an error and a ban streak. It is written by outcomes of requests
  (`reportError`, `reportSuccess`, `reportBanSignal`), by the automatic re-login
  (`reLoginAccount`, coalesced per row, through the gate), by the confirmation
  probe after a 401 (`requestReauthCheck`), by the periodic sweep
  (`probeAndRecoverConnectAccount`) and by the operator (dashboard). All but the
  first and last await the upstream. Correct when a late answer never undoes
  something newer: a parked row stays parked, a key confirmed dead stays out of
  rotation, a login replaces only the key it set out to replace, attempts
  settle, and a dead key leaves rotation in the end.
* **In-flight ledger (M).** `_inflight`, `_inflightAt`, `_rpmHistory`. `getApiKey`
  reserves; `releaseAccount` (by key), `releaseAccountById` and
  `refundReservation` give back; a sweep zeroes stale counters. Correct when the
  counter is the number of requests that hold the row, the cap holds for the
  requests themselves, and a leak heals.
* **Quota cooldown (M).** `quotaResetAt` has two writers, a credits snapshot and a
  refused request, and a field that says which. A refresh saves what its snapshot
  changed; a refusal only marks the pool dirty, and a timer writes it within 30 s.
  Correct when neither takes back what only the other can know, and a restart loses no
  refusal older than that interval.
* **Persistence (m).** `saveAccounts`: dirty flag, temporary file, rename, two
  flushes; some changes save at once and others wait for a timer. Correct when a
  crash at any point gives back the last save that reported success, a failed save
  is tried again, and records of other instances survive.
* **Sticky affinity and queue-on-pin (M)** (src/account/sticky-session.js and its
  arm of `getApiKey`). A caller returns to the account that holds its prompt cache;
  while that account cools down it is waited for. Correct when nobody is moved
  without need, and no tenant takes the bindings of another that has its share.
* **Selection** (health, RPM windows, spend policy, shards): a choice over the
  rows; free in the models.

### Requests (src/handlers/chat.js)

* **Connect path (m).** acquire, attempt, one re-login and replay on a 401, up to
  `connectFailoverMax` hops while nothing has reached the client,
  `finalizeConnectAccount` for every attempt, a delivery gate at the end. It
  calls every account operation above. Correct when each acquisition is released
  exactly once on every exit, verdicts land only on the credential that earned
  them, the client sees one answer of one attempt, and nothing is remembered of
  a turn that was not delivered.
* **Connect stream (m)** (src/devin-connect.js `streamChat`). The socket fills a bounded
  queue from the event loop, a generator empties it at the pace of its caller, and an idle
  timer, an absolute deadline, the caller's signal and the transport may end the request
  between any two steps. Correct when nothing is lost, doubled or out of order, the queue keeps
  to its caps, neither side waits for the other in vain, a finish stands for a whole
  answer, and an end names its cause.
* **Cascade path (m) and its conversation pool (M)** (src/conversation-pool.js). A
  turn checks the cascade of its conversation out, drives it with the account that
  owns it or tries others, and must put it back on every exit on which it is still
  good; a cascade may be stored under two fingerprints; accounts that leave and
  processes that die invalidate entries, one dynamic import later. Correct when a
  cascade has one driver, a half-finished one is not resumed, a good one comes back,
  and no tenant prunes another's last one.
* **Cascade poll loop (m)** (src/client.js `cascadeChat`, src/cascade-turn.js). A turn
  sends its message, polls a window of the upstream's trajectory, whose newest steps grow
  in place, and passes on what each has grown by; it ends when the planner is idle, hands
  over a tool, stalls or runs out of time, and can be frozen and resumed. Correct when
  nothing is given twice or lost and only a whole answer is called one.
* **Detached turns (M)** (src/detached-registry.js). When a Cascade stream loses
  its client, a snapshot is frozen under a key of caller and body; a retry claims
  it and goes on polling. Timers, sweeps, account removal and drain touch the
  table in between. Correct when the byte ledger and caps are exact, a claim
  belongs to its resumer, a refusal has no side effect, and nothing lingers.
* **Session continuity (m)** (src/session-continuity.js). Finds the session of a
  dialog by its history, which the client resends, branches and compacts. Correct
  when two dialogs that have parted are never one session upstream.
* **Response store (M)** (src/response-store.js). Bounded by entries and by bytes,
  with a fair share of each. Correct when the ledgers are what the table says and
  who writes much pays itself.
* **Stream egress (m)** (src/stream-writer.js, src/sse-commit.js and the stream
  handler). Holds the first frames back so that an early error can be a status,
  waits for a client that is slow, gives up on one that stopped. Correct when the
  client is sent one status, its pieces in order, nothing after the end, and when
  the handler ends whatever the client does.
* **Translators.** The Messages dialect's stream (m) (src/handlers/messages.js)
  has the most state: one block open at a time over an upstream that interleaves.
  Correct when nothing truncated is passed off as whole. The others are
  not modelled.

### Processes and operations

* **Language-server pool (m)** (src/langserver.js). `_pool`, `_pending`, `_stopping`,
  `_maintenanceUses`, `_restartAttempts`, one process per proxy. Starts are shared
  by callers of a key and serialised by one lock held across waits for eviction
  and memory. Correct when the cap holds, no process is lost, the counts that
  protect an instance from eviction are exact, starts are answered and restarts
  of a hopeless binary end.
* **Dashboard lockout (M)** (src/auth.js). Correct when a flood of addresses lifts no
  ban and does not grow the table.
* **Self-update (m)** (src/dashboard/api.js). Correct when an update can be undone
  whatever failed and whenever the process was killed.
* **Container update, fleet jobs, OAuth onboarding, HTTP routing, filters,
  catalogues, tool emulation, logins, dashboard read models**: not modelled.

### How they interact

A request holds an account by its id and a snapshot of its key. Everything that
changes rows (logins, probes, operator, removal) does so without asking the
requests; the requests find out by comparing (`credentialEpochCurrent`,
`isCurrentAccount`). `ConnectRequest` therefore has its own small model of the
rows in which keys change at any time, `AccountPool` its own in which they
change under the ledger, `StickySession` its own in which they stop being
admitted, and `AccountLifecycle` the full one. `AccountLifecycle` composes the gate
(`Gate == INSTANCE ReloginGate WITH Attempts <- Accounts`) and is shown to use it as
it is specified; `ConnectRequest` is shown to implement `ClientReply`;
`CascadeTurn` extends the data structure `ConversationPool` with its users.

## 2. The modules

### ReloginGate

`active`, `waiters`, and the step `pc` of every attempt. `AcquireAtOnce`, `Enqueue`,
`Cancel` (timer or abort), `ReleaseToWaiter` and `ReleaseIdle` are the branches of
the two functions. A waiter that is granted its slot is in `login` at once: the
code resolves its promise in the same step.

### AccountLifecycle

Each await ends an action. Of a re-login: `ReloginBegin` (entry, coalescing),
`ReloginSkipped` (no credential or cooling down), `ReloginAcquire`,
`ReloginCancelled` (queue wait over), `ReloginDispatch` or `ReloginStale`
(revalidate in the slot), `ReloginReturns` or `ReloginFails` (commit). Of the
confirmation probe: `CheckBegin`, `CheckAnswered` (the upstream decides then, not
later), `CheckLost`, `CheckSettles`. Of the sweep: `ProbeBegin`, `ProbeAnswered`,
`ProbeDropped`, `ProbeAlive`, `ProbeDead`, `ProbeSettles`. The operator's writes are
single steps, with and without force. `minted` and `retired` are the upstream: it
retires keys, and answers for some of them again (a broken proxy repaired). The
history sets `benched` and `moved` exist for the properties only.

Rows outside `Session` have no `devin-session-token$` key, and are neither probed
nor benched; rows outside `Credentialed` cannot log in. A pasted token may be the one of
another row (`PasteToken`; nothing in `applyReauthToken` or `markAccountReauthenticated`
asks): keys are distinct at the start, when the file is read, and need not be later.

The sweep is opt-in: it runs only with `DEVIN_CONNECT_LIVENESS_PROBE=1` (auth.js:6489). The
safety properties hold with and without it. `DeadKeyLeaves` (part of `RowSettles`) is a
statement about a server on which it is switched on, since its fairness lets the sweep
come round; without it a dead key leaves rotation only when a request is refused and the
confirmation probe or the re-login settles it.

### AccountPool

`Select`, `SelectDegraded` and `AcquireByKey` are the three ways to be handed an
account, `End` every way to be done with it (with or without refund, by id or by
key), `Cleanup` the sweep, `Rekey`, `Remove` and `Add` what happens to a row under
a request. The state of a row other than its counters is one of three words,
and changes freely.

The assumption `Deadline <= Stale` says that no request outlives the age at which
the sweep takes a counter for a leak (15 minutes by default). It is what makes
the sweep safe, and a configuration may break it: nothing stops
`WINDSURFAPI_REQUEST_BUDGET_MS` above the threshold. A stream's budget *equals* it, and
is safe because the sweep tests with a strict `>`; the mutant `CleanupEarly` shows
that `>=` would not be.

### QuotaCooldown

`until` and `source` are the deadline and its writer, `stored` what accounts.json has of
them, `unsaved` is `_dirty` and `flushIn` the timer of `flushDirty`. `armed` and `made` are
histories: the last deadline of a refusal, and the same unless a dry snapshot has
lengthened it since; `refusedAt` is when it was made, and `failed` says that the last save failed.

`Restarted` is a kill or a shutdown (which writes nothing, index.js:259), and the process
that reads the file next. It loses what is not in the file, as auth.js:792-804 says: a
refusal younger than `FlushEvery`, or one that a save failed to write (`MayBeLost`).
Then the histories, too, go back to what the file was written with; otherwise
they stay, and `RefusalHolds` says that the deadline does. So it asks of the code
that a refusal is marked for the flush, that the flush writes it in time and tries again, and
that the source goes with the deadline into the file and out of it. `RefusalHolds` is
about `made` and holds; `RefusalAlwaysHolds` is about `armed`, and is what finding 4 is
about. The timer fires when it is due (`QuotaTick` waits for it); a power loss after a save is
`AccountsFile`'s subject.

### AccountsFile

What matters of the file is which *revision* of the accounts it has, and whether it
still has the records this instance filters out and must write back (`Others`).
`disk` is what a power loss may leave: both contents, between the rename and the
flush of the directory. A save ends in one of three ways (published, not written,
renamed but not flushed), and `Kill` may come in the middle of one. A start that cannot
read the file goes on with an empty pool and `blind` says so: the next save
overwrites what was there, so the safety properties are about the other starts.

### StickySession

An account is *ready*, *cooling* (soon ready), *barred* (active, but not admitted for
this request) or *off*; these are what the pinned arm of `getApiKey` and the poll
for a pin distinguish. `ask[r]` is a request on its way from the first acquisition
through queue-on-pin, the queue and the hops of a failover. With `stickyNoFallback`
a binding to a barred account refuses the request.

### CascadeTurn and ConversationPool

`ConversationPool` is the Map and its pruning as operators, with a small
specification of its own (any tenant stores and takes what it likes).
`CascadeTurn` extends it with the users. `turn[r]` has the local variables of the
handler under their own names or close to it: what was checked out (`entry`),
which accounts were tried, whether the next attempt may reuse the cascade. `present`
and `gen` are the accounts and the generations of processes, `stale` the
invalidations on their way, `known` and `half` what the upstream has. `twice` is a
history: cascades once stored under two fingerprints, for which alone the two
safety properties make an exception (`ExclusiveCascade`, `NoHalfTurnPooled`).

### CascadePoll

`steps` and `status` are the upstream's trajectory, `poll` the local variables of the turn:
`floor`, `offset` and `window` bound what it reads, `cursor[i]` is what it has passed on of
step i, `todo` the batch that is being consumed, each step of which is an action, since the
client is awaited in between. What a step says is a number of pieces, and a modified text is
one piece more or another text. `early` marks the one case in which the code ends a turn
that is not over: the planner begins only after the grace and four idle polls (section 5).

### SessionContinuity

A state's id is what the upstream sees; it is found by its pairs of question and
answer, by the first question as long as it has none (or after a compaction), or
by the exact window last committed. Only the first question of a dialog may be that of
another. `lost` says that some dialog's state was evicted or has expired, or that a dialog was
branched at a pair which its session's state no longer indexes, after either of which the code
cannot tell dialogs apart any more (section 5).

### ResponseStore and Lockout

Both tables are kept in their order, each operation with its eviction is one step.
`ResponseStore` keeps the four ledgers as the code does, by adding and subtracting,
so that `LedgerExact` compares them with the table. In `Lockout` the scan for a victim
gives up after `ScanBudget` bans.

### ConnectStream

The answer is a line of offsets, a frame the stretch it carries, so that what is lost, doubled
or out of order is a gap in `net`, `queue` and `delivered` (`Carries`). A data event is
`Data`, followed by one `Decode` for each of its frames, with nothing in between: `batch`
counts what the event has left. `PushEvent`, `YieldEvent` (with `noteQueueConsumed`), the pause
and resume marks and `Verdict` are the code's. `reader` is the generator: asleep in its
promise, woken, at a `yield` for as long as its caller likes, or over. A woken generator
runs before the next callback (its promise is resolved, and microtasks come first), one at
a `yield` whenever its caller asks.

Node's transport is external, and taken at its documentation: a paused response gives no
data and no end until it was resumed and read; a request that is destroyed under a response
gives that response an 'error' (or it may not), and before the response one of its own; an
abort does both in either order. Frames are whole and decoding always succeeds or throws
(`BadChunk`); how a frame is put together from chunks is left out, and so are usage, tool
calls, signatures and the bytes a decoder keeps back for a split character.

### StreamEgress

One action per frame the handler sends. `prod` is the handler, `gate` the commit gate
with what it holds back, `sock` the socket, `writer` the bounded writer with its
wait; `wire` is what the client has been sent, the status first.

### AnthropicStream

`out` is the translator: the block that is open, text and tools that are held, and
what was sent of each tool's arguments. An argument is a number of fragments, two of
which make a whole JSON value. `signal` is how the upstream ended, as far as the
translator can tell: by itself, by a finish frame made up for a stream that died, or not at all.

### SelfUpdate

`head` is the checkout, `files` the three files (rollback point, pending point,
journal), `task` the mutation that holds the lock, `edited` whether tracked files differ
from the checkout, `latest` the newest release. The commit that a check takes for
the running one is `RunningCommit`: Git's HEAD at that moment, not what the process was
started on. A check runs at any moment. `moved` and `swept` are histories: the last move of HEAD
by an update, and whether a check has confirmed a rollback since it began.

### ConnectRequest and ClientReply

The steps `idle`, `ready` (has an account), `calling`, `reviving` (a re-login is
under way), `retrying` (replay with the fresh key), `pausing` (looks for another
account), `done`. The adapter's own retries before the first byte stay inside one
attempt. A deadline or a turn cap only ever ends an attempt or a request, so it is
a choice wherever the code tests it. `Streaming` requests put frames on the wire
as they come; a whole answer, and a stream that is held back for its schema, are
sent at the end. A request has one life, so behaviours end, and its run does
not check for deadlock (`RequestSettles` says that they end as they should).

`ClientReply` is the abstract specification: bytes of one attempt, one end,
remembered only if answered.

`Selectable` over-approximates: status, RPM limits and the cap do not bar a row
here (they do in `AccountPool`).

### DetachedRegistry

`entries` is the Map in its insertion order, `totalBytes` its ledger, and a claim's
token is the turn that made it. `Arrive` looks up and claims, `Finish` detaches,
`Serve`, `Redetach`, `DropOwn` and `Abandon` are the ends of a resumed turn, each
with the ownership test of the code; `Timer`, `EvictForAccount`, `BeginDrain` are
what may take an entry away meanwhile. Turns may hang.

### LanguageServerPool

`start[k]` is where the start of key k is: `admitting`, `evicting` or `guarding`
(in the lock), `spawning` (reserved, looking for a port), `waiting` (for the port
to answer). `queue` is the chain of promises that is the lock. `halts` are the
awaits of a process exit and what follows each: admission, a fresh start, or
nothing. `doomed` processes were told to stop. `retry[k]` keeps the attempt count
and, by their attempt number, the closures of `scheduleLsRestart` that sleep or
wait for a start. A process found by the port it serves is found so in the model
too (`At`), since only the default port is ever used again.

Which idle instance is the least recently used is open; a process told to stop
is gone within the grace (the code kills it); `stopLanguageServer`, which runs
when the program exits, and the clean-up of orphans at boot are left out.
`beginLsUse` accepts an instance that is not ready, as the code does.

## 3. The runs

| run | instance | states | shows |
|---|---|---|---|
| `lifecycle_one` | 1 row, 3 keys, threshold 2 | 1.2 million | no late answer undoes something newer |
| `lifecycle_pair` | 2 rows, 2 keys, 1 slot | 907 000 | no slot leaks, the gate is implemented, errors do not empty the rotation |
| `connect` | 3 rows, 3 keys, 2 hops, 1 of 2 requests; or 3 detached keys of 2 callers, 2 turns, 4 admissions | 345 000 | slots balanced, epochs clean, client's promise, no dead key twice, requests end; registry safety, nothing lingers |
| `cascade` | 2 turns, 2 fingerprints, 2 keys, 1 port, 3 cascades | 1.5 million | one driver, no half turn pooled, good cascades come back; or one turn poll by poll: its answer is whole |
| `ls_pool` | 2 keys, cap 1, 2 processes, 1 user | 304 000 | cap, no lost process, exact counts, starts answered |
| `tables` | ten parts, see below | 787 000 | ledgers exact, shares kept, bans stand, dialogs apart, updates undone, nothing truncated |
| `timers` | six parts, see below | 49 000 | waiters served in turn, attempts settle, leaks heal, batches reach the disk, streams end and are whole |
| `pool_leak` | 1 row, 1 request by key | violation | finding 1 |
| `ls_restart` | 1 key, 2 retries | violation | finding 2 |
| `session_hijack` | 2 dialogs, compaction | violation | finding 3 |
| `quota_takeover` | 1 account, lengths 1 and 3 | violation | finding 4 |
| `stream_overflow` | queue of 2 frames and 3 bytes, 4 sent | violation | finding 5 |

**Runs of several parts.** `MCTables` and `MCTimers` instantiate several components
that share no state. A behaviour picks one `part` at the start and moves that one
only, so the states are the sum of the parts' and not the product. The parts of
`tables`: the ledger (2 rows, 2 requests by id, cap 1), the quota deadline, the
conversation pool (3 tenants with 2 conversations, room for 3), affinity of one
caller (2 accounts, 2 requests at once, keys and standings changing) and of many (3
callers of 2 tenants taking turns, room for 2), session continuity (2 dialogs with one
opening), lockout (4 addresses, room for 3, budget 2), the response store (3 tenants,
room for 4 entries and 5 bytes), self-update (3 commits), the Messages stream (2
tools, 3 texts). Those of `timers`: the gate (5 attempts, 2 slots), one account with one
key, the ledger with one request by id and one by key, the accounts file (3
revisions), the egress (2 pieces, 2 heartbeats, 2 frames held), the stream from upstream
(frames of 1 and 2, queue of 3 frames and 4 bytes, 5 sent).

Two more runs divide their behaviours. `MCCascadeTurn`: either both turns go on while
accounts and processes stay as they are, or one turn while everything changes, or one
turn is followed poll by poll (`CascadePoll`: 3 steps, a window that reaches 2 back, one
resume).
`MCConnectRequest`: one request takes place, the streaming one or the other, or none does and
the registry of detached turns moves; that requests do not disturb each other's slots and
verdicts is proved (section 4). While the streaming request runs, rows are re-keyed with
keys not seen before; while the whole-answer one runs, with any key, another row's or an old
one included, as a pasted token allows, and no row is added. The theorems are about any key.

**Why the bounds are enough to be interesting.** Every hazard needs at most the
actors given. Three keys on one row are the present one, the one a late answer is
about, and one installed in between. Two rows and one slot make an attempt queue
behind another and go stale there. A threshold of 2 separates "an error" from
"the streak". Two holders and a cap of one make the second request meet the cap.
Three rows and two hops let a request run through every account there is, and meet the
key it was refused with on another. Three cascades are the one checked out, the one
started instead, and another's.
Three sizes against an entry limit of 2 and a total of 3 are "fits", "fits if
something is evicted" and "never fits"; two turns that take turns are a resumer that has lost
its claim and its successor, and four admissions let each be admitted once more. A queue of 3 frames and 4
bytes pauses at 2 and resumes at 1, so a chunk of three or more can cross a cap in one
event, by count or by size. Tables have room for one less than their users, so that every
insertion may be the one that evicts; three tenants are the writer, its victim and
one that must not be touched. Two keys under a cap of one make each start evict the
other, and two processes an old and a new one. Three commits make an update follow an
update. Three steps behind a window of two leave one step that is read once and never
again. `MaxInflight`, `MaxAdmits`, `MaxTimers`, `Procs`, `MaxGen`, `MaxAway`, `MaxStale`,
`MaxKey`, `MaxSent`, `MaxPairs`, `MaxIds`, `MaxExpired`, `MaxTime`, `MaxRev`, `MaxRelease`,
`MaxContent`, `MaxPings`, `MaxTexts`, `MaxPieces`, `MaxSteps`, `MaxRaw` and `MaxResumes` are bounds of the models and not of
the code; `Deadline` and `Stale` of two ticks tell "younger", "as old" and "older"
apart. Symmetry is used for keys, rows and cascades with equal roles, in runs without
liveness only (`cascade` and the lifecycle runs).

Deadlock is not checked where the model has to stop: a request has one life, and
the clocks, revisions, ids, texts and pieces of the parts run out.

**Fairness.** *Gate*: a login that holds a slot ends (its RPC has a time-out, the
release is in a finally). *Account*: an attempt goes on (its queue wait and RPC are
bounded), an answered call is settled, the sweep comes round (setInterval, when
`DEVIN_CONNECT_LIVENESS_PROBE=1` switches it on), and of
its probes the upstream answers some: strong fairness on `ProbeAnswered`, since
each attempt may be cut off by the row changing. *Ledger*: the clock and the
sweep's timer run, and requests end by their budget. *File*: the flush timer runs for
ever, and a disk that works again and again is found working: strong fairness on
`FlushWorks`. *Egress*: the upstream ends or is aborted and the handler goes on, and the
drain timer runs; nothing is asked of the client, who may stop reading. *Upstream*: what is
resolved runs, a data event is decoded to its end, the deadline timer fires; nothing is asked
of the upstream, of the transport, or of the caller. `connect`: upstream calls, logins,
pauses and waits end, each has a timer; of the registry the clock and the per-entry timers
run, and the turns get *no* fairness, they may hang with their claims. `ls_pool`: admission waits, memory waits and readiness have time-outs, and
doomed processes die; `ls_restart` adds the delays of restarts.

## 4. The proofs

`tlapm` checks eight modules, for every value of the constants that the named
assumptions allow: 45 theorems and some 450 lemmas. A theorem `Spec => []Inv` is always
proved from a stronger invariant that is inductive; below is what each adds and why it
is needed.

**Lists.** Most tables of the server are lists from which some entries are dropped and
whose entries add up to a ledger (`Listing`: `OnlyOf`, `Total`). Both are recursive functions,
so what they do is shown by induction. The library's induction theorems take an operator
as a parameter, which the provers cannot instantiate; `ListingProofs` therefore states the
principle about *sets*: a set of numbers (`NatSetInduction`, from the least element) or of
lists (`ListInduction`) that is closed under one more is everything. `Recursion` is the
existence of a function defined along 0 .. n. The other lemmas say that what is kept is in
the table's order and once, that sums split, and what a change of one entry does to them.
Every loop of the models that drops, opens or sends one thing at a time (`Evict`, `Budgeted`,
`Swept`, `HeldTools`, `HeldText`) is done the same way: a set of good values closed under one pass.

* **ReloginGateProofs** (`ReloginGate`). `GateInv` = types, `SlotsAccounted`, `QueueIsExact`,
  `NoIdleSlotWithWaiters`. The strengthening matters: that a hand-over keeps the
  count right needs the head of the queue to be an attempt that waits, which is
  `QueueIsExact`; that `Cancel` finds its entry needs that each waits once. `GateFifo` follows
  from the same invariant.
* **AccountLifecycleProofs** (`AccountLifecycle`). `IInv` = `RowsOK` (record types,
  `BenchedStaysOut`) with `CallsOK` and the gate's types. `BenchedStaysOut` is inductive
  beside the types because every path that writes a status reads the row again first; one
  lemma for "a step that writes one row" serves every action. `OperatorIntent`,
  `LastAccount`, `LoginKeyOwned` and `UsesGate` (every step is a step of the gate, or leaves
  it alone) are action properties over the same invariant. Because of `UsesGate` the gate's
  exact queue holds of the pool (`PoolQueueExact`), and with it `SlotsOwned`: a slot
  is held by an attempt that is in its login, and the count is theirs.
* **ConnectRequestProofs**, the Connect path.
  *Requests* (`ConnectRequest`): `ConnectInduction` (types, a pausing request
  has a hop left, an account held has a key); `EpochStaysClean` from `EpochInv`;
  `SlotsStayBalanced` by counting holders, with a lemma for each way to start and
  stop holding; `DeadKeysStayDead` from `TriedInv` (what was refused is in the set
  of tried keys, and what is ready is not); `RequestKeepsPromise`, the refinement
  of `ClientReply`: initial states map to initial states and every step to a step
  or a stutter.
  *Sessions* (`SessionContinuity`): `DialogsStayApart`, for any dialogs, answers, window and
  number of states, and clients that do not compact. `Rooted` says that a pair tells who asked it
  and where, and so the whole way that led to it: the histories are a tree, and the last pair
  of a window, however short, stands for one history. `AllPlaced` then gives every state a
  place in the tree, such that all who answered in its session, and all it was committed with,
  lie on the way there; two of them cannot have parted. A turn only moves a state on to where its
  window leads. The one operation that would not, the root fallback for a history none of whose
  pairs is indexed, is excluded by `Findable`: a dialog's own state indexes some pair of it.
* **LanguageServerPoolProofs** (`LanguageServerPool`). `LsTypes` from `TypeInv`: types with
  `QueueOK` (who is in admission stands in the queue once, only the head is past the first
  test, an eviction under way is the head's), `EntriesStart` (an entry that is not ready
  belongs to the start of its key) and `Owned` (an entry's process is alive and
  runs for its key). `CapKept` adds `PlaceKept`: while the head waits for memory
  after its test, there is still room for it. It is kept because all other steps only let
  occupancy fall (`OccupancyFalls`, counted by `MoveCounts`: what leaves the pool
  may go to `stopping`, no further). `ProcessesKept`, for `StopWhileStarting = FALSE`,
  adds `StartsKept`: nothing leaves the pool between its reservation and its spawn.
  `UsesCounted` adds `UsersRight` (who remembers a process that still serves has its
  key and port right) and `PortsRight`, so that a late end finds exactly the
  instance it began on.
* **ResumeProofs**, what is kept to go on with.
  *Cascades* (`CascadeTurn`, `ConversationPool`): `CascadesStaySound` from `CascInv`, which says
  for every cascade in how many *places* it is (pooled, or in a turn that has it checked out
  or is driving it) and how it got there: one place unless it was once stored
  twice, and pooled only when not half done. `GoodCascadesComeBack` adds `Pooled` (the
  pool's own types and limits): a turn that ends puts its cascade back by a store that
  always fits. `LastCascadeKept`, that no tenant prunes another's last one, follows
  the eviction loop: as long as it runs some tenant is over its share or has more than one.
  *Detached turns* (`DetachedRegistry`): `RegInv` = `Sound` (keys and claims apart) with
  the limits and the exact byte ledger. `LimitsHold` is kept by an admission because what it
  evicts is chosen before it is known to suffice: `Promise` says that an admission
  that is granted has room once the chosen ones are gone, and one that is refused changes
  nothing. `OthersUntouched` is about owners: a claim is dropped, renewed or
  used by the turn that holds it.
  *The poll loop* (`CascadePoll`): `AnswersWhole`, for any overlap, number of steps and
  pieces. The invariant has three shapes, for a turn whose message is not accepted
  (`Unsent`), one that reads (`OnTheWay`) and one that has ended (`Over`). What was given
  of a step was said (`GivenWasSaid`); what lies behind the window and was not given
  waits in the batch under consumption (`Behind`); and a snapshot is taken only when the
  batch is consumed, so that a resumed turn goes on where the client stopped.
* **LedgerProofs**, seven machines that stand by themselves.
  *In-flight ledger* (`AccountPool`): `SlotsStayExact` for `ByKey = {}`: with types and
  exactness the invariant needs `SinceFresh` (a counter is no older than any request that
  holds it), from which with `Deadline <= Stale` the sweep finds nothing (`NothingStale`).
  `CapHolds` needs degraded serving and pinned acquisition to be off, which is
  the truth about the code, see below.
  *Quota* (`QuotaCooldown`): `RefusalStands` from `QuotaInv`: a deadline a refusal made is
  still marked as its own, in memory (`MarkedOK`) and in the file (`FileOK`), and one that
  is not in the file is marked dirty and younger than the interval by the time its flush
  still needs, unless a save has failed (`PendingOK`).
  *Accounts file* (`AccountsFile`): `FileStaysSafe`, with `MemoryIsAhead` (while the process
  runs, memory is no older than the last save that reported success, and still holds the
  others' records), without which a save could publish less than is on the disk.
  *Updates* (`SelfUpdate`): `UndoSurvives` from `UndoInv`. That a point of the last move is on
  the disk does not survive the next promotion alone. It needs `PointsSafe` (a pending point
  that HEAD has reached is the one of that move) and `NeverAbove` (every point leads to
  an earlier commit than the move that made it, so HEAD comes back to where a move ended by
  nothing but another update), with `TaskOK` for the mutation under way.
  *Lockout* (`Lockout`): `BansHold` from `LockTable` (one record for an address, at most
  `LockMax`), so that taking the record of one address without a ban takes no other's.
  *Response store* (`ResponseStore`): `LedgerStaysExact` from `StoreInv` (ids apart, both
  limits, the four ledgers equal to the sums over the table). The clamps at 0 never act,
  because what is subtracted is in the sum. That the bytes fit in the end
  (`BudgetedFits`) needs that each pass drops one entry and that the last, just written,
  fits alone: no entry is admitted above the limit (`StoreAssumption`; the code's
  MAX_ENTRY_BYTES is at most MAX_BYTES, response-store.js:547). `WriterAlwaysPays` carries
  what a pass leaves (`Left`) through the loop: once an entry of another tenant is gone, the
  writer is within its share or has one entry, and no later pass changes that.
  *Affinity* (`StickySession`): `AffinityHolds`, for any callers, accounts and requests: a pick
  moves a caller only when its own account is not free (`NoNeedlessRotation`), and what it does
  to the table concerns that caller, or drops the one victim of the eviction. With two
  tenants a victim of another's is impossible unless that one is over its share
  (`ShareProtected`): the table is full, so if the other has no more than half, the
  writer has its share and pays itself.
* **StreamProofs**, a streamed answer.
  *Upstream* (`ConnectStream`): `FaithfulForAll`: `StreamFaithful` with the types, `NetSound`
  (the trailer comes last and carries nothing), `QueueSound`, `FlagsSound` (what `done`, the
  error and the end-of-stream flag say of the request) and `EventSound`. That a
  paused response has something queued needs the arithmetic of the marks: with nothing left
  both counts are at or below the resume marks.
  *Egress* (`StreamEgress`): `EgressStaysHonest`, for any pieces, heartbeats and cap of the
  gate: what is on the wire followed by what is held is the handler's history, in order, and a
  status is sent before anything else and once.
  *Translator* (`AnthropicStream`): `NothingIsTruncated`, for any tools, texts and
  fragments, from `BlocksOK` (an open block is the current one; any other is closed, on
  nothing or on a whole value) and `TextsOK` (the texts that arrived are those shown and
  those held, each once). Both survive the two loops of `finish()`.

Assumed throughout: the constants' assumptions, each named in its module and
evaluated by TLC in every run of that module.

Only model-checked:

* *Liveness*, since fairness and ENABLED are out of the prover's reach: `RequestSettles`,
  `NothingLingers`, `StartSettles`, `WaiterServed`, `RowSettles`, `LeakHeals`,
  `BatchReachesDisk`, `StreamsEnd`.
* `EvictionFair`, as the run names it, is a conjunction of two properties, each of which is
  a theorem (`LastCascadeKept`, `WriterAlwaysPays`).
* The runs that expect a violation.

## 5. Findings

1. `pool_leak`: the special-agent backend releases by its snapshot of the key
   (special-agent.js:938 and 987); a re-key in between leaks the slot until the
   sweep, contrary to the contract at auth.js:3455 and 3474.
2. `ls_restart`: a process that starts and then exits before it is ready is
   rescheduled twice per failure; the branch that gives up deletes the attempt
   count the other closure relies on, so restarts never end, contrary to the
   comment at langserver.js:1320-1322. (A binary that cannot be spawned at all
   raises only `error` and is capped.)
3. `session_hijack`: a dialog whose history meets two sessions gets a state that is
   indexed under no root (session-continuity.js:700-710). When that dialog is
   compacted, the root fallback finds only the original session and joins it,
   contrary to the comment at 810-814.
4. `quota_takeover`: a dry snapshot that lengthens a refusal's deadline takes it over
   (auth.js:4062), and the next recovery snapshot clears it before the refusal's time is
   over, contrary to "SAME-SOURCE ONLY" at auth.js:4071-4077.
5. `stream_overflow`: the response's error handler (devin-connect.js:3537) replaces the
   QUEUE_OVERFLOW of a request that the overflow destroyed, unless the generator ran in
   between, which the slow caller that causes an overflow prevents. The caller is told
   ECONNRESET, which is retryable and reported against the account as a transport fault, and
   the counter of overflows stays at zero, contrary to devin-connect.js:3293-3296 and chat.js:2843-2848. The transport in the
   tests emits nothing when it is destroyed.

### Observations without a run of their own

Made while modelling; each can be reproduced with a small change to a run.

* Disabling a benched row and enabling it again returns its retired key without
  force, since `setAccountStatus` tests only the present status (auth.js:2530);
  the comments at auth.js:2521 and dashboard/api.js:2491 promise a refusal.
* A sweep's ALIVE answer that is older than the bench clears it (auth.js:2953):
  the row and the key are compared, not which answer is newer. An ALIVE answer
  therefore ends the bench in `BenchedStaysOut`, whenever it was given.
* `docs/ENV-SWITCHES.md:274` calls the in-flight cap a hard limit; `pickDegradedFallback`
  (auth.js:3050) and `acquireAccountByKey` (3559) do not test it. `LiveWithinCap` is
  checked and proved with both off.
* chat.js:4843 and 5082 report a dead token for whatever key the row has by then,
  so the health record of a fresh key may get the event (the verdict itself is
  tied to the old key, `EpochClean`).
* The fresh key of a re-login retry is not added to the tried keys of the request
  (comment at chat.js:4390): when the replay fails with an error that allows a hop
  and nothing else is left, degraded serving may present it again. It was not
  refused, so `DeadKeyStaysDead` holds.
* A budget that runs out inside an attempt is charged to the account as an
  internal error; the internal-error streak survives a re-login.
* Stopping or restarting a language server whose start is between reservation and
  spawn finds an entry without a process: the process spawned afterwards is in no
  table. `ls_pool` with `StopWhileStarting = TRUE` violates `ProcessesTracked`
  (the cap and the counts still hold there). `stopLanguageServerAndWait` also
  leaves such a key in `_stopping`, where it uses up capacity.
* A restart that is scheduled is not cancelled by an intentional stop;
  `.env.example` gives 5 as the number of retries, the code defaults to 3.
* `endLsUse` finds its instance by port and `endLsMaintenanceUse` by key, ignoring the
  generation in its token: on the default key both may hit a newer instance
  (hence `UsesExact` is about the others; the default instance is never evicted).
* The quota note at auth.js:4147 says a later balance-recovery snapshot clears either
  deadline, which the code no longer does for a refusal's (4079).
* *Cascade path.* A turn that finds its cascade unknown upstream recovers inside
  client.js (1361-1437) with a fresh one and reports `reuseEntryInvalidated` on its
  chunks, which chat.js never reads: a later failure of that turn restores the
  entry known to be dead, against chat.js:5728-5730.
* *Poll loop.* A planner that begins only after the grace of 8 s and four idle polls may
  have said its first words when the final sweep reads; the turn then ends as `idle_done`
  with that part (`early` in `AnswerWhole`). A step without a text so far has an empty
  one, of which every modified text is an extension (client.js:2091, cascade-turn.js:316).
  `classifyCascadeEnd` counts a tool the client is never given as output.
* That what a window leaves behind (eight steps, `CASCADE_STEP_OVERLAP`) has stopped
  growing is the code's assumption about the upstream (cascade-turn.js:24-28), and the
  model's (`Grows`).
* A cascade may be driven with another account than its owner's after an account
  gate (chat.js:5857-5891, 7972-7999), against conversation-pool.js:19-20.
* After a re-key of the owner, strict reuse finds no account for the entry and
  waits (chat.js:5763-5790).
* A deadline or a client that leaves in a later attempt loses an entry that was
  checked out and never touched (chat.js:5973-6007).
* The sibling of a half-finished cascade (its second fingerprint) stays pooled; the
  answer in one piece restores after partial text where the stream refuses to
  (7405-7409). Hence the exceptions for `twice`.
* An invalidation misses an entry that is checked out, which is restored later
  (chat.js:5736); the turn that resumes it recovers as above.
* *Affinity.* Queue-on-pin compares the key the binding was made with: after a re-login
  it does not wait. With `stickyNoFallback` a pin that is active and barred is
  kept and refused for as long as it is barred (auth.js:3163-3197).
* With three tenants or more the globally oldest binding, or stored response, is the
  victim when nobody is over the share, so that a tenant below its share may lose
  one (`ShareProtected` is about two).
* *Session continuity.* A dialog whose state expired or was evicted may join another
  dialog with the same opening by the root fallback (`lost` in `DialogsApart`). So may one that was
  branched at an early pair, once the window has passed it: a state made by a fork indexes the pairs
  of its window only (ten in the code, session-continuity.js:33), and the early ones are found
  through an older state, to which no dialog may be bound any more. When that one expires no
  dialog has lost its state, but the branch finds none, and the root fallback joins it to whatever
  is left under the opening. (Three dialogs, three pairs and a window of one show it, without
  the second half of `lost`.)
* *Persistence.* A file that cannot be read gives an empty pool, and the next save
  overwrites the file. `saveAccounts` is synchronous, so `_saveInFlight` is never
  seen set. A second instance writes back the filtered records it read at its
  start.
* *Connect stream.* The verdicts of the deadline, the idle timer and the abort are replaced in
  the same way when the caller is slow, so that a deadline may be replayed against the comment
  at 3558-3565. A whole answer whose caller has not read it all may still end in the
  deadline, or in an idle time-out, which counts a response paused by the code's own queue
  as idle. After a chunk that cannot be parsed, the good frames before the bad one are lost,
  and the verdict may be the destroyed response's.
* *Egress.* With a commit timer of 0, a drain time-out aborts the turn and nobody ends the
  response; what the gate flushes at its commit discards the writer's verdicts.
* *Self-update.* The check asks Git for HEAD (version.js:39-47), not the process for what it
  was started on: between the move of HEAD and the restart, or after a restart that
  failed, it confirms, and for a rollback deletes the point, while
  docs/DOCKER-UPDATE.md speaks of the restarted process. A check during an update may
  delete its pending point when an earlier rollback is unconfirmed (`swept` in
  `UndoKept`). A rollback refused for a dirty tree leaves its journal "pending-restart".
* *Container update* (not modelled): while the journal has no `deployerId`, reconciling
  matches any deployer of the project (docker-self-update.js:1003-1008), so one left over
  may confirm an update that is still pulling.
* *Messages stream.* Text held for an open tool is sent at the finish, and later
  text that finds the tool's arguments complete at once: so text may overtake text,
  against "emitted in arrival order" (messages.js:1698-1708).
* *OAuth sessions, fleet jobs* (not modelled): a failed session past its time is deleted and polls
  then read "ok"; nothing stops two fleet jobs from running at once although runs are meant
  to be serial (fleet-jobs.js:6-9).

## 6. What is left

In the order of what it would add:

1. **Container update** (docker-self-update.js): the process that starts a replacement is
   killed by it, so only the journal and the helper's state tell what happened.
2. **Selection**: RPM windows and rate limits per model, whose counters are
   reserved and refunded around awaits.
3. Composition of `CascadeTurn` with `DetachedRegistry` (a claim carries a cascade) and with
   `LanguageServerPool` (its generations are a free choice now).

Not modelled, and why:

* *HTTP server and routing*: dispatch by path and the checks before it; the drain of
  open work is modelled where it matters (`DetachedRegistry`, `StreamEgress`).
* *The rest of the Connect wire client*: framing, protobuf and the building of requests are
  data. The retries of an empty answer and the retry before the first byte
  (devin-connect-openai.js `streamChatWithEmptyRetry`, `openAIChunkStream`) stay inside one
  attempt of `ConnectRequest`.
* *Other translators* (responses.js, gemini.js and the requests of messages.js): no
  state outlives a request, and what they do is mostly data.
* *Tool emulation and native bridge, content filters, model catalogue, images*: text
  grammars, tables and decoding, by far more data than control.
* *Special agent*: its slot accounting is in `AccountPool`; the rest drives an external
  process.
* *Response cache, fleet jobs, OAuth sessions*: small and synchronous between two
  awaits, well within reach of tests.
* *Logins and credential store, configuration, proxies, dashboard read models*: I/O, or
  values read where they are used, which are CONSTANTS here.

## 7. Running

    tlc -workers 2 -config tables.cfg MCTables.tla
    tlapm LedgerProofs.tla

`PROJECT.json` names, for every run, its module and configuration, and for every
definition the source lines it stands for; its `hazards` say which property is there
for what, its `mutants` which mistake breaks it.
