----------------------------- MODULE CascadePoll -----------------------------
(***************************************************************************)
(* One turn of the Cascade path from its send to its end (cascadeChat,      *)
(* src/client.js, with the cursors of src/cascade-turn.js).  The upstream   *)
(* keeps a trajectory of steps; steps are appended, and the newest ones     *)
(* grow in place.  The turn sends its message, polls a window of the        *)
(* trajectory and passes on what each step has grown by, until the planner  *)
(* is idle, hands a tool over, stalls, or the time is up.  If its client    *)
(* leaves, the turn can be frozen as a snapshot, and another request goes   *)
(* on from it.                                                             *)
(*                                                                         *)
(* Steps are numbered from 1, and what a step says in pieces.  A step's     *)
(* modified text extends its text by one piece, or is another text.  The    *)
(* times of a stall, of the grace at the beginning and of the settled       *)
(* growth at the end are choices.  Thinking (which has a cursor of its own, *)
(* moved in the same way), the approval of reading a URL, usage, and the    *)
(* tools the language server runs by itself are left out.                   *)
(***************************************************************************)
EXTENDS Integers, Sequences

CONSTANTS Overlap,                  \* CASCADE_STEP_OVERLAP
          MaxSteps, MaxRaw,         \* bounds: steps, pieces of a step
          MaxResumes                \* bound: times a turn is frozen

ASSUME PollAssumption ==
    Overlap \in Nat /\ MaxSteps \in Nat \ {0} /\ MaxRaw \in Nat \ {0} /\ MaxResumes \in Nat

VARIABLES
    steps, status,    \* the trajectory, and "new", "active" or "idle"
    poll,             \* the local variables of the turn
    client,           \* sent: what its client got; again: some of it twice; gone
    frozen,           \* snapshots: none, or one that waits to be resumed
    prior             \* history: steps of earlier turns

pollVars == <<steps, status, poll, client, frozen, prior>>

Step    == [kind : {"text", "tool", "error"}, raw : 0 .. MaxRaw,
            mod : {"none", "extends", "rewrites"}]
NewStep == [kind |-> "text", raw |-> 0, mod |-> "none"]
Indices == 1 .. MaxSteps
Nobody  == [sent |-> {}, again |-> FALSE, gone |-> FALSE]

Start == [pc |-> "send", retries |-> 0, resumes |-> 0, floor |-> 0, offset |-> 0, consumed |-> 0,
          window |-> 0, next |-> -1, todo |-> <<>>, final |-> FALSE,
          cursor |-> [i \in Indices |-> 0], chunks |-> {}, yielded |-> FALSE,
          sawActive |-> FALSE, sawText |-> FALSE, wasIdle |-> FALSE, idles |-> 0,
          pending |-> FALSE, early |-> FALSE, end |-> "none"]

\* A fresh cascade, or one that has a turn behind it.
PollInit ==
    /\ steps \in {<<>>, <<[NewStep EXCEPT !.raw = 1]>>}
    /\ status = "new"
    /\ poll = [Start EXCEPT !.offset = Len(steps)]
    /\ client = Nobody
    /\ frozen = <<>> /\ prior = Len(steps)

-----------------------------------------------------------------------------
\* The upstream.  What has Overlap newer steps does not grow any more.

Grows(i) == i > prior /\ i > Len(steps) - Overlap

Planner ==
    /\ poll.pc # "send"
    /\ UNCHANGED <<poll, client, frozen, prior>>
    /\ \/ /\ status = "new" /\ status' = "active" /\ UNCHANGED steps
       \/ /\ status = "active" /\ Len(steps) < MaxSteps
          /\ \E k \in {"text", "tool", "error"} : steps' = Append(steps, [NewStep EXCEPT !.kind = k])
          /\ UNCHANGED status
       \/ /\ status = "active"
          /\ \E i \in DOMAIN steps :
                /\ Grows(i) /\ steps[i].kind = "text" /\ steps[i].raw < MaxRaw
                /\ steps' = [steps EXCEPT ![i].raw = @ + 1]
          /\ UNCHANGED status
       \/ /\ status = "active" /\ status' = "idle"
          /\ \E m \in {"none", "extends", "rewrites"} :
                steps' = [i \in DOMAIN steps |->
                            IF Grows(i) /\ steps[i].raw > 0 THEN [steps[i] EXCEPT !.mod = m]
                            ELSE steps[i]]

-----------------------------------------------------------------------------
\* The send.  A language server that has forgotten the panel or the cascade is
\* warmed up again, and the whole history goes to a fresh cascade.

MaxPanelRetries == 3

Accepted ==
    /\ poll.pc = "send"
    /\ poll' = [poll EXCEPT !.pc = "top", !.floor = poll.offset, !.consumed = poll.offset,
                            !.window = poll.offset]
    /\ UNCHANGED <<steps, status, client, frozen, prior>>

\* Mistake: the offset of the cascade that is gone.
ForgottenOffset ==
    /\ poll.pc = "send" /\ poll.retries < MaxPanelRetries
    /\ steps' = <<>> /\ prior' = 0 /\ poll' = [poll EXCEPT !.retries = @ + 1]
    /\ UNCHANGED <<status, client, frozen>>

Forgotten ==
    /\ poll.pc = "send" /\ poll.retries < MaxPanelRetries
    /\ steps' = <<>> /\ prior' = 0 /\ poll' = [poll EXCEPT !.retries = @ + 1, !.offset = 0]
    /\ UNCHANGED <<status, client, frozen>>

-----------------------------------------------------------------------------
\* The end: the loop leaves with a reason, or an error is thrown.  A client that
\* has left is what counts, whatever the reason; then the turn is frozen, if its
\* snapshot can be resumed: something to replay, no tool handed over, and every
\* step that was counted consumed.

\* Mistake: a snapshot in the middle of a batch.
ResumableMidBatch(p) == p.chunks # {} /\ (\A c \in p.chunks : c[2] # 0)

Resumable(p) == p.chunks # {} /\ (\A c \in p.chunks : c[2] # 0) /\ p.consumed = p.offset

NextWindow(p) ==
    IF p.next # -1 THEN p.next
    ELSE IF p.offset - Overlap > p.floor THEN p.offset - Overlap ELSE p.floor

\* snapshot and fromSnapshot
FromSnapshot(p) ==
    [Start EXCEPT !.pc = "top", !.floor = p.floor, !.offset = p.offset, !.consumed = p.consumed,
                  !.window = p.window, !.next = NextWindow(p), !.cursor = p.cursor,
                  !.chunks = p.chunks, !.yielded = p.yielded, !.sawActive = p.sawActive,
                  !.sawText = p.sawText, !.pending = TRUE, !.resumes = p.resumes + 1]

Ends(p, reason) ==
    /\ poll' = [p EXCEPT !.pc = "ended", !.todo = <<>>,
                         !.end = IF client.gone THEN "aborted" ELSE reason]
    /\ frozen' = IF client.gone /\ Resumable(p) THEN <<FromSnapshot(p)>> ELSE <<>>

Fails ==
    /\ poll.pc # "ended" /\ Ends(poll, "error")
    /\ UNCHANGED <<steps, status, client, prior>>

\* The window is over: between two polls, or in a read that it cuts short.
TimeIsUp ==
    /\ poll.pc \in {"top", "status", "sweep"} /\ Ends(poll, "max_wait")
    /\ UNCHANGED <<steps, status, client, prior>>

Aborted ==
    /\ poll.pc = "top" /\ client.gone /\ Ends(poll, "aborted")
    /\ UNCHANGED <<steps, status, client, prior>>

\* Active for long without a text or a tool; or a text that stopped growing,
\* long enough to be kept, or else to be tried again elsewhere.
ColdStall ==
    /\ poll.pc = "consume" /\ poll.sawActive /\ ~poll.sawText /\ ~poll.final
    /\ Ends(poll, "error")
    /\ UNCHANGED <<steps, status, client, prior>>

WarmStall ==
    /\ poll.pc = "status" /\ poll.sawText /\ ~poll.wasIdle
    /\ Ends(poll, "stall_warm") \/ Ends(poll, "error")
    /\ UNCHANGED <<steps, status, client, prior>>

-----------------------------------------------------------------------------
\* One read of the window from w.  The first one of a resumed turn proves that
\* the cascade is still there, and only then what the first client got is
\* replayed.

From(w) == [j \in 1 .. Len(steps) - w |-> [at |-> w + j, step |-> steps[w + j]]]

Reading(w, final) ==
    LET batch == From(w)
        kinds == {batch[j].step.kind : j \in DOMAIN batch}
        total == w + Len(batch)
        p     == [poll EXCEPT !.next = -1, !.window = w, !.pending = FALSE,
                              !.offset = IF total > @ THEN total ELSE @]
    IN
    /\ IF "error" \in kinds /\ "tool" \notin kinds /\ ~final
       THEN Ends(p, "error")
       ELSE /\ poll' = [p EXCEPT !.pc = "consume", !.todo = batch, !.final = final]
            /\ UNCHANGED frozen
    /\ client' = IF poll.pending THEN [client EXCEPT !.sent = poll.chunks] ELSE client
    /\ UNCHANGED <<steps, status, prior>>

Read  == poll.pc = "top" /\ ~client.gone /\ Reading(NextWindow(poll), FALSE)

\* Mistake: only steps that were not counted yet.
SweepUnread == poll.pc = "sweep" /\ Reading(poll.offset, TRUE)

Sweep == poll.pc = "sweep" /\ Reading(poll.window, TRUE)

\* The claim of a resumed turn ended while it read: nothing of what was read is
\* used, and the registry takes no snapshot of it back.
ClaimLost ==
    /\ poll.pc \in {"top", "sweep"} /\ poll.resumes > 0
    /\ poll' = [poll EXCEPT !.pc = "ended", !.end = "error"]
    /\ UNCHANGED <<steps, status, client, frozen, prior>>

-----------------------------------------------------------------------------
\* The steps of a batch, one after the other.  The cursor and the buffer are
\* moved before the client is waited for.

Give(p, pieces) ==
    /\ poll' = [p EXCEPT !.chunks = @ \cup pieces]
    /\ client' = [client EXCEPT !.sent = @ \cup pieces,
                                !.again = @ \/ pieces \cap client.sent # {}]

\* The same to a client that left: it throws.
Undelivered(p, pieces) ==
    /\ client.gone /\ Ends([p EXCEPT !.chunks = @ \cup pieces], "aborted")
    /\ UNCHANGED client

Pieces(i, from, to) == {<<i, k>> : k \in from + 1 .. to}

\* consumeStep: by how much the text has grown.
Length(e) == e.step.raw

\* Mistake: a rewritten text is cut where the other one ended.
PolishedAlways(e) == e.step.raw + (IF e.step.mod = "none" THEN 0 ELSE 1)

\* consumeFinalStep: the modified text too, if it extends the text.
Polished(e) == e.step.raw + (IF e.step.mod = "extends" THEN 1 ELSE 0)

Counted(p, e) ==
    [p EXCEPT !.todo = Tail(@), !.consumed = IF e.at > @ THEN e.at ELSE @]

Consume ==
    /\ poll.pc = "consume" /\ poll.todo # <<>>
    /\ LET e  == Head(poll.todo)
           to == IF poll.final THEN Polished(e) ELSE Length(e)
           p  == Counted(poll, e)
           ps == Pieces(e.at, poll.cursor[e.at], to)
           q  == [p EXCEPT !.cursor[e.at] = to, !.sawText = TRUE, !.yielded = TRUE]
       IN
       IF e.step.kind # "tool" /\ ps # {}
       THEN \/ Give(q, ps) /\ UNCHANGED frozen
            \/ Undelivered(q, ps)
       ELSE IF e.step.kind = "tool" /\ ~poll.final
       THEN LET r == [poll EXCEPT !.chunks = @ \cup {<<e.at, 0>>}] IN
            /\ Ends(r, "native_tool_call")
            /\ client' = [client EXCEPT !.sent = @ \cup {<<e.at, 0>>},
                                        !.again = @ \/ <<e.at, 0>> \in client.sent]
       ELSE poll' = p /\ UNCHANGED <<client, frozen>>
    /\ UNCHANGED <<steps, status, prior>>

BatchDone ==
    /\ poll.pc = "consume" /\ poll.todo = <<>>
    /\ IF poll.final
       THEN Ends(poll, IF poll.sawText \/ poll.yielded THEN "idle_done" ELSE "idle_empty")
       ELSE poll' = [poll EXCEPT !.pc = "status"] /\ UNCHANGED frozen
    /\ UNCHANGED <<steps, status, client, prior>>

-----------------------------------------------------------------------------
\* The planner's status.  Idle counts once the planner was seen at work, or the
\* grace is over; the sweep comes after a few such polls.

SeesActive ==
    /\ poll.pc = "status" /\ status = "active"
    /\ poll' = [poll EXCEPT !.pc = "top", !.sawActive = TRUE, !.wasIdle = FALSE, !.idles = 0]
    /\ UNCHANGED <<steps, status, client, frozen, prior>>

SeesIdle(graceOver) ==
    /\ poll.pc = "status" /\ status # "active"
    /\ LET n == poll.idles + 1 IN
       IF ~poll.sawActive /\ ~graceOver
       THEN poll' = [poll EXCEPT !.pc = "top", !.wasIdle = TRUE]
       ELSE \E pc \in {"top"} \cup (IF n >= (IF poll.sawText THEN 2 ELSE 4)
                                    THEN {"sweep"} ELSE {}) :
               poll' = [poll EXCEPT !.pc = pc, !.wasIdle = TRUE,
                                    !.idles = IF n > 4 THEN 4 ELSE n,
                                    !.early = (pc = "sweep" /\ status = "new")]
    /\ UNCHANGED <<steps, status, client, frozen, prior>>

-----------------------------------------------------------------------------
Leaves ==
    /\ ~client.gone /\ client' = [client EXCEPT !.gone = TRUE]
    /\ poll.pc # "ended" /\ UNCHANGED <<steps, status, poll, frozen, prior>>

\* Another request claims the snapshot.
Resumes ==
    /\ poll.pc = "ended" /\ frozen # <<>> /\ poll.resumes < MaxResumes
    /\ poll' = frozen[1]
    /\ client' = Nobody /\ frozen' = <<>>
    /\ UNCHANGED <<steps, status, prior>>

PollNext ==
    \/ Planner
    \/ Accepted \/ Forgotten
    \/ Read \/ Sweep \/ ClaimLost \/ Consume \/ BatchDone
    \/ SeesActive \/ \E graceOver \in BOOLEAN : SeesIdle(graceOver)
    \/ ColdStall \/ WarmStall \/ TimeIsUp \/ Fails \/ Aborted
    \/ Leaves \/ Resumes

PollSpec == PollInit /\ [][PollNext]_pollVars

-----------------------------------------------------------------------------
\* classifyCascadeEnd: what the answer is passed off as.

Kind ==
    CASE poll.end \in {"idle_done", "native_tool_call"} -> "ok"
      [] poll.end = "idle_empty" /\ poll.yielded -> "truncated"
      [] poll.end = "idle_empty" /\ ~poll.yielded -> "empty"
      [] poll.end = "max_wait" /\ poll.yielded -> "truncated"
      [] poll.end = "max_wait" /\ ~poll.yielded -> "empty"
      [] poll.end = "stall_warm" -> "truncated"
      [] OTHER -> "none"

Text == {<<i, k>> : i \in prior + 1 .. Len(steps), k \in 1 .. MaxRaw + 1}
Said(extra) ==
    {c \in Text : c[2] <= steps[c[1]].raw + (IF steps[c[1]].mod = "extends" THEN extra ELSE 0)}
Calls == {<<i, 0>> : i \in {j \in prior + 1 .. Len(steps) : steps[j].kind = "tool"}}

\* Whatever the planner, the timers and the clients do: a client is given
\* nothing twice, nothing of an earlier turn and nothing that was not said; an
\* answer that is passed off as whole has every text of the turn, for a client
\* that resumed it too, unless the planner began so late that only the final
\* sweep of an idle turn read its first words (early); and one that is passed
\* off as empty has given nothing (cascade-turn.js: the E2b bug; client.js:
\* A06, F2).
AnswerWhole ==
    /\ ~client.again
    /\ client.sent \subseteq Said(1) \cup Calls
    /\ poll.end = "idle_done" /\ ~poll.early => Said(0) \subseteq client.sent
    /\ Kind = "empty" => client.sent = {}
=============================================================================
