---------------------------- MODULE ConnectStream ----------------------------
(***************************************************************************)
(* One Connect stream (src/devin-connect.js, streamChat): a socket fills a *)
(* bounded queue from the event loop, a generator empties it at the pace   *)
(* of its caller, and two timers, the abort signal and the transport may   *)
(* end the request at any point between.                                   *)
(*                                                                         *)
(* A frame is the stretch of the answer it carries, from one offset to     *)
(* another.  Its decoding, the usage and the tool calls it brings, and the *)
(* bytes a decoder keeps back for a split character are left out.          *)
(*                                                                         *)
(* The upstream and Node's transport are external.  The event loop runs    *)
(* one callback at a time, and what a callback resolved before the next.   *)
(***************************************************************************)
EXTENDS Integers, Sequences

CONSTANTS FrameSizes,            \* what a frame may carry
          MaxQueueFrames,   \* the caps of the queue
          MaxQueueBytes,
          MaxSent           \* bound: the length of the answer

ASSUME StreamAssumption ==
    /\ FrameSizes \subseteq Nat \ {0}
    /\ MaxQueueFrames \in Nat \ {0} /\ MaxQueueBytes \in Nat \ {0} /\ MaxSent \in Nat

VARIABLES
    up,          \* "silent", "refusing" (not 200), "talking", "trailed", "closed"
    sentTo,      \* offset up to which the upstream has sent
    trailer,     \* its end-of-stream frame: "none", "ok" or "error"
    net,         \* frames on their way to the data handler
    batch,       \* frames the running data event has still to decode
    req,         \* "open", "ended" (response read to its end), "destroyed", "torn"
    deadline,    \* the absolute timer is armed
    queue, queueBytes, queuePaused, queueOverflowed,
    taken,       \* offset up to which frames were decoded
    done, streamError, sawEndOfStream,
    reader,      \* the generator: "asleep", "woken", "yielded" or "over"
    delivered,   \* offset up to which it has yielded
    outcome      \* how it ended

upVars    == <<up, sentTo, trailer>>
queueVars == <<queue, queueBytes, queuePaused, queueOverflowed, taken>>
connVars  == <<upVars, net, batch, req, deadline, queueVars, done, streamError,
               sawEndOfStream, reader, delivered, outcome>>

Errors == {"refused", "upstream", "parse", "overflow", "timeout", "deadline", "abort", "reset"}
Frame  == [kind : {"text", "ok", "error"}, from : Nat, to : Nat]

StreamInit ==
    /\ up = "silent" /\ sentTo = 0 /\ trailer = "none"
    /\ net = <<>> /\ batch = 0 /\ req = "open" /\ deadline = TRUE
    /\ queue = <<>> /\ queueBytes = 0 /\ queuePaused = FALSE /\ queueOverflowed = FALSE
    /\ taken = 0 /\ done = FALSE /\ streamError = "none" /\ sawEndOfStream = FALSE
    /\ reader = "asleep" /\ delivered = 0 /\ outcome = "none"

\* The next callback may run.
LoopFree == batch = 0 /\ reader \notin {"woken", "over"}

-----------------------------------------------------------------------------
\* The upstream: a response, frames, perhaps the trailer, perhaps an end.
Says(s) == up' = s /\ UNCHANGED <<sentTo, trailer, net>>

Send(kind, size) ==
    /\ net' = Append(net, [kind |-> kind, from |-> sentTo, to |-> sentTo + size])
    /\ sentTo' = sentTo + size

Upstream ==
    /\ req = "open" /\ LoopFree
    /\ \/ up = "silent" /\ \E s \in {"refusing", "talking"} : Says(s)
       \/ /\ up = "talking" /\ UNCHANGED <<up, trailer>>
          /\ \E size \in FrameSizes : sentTo + size <= MaxSent /\ Send("text", size)
       \/ /\ up = "talking" /\ up' = "trailed"
          /\ trailer' \in {"ok", "error"} /\ Send(trailer', 0)
       \/ up \in {"talking", "trailed"} /\ Says("closed")
    /\ UNCHANGED <<batch, req, deadline, queueVars, done, streamError, sawEndOfStream,
                   reader, delivered, outcome>>

-----------------------------------------------------------------------------
Pump == reader' = IF reader = "asleep" THEN "woken" ELSE reader

\* done, and who waits is woken.
Ends(r, error) ==
    /\ req' = r /\ streamError' = error /\ done' = TRUE
    /\ Pump

FirstError(e) == IF streamError = "none" THEN e ELSE streamError

\* res.on('data'): a chunk of k whole frames, decoded one by one below.
Data(k) ==
    /\ LoopFree /\ req = "open" /\ ~queuePaused
    /\ k \in 1 .. Len(net)
    /\ batch' = k
    /\ UNCHANGED <<upVars, net, req, deadline, queueVars, done, streamError,
                   sawEndOfStream, reader, delivered, outcome>>

\* The parser throws: the frames of the chunk are lost, the good ones too.
BadChunk ==
    /\ LoopFree /\ req = "open" /\ ~queuePaused /\ net # <<>>
    /\ Ends("destroyed", "parse")
    /\ UNCHANGED <<upVars, net, batch, deadline, queueVars, sawEndOfStream, delivered, outcome>>

PauseFrames  == (MaxQueueFrames + 1) \div 2
PauseBytes   == (MaxQueueBytes + 1) \div 2
ResumeFrames == IF PauseFrames \div 2 < 1 THEN 1 ELSE PauseFrames \div 2
ResumeBytes  == IF PauseBytes \div 2 < 1 THEN 1 ELSE PauseBytes \div 2

TooMuch(n, b) == n > MaxQueueFrames \/ b > MaxQueueBytes
High(n, b)    == n >= PauseFrames \/ b >= PauseBytes
Low(n, b)     == n <= ResumeFrames /\ b <= ResumeBytes

\* pushEvent: past a cap the stream fails, and what is buffered is dropped.
PushEvent(f) ==
    LET n == Len(queue) + 1
        b == queueBytes + (f.to - f.from)
    IN  \/ /\ TooMuch(n, b)
           /\ queue' = <<>> /\ queueBytes' = 0 /\ queueOverflowed' = TRUE
           /\ batch' = 0 /\ Ends("destroyed", "overflow")
           /\ UNCHANGED queuePaused
        \/ /\ ~TooMuch(n, b)
           /\ queue' = Append(queue, f) /\ queueBytes' = b
           /\ queuePaused' = (queuePaused \/ High(n, b))
           /\ batch' = batch - 1 /\ Pump
           /\ UNCHANGED <<queueOverflowed, req, streamError, done>>

\* One frame of the running data event.  Nothing after the trailer is read.
Decode ==
    /\ batch > 0
    /\ LET f == Head(net) IN
        /\ net' = Tail(net) /\ taken' = f.to
        /\ \/ f.kind = "text" /\ PushEvent(f) /\ UNCHANGED sawEndOfStream
           \/ /\ f.kind # "text"
              /\ sawEndOfStream' = TRUE /\ batch' = 0
              /\ Ends(req, IF f.kind = "error" THEN "upstream" ELSE streamError)
              /\ UNCHANGED <<queue, queueBytes, queuePaused, queueOverflowed>>
    /\ UNCHANGED <<upVars, deadline, delivered, outcome>>

\* res.on('end'): of a paused response only once it was resumed and read.
ResEnd ==
    /\ LoopFree /\ req = "open" /\ up = "closed" /\ net = <<>> /\ ~queuePaused
    /\ Ends("ended", streamError)
    /\ UNCHANGED <<upVars, net, batch, deadline, queueVars, sawEndOfStream, delivered, outcome>>

\* The error body of a response that is not 200 has been read.
Refused ==
    /\ LoopFree /\ req = "open" /\ up = "refusing"
    /\ Ends("ended", "refused")
    /\ UNCHANGED <<upVars, net, batch, deadline, queueVars, sawEndOfStream, delivered, outcome>>

\* res.on('error'): the connection is lost under a response, or the request
\* was destroyed under it.  It is not asked whether there is an error already.
ResError ==
    /\ LoopFree /\ req \in {"open", "destroyed"} /\ up # "silent"
    /\ Ends("torn", "reset")
    /\ UNCHANGED <<upVars, net, batch, deadline, queueVars, sawEndOfStream, delivered, outcome>>

\* req.on('error') before there is a response.
ReqError ==
    /\ LoopFree /\ req = "open" /\ up = "silent"
    /\ Ends("torn", FirstError("reset"))
    /\ UNCHANGED <<upVars, net, batch, deadline, queueVars, sawEndOfStream, delivered, outcome>>

\* The caller's signal destroys the request: its error comes first, and that of
\* the response, if there is one, may come before the generator runs.
Abort ==
    /\ LoopFree /\ req = "open"
    /\ \/ Ends("destroyed", FirstError("abort"))
       \/ up # "silent" /\ Ends("torn", "reset")
    /\ UNCHANGED <<upVars, net, batch, deadline, queueVars, sawEndOfStream, delivered, outcome>>

\* No socket activity; a response that is paused has none either.
IdleTimeout ==
    /\ LoopFree /\ req = "open" /\ (net = <<>> \/ queuePaused)
    /\ Ends("destroyed", FirstError("timeout"))
    /\ UNCHANGED <<upVars, net, batch, deadline, queueVars, sawEndOfStream, delivered, outcome>>

DeadlineTimer ==
    /\ LoopFree /\ deadline
    /\ deadline' = FALSE
    /\ Ends(IF req = "open" THEN "destroyed" ELSE req, FirstError("deadline"))
    /\ UNCHANGED <<upVars, net, batch, queueVars, sawEndOfStream, delivered, outcome>>

-----------------------------------------------------------------------------
\* The finally block: no timer and no socket outlives the generator.
Over(o) ==
    /\ reader' = "over" /\ outcome' = o
    /\ deadline' = FALSE
    /\ req' = IF req = "open" THEN "destroyed" ELSE req

\* Mistake: what is left is measured before the event is taken off.
YieldEventMeasuresFirst ==
    /\ queue # <<>>
    /\ LET e == Head(queue)
       IN  /\ queue' = Tail(queue)
           /\ queueBytes' = queueBytes - (e.to - e.from)
           /\ queuePaused' = (queuePaused /\ (queueOverflowed \/ ~Low(Len(queue), queueBytes)))
           /\ delivered' = e.to
    /\ reader' = "yielded"
    /\ UNCHANGED <<req, deadline, queueOverflowed, taken, outcome>>

\* noteQueueConsumed, and the event goes to the caller.
YieldEvent ==
    /\ queue # <<>>
    /\ LET e == Head(queue)
           b == queueBytes - (e.to - e.from)
       IN  /\ queue' = Tail(queue)
           /\ queueBytes' = IF b < 0 THEN 0 ELSE b
           /\ queuePaused' = (queuePaused /\ (queueOverflowed \/ ~Low(Len(queue) - 1, queueBytes')))
           /\ delivered' = e.to
    /\ reader' = "yielded"
    /\ UNCHANGED <<req, deadline, queueOverflowed, taken, outcome>>

Verdict ==
    IF streamError # "none" THEN streamError
    ELSE IF sawEndOfStream THEN "finish" ELSE "truncated"

\* The generator runs, woken or asked for more: it yields what is queued, ends
\* on an error or on the end of the stream, or goes to sleep.
Consume ==
    /\ batch = 0 /\ reader \in {"woken", "yielded"}
    /\ \/ YieldEvent
       \/ /\ queue = <<>> /\ (streamError # "none" \/ done)
          /\ Over(Verdict)
          /\ UNCHANGED <<queueVars, delivered>>
       \/ /\ queue = <<>> /\ streamError = "none" /\ ~done
          /\ reader' = "asleep"
          /\ UNCHANGED <<req, deadline, queueVars, delivered, outcome>>
    /\ UNCHANGED <<upVars, net, batch, done, streamError, sawEndOfStream>>

\* The caller has had enough (its client is gone).
Return ==
    /\ batch = 0 /\ reader = "yielded"
    /\ Over("returned")
    /\ UNCHANGED <<upVars, net, batch, queueVars, done, streamError, sawEndOfStream, delivered>>

-----------------------------------------------------------------------------
StreamNext ==
    \/ Upstream
    \/ (\E k \in 1 .. Len(net) : Data(k)) \/ BadChunk \/ Decode
    \/ ResEnd \/ Refused \/ ResError \/ ReqError
    \/ Abort \/ IdleTimeout \/ DeadlineTimer
    \/ Consume \/ Return

\* Callbacks that have begun go on, what is resolved runs, the timer fires.  The
\* upstream may fall silent, and the caller may never ask again.
Runs == Decode \/ (reader = "woken" /\ Consume)

StreamFairness == WF_connVars(Runs) /\ WF_connVars(DeadlineTimer)

StreamSpec == StreamInit /\ [][StreamNext]_connVars /\ StreamFairness

-----------------------------------------------------------------------------
ConnTypeOK ==
    /\ up \in {"silent", "refusing", "talking", "trailed", "closed"}
    /\ sentTo \in Nat /\ taken \in Nat /\ delivered \in Nat
    /\ trailer \in {"none", "ok", "error"}
    /\ net \in Seq(Frame) /\ queue \in Seq(Frame)
    /\ batch \in 0 .. Len(net)
    /\ req \in {"open", "ended", "destroyed", "torn"}
    /\ queueBytes \in Nat
    /\ deadline \in BOOLEAN /\ queuePaused \in BOOLEAN /\ queueOverflowed \in BOOLEAN
    /\ done \in BOOLEAN /\ sawEndOfStream \in BOOLEAN
    /\ streamError \in Errors \cup {"none"}
    /\ reader \in {"asleep", "woken", "yielded", "over"}
    /\ outcome \in Errors \cup {"none", "finish", "truncated", "returned"}

\* The frames s carry the answer from one offset to another, without a gap, an
\* overlap or a change of order.
Carries(s, from, to) ==
    IF s = <<>> THEN from = to
    ELSE /\ s[1].from = from /\ s[Len(s)].to = to
         /\ \A i \in 1 .. Len(s) - 1 : s[i].to = s[i + 1].from

\* What was yielded, what is queued and what is on its way are the answer: an
\* overflow drops the queue, and with it all that would have come after.
NothingLost ==
    /\ Carries(net, taken, sentTo)
    /\ IF queueOverflowed THEN queue = <<>> ELSE Carries(queue, delivered, taken)

\* The queue stays within its caps, and its count of bytes is exact.
QueueBounded ==
    /\ ~TooMuch(Len(queue), queueBytes)
    /\ queueBytes = IF queueOverflowed THEN 0 ELSE taken - delivered

\* A response that is paused has a queue whose consumption resumes it, and a
\* generator that sleeps has nothing to yield or to report: neither waits for
\* the other.
NoMissedWake ==
    /\ queuePaused /\ ~queueOverflowed => queue # <<>>
    /\ reader = "asleep" => queue = <<>> /\ ~done /\ streamError = "none"

\* An answer is reported as finished only if the upstream said so and all it
\* sent was yielded; as cut off, only after all it sent.
FinishIsWhole ==
    /\ outcome = "finish" => trailer = "ok"
    /\ outcome \in {"finish", "truncated", "upstream"} => delivered = sentTo

\* When the generator is over, nothing of the request is left behind.
NothingLeftOpen == reader = "over" => ~deadline /\ req # "open"

\* What a caller is given is the answer: at every point nothing is lost, the
\* queue is bounded, nobody waits in vain, and the end is the upstream's own.
StreamFaithful == NothingLost /\ QueueBounded /\ NoMissedWake /\ FinishIsWhole /\ NothingLeftOpen

\* A sleeping generator is woken whatever the upstream does, and a caller that
\* never asks again holds the connection no longer than the deadline.
NoHang ==
    /\ reader = "asleep" ~> reader # "asleep"
    /\ <>(req # "open")

\* "fail the stream with QUEUE_OVERFLOW if one chunk still crosses the cap": a
\* stream ended by its own cap tells its caller so, because the account is not
\* to blame (devin-connect.js:3294, chat.js:2843).
OverflowIsNamed ==
    queueOverflowed /\ reader = "over" => outcome \in {"overflow", "returned"}
=============================================================================
