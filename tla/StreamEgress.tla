---------------------------- MODULE StreamEgress ----------------------------
(***************************************************************************)
(* The way of a streamed answer to the client (the Connect path's stream    *)
(* handler in src/handlers/chat.js, src/stream-writer.js, src/sse-commit.js *)
(* and serveChatStream in src/server.js).                                  *)
(*                                                                         *)
(* The handler writes frames through a writer that waits when the socket is *)
(* full, and the writer through a gate that holds the first frames back: an *)
(* error that comes before any content becomes an HTTP status, anything     *)
(* else commits the response with status 200.  Heartbeats, the timers of    *)
(* the gate and of the writer, a client that drains or leaves and the end   *)
(* of the process come in between.                                        *)
(*                                                                         *)
(* A frame is a ping, a role-only prime, an error, the end or a numbered    *)
(* piece of content, and is written whole, as this handler does; the        *)
(* attempts on other accounts are ConnectRequest's part.                   *)
(***************************************************************************)
EXTENDS Naturals, Sequences

CONSTANTS MaxContent,   \* bound: pieces of content
          MaxPings,     \* bound: heartbeats
          MaxHeld       \* DEFAULT_MAX_FRAMES of the gate

VARIABLES
    prod,     \* the handler: pc, the frame to send and the pc after it; primed;
              \*   said: pieces of content so far; ok: terminalOk; emitted:
              \*   contentEmitted
    gate,     \* state "held", "open" or "ended"; held: pending; armed: the timer;
              \*   failure: one was seen
    wire,     \* what the client was sent; the first is the status
    sock,     \* state "open", "closed" (by the client) or "ended"; full
    writer,   \* pending, timedOut, aborted (its signal)
    pings     \* heartbeats so far

egressVars == <<prod, gate, wire, sock, writer, pings>>

Event(kind)  == [kind |-> kind, n |-> 0]
Piece(n)     == [kind |-> "content", n |-> n]
Status(code) == [kind |-> "status", n |-> code]
Boot         == {Event("ping"), Event("prime")}

EgressInit ==
    /\ prod = [pc |-> "work", frame |-> Event("none"), next |-> "none",
               primed |-> FALSE, said |-> 0, ok |-> FALSE, emitted |-> FALSE]
    /\ gate = [state |-> "held", held |-> <<>>, armed |-> FALSE, failure |-> FALSE]
    /\ wire = <<>>
    /\ sock = [state |-> "open", full |-> FALSE]
    /\ writer = [pending |-> FALSE, timedOut |-> FALSE, aborted |-> FALSE]
    /\ pings = 0

-----------------------------------------------------------------------------
\* Everything one write can change, as a record: actions that write several
\* frames pass it on.
Now == [gate |-> gate, wire |-> wire, sock |-> sock, writer |-> writer]

Becomes(s) ==
    gate' = s.gate /\ wire' = s.wire /\ sock' = s.sock /\ writer' = s.writer

\* writer.gone()
Gone(s) == s.gate.state = "ended" \/ s.writer.aborted

\* The socket takes frames, and may be full then; a closed one takes nothing.
OnWire(s, frames, full) ==
    IF s.sock.state # "open" THEN s
    ELSE [s EXCEPT !.wire = @ \o frames, !.sock.full = full]

\* commit
Opened(s, full) ==
    IF s.sock.state # "open" THEN [s EXCEPT !.gate.state = "ended", !.gate.armed = FALSE]
    ELSE OnWire([s EXCEPT !.gate.state = "open", !.gate.armed = FALSE, !.gate.held = <<>>],
                <<Status(200)>> \o s.gate.held, full)

\* Mistake: an error that cannot become a status is not looked at.
ScannedNever(s, frame) == s

\* scanFailure
Scanned(s, frame) == IF frame = Event("error") THEN [s EXCEPT !.gate.failure = TRUE] ELSE s

\* finishError: a status of its own, and a body that is not a stream.
ErrorInstead(s) ==
    LET t == [s EXCEPT !.gate.state = "ended", !.gate.armed = FALSE, !.gate.failure = TRUE] IN
    IF s.sock.state # "open" THEN t
    ELSE [t EXCEPT !.wire = <<Status(500), Event("error")>>, !.sock.state = "ended"]

\* write of the gate, while it holds frames back: inspectPending.
Held(s, frame, full) ==
    LET t == [s EXCEPT !.gate.held = Append(@, frame), !.gate.armed = TRUE] IN
    IF frame = Event("error") THEN ErrorInstead(t)
    ELSE IF frame \notin Boot \/ Len(t.gate.held) > MaxHeld THEN Opened(t, full)
    ELSE t

\* write of the writer.  A frame that opens the gate reports no pressure.
Written(s, frame, full) ==
    IF Gone(s) THEN s
    ELSE IF s.gate.state = "held" THEN Held(s, frame, full)
    ELSE LET t == OnWire(Scanned(s, frame), <<frame>>, full) IN
         IF full /\ ~t.writer.timedOut THEN [t EXCEPT !.writer.pending = TRUE] ELSE t

\* end of the gate
Ended(s, full) ==
    IF s.gate.state = "ended" THEN s
    ELSE LET t == IF s.gate.state = "held" THEN Opened(s, full) ELSE s IN
         [t EXCEPT !.gate.state = "ended", !.gate.armed = FALSE,
                   !.sock.state = IF @ = "open" THEN "ended" ELSE @]

Aborted(s) == [s EXCEPT !.writer.aborted = TRUE, !.writer.pending = FALSE]

-----------------------------------------------------------------------------
\* The handler.

Goes(new) == prod' = new

\* send, and what comes after it; nothing is sent when the response has ended.
SendThen(frame, next) ==
    LET primed == prod.primed \/ frame = Event("prime")
        said   == IF frame.kind = "content" THEN frame.n ELSE prod.said
    IN  IF gate.state = "ended"
        THEN Goes([prod EXCEPT !.pc = next, !.primed = primed, !.said = said])
        ELSE Goes([prod EXCEPT !.pc = "send", !.frame = frame, !.next = next,
                               !.primed = primed, !.said = said,
                               !.emitted = @ \/ frame.kind = "content"])

\* What the upstream does next: content, an error, the end of the turn; the
\* role comes before content and before a good end.
UpstreamSays ==
    /\ prod.pc = "work" /\ ~writer.aborted
    /\ \/ ~prod.primed /\ SendThen(Event("prime"), "work")
       \/ prod.primed /\ prod.said < MaxContent /\ SendThen(Piece(prod.said + 1), "work")
       \/ SendThen(Event("error"), "last")
       \/ prod.primed /\ Goes([prod EXCEPT !.pc = "last", !.ok = TRUE])
    /\ UNCHANGED <<gate, wire, sock, writer, pings>>

\* The signal ends the attempt.
UpstreamAborted ==
    /\ prod.pc = "work" /\ writer.aborted /\ Goes([prod EXCEPT !.pc = "last"])
    /\ UNCHANGED <<gate, wire, sock, writer, pings>>

\* writeFrame: after the wait, unless the client is gone.
SendFrame ==
    /\ prod.pc = "send" /\ ~writer.pending
    /\ \/ Gone(Now) /\ Becomes(Now)
       \/ ~Gone(Now) /\ \E full \in BOOLEAN : Becomes(Written(Now, prod.frame, full))
    /\ Goes([prod EXCEPT !.pc = IF Gone(Now) THEN "last" ELSE prod.next, !.frame = Event("none")])
    /\ UNCHANGED pings

\* The end of the handler, and serveChatStream's: the gate is disposed of, and
\* a response that was opened is ended.
Closing(s) ==
    [s EXCEPT !.gate.state = "ended", !.gate.armed = FALSE,
              !.sock.state = IF s.gate.state = "open" /\ @ = "open" THEN "ended" ELSE @]

HandlerReturns ==
    /\ prod.pc = "last"
    /\ \/ /\ Gone(Now) /\ Becomes(Closing(Now))
       \/ /\ ~Gone(Now) /\ ~prod.ok /\ ~prod.emitted
          /\ \E full \in BOOLEAN : Becomes(Closing(Ended(Now, full)))
       \/ /\ ~Gone(Now) /\ (prod.ok \/ prod.emitted) /\ ~writer.pending
          /\ \E full \in BOOLEAN : Becomes(Closing(Ended(Written(Now, Event("done"), full), full)))
    /\ Goes([prod EXCEPT !.pc = "returned"])
    /\ UNCHANGED pings

-----------------------------------------------------------------------------
\* What comes in between.

Heartbeat ==
    /\ prod.pc # "returned" /\ sock.state # "closed"
    /\ gate.state # "ended" /\ ~writer.pending
    /\ pings < MaxPings /\ pings' = pings + 1
    /\ \E full \in BOOLEAN : Becomes(Written(Now, Event("ping"), full))
    /\ UNCHANGED prod

BootstrapTimeout ==
    /\ gate.armed /\ gate.state = "held"
    /\ \E full \in BOOLEAN : Becomes(Opened(Now, full))
    /\ UNCHANGED <<prod, pings>>

ClientDrains ==
    /\ sock.state # "closed" /\ sock.full
    /\ sock' = [sock EXCEPT !.full = FALSE]
    /\ writer' = [writer EXCEPT !.pending = FALSE]
    /\ UNCHANGED <<prod, gate, wire, pings>>

ClientCloses ==
    /\ sock.state # "closed"
    /\ sock' = [state |-> "closed", full |-> FALSE]
    /\ writer' = [writer EXCEPT !.pending = FALSE,
                                !.aborted = @ \/ gate.state # "ended"]
    /\ UNCHANGED <<prod, gate, wire, pings>>

\* Mistake: the wait that timed out is left to the client.
DrainTimeoutWaits ==
    /\ writer.pending /\ ~writer.timedOut
    /\ LET s == Written([Now EXCEPT !.writer.timedOut = TRUE], Event("error"), TRUE)
       IN  Becomes(s)
    /\ UNCHANGED <<prod, pings>>

\* The frame is written for a relay that may be reading, and all is aborted.
DrainTimeout ==
    /\ writer.pending /\ ~writer.timedOut
    /\ LET s == Written([Now EXCEPT !.writer.timedOut = TRUE], Event("error"), TRUE)
       IN  Becomes(Aborted(s))
    /\ UNCHANGED <<prod, pings>>

\* abortActiveSse, while the stream is registered.
ShutDown ==
    /\ prod.pc # "returned"
    /\ \E full \in BOOLEAN :
          LET s == Written(Now, Event("error"), full) IN
          Becomes(Aborted(IF s.gate.state = "ended" THEN s
                          ELSE Ended(Written(s, Event("done"), full), full)))
    /\ UNCHANGED <<prod, pings>>

EgressNext ==
    \/ UpstreamSays \/ UpstreamAborted \/ SendFrame \/ HandlerReturns
    \/ Heartbeat \/ BootstrapTimeout \/ DrainTimeout
    \/ ClientDrains \/ ClientCloses \/ ShutDown

EgressSpec == EgressInit /\ [][EgressNext]_egressVars

\* The upstream comes to an end, the handler goes on, and the writer's timer
\* runs; nothing is asked of the client.
Handler == UpstreamSays \/ UpstreamAborted \/ SendFrame \/ HandlerReturns
FairEgressSpec == EgressSpec /\ WF_egressVars(Handler) /\ WF_egressVars(DrainTimeout)

-----------------------------------------------------------------------------
\* What the client was sent is honest, however timers, heartbeats and the
\* client's own pace are interleaved with the answer.

On(frame) == \E i \in DOMAIN wire : wire[i] = frame

\* One status, and one that is not 200 is followed by the error alone.
OneStatus ==
    /\ \A i \in DOMAIN wire : wire[i].kind = "status" <=> i = 1
    /\ On(Status(500)) => wire = <<Status(500), Event("error")>>

\* Content arrives in order, without a gap and without a piece twice.
InOrder ==
    \A i \in DOMAIN wire : wire[i].kind = "content" =>
       /\ \A j \in 1 .. i - 1 : wire[j].kind = "content" => wire[j].n < wire[i].n
       /\ \A m \in 1 .. wire[i].n - 1 : \E j \in 1 .. i - 1 : wire[j] = Piece(m)

\* Nothing follows the end, and an answer whose turn ended well is complete.
DoneIsLast ==
    /\ \A i \in DOMAIN wire : wire[i] = Event("done") => i = Len(wire)
    /\ (prod.pc = "returned" /\ prod.ok /\ ~writer.aborted) =>
          \/ sock.state = "closed"
          \/ On(Event("done")) /\ \A n \in 1 .. prod.said : On(Piece(n))

\* The failure the client saw is the one the request is filed under.
FailureIsFiled == On(Event("error")) => gate.failure

EgressHonest == OneStatus /\ InOrder /\ DoneIsLast /\ FailureIsFiled

\* The handler comes to its end, and the client is not left waiting: not even
\* one that stopped reading without closing (stream-writer.js: a half-open
\* client is bounded).
StreamEnds == <>(prod.pc = "returned" /\ sock.state # "open")
=============================================================================
