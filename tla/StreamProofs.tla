---------------------------- MODULE StreamProofs ----------------------------
(***************************************************************************)
(* The two ends of a streamed answer, and the translator between them.     *)
(*                                                                         *)
(* What a Connect stream gives its caller is the upstream's answer, for    *)
(* every length of the answer, every way to cut it into frames and chunks, *)
(* and all caps of the queue. What the client is sent of it is honest, for *)
(* any number of pieces and heartbeats and every cap of the gate.          *)
(*                                                                         *)
(* What the Anthropic translator passes on is whole, for any number of     *)
(* tools, texts and fragments: a block that is open is the current one,    *)
(* and any other is closed on nothing or on a whole value (BlocksOK); the  *)
(* texts that arrived are those shown and those held, each once (TextsOK). *)
(* Both survive the loops of finish(), so the end finds nothing left over. *)
(***************************************************************************)
EXTENDS ConnectStream, StreamEgress, AnthropicStream, ListingProofs

\* What is on its way: the trailer comes last and carries nothing.
NetSound ==
    /\ \A i \in 1 .. Len(net) :
          /\ net[i].from <= net[i].to
          /\ net[i].kind # "text" =>
                i = Len(net) /\ net[i].kind = trailer /\ net[i].from = net[i].to
    /\ trailer # "none" => up \in {"trailed", "closed"}

\* What is queued was decoded.
QueueSound == \A i \in 1 .. Len(queue) : queue[i].from <= queue[i].to /\ queue[i].to <= taken

\* What the flags say of the stream they were set by.
FlagsSound ==
    /\ sawEndOfStream => net = <<>> /\ trailer # "none"
    /\ sawEndOfStream /\ trailer = "error" => streamError # "none"
    /\ done /\ streamError = "none" => net = <<>> /\ up \in {"trailed", "closed"}
    /\ done \/ streamError # "none" => req # "open" \/ sawEndOfStream
    /\ streamError # "none" => done
    /\ streamError = "upstream" => sawEndOfStream
    /\ queueOverflowed => streamError \notin {"none", "upstream"} /\ ~sawEndOfStream
                            /\ req # "open"

\* While a data event runs the request is open and the generator is not over.
EventSound ==
    /\ batch > 0 => req = "open" /\ reader # "over"
    /\ outcome # "none" => reader = "over"

IInv ==
    /\ ConnTypeOK /\ NothingLost /\ QueueBounded /\ NoMissedWake /\ FinishIsWhole
    /\ NothingLeftOpen
    /\ NetSound /\ QueueSound /\ FlagsSound /\ EventSound

-----------------------------------------------------------------------------
\* A frame that begins where the frames end carries on.
LEMMA CarriesAppend ==
    ASSUME NEW s \in Seq(Frame), NEW f \in Frame, NEW a, NEW b,
           Carries(s, a, b), f.from = b
    PROVE  Carries(Append(s, f), a, f.to)
<1> DEFINE t == Append(s, f)
<1>1. Len(t) = Len(s) + 1 /\ t[Len(s) + 1] = f /\ \A i \in 1 .. Len(s) : t[i] = s[i]
    OBVIOUS
<1>2. t # <<>> /\ Len(s) \in Nat
    <2>1. Len(s) \in Nat /\ Len(<<>>) = 0
        OBVIOUS
    <2>2. Len(t) # 0
        BY <1>1, <2>1
    <2>. QED  BY <2>1, <2>2
<1>3. CASE s = <<>>
    BY <1>1, <1>2, <1>3 DEF Carries
<1>4. CASE s # <<>>
    <2>1. s[1].from = a /\ s[Len(s)].to = b /\ Len(s) >= 1
        BY <1>4 DEF Carries
    <2>2. \A i \in 1 .. Len(s) - 1 : s[i].to = s[i + 1].from
        BY <1>4 DEF Carries
    <2>3. t[1].from = a /\ t[Len(t)].to = f.to
        BY <1>1, <2>1
    <2>4. ASSUME NEW i \in 1 .. Len(t) - 1
          PROVE  t[i].to = t[i + 1].from
        <3>1. CASE i = Len(s)
            BY <3>1, <1>1, <2>1
        <3>2. CASE i # Len(s)
            <4>1. i \in 1 .. Len(s) - 1 /\ i + 1 \in 1 .. Len(s)
                BY <3>2, <1>1, <1>2
            <4>. QED  BY <4>1, <1>1, <2>2
        <3>. QED  BY <3>1, <3>2
    <2>. QED  BY <1>2, <2>3, <2>4 DEF Carries
<1>. QED  BY <1>3, <1>4

\* Without their first, the frames begin where it ends.
LEMMA CarriesTail ==
    ASSUME NEW s \in Seq(Frame), NEW a, NEW b, s # <<>>, Carries(s, a, b)
    PROVE  s[1].from = a /\ Carries(Tail(s), s[1].to, b)
<1> DEFINE t == Tail(s)
<1>1. t \in Seq(Frame) /\ Len(t) = Len(s) - 1 /\ Len(s) \in Nat /\ Len(s) >= 1
    OBVIOUS
<1>2. \A i \in 1 .. Len(t) : t[i] = s[i + 1]
    OBVIOUS
<1>3. s[1].from = a /\ s[Len(s)].to = b /\ \A i \in 1 .. Len(s) - 1 : s[i].to = s[i + 1].from
    BY DEF Carries
<1>4. CASE t = <<>>
    <2>1. Len(s) = 1
        BY <1>1, <1>4
    <2>. QED  BY <2>1, <1>3, <1>4 DEF Carries
<1>5. CASE t # <<>>
    <2>1. Len(t) >= 1
        BY <1>1, <1>5
    <2>2. t[1].from = s[1].to
        BY <2>1, <1>1, <1>2, <1>3
    <2>3. t[Len(t)].to = b
        BY <2>1, <1>1, <1>2, <1>3
    <2>4. ASSUME NEW i \in 1 .. Len(t) - 1
          PROVE  t[i].to = t[i + 1].from
        <3>1. t[i] = s[i + 1] /\ t[i + 1] = s[i + 2] /\ i + 1 \in 1 .. Len(s) - 1
            BY <1>1, <1>2
        <3>. QED  BY <3>1, <1>3
    <2>. QED  BY <1>5, <2>2, <2>3, <2>4 DEF Carries
<1>. QED  BY <1>3, <1>4, <1>5

-----------------------------------------------------------------------------
\* The initial state: nothing sent, nothing queued, the generator waits.
LEMMA InitSound == StreamInit => IInv
<1> SUFFICES ASSUME StreamInit PROVE IInv
    OBVIOUS
<1>1. net = <<>> /\ queue = <<>> /\ Len(net) = 0 /\ Len(queue) = 0
    BY DEF StreamInit
<1>2. ConnTypeOK
    <2>1. net \in Seq(Frame) /\ queue \in Seq(Frame) /\ batch \in 0 .. Len(net)
        BY <1>1 DEF StreamInit
    <2>. QED  BY <2>1 DEF StreamInit, ConnTypeOK
<1>3. NothingLost
    BY <1>1 DEF StreamInit, NothingLost, Carries
<1>4. QueueBounded
    BY <1>1, StreamAssumption DEF StreamInit, QueueBounded, TooMuch
<1>5. NoMissedWake /\ FinishIsWhole /\ NothingLeftOpen
    BY <1>1 DEF StreamInit, NoMissedWake, FinishIsWhole, NothingLeftOpen
<1>6. NetSound /\ QueueSound /\ FlagsSound /\ EventSound
    BY <1>1 DEF StreamInit, NetSound, QueueSound, FlagsSound, EventSound
<1>. QED  BY <1>2, <1>3, <1>4, <1>5, <1>6 DEF IInv

\* The upstream only ever adds to what is on its way.
LEMMA UpstreamKeeps == ASSUME IInv, Upstream PROVE IInv'
<1>. USE DEF IInv
<1>1. /\ UNCHANGED <<batch, req, deadline, queueVars, done, streamError, sawEndOfStream,
                     reader, delivered, outcome>>
      /\ req = "open" /\ batch = 0 /\ reader \notin {"woken", "over"}
    BY DEF Upstream, LoopFree
<1>2. outcome = "none" /\ ~queueOverflowed
    BY <1>1 DEF EventSound, FlagsSound
<1>3. NoMissedWake' /\ FinishIsWhole' /\ NothingLeftOpen' /\ QueueBounded' /\ QueueSound'
      /\ EventSound'
    BY <1>1, <1>2 DEF NoMissedWake, FinishIsWhole, NothingLeftOpen, QueueBounded, QueueSound,
        EventSound, queueVars
<1>4. CASE \E s \in {"refusing", "talking", "closed"} :
              (up = "silent" \/ (s = "closed" /\ up \in {"talking", "trailed"})) /\ Says(s)
    <2>1. ConnTypeOK' /\ NothingLost' /\ NetSound' /\ FlagsSound'
        BY <1>1, <1>2, <1>4 DEF Says, ConnTypeOK, NothingLost, NetSound, FlagsSound, queueVars
    <2>. QED  BY <1>3, <2>1
<1>5. ASSUME NEW kind \in {"text", "ok", "error"}, NEW size \in Nat, up = "talking",
             Send(kind, size),
             kind = "text" => UNCHANGED <<up, trailer>>,
             kind # "text" => size = 0 /\ up' = "trailed" /\ trailer' = kind
      PROVE  IInv'
    <2> DEFINE f == [kind |-> kind, from |-> sentTo, to |-> sentTo + size]
    <2>1. f \in Frame /\ net' = Append(net, f) /\ sentTo' = sentTo + size /\ net \in Seq(Frame)
          /\ sentTo \in Nat /\ f.from = sentTo /\ f.to = sentTo + size /\ f.kind = kind
        BY <1>5 DEF Send, Frame, ConnTypeOK
    <2>2. net' \in Seq(Frame) /\ Len(net') = Len(net) + 1 /\ net'[Len(net) + 1] = f
          /\ Len(net) \in Nat /\ \A i \in 1 .. Len(net) : net'[i] = net[i]
        BY <2>1
    <2>3. trailer = "none" /\ ~sawEndOfStream /\ ~(done /\ streamError = "none")
        BY <1>5 DEF NetSound, FlagsSound, ConnTypeOK
    <2>4. ConnTypeOK'
        BY <1>1, <1>5, <2>1, <2>2 DEF ConnTypeOK, queueVars
    <2>5. Carries(net', taken, sentTo')
        BY <2>1, CarriesAppend DEF NothingLost
    <2>6. NothingLost'
        BY <1>1, <2>5 DEF NothingLost, queueVars
    <2>7. NetSound'
        <3>1. \A i \in 1 .. Len(net) : net[i].kind = "text" /\ net[i].from <= net[i].to
            <4>1. \A i \in 1 .. Len(net) : net[i] \in Frame
                BY <2>1
            <4>2. \A i \in 1 .. Len(net) : net[i].kind \in {"text", "ok", "error"}
                BY <4>1 DEF Frame
            <4>. QED  BY <4>2, <2>3 DEF NetSound
        <3>. QED  BY <3>1, <1>5, <2>1, <2>2, <2>3 DEF NetSound
    <2>8. FlagsSound'
        BY <1>1, <2>3 DEF FlagsSound, queueVars
    <2>. QED  BY <1>3, <2>4, <2>6, <2>7, <2>8
<1>6. CASE up = "silent" /\ \E s \in {"refusing", "talking"} : Says(s)
    BY <1>4, <1>6
<1>7. CASE /\ up = "talking" /\ UNCHANGED <<up, trailer>>
           /\ \E size \in FrameSizes : sentTo + size <= MaxSent /\ Send("text", size)
    BY <1>5, <1>7, StreamAssumption
<1>8. CASE up = "talking" /\ up' = "trailed" /\ trailer' \in {"ok", "error"} /\ Send(trailer', 0)
    BY <1>5, <1>8
<1>9. CASE up \in {"talking", "trailed"} /\ Says("closed")
    BY <1>4, <1>9
<1>. QED  BY <1>6, <1>7, <1>8, <1>9 DEF Upstream

\* A callback that ends the stream leaves the answer as it is: what is queued
\* is still to be yielded, before the error.
LEMMA EndsKeeps ==
    ASSUME IInv, LoopFree, NEW r, NEW e, Ends(r, e),
           r \in {"ended", "destroyed", "torn"},
           \/ e \in Errors \ {"upstream"}
           \/ e = streamError /\ (e = "none" => net = <<>> /\ up \in {"trailed", "closed"}),
           deadline' \in {deadline, FALSE},
           UNCHANGED <<upVars, net, batch, queueVars, sawEndOfStream, delivered, outcome>>
    PROVE  IInv'
<1>. USE DEF IInv
<1>1. req' = r /\ streamError' = e /\ done' = TRUE /\ reader' # "asleep"
      /\ reader' \in {"woken", "yielded"} /\ batch = 0 /\ reader # "over" /\ outcome = "none"
    BY DEF Ends, Pump, LoopFree, ConnTypeOK, EventSound
<1>2. UNCHANGED <<up, sentTo, trailer, queue, queueBytes, queuePaused, queueOverflowed, taken>>
    BY DEF upVars, queueVars
<1>3. ConnTypeOK'
    <2>1. streamError' \in Errors \cup {"none"}
        BY <1>1 DEF ConnTypeOK
    <2>2. done' \in BOOLEAN /\ deadline' \in BOOLEAN
        BY <1>1 DEF ConnTypeOK
    <2>3. req' \in {"open", "ended", "destroyed", "torn"}
          /\ reader' \in {"asleep", "woken", "yielded", "over"}
        BY <1>1
    <2>. QED  BY <1>2, <2>1, <2>2, <2>3 DEF ConnTypeOK
<1>4. NothingLost' /\ QueueBounded' /\ NetSound' /\ QueueSound'
    BY <1>2 DEF NothingLost, QueueBounded, NetSound, QueueSound
<1>5. NoMissedWake' /\ FinishIsWhole' /\ NothingLeftOpen' /\ EventSound'
    BY <1>1, <1>2 DEF NoMissedWake, FinishIsWhole, NothingLeftOpen, EventSound
<1>6. FlagsSound'
    BY <1>1, <1>2 DEF FlagsSound, Errors
<1>. QED  BY <1>3, <1>4, <1>5, <1>6

\* A data event begins with frames that have arrived.
LEMMA DataKeeps == ASSUME IInv, NEW k \in 1 .. Len(net), Data(k) PROVE IInv'
<1>. USE DEF IInv
<1>1. batch' = k /\ req = "open" /\ reader # "over" /\ k \in 0 .. Len(net)
      /\ UNCHANGED <<up, sentTo, trailer, net, req, deadline, queue, queueBytes, queuePaused,
                     queueOverflowed, taken, done, streamError, sawEndOfStream, reader,
                     delivered, outcome>>
    BY DEF Data, LoopFree, upVars, queueVars, ConnTypeOK
<1>2. ConnTypeOK'
    BY <1>1 DEF ConnTypeOK
<1>3. NothingLost' /\ QueueBounded' /\ NetSound' /\ QueueSound' /\ FlagsSound'
    BY <1>1 DEF NothingLost, QueueBounded, NetSound, QueueSound, FlagsSound
<1>4. NoMissedWake' /\ FinishIsWhole' /\ NothingLeftOpen' /\ EventSound'
    BY <1>1 DEF NoMissedWake, FinishIsWhole, NothingLeftOpen, EventSound
<1>. QED  BY <1>2, <1>3, <1>4

\* A frame of the running event goes to the queue, overflows it, or is the
\* trailer; in each case the answer continues where it was.
LEMMA DecodeKeeps == ASSUME IInv, Decode PROVE IInv'
<1>. USE DEF IInv
<1> DEFINE f == Head(net)
<1>1. batch \in Nat /\ batch > 0 /\ net \in Seq(Frame) /\ net # <<>> /\ Len(net) >= 1
      /\ Len(net) \in Nat /\ batch <= Len(net) /\ f = net[1] /\ f \in Frame
    BY DEF Decode, ConnTypeOK
<1>2. req = "open" /\ reader # "over" /\ outcome = "none" /\ ~sawEndOfStream /\ ~done
      /\ streamError = "none" /\ ~queueOverflowed
    BY <1>1 DEF EventSound, FlagsSound, ConnTypeOK
<1>3. /\ net' = Tail(net) /\ taken' = f.to
      /\ UNCHANGED <<up, sentTo, trailer, deadline, delivered, outcome>>
    BY DEF Decode, upVars
<1>4. net' \in Seq(Frame) /\ Len(net') = Len(net) - 1
      /\ \A i \in 1 .. Len(net') : net'[i] = net[i + 1] /\ i + 1 \in 1 .. Len(net)
    BY <1>1, <1>3
<1>5. f.from = taken /\ Carries(net', taken', sentTo')
    BY <1>1, <1>3, CarriesTail DEF NothingLost
<1>6. NetSound'
    <2>1. ASSUME NEW i \in 1 .. Len(net')
          PROVE  /\ net'[i].from <= net'[i].to
                 /\ net'[i].kind # "text" =>
                       i = Len(net') /\ net'[i].kind = trailer /\ net'[i].from = net'[i].to
        <3>1. net'[i] = net[i + 1] /\ i + 1 \in 1 .. Len(net)
            BY <1>4
        <3>2. i + 1 = Len(net) => i = Len(net')
            BY <1>1, <1>4
        <3>3. /\ net[i + 1].from <= net[i + 1].to
              /\ net[i + 1].kind # "text" =>
                    i + 1 = Len(net) /\ net[i + 1].kind = trailer /\ net[i + 1].from = net[i + 1].to
            BY <3>1 DEF NetSound
        <3>. QED  BY <3>1, <3>2, <3>3
    <2>. QED  BY <2>1, <1>3 DEF NetSound
<1>7. f.from <= f.to /\ f.to \in Nat /\ taken \in Nat /\ delivered \in Nat
      /\ queueBytes \in Nat /\ queueBytes = taken - delivered
    BY <1>1, <1>2 DEF NetSound, Frame, ConnTypeOK, QueueBounded
<1>8. FinishIsWhole' /\ reader' # "over" /\ reader' # "asleep"
      /\ reader' \in {"woken", "yielded"}
    BY <1>2, <1>3 DEF FinishIsWhole, Decode, PushEvent, Ends, Pump, ConnTypeOK
<1>9. NothingLeftOpen' /\ (outcome' # "none" => reader' = "over")
    BY <1>2, <1>3, <1>8 DEF NothingLeftOpen
<1>10. CASE f.kind = "text" /\ PushEvent(f) /\ UNCHANGED sawEndOfStream
    <2> DEFINE n == Len(queue) + 1
    <2> DEFINE b == queueBytes + (f.to - f.from)
    <2>1. b \in Nat /\ b = taken' - delivered'
        BY <1>3, <1>5, <1>7
    <2>2. CASE TooMuch(n, b)
        <3>1. /\ queue' = <<>> /\ queueBytes' = 0 /\ queueOverflowed' /\ batch' = 0
              /\ req' = "destroyed" /\ streamError' = "overflow" /\ done' = TRUE
              /\ queuePaused' = queuePaused /\ queueOverflowed' = TRUE
            BY <1>10, <2>2 DEF PushEvent, Ends
        <3>2. Len(queue') = 0 /\ queue' \in Seq(Frame) /\ 0 \in 0 .. Len(net')
            BY <3>1, <1>4
        <3>3. ConnTypeOK'
            BY <1>3, <1>4, <1>7, <1>8, <1>10, <3>1, <3>2 DEF ConnTypeOK, Errors
        <3>4. NothingLost' /\ NoMissedWake' /\ QueueSound'
            BY <1>5, <1>8, <3>1, <3>2 DEF NothingLost, NoMissedWake, QueueSound
        <3>5. QueueBounded'
            BY <3>1, <3>2, StreamAssumption DEF QueueBounded, TooMuch
        <3>6. FlagsSound' /\ EventSound'
            BY <1>2, <1>9, <1>10, <3>1 DEF FlagsSound, EventSound
        <3>. QED  BY <1>6, <1>8, <1>9, <3>3, <3>4, <3>5, <3>6
    <2>3. CASE ~TooMuch(n, b)
        <3>1. /\ queue' = Append(queue, f) /\ queueBytes' = b
              /\ queuePaused' = (queuePaused \/ High(n, b)) /\ batch' = batch - 1
              /\ UNCHANGED <<queueOverflowed, req, streamError, done, sawEndOfStream>>
            BY <1>10, <2>3 DEF PushEvent
        <3>2. queue \in Seq(Frame) /\ queue' \in Seq(Frame) /\ Len(queue') = n /\ queue' # <<>>
              /\ Len(queue) \in Nat /\ queue'[n] = f
              /\ \A i \in 1 .. Len(queue) : queue'[i] = queue[i]
            <4>1. queue \in Seq(Frame)
                BY DEF ConnTypeOK
            <4>2. Len(queue') = n /\ Len(<<>>) = 0 /\ Len(queue) \in Nat
                BY <4>1, <1>1, <3>1
            <4>. QED  BY <4>1, <4>2, <1>1, <3>1
        <3>3. batch' \in 0 .. Len(net')
            BY <1>1, <1>4, <3>1
        <3>4. queuePaused' \in BOOLEAN
            BY <3>1 DEF ConnTypeOK, High
        <3>5. ConnTypeOK'
            BY <1>3, <1>4, <1>7, <1>8, <2>1, <3>1, <3>2, <3>3, <3>4 DEF ConnTypeOK
        <3>6. Carries(queue', delivered', taken')
            BY <1>1, <1>2, <1>3, <1>5, <3>1, <3>2, CarriesAppend DEF NothingLost
        <3>7. NothingLost'
            BY <1>2, <1>5, <3>1, <3>6 DEF NothingLost
        <3>8. QueueBounded'
            BY <1>2, <2>1, <2>3, <3>1, <3>2 DEF QueueBounded
        <3>9. NoMissedWake'
            BY <1>8, <3>2 DEF NoMissedWake
        <3>10. QueueSound'
            <4>1. \A i \in 1 .. Len(queue) : queue[i].to \in Int
                <5>1. \A i \in 1 .. Len(queue) : queue[i] \in Frame
                    BY <3>2
                <5>. QED  BY <5>1 DEF Frame
            <4>2. \A i \in 1 .. Len(queue) : queue[i].from <= queue[i].to /\ queue[i].to <= taken'
                BY <1>3, <1>5, <1>7, <4>1 DEF QueueSound
            <4>. QED  BY <4>2, <1>3, <1>7, <3>2 DEF QueueSound
        <3>11. FlagsSound' /\ EventSound'
            BY <1>2, <1>8, <1>9, <3>1 DEF FlagsSound, EventSound
        <3>. QED  BY <1>6, <1>8, <1>9, <3>5, <3>7, <3>8, <3>9, <3>10, <3>11
    <2>. QED  BY <2>2, <2>3
<1>11. CASE /\ f.kind # "text" /\ sawEndOfStream' = TRUE /\ batch' = 0
            /\ Ends(req, IF f.kind = "error" THEN "upstream" ELSE streamError)
            /\ UNCHANGED <<queue, queueBytes, queuePaused, queueOverflowed>>
    <2>1. 1 = Len(net) /\ f.kind = trailer /\ f.from = f.to
        <3>1. 1 \in 1 .. Len(net)
            BY <1>1
        <3>2. net[1].kind # "text" =>
                  1 = Len(net) /\ net[1].kind = trailer /\ net[1].from = net[1].to
            BY <3>1 DEF NetSound
        <3>. QED  BY <1>1, <1>11, <3>2
    <2>2. net' = <<>> /\ taken' = taken /\ trailer \in {"ok", "error"} /\ f.kind = trailer
        BY <1>1, <1>3, <1>5, <1>11, <2>1 DEF Frame
    <2>3. req' = req /\ done' = TRUE
          /\ streamError' = IF f.kind = "error" THEN "upstream" ELSE "none"
        BY <1>2, <1>11 DEF Ends
    <2>4. ConnTypeOK'
        BY <1>3, <1>4, <1>7, <1>8, <1>11, <2>2, <2>3 DEF ConnTypeOK, Errors
    <2>5. NothingLost' /\ QueueBounded' /\ QueueSound' /\ NoMissedWake'
        BY <1>2, <1>3, <1>5, <1>8, <1>11, <2>2
        DEF NothingLost, QueueBounded, QueueSound, NoMissedWake
    <2>6. up \in {"trailed", "closed"}
        BY <2>2 DEF NetSound
    <2>7. FlagsSound' /\ EventSound'
        BY <1>2, <1>3, <1>9, <1>11, <2>2, <2>3, <2>6 DEF FlagsSound, EventSound
    <2>. QED  BY <1>6, <1>8, <1>9, <2>4, <2>5, <2>7
<1>. QED  BY <1>10, <1>11 DEF Decode

\* When the generator is over with a verdict, the answer it gave is whole, or
\* the verdict says that it is not.
LEMMA OverKeeps ==
    ASSUME IInv, batch = 0, reader \in {"woken", "yielded"}, NEW o, Over(o),
           \/ o = "returned"
           \/ queue = <<>> /\ (streamError # "none" \/ done) /\ o = Verdict,
           UNCHANGED <<upVars, net, batch, queueVars, done, streamError, sawEndOfStream, delivered>>
    PROVE  IInv'
<1>. USE DEF IInv
<1>1. /\ reader' = "over" /\ outcome' = o /\ deadline' = FALSE
      /\ req' \in {"ended", "destroyed", "torn"}
      /\ UNCHANGED <<up, sentTo, trailer, net, batch, queue, queueBytes, queuePaused,
                     queueOverflowed, taken, done, streamError, sawEndOfStream, delivered>>
    BY DEF Over, upVars, queueVars, ConnTypeOK
<1>2. o \in Errors \cup {"finish", "truncated", "returned"}
    BY DEF Verdict, ConnTypeOK
<1>3. ConnTypeOK'
    BY <1>1, <1>2 DEF ConnTypeOK
<1>4. NothingLost' /\ QueueBounded' /\ NetSound' /\ QueueSound'
    BY <1>1 DEF NothingLost, QueueBounded, NetSound, QueueSound
<1>5. FinishIsWhole'
    <2>1. CASE o = "returned"
        BY <1>1, <2>1 DEF FinishIsWhole
    <2>2. CASE queue = <<>> /\ (streamError # "none" \/ done) /\ o = Verdict
        <3>1. o \in {"finish", "truncated", "upstream"} => net = <<>> /\ ~queueOverflowed
            BY <2>2 DEF Verdict, FlagsSound, ConnTypeOK, Errors
        <3>2. net = <<>> /\ ~queueOverflowed => delivered = sentTo
            BY <2>2 DEF NothingLost, Carries
        <3>3. o = "finish" => trailer = "ok"
            <4>1. streamError \in Errors \cup {"none"} /\ trailer \in {"none", "ok", "error"}
                BY DEF ConnTypeOK
            <4>2. o = "finish" => streamError = "none" /\ sawEndOfStream
                BY <2>2, <4>1 DEF Verdict, Errors
            <4>. QED  BY <4>1, <4>2 DEF FlagsSound
        <3>. QED  BY <1>1, <3>1, <3>2, <3>3 DEF FinishIsWhole
    <2>. QED  BY <2>1, <2>2
<1>6. NoMissedWake' /\ NothingLeftOpen' /\ FlagsSound' /\ EventSound'
    BY <1>1 DEF NoMissedWake, NothingLeftOpen, FlagsSound, EventSound
<1>. QED  BY <1>3, <1>4, <1>5, <1>6

\* The generator yields what comes next, and a response paused for a full queue
\* is resumed before the queue is empty.
LEMMA ConsumeKeeps == ASSUME IInv, Consume PROVE IInv'
<1>. USE DEF IInv
<1>1. /\ batch = 0 /\ reader \in {"woken", "yielded"} /\ outcome = "none"
      /\ UNCHANGED <<up, sentTo, trailer, net, batch, done, streamError, sawEndOfStream>>
    BY DEF Consume, EventSound, upVars
<1>2. CASE YieldEvent
    <2> DEFINE e == Head(queue)
    <2> DEFINE b == queueBytes - (e.to - e.from)
    <2>1. queue # <<>> /\ ~queueOverflowed /\ queue \in Seq(Frame) /\ Len(queue) \in Nat
          /\ Len(queue) >= 1 /\ e = queue[1] /\ e \in Frame
        <3>1. queue # <<>> /\ queue \in Seq(Frame)
            BY <1>2 DEF YieldEvent, ConnTypeOK
        <3>2. ~queueOverflowed
            BY <3>1 DEF NothingLost
        <3>. QED  BY <3>1, <3>2
    <2>2. e.from = delivered /\ Carries(Tail(queue), e.to, taken)
        BY <2>1, CarriesTail DEF NothingLost
    <2>3. e.from <= e.to /\ e.to <= taken
        <3>1. 1 \in 1 .. Len(queue)
            BY <2>1
        <3>. QED  BY <3>1, <2>1 DEF QueueSound
    <2>4. e.to \in Nat /\ taken \in Nat /\ delivered \in Nat /\ queueBytes = taken - delivered
        BY <2>1 DEF Frame, ConnTypeOK, QueueBounded
    <2>5. b = taken - e.to /\ b >= 0
        BY <2>2, <2>3, <2>4
    <2>6. /\ queue' = Tail(queue) /\ queueBytes' = b /\ delivered' = e.to /\ reader' = "yielded"
          /\ queuePaused' = (queuePaused /\ (queueOverflowed \/ ~Low(Len(queue) - 1, b)))
          /\ UNCHANGED <<req, deadline, queueOverflowed, taken, outcome>>
        BY <1>2, <2>4, <2>5 DEF YieldEvent
    <2>7. queue' \in Seq(Frame) /\ Len(queue') = Len(queue) - 1
          /\ \A i \in 1 .. Len(queue') : queue'[i] = queue[i + 1] /\ i + 1 \in 1 .. Len(queue)
        BY <2>1, <2>6
    <2>8. ConnTypeOK'
        <3>1. queuePaused' \in BOOLEAN
            BY <2>6 DEF ConnTypeOK
        <3>2. queueBytes' \in Nat /\ delivered' \in Nat
            BY <2>4, <2>5, <2>6
        <3>. QED  BY <1>1, <2>6, <2>7, <3>1, <3>2 DEF ConnTypeOK
    <2>9. NothingLost'
        BY <1>1, <2>1, <2>2, <2>6 DEF NothingLost
    <2>10. QueueBounded'
        <3>1. queueBytes' <= queueBytes /\ Len(queue') <= Len(queue) /\ Len(queue') \in Int
              /\ queueBytes' \in Int
            BY <2>1, <2>2, <2>3, <2>4, <2>5, <2>6, <2>7
        <3>2. ~TooMuch(Len(queue), queueBytes)
            BY DEF QueueBounded
        <3>3. ~TooMuch(Len(queue'), queueBytes')
            BY <3>1, <3>2, <2>1, <2>4, StreamAssumption DEF TooMuch
        <3>. QED  BY <3>3, <2>1, <2>5, <2>6 DEF QueueBounded
    <2>11. NoMissedWake'
        <3>1. ASSUME queue' = <<>> PROVE ~queuePaused'
            <4>1. Len(queue) - 1 = 0
                BY <3>1, <2>7
            <4>2. b = 0
                BY <3>1, <2>2, <2>4, <2>5, <2>6 DEF Carries
            <4>3. Low(0, 0)
                <5>1. ResumeFrames \in Int /\ ResumeFrames >= 1
                      /\ ResumeBytes \in Int /\ ResumeBytes >= 1
                    <6>1. PauseFrames \div 2 \in Int /\ PauseBytes \div 2 \in Int
                        BY StreamAssumption DEF PauseFrames, PauseBytes
                    <6>. QED  BY <6>1 DEF ResumeFrames, ResumeBytes
                <5>. QED  BY <5>1 DEF Low
            <4>. QED  BY <4>1, <4>2, <4>3, <2>1, <2>6
        <3>. QED  BY <3>1, <2>6 DEF NoMissedWake
    <2>12. QueueSound'
        <3>1. ASSUME NEW i \in 1 .. Len(queue')
              PROVE  queue'[i].from <= queue'[i].to /\ queue'[i].to <= taken'
            <4>1. queue'[i] = queue[i + 1] /\ i + 1 \in 1 .. Len(queue)
                BY <2>7
            <4>. QED  BY <4>1, <2>6 DEF QueueSound
        <3>. QED  BY <3>1 DEF QueueSound
    <2>13. NetSound' /\ FlagsSound' /\ EventSound' /\ FinishIsWhole' /\ NothingLeftOpen'
        BY <1>1, <2>6 DEF NetSound, FlagsSound, EventSound, FinishIsWhole, NothingLeftOpen
    <2>. QED  BY <2>8, <2>9, <2>10, <2>11, <2>12, <2>13
<1>3. CASE queue = <<>> /\ (streamError # "none" \/ done) /\ Over(Verdict)
           /\ UNCHANGED <<queueVars, delivered>>
    BY <1>1, <1>3, OverKeeps DEF upVars
<1>4. CASE queue = <<>> /\ streamError = "none" /\ ~done /\ reader' = "asleep"
           /\ UNCHANGED <<req, deadline, queueVars, delivered, outcome>>
    <2>1. UNCHANGED <<queue, queueBytes, queuePaused, queueOverflowed, taken>>
        BY <1>4 DEF queueVars
    <2>2. ConnTypeOK'
        BY <1>1, <1>4, <2>1 DEF ConnTypeOK
    <2>3. NothingLost' /\ QueueBounded' /\ NetSound' /\ QueueSound' /\ NoMissedWake'
        BY <1>1, <1>4, <2>1 DEF NothingLost, QueueBounded, NetSound, QueueSound, NoMissedWake
    <2>4. FlagsSound' /\ EventSound' /\ FinishIsWhole' /\ NothingLeftOpen'
        BY <1>1, <1>4, <2>1 DEF FlagsSound, EventSound, FinishIsWhole, NothingLeftOpen
    <2>. QED  BY <2>2, <2>3, <2>4
<1>. QED  BY <1>2, <1>3, <1>4 DEF Consume

-----------------------------------------------------------------------------
LEMMA StepKeeps == ASSUME IInv, StreamNext PROVE IInv'
<1>. USE DEF FirstError
<1>0. streamError \in Errors \cup {"none"}
    BY DEF IInv, ConnTypeOK
<1>1. CASE Upstream
    BY <1>1, UpstreamKeeps
<1>2. ASSUME NEW k \in 1 .. Len(net), Data(k) PROVE IInv'
    BY <1>2, DataKeeps
<1>3. CASE Decode
    BY <1>3, DecodeKeeps
<1>4. CASE BadChunk
    BY <1>4, EndsKeeps DEF BadChunk, Errors
<1>5. CASE ResEnd
    BY <1>5, EndsKeeps DEF ResEnd, Errors
<1>6. CASE Refused
    BY <1>6, EndsKeeps DEF Refused, Errors
<1>7. CASE ResError
    BY <1>7, EndsKeeps DEF ResError, Errors
<1>8. CASE ReqError
    BY <1>0, <1>8, EndsKeeps DEF ReqError, Errors
<1>9. CASE Abort
    BY <1>0, <1>9, EndsKeeps DEF Abort, Errors
<1>10. CASE IdleTimeout
    BY <1>0, <1>10, EndsKeeps DEF IdleTimeout, Errors
<1>11. CASE DeadlineTimer
    <2>1. req \in {"open", "ended", "destroyed", "torn"}
        BY DEF IInv, ConnTypeOK
    <2>. QED  BY <1>0, <1>11, <2>1, EndsKeeps DEF DeadlineTimer, Errors
<1>12. CASE Consume
    BY <1>12, ConsumeKeeps
<1>13. CASE Return
    BY <1>13, OverKeeps DEF Return
<1>. QED  BY <1>1, <1>2, <1>3, <1>4, <1>5, <1>6, <1>7, <1>8, <1>9, <1>10, <1>11, <1>12, <1>13
          DEF StreamNext

\* The invariant of streamChat (src/devin-connect.js).
LEMMA Inductive == StreamSpec => []IInv
<1>1. IInv /\ UNCHANGED connVars => IInv'
    BY DEF IInv, connVars, upVars, queueVars, ConnTypeOK, NothingLost, QueueBounded,
           NoMissedWake, FinishIsWhole, NothingLeftOpen, NetSound, QueueSound, FlagsSound,
           EventSound
<1>. QED  BY <1>1, InitSound, StepKeeps, PTL DEF StreamSpec

\* The state of streamChat stays well typed: the offsets and the counts of the
\* queue never go below zero.
THEOREM ConnTypeCorrect == StreamSpec => []ConnTypeOK
BY Inductive, PTL DEF IInv

\* Whatever the length of the answer, its frames and chunks, the caps and the
\* order of the callbacks: the caller is yielded the upstream's answer without
\* a gap, a finish only for a whole one, and is never left asleep over it.
THEOREM FaithfulForAll == StreamSpec => []StreamFaithful
<1>1. IInv => StreamFaithful
    BY DEF IInv, StreamFaithful
<1>. QED  BY <1>1, Inductive, PTL

-----------------------------------------------------------------------------
(***************************************************************************)
(* The way to the client.  Every write of the handler, of a timer and of   *)
(* the end of the process leaves gate, wire, socket and writer sound, as   *)
(* one record; the invariant adds the state of the handler and why the     *)
(* gate has ended.                                                         *)
(***************************************************************************)

Kinds  == {"none", "ping", "prime", "content", "error", "done", "status"}
Events == [kind : Kinds, n : Nat]
Plain  == {Event("ping"), Event("prime"), Event("error")}

Store ==
    [gate : [state : {"held", "open", "ended"}, held : Seq(Events),
             armed : BOOLEAN, failure : BOOLEAN],
     wire : Seq(Events),
     sock : [state : {"open", "closed", "ended"}, full : BOOLEAN],
     writer : [pending : BOOLEAN, timedOut : BOOLEAN, aborted : BOOLEAN]]

\* One status at the front, one that is not 200 with its error alone, and the
\* pieces in order, none of them beyond the k-th.
WireSound(w, k) ==
    /\ \A i \in DOMAIN w : w[i].kind = "status" <=> i = 1
    /\ \A i \in DOMAIN w : w[i] = Status(500) => w = <<Status(500), Event("error")>>
    /\ \A i \in DOMAIN w : w[i].kind = "content" =>
          /\ w[i].n <= k
          /\ \A j \in 1 .. i - 1 : w[j].kind = "content" => w[j].n < w[i].n
          /\ \A m \in 1 .. w[i].n - 1 : \E j \in 1 .. i - 1 : w[j] = Piece(m)

Complete(w, k) == \A m \in 1 .. k : \E i \in DOMAIN w : w[i] = Piece(m)

\* What holds of gate, wire, socket and writer after every write.
GateSound(s) ==
    /\ s.gate.state = "held" => s.wire = <<>> /\ s.gate.held \in Seq(Boot)
    /\ s.gate.state = "open" => s.wire # <<>> /\ s.wire[1] = Status(200)
ErrorsFiled(s) == \A i \in DOMAIN s.wire : s.wire[i] = Event("error") => s.gate.failure
EndIsLast(s) ==
    \A i \in DOMAIN s.wire :
       s.wire[i] = Event("done") => i = Len(s.wire) /\ s.sock.state # "open"
PiecesSound(s, k) ==
    /\ s.sock.state # "open" => Gone(s)
    /\ ~Gone(s) => Complete(s.wire, k)

Sound(s, k) ==
    /\ s \in Store
    /\ WireSound(s.wire, k)
    /\ GateSound(s) /\ ErrorsFiled(s) /\ EndIsLast(s) /\ PiecesSound(s, k)

\* The pieces that were handed to the writer.
Handed == IF prod.pc = "send" /\ prod.frame.kind = "content" THEN prod.said - 1 ELSE prod.said

ProdSound ==
    /\ prod \in [pc : {"work", "send", "last", "returned"}, frame : Events,
                 next : {"none", "work", "last"}, primed : BOOLEAN, said : Nat,
                 ok : BOOLEAN, emitted : BOOLEAN]
    /\ prod.pc = "send" =>
          \/ prod.frame = Event("error") /\ prod.next = "last"
          \/ prod.frame = Event("prime") /\ prod.next = "work"
          \/ prod.frame = Piece(prod.said) /\ prod.said > 0 /\ prod.next = "work"
    /\ prod.ok => prod.pc \in {"last", "returned"}

\* Why the gate has ended, and what a turn that ended well left behind.
EndSound ==
    /\ (gate.state = "ended" /\ prod.pc # "returned") =>
          \/ writer.aborted \/ sock.state = "closed"
          \/ prod.pc = "last" /\ ~prod.ok
    /\ prod.pc = "returned" => gate.state = "ended"
    /\ (prod.pc = "returned" /\ prod.ok /\ ~writer.aborted) =>
          \/ sock.state = "closed"
          \/ On(Event("done")) /\ Complete(wire, prod.said)

EgressInv == Sound(Now, Handed) /\ ProdSound /\ EndSound
-----------------------------------------------------------------------------
LEMMA EventTypes ==
    /\ Boot \subseteq Events /\ Plain \subseteq Events
    /\ Status(200) \in Events /\ Status(500) \in Events /\ Event("done") \in Events
    /\ Event("none") \in Events
    /\ \A n \in Nat : Piece(n) \in Events
    BY DEF Boot, Plain, Events, Kinds, Event, Piece, Status

\* What is written in one piece, and what is opened.
LEMMA OpenedFacts ==
    ASSUME NEW s \in Store, NEW full \in BOOLEAN
    PROVE  /\ Opened(s, full) \in Store
           /\ Opened(s, full).writer = s.writer
           /\ Opened(s, full).sock.state = s.sock.state
           /\ Opened(s, full).gate.failure = s.gate.failure
           /\ s.sock.state = "open" =>
                 /\ Opened(s, full).gate.state = "open"
                 /\ Opened(s, full).gate.held = <<>>
                 /\ Opened(s, full).wire = s.wire \o (<<Status(200)>> \o s.gate.held)
           /\ s.sock.state # "open" =>
                 /\ Opened(s, full).gate.state = "ended"
                 /\ Opened(s, full).wire = s.wire
<1> DEFINE frames == <<Status(200)>> \o s.gate.held
           g == [s EXCEPT !.gate.state = "open", !.gate.armed = FALSE, !.gate.held = <<>>]
           e == [s EXCEPT !.gate.state = "ended", !.gate.armed = FALSE]
<1>1. <<>> \in Seq(Events) /\ <<Status(200)>> \in Seq(Events) /\ s.gate.held \in Seq(Events)
    BY EventTypes DEF Store
<1>2. frames \in Seq(Events)
    <2>. HIDE DEF frames
    <2>. QED BY <1>1 DEF frames
<1>3. CASE s.sock.state = "open"
    <2>1. /\ g \in Store /\ g.writer = s.writer /\ g.sock = s.sock /\ g.wire = s.wire
          /\ g.gate.state = "open" /\ g.gate.held = <<>> /\ g.gate.failure = s.gate.failure
        BY <1>1 DEF Store
    <2>2. Opened(s, full) = OnWire(g, frames, full)
        BY <1>3 DEF Opened
    <2>3. g.sock.state = "open"
        BY <1>3, <2>1
    <2>. DEFINE t == [g EXCEPT !.wire = @ \o frames, !.sock.full = full]
    <2>4. OnWire(g, frames, full) = t
        BY <2>3 DEF OnWire
    <2>. HIDE DEF frames, g
    <2>5. g.wire \o frames \in Seq(Events)
        BY <1>2, <2>1 DEF Store
    <2>6. /\ t \in Store /\ t.writer = g.writer /\ t.sock.state = g.sock.state
          /\ t.wire = g.wire \o frames /\ t.gate = g.gate
        BY <2>1, <2>5 DEF Store
    <2>. QED  BY <1>3, <2>1, <2>2, <2>4, <2>6 DEF frames
<1>4. CASE s.sock.state # "open"
    <2>1. /\ e \in Store /\ e.writer = s.writer /\ e.sock = s.sock /\ e.wire = s.wire
          /\ e.gate.state = "ended" /\ e.gate.failure = s.gate.failure
        BY DEF Store
    <2>. QED  BY <1>4, <2>1 DEF Opened
<1>. QED  BY <1>3, <1>4

\* The status and the frames that were held back open a sound answer.
LEMMA OpeningSound ==
    ASSUME NEW h \in Seq(Boot), NEW k \in Nat
    PROVE  LET w == <<>> \o (<<Status(200)>> \o h) IN
           /\ w \in Seq(Events) /\ w # <<>> /\ w[1] = Status(200)
           /\ WireSound(w, k)
           /\ \A i \in DOMAIN w : w[i] \notin {Event("error"), Event("done")}
<1> DEFINE v == <<Status(200)>> \o h
           w == <<>> \o v
<1>1. h \in Seq(Events) /\ <<Status(200)>> \in Seq(Events)
    BY EventTypes
<1>2. v \in Seq(Events) /\ Len(v) = Len(h) + 1 /\ v[1] = Status(200)
      /\ \A i \in 2 .. Len(v) : v[i] = h[i - 1] /\ i - 1 \in 1 .. Len(h)
    BY <1>1
<1>3. w \in Seq(Events) /\ Len(w) = Len(v) /\ \A i \in 1 .. Len(v) : w[i] = v[i]
    <2>. HIDE DEF v
    <2>. QED  BY <1>2
<1>. HIDE DEF v, w
<1>4. DOMAIN w = 1 .. Len(h) + 1 /\ w[1] = Status(200) /\ Len(h) \in Nat
    BY <1>2, <1>3
<1>5. ASSUME NEW i \in DOMAIN w, i # 1
      PROVE  w[i] \in Boot
    BY <1>2, <1>3, <1>4, <1>5
<1>6. \A i \in DOMAIN w : (w[i].kind = "status" <=> i = 1) /\ w[i].kind # "content"
                          /\ w[i] # Status(500)
                          /\ w[i] \notin {Event("error"), Event("done")}
    BY <1>4, <1>5 DEF Boot, Event, Status
<1>7. w # <<>>
    <2>1. 1 \in DOMAIN w /\ DOMAIN <<>> = {}
        BY <1>4
    <2>. QED  BY <2>1
<1>8. WireSound(w, k)
    BY <1>6 DEF WireSound
<1>9. w \in Seq(Events)
    BY <1>3
<1>10. w \in Seq(Events) /\ w # <<>> /\ w[1] = Status(200) /\ WireSound(w, k)
      /\ \A i \in DOMAIN w : w[i] \notin {Event("error"), Event("done")}
    BY <1>4, <1>6, <1>7, <1>8, <1>9
<1>. QED  BY <1>10 DEF w, v

\* A ping, a role, an error or the end leaves the pieces as they are.
LEMMA ExtendPlain ==
    ASSUME NEW w \in Seq(Events), NEW k \in Nat, WireSound(w, k),
           w # <<>>, w[1] = Status(200), NEW f \in Plain \cup {Event("done")}
    PROVE  /\ Append(w, f) \in Seq(Events) /\ Append(w, f) # <<>>
           /\ Append(w, f)[1] = Status(200)
           /\ WireSound(Append(w, f), k)
           /\ Complete(w, k) => Complete(Append(w, f), k)
<1> DEFINE v == Append(w, f)
<1>1. f \in Events /\ f.kind \notin {"status", "content"} /\ f # Status(500)
    BY DEF Plain, Events, Kinds, Event, Status
<1>2. v \in Seq(Events) /\ Len(v) = Len(w) + 1 /\ v[Len(w) + 1] = f /\ Len(w) \in Nat
      /\ \A i \in 1 .. Len(w) : v[i] = w[i]
    BY <1>1
<1>3. DOMAIN w = 1 .. Len(w) /\ DOMAIN v = 1 .. Len(w) + 1 /\ Len(w) > 0
    BY <1>2
<1>. HIDE DEF v
<1>4. v # <<>> /\ v[1] = Status(200)
    <2>1. 1 \in DOMAIN v /\ DOMAIN <<>> = {}
        BY <1>3
    <2>. QED  BY <2>1, <1>2, <1>3
<1>5. \A i \in DOMAIN v : v[i].kind = "status" <=> i = 1
    BY <1>1, <1>2, <1>3 DEF WireSound
<1>6. \A i \in DOMAIN v : v[i] # Status(500)
    BY <1>4, <1>5 DEF Status
<1>7. ASSUME NEW i \in DOMAIN v, v[i].kind = "content"
      PROVE  /\ v[i].n <= k
             /\ \A j \in 1 .. i - 1 : v[j].kind = "content" => v[j].n < v[i].n
             /\ \A m \in 1 .. v[i].n - 1 : \E j \in 1 .. i - 1 : v[j] = Piece(m)
    <2>1. i \in DOMAIN w /\ v[i] = w[i] /\ \A j \in 1 .. i - 1 : v[j] = w[j]
        BY <1>1, <1>2, <1>3, <1>7
    <2>. QED  BY <2>1, <1>7 DEF WireSound
<1>8. WireSound(v, k)
    BY <1>5, <1>6, <1>7 DEF WireSound
<1>9. ASSUME Complete(w, k), NEW m \in 1 .. k
      PROVE  \E i \in DOMAIN v : v[i] = Piece(m)
    <2>1. PICK i \in DOMAIN w : w[i] = Piece(m)
        BY <1>9 DEF Complete
    <2>. QED  BY <2>1, <1>2, <1>3
<1>10. Complete(w, k) => Complete(v, k)
    BY <1>9 DEF Complete
<1>. QED  BY <1>2, <1>4, <1>8, <1>10 DEF v

\* The next piece, behind all that come before it.
LEMMA ExtendPiece ==
    ASSUME NEW w \in Seq(Events), NEW k \in Nat, WireSound(w, k), Complete(w, k),
           w # <<>>, w[1] = Status(200)
    PROVE  LET v == Append(w, Piece(k + 1)) IN
           /\ v \in Seq(Events) /\ v # <<>> /\ v[1] = Status(200)
           /\ WireSound(v, k + 1) /\ Complete(v, k + 1)
<1> DEFINE f == Piece(k + 1)
           v == Append(w, f)
<1>1. f \in Events /\ f.kind = "content" /\ f.n = k + 1
    BY DEF Piece, Events, Kinds
<1>2. v \in Seq(Events) /\ Len(v) = Len(w) + 1 /\ v[Len(w) + 1] = f /\ Len(w) \in Nat
      /\ \A i \in 1 .. Len(w) : v[i] = w[i] /\ w[i] \in Events
    <2>. HIDE DEF f
    <2>. QED BY <1>1
<1>3. DOMAIN w = 1 .. Len(w) /\ DOMAIN v = 1 .. Len(w) + 1 /\ Len(w) > 0
    BY <1>2
<1>. HIDE DEF v
<1>4. v # <<>> /\ v[1] = Status(200)
    <2>1. 1 \in DOMAIN v /\ DOMAIN <<>> = {}
        BY <1>3
    <2>. QED  BY <2>1, <1>2, <1>3
<1>. HIDE DEF f
<1>5. \A i \in DOMAIN v : v[i].kind = "status" <=> i = 1
    BY <1>1, <1>2, <1>3 DEF WireSound
<1>6. \A i \in DOMAIN v : v[i] # Status(500)
    BY <1>4, <1>5 DEF Status
<1>7. ASSUME NEW i \in DOMAIN v, v[i].kind = "content"
      PROVE  /\ v[i].n <= k + 1
             /\ \A j \in 1 .. i - 1 : v[j].kind = "content" => v[j].n < v[i].n
             /\ \A m \in 1 .. v[i].n - 1 : \E j \in 1 .. i - 1 : v[j] = Piece(m)
    <2>1. \A j \in 1 .. i - 1 : j \in DOMAIN w /\ v[j] = w[j]
        BY <1>2, <1>3
    <2>2. CASE i \in DOMAIN w
        <3>1. v[i] = w[i] /\ w[i].n \in Nat
            BY <2>2, <1>2, <1>3 DEF Events
        <3>2. /\ w[i].n <= k
              /\ \A j \in 1 .. i - 1 : w[j].kind = "content" => w[j].n < w[i].n
              /\ \A m \in 1 .. w[i].n - 1 : \E j \in 1 .. i - 1 : w[j] = Piece(m)
            BY <2>2, <3>1, <1>7 DEF WireSound
        <3>3. v[i].n <= k + 1
            BY <3>1, <3>2
        <3>4. \A j \in 1 .. i - 1 : v[j].kind = "content" => v[j].n < v[i].n
            BY <2>1, <3>1, <3>2
        <3>5. ASSUME NEW m \in 1 .. v[i].n - 1
              PROVE  \E j \in 1 .. i - 1 : v[j] = Piece(m)
            <4>1. PICK j \in 1 .. i - 1 : w[j] = Piece(m)
                BY <3>1, <3>2, <3>5
            <4>. QED  BY <4>1, <2>1
        <3>. QED  BY <3>3, <3>4, <3>5
    <2>3. CASE i = Len(w) + 1
        <3>1. v[i].n = k + 1
            BY <2>3, <1>1, <1>2
        <3>2. \A j \in 1 .. i - 1 : v[j].kind = "content" => v[j].n < v[i].n
            <4>1. ASSUME NEW j \in DOMAIN w, w[j].kind = "content"
                  PROVE  w[j].n < k + 1
                <5>1. w[j].n <= k /\ w[j].n \in Nat
                    BY <4>1, <1>2, <1>3 DEF WireSound, Events
                <5>. QED  BY <5>1
            <4>. QED  BY <2>1, <3>1, <4>1
        <3>3. \A m \in 1 .. k : \E j \in 1 .. i - 1 : v[j] = Piece(m)
            BY <2>1, <2>3, <1>2, <1>3 DEF Complete
        <3>. QED  BY <3>1, <3>2, <3>3
    <2>. QED  BY <2>2, <2>3, <1>3
<1>8. WireSound(v, k + 1)
    BY <1>5, <1>6, <1>7 DEF WireSound
<1>9. ASSUME NEW m \in 1 .. k + 1
      PROVE  \E i \in DOMAIN v : v[i] = Piece(m)
    <2>1. CASE m = k + 1
        BY <2>1, <1>2, <1>3 DEF f
    <2>2. CASE m # k + 1
        <3>1. m \in 1 .. k
            BY <2>2
        <3>2. PICK i \in DOMAIN w : w[i] = Piece(m)
            BY <3>1 DEF Complete
        <3>. QED  BY <3>2, <1>2, <1>3
    <2>. QED  BY <2>1, <2>2
<1>10. Complete(v, k + 1)
    BY <1>9 DEF Complete
<1>. QED  BY <1>2, <1>4, <1>8, <1>10 DEF v, f

\* A socket that takes a frame has it behind the others.
LEMMA OnWireFacts ==
    ASSUME NEW s \in Store, NEW f \in Events, NEW full \in BOOLEAN
    PROVE  /\ OnWire(s, <<f>>, full) \in Store
           /\ OnWire(s, <<f>>, full).gate = s.gate
           /\ OnWire(s, <<f>>, full).writer = s.writer
           /\ OnWire(s, <<f>>, full).sock.state = s.sock.state
           /\ s.sock.state = "open" => OnWire(s, <<f>>, full).wire = Append(s.wire, f)
           /\ s.sock.state # "open" => OnWire(s, <<f>>, full).wire = s.wire
<1> DEFINE t == [s EXCEPT !.wire = @ \o <<f>>, !.sock.full = full]
<1>1. s.wire \o <<f>> = Append(s.wire, f) /\ Append(s.wire, f) \in Seq(Events)
    BY DEF Store
<1>2. /\ t.wire = Append(s.wire, f) /\ t.gate = s.gate /\ t.writer = s.writer
      /\ t.sock.state = s.sock.state /\ t \in Store
    BY <1>1 DEF Store
<1>3. CASE s.sock.state = "open"
    BY <1>2, <1>3 DEF OnWire
<1>4. CASE s.sock.state # "open"
    BY <1>4 DEF OnWire
<1>. QED  BY <1>3, <1>4
-----------------------------------------------------------------------------
\* One more piece may have been handed over when nothing is written any more.
LEMMA SoundMore ==
    ASSUME NEW s, NEW k \in Nat, Sound(s, k), Gone(s)
    PROVE  Sound(s, k + 1)
<1>1. s.wire \in Seq(Events) /\ WireSound(s.wire, k)
    BY DEF Sound, Store
<1>2. ASSUME NEW i \in DOMAIN s.wire, s.wire[i].n <= k
      PROVE  s.wire[i].n <= k + 1
    <2>1. s.wire[i] \in Events
        BY <1>1
    <2>. QED  BY <2>1, <1>2 DEF Events
<1>3. WireSound(s.wire, k + 1)
    BY <1>1, <1>2 DEF WireSound
<1>. QED  BY <1>3 DEF Sound, PiecesSound

\* commit
LEMMA OpenedSound ==
    ASSUME NEW s, NEW k \in Nat, Sound(s, k), s.gate.state = "held", NEW full \in BOOLEAN
    PROVE  Sound(Opened(s, full), k)
<1> DEFINE t == Opened(s, full)
<1>0. /\ s \in Store /\ s.wire = <<>> /\ s.gate.held \in Seq(Boot) /\ WireSound(s.wire, k)
      /\ s.sock.state # "open" => Gone(s)
      /\ ~Gone(s) => Complete(s.wire, k)
    BY DEF Sound, GateSound, PiecesSound
<1>1. /\ t \in Store /\ t.writer = s.writer /\ t.sock.state = s.sock.state
      /\ t.gate.failure = s.gate.failure
      /\ s.sock.state = "open" => t.gate.state = "open"
                                /\ t.wire = s.wire \o (<<Status(200)>> \o s.gate.held)
      /\ s.sock.state # "open" => t.gate.state = "ended" /\ t.wire = s.wire
    BY <1>0, OpenedFacts
<1>. HIDE DEF t
<1>2. CASE s.sock.state = "open"
    <2>1. t.wire \in Seq(Events) /\ t.wire # <<>> /\ t.wire[1] = Status(200)
          /\ WireSound(t.wire, k)
          /\ \A i \in DOMAIN t.wire : t.wire[i] \notin {Event("error"), Event("done")}
        <3>1. t.wire = <<>> \o (<<Status(200)>> \o s.gate.held)
            BY <1>0, <1>1, <1>2
        <3>. QED  BY <1>0, <3>1, OpeningSound
    <2>2. ~Gone(t) => ~Gone(s)
        BY <1>1 DEF Gone
    <2>3. ~Gone(t) => Complete(t.wire, k)
        <3>1. ~Gone(s) => 1 .. k = {}
            BY <1>0 DEF Complete
        <3>. QED  BY <2>2, <3>1 DEF Complete
    <2>4. GateSound(t)
        BY <1>1, <1>2, <2>1 DEF GateSound
    <2>5. ErrorsFiled(t) /\ EndIsLast(t)
        BY <2>1 DEF ErrorsFiled, EndIsLast
    <2>6. PiecesSound(t, k)
        BY <1>1, <1>2, <2>3 DEF PiecesSound
    <2>. QED  BY <1>1, <2>1, <2>4, <2>5, <2>6 DEF Sound, t
<1>3. CASE s.sock.state # "open"
    <2>1. GateSound(t)
        BY <1>1, <1>3 DEF GateSound
    <2>2. ErrorsFiled(t) /\ EndIsLast(t)
        BY <1>0, <1>1, <1>3 DEF ErrorsFiled, EndIsLast, Sound
    <2>3. PiecesSound(t, k)
        BY <1>1, <1>3 DEF PiecesSound, Gone
    <2>. QED  BY <1>0, <1>1, <1>3, <2>1, <2>2, <2>3 DEF Sound, t
<1>. QED  BY <1>2, <1>3 DEF t
\* t is o with a frame more.
Behind(o, t, f) ==
    /\ t \in Store /\ t.wire = Append(o.wire, f) /\ t.writer = o.writer
    /\ t.gate.state = o.gate.state /\ t.gate.failure = o.gate.failure
    /\ t.sock.state = o.sock.state

\* A frame behind an opened answer keeps it sound, with one piece more or not.
LEMMA BehindSound ==
    ASSUME NEW o, NEW t, NEW k \in Nat, Sound(o, k), o.gate.state = "open", ~Gone(o),
           NEW f \in Plain \cup {Piece(k + 1)}, Behind(o, t, f),
           f = Event("error") => o.gate.failure
    PROVE  Sound(t, IF f = Piece(k + 1) THEN k + 1 ELSE k)
<1> DEFINE n == IF f = Piece(k + 1) THEN k + 1 ELSE k
<1>1. /\ o \in Store /\ o.wire \in Seq(Events) /\ o.sock.state = "open"
      /\ o.wire # <<>> /\ o.wire[1] = Status(200) /\ WireSound(o.wire, k)
      /\ Complete(o.wire, k)
    BY DEF Sound, GateSound, PiecesSound, Store
<1>2. /\ t \in Store /\ t.wire = Append(o.wire, f) /\ t.writer = o.writer
      /\ t.gate.state = o.gate.state /\ t.gate.failure = o.gate.failure
      /\ t.sock.state = o.sock.state
    BY DEF Behind
<1>3. f # Event("done") /\ f \in Events
    BY EventTypes DEF Plain, Event, Piece
<1>4. /\ WireSound(t.wire, n) /\ Complete(t.wire, n)
      /\ t.wire # <<>> /\ t.wire[1] = Status(200)
    <2>1. CASE f = Piece(k + 1)
        BY <1>1, <1>2, <2>1, ExtendPiece
    <2>2. CASE f # Piece(k + 1)
        BY <1>1, <1>2, <2>2, ExtendPlain
    <2>. QED  BY <2>1, <2>2
<1>. HIDE DEF n
<1>5. /\ DOMAIN t.wire = 1 .. Len(o.wire) + 1 /\ t.wire[Len(o.wire) + 1] = f
      /\ DOMAIN o.wire = 1 .. Len(o.wire)
      /\ \A i \in 1 .. Len(o.wire) : t.wire[i] = o.wire[i]
    BY <1>1, <1>2, <1>3
<1>6. GateSound(t)
    BY <1>2, <1>4 DEF GateSound
<1>7. ErrorsFiled(t)
    BY <1>2, <1>5 DEF ErrorsFiled, Sound
<1>8. EndIsLast(t)
    <2>1. \A i \in DOMAIN o.wire : o.wire[i] # Event("done")
        BY <1>1 DEF EndIsLast, Sound
    <2>. QED  BY <2>1, <1>3, <1>5 DEF EndIsLast
<1>9. PiecesSound(t, n)
    BY <1>1, <1>2, <1>4 DEF PiecesSound
<1>. QED  BY <1>2, <1>4, <1>6, <1>7, <1>8, <1>9 DEF Sound, n

\* The end behind an opened answer, and the socket ended with it.
LEMMA DoneSound ==
    ASSUME NEW o, NEW u \in Store, NEW k \in Nat, Sound(o, k),
           o.gate.state = "open", ~Gone(o),
           u.wire = Append(o.wire, Event("done")), u.gate.state = "ended",
           u.gate.failure = o.gate.failure, u.sock.state # "open"
    PROVE  /\ Sound(u, k) /\ Complete(u.wire, k)
           /\ \E i \in DOMAIN u.wire : u.wire[i] = Event("done")
<1> DEFINE f == Event("done")
<1>1. /\ o \in Store /\ o.wire \in Seq(Events) /\ o.sock.state = "open"
      /\ o.wire # <<>> /\ o.wire[1] = Status(200) /\ WireSound(o.wire, k)
      /\ Complete(o.wire, k)
    BY DEF Sound, GateSound, PiecesSound, Store
<1>2. f \in Events /\ f # Event("error")
    BY EventTypes DEF Event
<1>3. WireSound(u.wire, k) /\ Complete(u.wire, k)
    BY <1>1, ExtendPlain
<1>. HIDE DEF f
<1>4. /\ DOMAIN u.wire = 1 .. Len(o.wire) + 1 /\ u.wire[Len(o.wire) + 1] = f
      /\ DOMAIN o.wire = 1 .. Len(o.wire) /\ Len(o.wire) \in Nat
      /\ Len(u.wire) = Len(o.wire) + 1
      /\ \A i \in 1 .. Len(o.wire) : u.wire[i] = o.wire[i]
    BY <1>1, <1>2 DEF f
<1>5. GateSound(u) /\ PiecesSound(u, k)
    BY <1>3 DEF GateSound, PiecesSound, Gone
<1>6. ErrorsFiled(u)
    BY <1>2, <1>4 DEF ErrorsFiled, Sound
<1>7. EndIsLast(u)
    <2>1. \A i \in DOMAIN o.wire : o.wire[i] # Event("done")
        BY <1>1 DEF EndIsLast, Sound
    <2>. QED  BY <2>1, <1>4 DEF EndIsLast, f
<1>8. \E i \in DOMAIN u.wire : u.wire[i] = Event("done")
    BY <1>4 DEF f
<1>. QED  BY <1>3, <1>5, <1>6, <1>7, <1>8 DEF Sound

\* finishError
LEMMA ErrorInsteadSound ==
    ASSUME NEW s \in Store, NEW k \in Nat, s.wire = <<>>, s.gate.state = "held",
           s.sock.state # "open" => Gone(s)
    PROVE  /\ Sound(ErrorInstead(s), k)
           /\ ErrorInstead(s).gate.state = "ended"
           /\ ErrorInstead(s).writer = s.writer
           /\ s.sock.state = "closed" => ErrorInstead(s).sock.state = "closed"
<1> DEFINE t == [s EXCEPT !.gate.state = "ended", !.gate.armed = FALSE, !.gate.failure = TRUE]
           w == <<Status(500), Event("error")>>
           u == [t EXCEPT !.wire = w, !.sock.state = "ended"]
<1>1. /\ t \in Store /\ t.wire = s.wire /\ t.writer = s.writer /\ t.sock = s.sock
      /\ t.gate.state = "ended" /\ t.gate.failure
    BY DEF Store
<1>2. w \in Seq(Events) /\ DOMAIN w = {1, 2} /\ w[1] = Status(500) /\ w[2] = Event("error")
    BY EventTypes DEF Plain
<1>3. CASE s.sock.state = "open"
    <2>. HIDE DEF w, t
    <2>1. /\ u \in Store /\ u.wire = w /\ u.writer = t.writer /\ u.gate = t.gate
          /\ u.sock.state = "ended"
        BY <1>1, <1>2 DEF Store
    <2>2. ErrorInstead(s) = u
        BY <1>1, <1>3 DEF ErrorInstead, t, w
    <2>. HIDE DEF u
    <2>3. WireSound(u.wire, k)
        BY <1>2, <2>1 DEF WireSound, w, Event, Status
    <2>4. ErrorsFiled(u) /\ EndIsLast(u)
        BY <1>1, <1>2, <2>1 DEF ErrorsFiled, EndIsLast, Event, Status
    <2>5. GateSound(u) /\ PiecesSound(u, k)
        BY <1>1, <2>1 DEF GateSound, PiecesSound, Gone
    <2>. QED  BY <1>1, <1>3, <2>1, <2>2, <2>3, <2>4, <2>5 DEF Sound
<1>4. CASE s.sock.state # "open"
    <2>1. ErrorInstead(s) = t
        BY <1>1, <1>4 DEF ErrorInstead
    <2>. HIDE DEF t
    <2>2. WireSound(t.wire, k) /\ ErrorsFiled(t) /\ EndIsLast(t)
        BY <1>1 DEF WireSound, ErrorsFiled, EndIsLast
    <2>3. GateSound(t) /\ PiecesSound(t, k)
        BY <1>1 DEF GateSound, PiecesSound, Gone
    <2>. QED  BY <1>1, <2>1, <2>2, <2>3 DEF Sound
<1>. QED  BY <1>3, <1>4
\* inspectPending: an error, any other frame of this handler, or the frame
\* that makes too many.
LEMMA HoldFacts ==
    ASSUME NEW s \in Store, NEW f \in Events
    PROVE  LET t == [s EXCEPT !.gate.held = Append(@, f), !.gate.armed = TRUE] IN
           /\ t \in Store /\ t.wire = s.wire /\ t.writer = s.writer /\ t.sock = s.sock
           /\ t.gate.state = s.gate.state /\ t.gate.failure = s.gate.failure
           /\ t.gate.held = Append(s.gate.held, f)
<1>1. Append(s.gate.held, f) \in Seq(Events)
    BY DEF Store
<1>. QED  BY <1>1 DEF Store

LEMMA HeldSound ==
    ASSUME NEW s, NEW k \in Nat, Sound(s, k), s.gate.state = "held",
           NEW f \in Plain, NEW full \in BOOLEAN
    PROVE  /\ Sound(Held(s, f, full), k)
           /\ Held(s, f, full).writer = s.writer
           /\ s.sock.state = "closed" => Held(s, f, full).sock.state = "closed"
           /\ Held(s, f, full).gate.state = "ended" => f = Event("error") \/ s.sock.state # "open"
<1> DEFINE t == [s EXCEPT !.gate.held = Append(@, f), !.gate.armed = TRUE]
<1>1. /\ s \in Store /\ s.wire = <<>> /\ s.gate.held \in Seq(Boot)
      /\ s.sock.state # "open" => Gone(s)
      /\ f \in Events
    BY EventTypes DEF Sound, GateSound, PiecesSound
<1>2. /\ t \in Store /\ t.wire = s.wire /\ t.writer = s.writer /\ t.sock = s.sock
      /\ t.gate.state = s.gate.state /\ t.gate.failure = s.gate.failure
      /\ t.gate.held = Append(s.gate.held, f)
    BY <1>1, HoldFacts
<1>3. Gone(t) <=> Gone(s)
    BY <1>2 DEF Gone
<1>4. Held(s, f, full) = IF f = Event("error") THEN ErrorInstead(t)
                      ELSE IF f \notin Boot \/ Len(t.gate.held) > MaxHeld
                      THEN Opened(t, full) ELSE t
    BY DEF Held
<1>. HIDE DEF t
<1>5. CASE f = Event("error")
    <2>1. Held(s, f, full) = ErrorInstead(t)
        BY <1>4, <1>5
    <2>. QED  BY <1>1, <1>2, <1>3, <1>5, <2>1, ErrorInsteadSound
<1>6. CASE f # Event("error")
    <2>1. f \in Boot
        BY <1>6 DEF Plain, Boot
    <2>2. t.gate.held \in Seq(Boot)
        BY <1>1, <1>2, <2>1
    <2>3. Sound(t, k)
        BY <1>1, <1>2, <1>3, <2>2
           DEF Sound, GateSound, ErrorsFiled, EndIsLast, PiecesSound
    <2>4. Held(s, f, full) \in {t, Opened(t, full)}
        BY <1>4, <1>6, <2>1
    <2>5. CASE Held(s, f, full) = t
        BY <1>1, <1>2, <2>3, <2>5 DEF Gone
    <2>6. CASE Held(s, f, full) = Opened(t, full)
        <3>1. Sound(Opened(t, full), k)
            BY <1>2, <2>3, OpenedSound
        <3>2. /\ Opened(t, full).writer = t.writer
              /\ Opened(t, full).sock.state = t.sock.state
              /\ t.sock.state = "open" => Opened(t, full).gate.state = "open"
            BY <1>2, OpenedFacts
        <3>. QED  BY <1>2, <2>6, <3>1, <3>2
    <2>. QED  BY <2>4, <2>5, <2>6
<1>. QED  BY <1>5, <1>6
LEMMA ConcatAppend ==
    ASSUME NEW a \in Seq(Events), NEW b \in Seq(Events), NEW f \in Events
    PROVE  a \o Append(b, f) = Append(a \o b, f)
<1> DEFINE l == a \o Append(b, f)
           r == Append(a \o b, f)
<1>1. l \in Seq(Events) /\ r \in Seq(Events) /\ Len(l) = Len(r)
    OBVIOUS
<1>2. \A i \in 1 .. Len(l) : l[i] = r[i]
    OBVIOUS
<1>. HIDE DEF l, r
<1>3. l = r
    BY <1>1, <1>2, SeqEqual
<1>. QED  BY <1>3 DEF l, r

\* Content or the end, as the first frame that is not held back: what was held
\* goes out before it.
LEMMA HeldOpens ==
    ASSUME NEW s, NEW k \in Nat, Sound(s, k), s.gate.state = "held", ~Gone(s),
           NEW f \in {Piece(k + 1), Event("done")}, NEW full \in BOOLEAN
    PROVE  /\ Sound(Opened(s, full), k) /\ Opened(s, full).gate.state = "open"
           /\ ~Gone(Opened(s, full))
           /\ Behind(Opened(s, full), Held(s, f, full), f)
           /\ Held(s, f, full).writer = s.writer
           /\ Held(s, f, full).sock.state = s.sock.state
           /\ Opened(s, full).gate.failure = s.gate.failure
<1> DEFINE t == [s EXCEPT !.gate.held = Append(@, f), !.gate.armed = TRUE]
           o == Opened(s, full)
<1>1. /\ s \in Store /\ s.wire = <<>> /\ s.gate.held \in Seq(Boot)
      /\ s.sock.state = "open" /\ f \in Events
    BY EventTypes DEF Sound, GateSound, PiecesSound
<1>2. /\ t \in Store /\ t.wire = s.wire /\ t.writer = s.writer /\ t.sock = s.sock
      /\ t.gate.state = s.gate.state /\ t.gate.failure = s.gate.failure
      /\ t.gate.held = Append(s.gate.held, f)
    BY <1>1, HoldFacts
<1>3. f # Event("error") /\ f \notin Boot
    BY DEF Boot, Event, Piece
<1>4. Held(s, f, full) = Opened(t, full)
    BY <1>3 DEF Held
<1>. HIDE DEF t
<1>5. /\ o \in Store /\ o.writer = s.writer /\ o.sock.state = s.sock.state
      /\ o.gate.failure = s.gate.failure /\ o.gate.state = "open"
      /\ o.wire = s.wire \o (<<Status(200)>> \o s.gate.held)
    BY <1>1, OpenedFacts
<1>6. /\ Opened(t, full) \in Store /\ Opened(t, full).writer = t.writer
      /\ Opened(t, full).sock.state = t.sock.state
      /\ Opened(t, full).gate.failure = t.gate.failure
      /\ Opened(t, full).gate.state = "open"
      /\ Opened(t, full).wire = t.wire \o (<<Status(200)>> \o t.gate.held)
    <2>1. t.sock.state = "open"
        BY <1>1, <1>2
    <2>. QED  BY <1>2, <2>1, OpenedFacts
<1>7. Opened(t, full).wire = Append(o.wire, f)
    <2>1. s.gate.held \in Seq(Events) /\ <<Status(200)>> \in Seq(Events) /\ s.wire \in Seq(Events)
        BY <1>1, EventTypes DEF Store
    <2> DEFINE b == <<Status(200)>> \o s.gate.held
    <2>2. \A x, y \in Seq(Events) : x \o Append(y, f) = Append(x \o y, f)
        BY <1>1, ConcatAppend
    <2>3. <<Status(200)>> \o Append(s.gate.held, f) = Append(b, f)
        BY <2>1, <2>2
    <2>4. b \in Seq(Events)
        BY <2>1
    <2>. HIDE DEF b
    <2>5. s.wire \o Append(b, f) = Append(s.wire \o b, f)
        BY <2>1, <2>2, <2>4
    <2>6. <<Status(200)>> \o t.gate.held = Append(b, f)
        BY <1>2, <2>3
    <2>7. o.wire = s.wire \o b
        BY <1>5 DEF b
    <2>8. Opened(t, full).wire = s.wire \o Append(b, f)
        BY <1>2, <1>6, <2>6
    <2>. QED  BY <2>5, <2>7, <2>8
<1>8. Sound(o, k) /\ ~Gone(o)
    BY <1>5, OpenedSound DEF Gone
<1>. HIDE DEF o
<1>9. Behind(o, Held(s, f, full), f)
    <2> DEFINE u == Opened(t, full)
    <2>1. /\ u \in Store /\ u.writer = o.writer /\ u.sock.state = o.sock.state
          /\ u.gate.failure = o.gate.failure /\ u.gate.state = o.gate.state
          /\ u.wire = Append(o.wire, f)
        BY <1>2, <1>5, <1>6, <1>7
    <2>. HIDE DEF u
    <2>2. Behind(o, u, f)
        BY <2>1 DEF Behind
    <2>. QED  BY <2>2, <1>4 DEF u
<1>. QED  BY <1>2, <1>4, <1>5, <1>6, <1>8, <1>9 DEF o

\* What touches neither the wire nor what was filed.
LEMMA StillSound ==
    ASSUME NEW s, NEW u \in Store, NEW k \in Nat, Sound(s, k),
           u.wire = s.wire, u.gate.failure = s.gate.failure,
           u.gate.state = "ended" \/ u.gate = s.gate,
           s.sock.state # "open" => u.sock.state # "open",
           u.sock.state # "open" => Gone(u), ~Gone(u) => ~Gone(s)
    PROVE  Sound(u, k)
<1>1. GateSound(u)
    BY DEF GateSound, Sound
<1>2. ErrorsFiled(u) /\ EndIsLast(u)
    BY DEF ErrorsFiled, EndIsLast, Sound
<1>3. PiecesSound(u, k)
    BY DEF PiecesSound, Sound
<1>. QED  BY <1>1, <1>2, <1>3 DEF Sound

LEMMA ScannedSound ==
    ASSUME NEW s, NEW k \in Nat, Sound(s, k), NEW f
    PROVE  /\ Sound(Scanned(s, f), k)
           /\ Scanned(s, f).wire = s.wire /\ Scanned(s, f).writer = s.writer
           /\ Scanned(s, f).sock = s.sock /\ Scanned(s, f).gate.state = s.gate.state
           /\ f = Event("error") => Scanned(s, f).gate.failure
<1> DEFINE t == [s EXCEPT !.gate.failure = TRUE]
<1>1. s \in Store
    BY DEF Sound
<1>2. /\ t \in Store /\ t.wire = s.wire /\ t.writer = s.writer /\ t.sock = s.sock
      /\ t.gate.state = s.gate.state /\ t.gate.held = s.gate.held /\ t.gate.failure
    BY <1>1 DEF Store
<1>. HIDE DEF t
<1>3. GateSound(t) /\ PiecesSound(t, k)
    BY <1>2 DEF GateSound, PiecesSound, Gone, Sound
<1>4. ErrorsFiled(t) /\ EndIsLast(t)
    BY <1>2 DEF ErrorsFiled, EndIsLast, Sound
<1>5. Sound(t, k)
    BY <1>2, <1>3, <1>4 DEF Sound
<1>6. Scanned(s, f) = IF f = Event("error") THEN t ELSE s
    BY DEF Scanned, t
<1>. QED  BY <1>2, <1>5, <1>6

\* write of the writer, for every frame but the last.
LEMMA WrittenSound ==
    ASSUME NEW s, NEW k \in Nat, Sound(s, k), NEW f \in Plain \cup {Piece(k + 1)},
           NEW full \in BOOLEAN, ~Gone(s)
    PROVE  /\ Sound(Written(s, f, full), IF f = Piece(k + 1) THEN k + 1 ELSE k)
           /\ Written(s, f, full).writer.aborted = s.writer.aborted
           /\ Written(s, f, full).gate.state = "ended" => f = Event("error")
<1> DEFINE n == IF f = Piece(k + 1) THEN k + 1 ELSE k
<1>1. /\ s \in Store /\ s.sock.state = "open" /\ s.gate.state \in {"held", "open"}
      /\ ~s.writer.aborted
    BY DEF Sound, PiecesSound, Gone, Store
<1>2. CASE s.gate.state = "held"
    <2>1. Written(s, f, full) = Held(s, f, full)
        BY <1>2 DEF Written
    <2>2. CASE f = Piece(k + 1)
        <3>1. /\ Sound(Opened(s, full), k) /\ Opened(s, full).gate.state = "open"
              /\ ~Gone(Opened(s, full)) /\ Behind(Opened(s, full), Held(s, f, full), f)
              /\ Held(s, f, full).writer = s.writer
            BY <1>2, <2>2, HeldOpens
        <3>2. f # Event("error")
            BY <2>2 DEF Piece, Event
        <3>3. Sound(Held(s, f, full), n)
            BY <3>1, <3>2, BehindSound
        <3>4. Held(s, f, full).gate.state = "open"
            BY <3>1 DEF Behind
        <3>. QED  BY <2>1, <3>1, <3>3, <3>4
    <2>3. CASE f # Piece(k + 1)
        <3>1. f \in Plain
            BY <2>3
        <3>2. /\ Sound(Held(s, f, full), k)
              /\ Held(s, f, full).writer = s.writer
              /\ Held(s, f, full).gate.state = "ended" => f = Event("error")
            BY <1>1, <1>2, <3>1, HeldSound
        <3>. QED  BY <2>1, <2>3, <3>2
    <2>. QED  BY <2>2, <2>3
<1>3. CASE s.gate.state = "open"
    <2> DEFINE o == Scanned(s, f)
               t == OnWire(o, <<f>>, full)
               p == [t EXCEPT !.writer.pending = TRUE]
    <2>1. /\ Sound(o, k) /\ o.wire = s.wire /\ o.writer = s.writer
          /\ o.sock = s.sock /\ o.gate.state = s.gate.state
          /\ f = Event("error") => o.gate.failure
        BY ScannedSound
    <2>2. f \in Events
        BY EventTypes
    <2>3. Written(s, f, full) \in {t, p}
        BY <1>3 DEF Written
    <2>. HIDE DEF o
    <2>4. o \in Store /\ ~Gone(o) /\ o.sock.state = "open" /\ o.gate.state = "open"
        BY <1>1, <1>3, <2>1 DEF Sound, Gone
    <2>5. Behind(o, t, f)
        BY <2>2, <2>4, OnWireFacts DEF Behind
    <2>. HIDE DEF t
    <2>6. Sound(t, n)
        BY <2>1, <2>4, <2>5, BehindSound
    <2>7. t \in Store /\ t.gate.state = "open" /\ t.writer = s.writer
        BY <2>1, <2>4, <2>5 DEF Behind
    <2>8. /\ p \in Store /\ p.wire = t.wire /\ p.gate = t.gate /\ p.sock = t.sock
          /\ p.writer.aborted = t.writer.aborted
        BY <2>7 DEF Store
    <2>. HIDE DEF p
    <2>9. Gone(p) <=> Gone(t)
        BY <2>8 DEF Gone
    <2>10. t.sock.state # "open" => Gone(t)
        BY <2>6 DEF Sound, PiecesSound
    <2>11. n \in Nat
        OBVIOUS
    <2>. HIDE DEF n
    <2>12. Sound(p, n)
        BY <2>6, <2>8, <2>9, <2>10, <2>11, StillSound
    <2>. QED  BY <2>3, <2>6, <2>7, <2>8, <2>12 DEF n
<1>. QED  BY <1>1, <1>2, <1>3
LEMMA AbortedSound ==
    ASSUME NEW s, NEW k \in Nat, Sound(s, k)
    PROVE  /\ Sound(Aborted(s), k) /\ Aborted(s).writer.aborted
           /\ Aborted(s).gate = s.gate /\ Aborted(s).sock = s.sock
           /\ Aborted(s).wire = s.wire
<1> DEFINE u == [s EXCEPT !.writer.aborted = TRUE, !.writer.pending = FALSE]
<1>1. s \in Store
    BY DEF Sound
<1>2. /\ u \in Store /\ u.wire = s.wire /\ u.gate = s.gate /\ u.sock = s.sock
      /\ u.writer.aborted
    BY <1>1 DEF Store
<1>3. Aborted(s) = u
    BY DEF Aborted
<1>. HIDE DEF u
<1>4. Gone(u)
    BY <1>2 DEF Gone
<1>5. Sound(u, k)
    BY <1>2, <1>4, StillSound
<1>. QED  BY <1>2, <1>3, <1>5

\* end of the gate
LEMMA EndedSound ==
    ASSUME NEW s, NEW k \in Nat, Sound(s, k), NEW full \in BOOLEAN
    PROVE  /\ Sound(Ended(s, full), k) /\ Ended(s, full).gate.state = "ended"
           /\ Ended(s, full).writer = s.writer
           /\ s.sock.state = "closed" => Ended(s, full).sock.state = "closed"
<1>1. CASE s.gate.state = "ended"
    BY <1>1 DEF Ended
<1>2. CASE s.gate.state # "ended"
    <2> DEFINE t == IF s.gate.state = "held" THEN Opened(s, full) ELSE s
               u == [t EXCEPT !.gate.state = "ended", !.gate.armed = FALSE,
                              !.sock.state = IF @ = "open" THEN "ended" ELSE @]
    <2>1. Ended(s, full) = u
        BY <1>2 DEF Ended
    <2>2. Sound(t, k) /\ t.writer = s.writer /\ t.sock.state = s.sock.state
        <3>1. CASE s.gate.state = "held"
            BY <3>1, OpenedSound, OpenedFacts DEF Sound
        <3>. QED  BY <3>1
    <2>. HIDE DEF t
    <2>3. t \in Store
        BY <2>2 DEF Sound
    <2>4. /\ u \in Store /\ u.wire = t.wire /\ u.writer = t.writer
          /\ u.gate.failure = t.gate.failure /\ u.gate.state = "ended"
          /\ u.sock.state = IF t.sock.state = "open" THEN "ended" ELSE t.sock.state
        BY <2>3 DEF Store
    <2>. HIDE DEF u
    <2>5. Gone(u)
        BY <2>4 DEF Gone
    <2>6. Sound(u, k)
        BY <2>2, <2>4, <2>5, StillSound
    <2>. QED  BY <2>1, <2>2, <2>4, <2>6
<1>. QED  BY <1>1, <1>2

\* The gate disposed of
LEMMA ClosingSound ==
    ASSUME NEW s, NEW k \in Nat, Sound(s, k)
    PROVE  /\ Sound(Closing(s), k) /\ Closing(s).gate.state = "ended"
           /\ Closing(s).writer = s.writer /\ Closing(s).wire = s.wire
           /\ s.sock.state = "closed" => Closing(s).sock.state = "closed"
<1> DEFINE u == [s EXCEPT !.gate.state = "ended", !.gate.armed = FALSE,
                          !.sock.state = IF s.gate.state = "open" /\ @ = "open"
                                         THEN "ended" ELSE @]
<1>1. s \in Store
    BY DEF Sound
<1>2. /\ u \in Store /\ u.wire = s.wire /\ u.writer = s.writer
      /\ u.gate.failure = s.gate.failure /\ u.gate.state = "ended"
      /\ u.sock.state = IF s.gate.state = "open" /\ s.sock.state = "open"
                        THEN "ended" ELSE s.sock.state
    BY <1>1 DEF Store
<1>3. Closing(s) = u
    BY DEF Closing
<1>. HIDE DEF u
<1>4. Gone(u)
    BY <1>2 DEF Gone
<1>5. Sound(u, k)
    BY <1>2, <1>4, StillSound
<1>. QED  BY <1>2, <1>3, <1>5

\* The end written and the gate ended behind it, as one.
LEMMA FinishSound ==
    ASSUME NEW s, NEW k \in Nat, Sound(s, k), NEW full \in BOOLEAN
    PROVE  LET u == Ended(Written(s, Event("done"), full), full) IN
           /\ Sound(u, k) /\ u.gate.state = "ended"
           /\ u.writer.aborted = s.writer.aborted
           /\ s.sock.state = "closed" => u.sock.state = "closed"
           /\ ~Gone(s) => Complete(u.wire, k) /\ \E i \in DOMAIN u.wire : u.wire[i] = Event("done")
<1> DEFINE f == Event("done")
           v == Written(s, f, full)
           u == Ended(v, full)
<1>1. CASE Gone(s)
    <2>1. v = s
        BY <1>1 DEF Written
    <2>. QED  BY <1>1, <2>1, EndedSound
<1>2. CASE ~Gone(s)
    <2>1. /\ s \in Store /\ s.sock.state = "open" /\ s.gate.state \in {"held", "open"}
        BY <1>2 DEF Sound, PiecesSound, Gone, Store
    \* The answer as it was opened, and with the end behind it.
    <2>2. \E o : /\ Sound(o, k) /\ o.gate.state = "open" /\ ~Gone(o)
                 /\ o.sock.state = "open" /\ o.writer.aborted = s.writer.aborted
                 /\ v \in Store /\ v.wire = Append(o.wire, f)
                 /\ v.gate.state = "open" /\ v.gate.failure = o.gate.failure
                 /\ v.sock.state = "open" /\ v.writer.aborted = s.writer.aborted
        <3>1. CASE s.gate.state = "held"
            <4> DEFINE o == Opened(s, full)
            <4>1. v = Held(s, f, full)
                BY <1>2, <3>1 DEF Written
            <4>2. /\ Sound(o, k) /\ o.gate.state = "open" /\ ~Gone(o) /\ Behind(o, v, f)
                  /\ v.writer = s.writer /\ v.sock.state = s.sock.state
                BY <1>2, <3>1, <4>1, HeldOpens
            <4>. HIDE DEF o, v
            <4>3. /\ v \in Store /\ v.wire = Append(o.wire, f) /\ v.writer = o.writer
                  /\ v.gate.state = o.gate.state /\ v.gate.failure = o.gate.failure
                  /\ v.sock.state = o.sock.state
                BY <4>2 DEF Behind
            <4>. QED  BY <2>1, <4>2, <4>3
        <3>2. CASE s.gate.state = "open"
            <4> DEFINE o == Scanned(s, f)
                       t == OnWire(o, <<f>>, full)
                       p == [t EXCEPT !.writer.pending = TRUE]
            <4>1. /\ Sound(o, k) /\ o.wire = s.wire /\ o.writer = s.writer
                  /\ o.sock = s.sock /\ o.gate.state = s.gate.state
                BY ScannedSound
            <4>2. f \in Events
                BY EventTypes
            <4>3. v \in {t, p}
                BY <1>2, <3>2 DEF Written
            <4>. HIDE DEF o, f
            <4>4. o \in Store /\ ~Gone(o) /\ o.sock.state = "open" /\ o.gate.state = "open"
                BY <1>2, <2>1, <3>2, <4>1 DEF Sound, Gone
            <4>5. /\ t \in Store /\ t.gate = o.gate /\ t.writer = o.writer
                  /\ t.sock.state = o.sock.state /\ t.wire = Append(o.wire, f)
                BY <4>2, <4>4, OnWireFacts
            <4>. HIDE DEF t
            <4>6. /\ p \in Store /\ p.wire = t.wire /\ p.gate = t.gate /\ p.sock = t.sock
                  /\ p.writer.aborted = t.writer.aborted
                BY <4>5 DEF Store
            <4>. HIDE DEF p, v
            <4>. QED  BY <4>1, <4>3, <4>4, <4>5, <4>6
        <3>. QED  BY <2>1, <3>1, <3>2
    <2>3. PICK o :
              /\ Sound(o, k) /\ o.gate.state = "open" /\ ~Gone(o)
              /\ o.sock.state = "open" /\ o.writer.aborted = s.writer.aborted
              /\ v \in Store /\ v.wire = Append(o.wire, f)
              /\ v.gate.state = "open" /\ v.gate.failure = o.gate.failure
              /\ v.sock.state = "open" /\ v.writer.aborted = s.writer.aborted
        BY <2>2
    <2>. HIDE DEF v
    <2> DEFINE w == [v EXCEPT !.gate.state = "ended", !.gate.armed = FALSE,
                              !.sock.state = IF @ = "open" THEN "ended" ELSE @]
    <2>4. u = w
        BY <2>3 DEF Ended
    <2>5. /\ w \in Store /\ w.wire = v.wire /\ w.writer = v.writer
          /\ w.gate.failure = v.gate.failure /\ w.gate.state = "ended"
          /\ w.sock.state = "ended"
        BY <2>3 DEF Store
    <2>. HIDE DEF w
    <2>6. /\ Sound(w, k) /\ Complete(w.wire, k)
          /\ \E i \in DOMAIN w.wire : w.wire[i] = Event("done")
        BY <2>3, <2>5, DoneSound
    <2>. QED  BY <2>1, <2>3, <2>4, <2>5, <2>6 DEF v
<1>. QED  BY <1>1, <1>2
-----------------------------------------------------------------------------
LEMMA BecomesNow ==
    ASSUME NEW s, NEW k, Sound(s, k), Becomes(s)
    PROVE  Now' = s
    BY DEF Sound, Store, Becomes, Now

\* How the invariant is shown of a step: the writes are sound again, the
\* handler is in one of its states, and there is a reason when the gate ended.
LEMMA StepSound ==
    ASSUME Sound(Now, Handed)', ProdSound', EndSound'
    PROVE  EgressInv'
    BY DEF EgressInv

LEMMA NowFields == /\ Now.gate = gate /\ Now.wire = wire /\ Now.sock = sock /\ Now.writer = writer
                   /\ (Gone(Now) <=> gate.state = "ended" \/ writer.aborted)
    BY DEF Now, Gone

LEMMA InvFacts ==
    EgressInv => /\ Handed \in Nat /\ Sound(Now, Handed) /\ Now \in Store
                 /\ ProdSound /\ EndSound
<1> SUFFICES ASSUME EgressInv PROVE Handed \in Nat
    BY DEF EgressInv, Sound
<1>1. prod.said \in Nat /\ ProdSound
    BY DEF EgressInv, ProdSound
<1>2. (prod.pc = "send" /\ prod.frame.kind = "content") => prod.said > 0
    BY <1>1 DEF ProdSound, Event, Piece
<1>. QED  BY <1>1, <1>2 DEF Handed

LEMMA UpstreamSaysSound == EgressInv /\ UpstreamSays => EgressInv'
<1> SUFFICES ASSUME EgressInv, UpstreamSays PROVE EgressInv'
    OBVIOUS
<1>1. /\ prod.pc = "work" /\ ~writer.aborted /\ ~prod.ok
      /\ UNCHANGED <<gate, wire, sock, writer>>
    BY DEF UpstreamSays, EgressInv, ProdSound
<1>2. prod.said \in Nat /\ Handed = prod.said /\ Sound(Now, prod.said)
    BY <1>1 DEF EgressInv, ProdSound, Handed
<1>3. Now' = Now
    BY <1>1 DEF Now
<1>4. gate.state = "ended" => sock.state = "closed"
    BY <1>1 DEF EgressInv, EndSound
<1>5. ASSUME NEW f \in Events, NEW next \in {"work", "last"},
             \/ f = Event("error") /\ next = "last"
             \/ f = Event("prime") /\ next = "work"
             \/ f = Piece(prod.said + 1) /\ next = "work",
             SendThen(f, next)
      PROVE  EgressInv'
    <2> DEFINE said == IF f.kind = "content" THEN f.n ELSE prod.said
    <2>1. /\ said \in Nat /\ said = IF f = Piece(prod.said + 1) THEN prod.said + 1 ELSE prod.said
          /\ f.kind = "content" <=> f = Piece(prod.said + 1)
        BY <1>2, <1>5 DEF Event, Piece
    <2>. HIDE DEF said
    <2>2. CASE gate.state = "ended"
        <3>1. prod' = [prod EXCEPT !.pc = next, !.primed = prod.primed \/ f = Event("prime"),
                                   !.said = said]
            BY <1>5, <2>2 DEF SendThen, Goes, said
        <3>2. ProdSound'
            BY <1>1, <1>2, <2>1, <3>1 DEF EgressInv, ProdSound
        <3>3. Handed' = said
            BY <3>1, <2>1, <1>2 DEF Handed, EgressInv, ProdSound
        <3>4. Sound(Now, said)
            BY <1>2, <2>1, <2>2, SoundMore, NowFields
        <3>5. Sound(Now, Handed)'
            BY <3>3, <3>4, <1>3
        <3>6. EndSound'
            BY <1>1, <1>4, <3>1 DEF EndSound, EgressInv, ProdSound
        <3>. QED  BY <3>2, <3>5, <3>6 DEF EgressInv
    <2>3. CASE gate.state # "ended"
        <3>1. prod' = [prod EXCEPT !.pc = "send", !.frame = f, !.next = next,
                                   !.primed = prod.primed \/ f = Event("prime"),
                                   !.said = said,
                                   !.emitted = @ \/ f.kind = "content"]
            BY <1>5, <2>3 DEF SendThen, Goes, said
        <3>2. ProdSound'
            <4>1. /\ prod'.pc = "send" /\ prod'.frame = f /\ prod'.next = next
                  /\ prod'.said = said /\ prod'.ok = prod.ok
                BY <1>1, <3>1 DEF EgressInv, ProdSound
            <4>2. (f.kind = "content") \in BOOLEAN /\ (prod.emitted \/ f.kind = "content") \in BOOLEAN
                  /\ (prod.primed \/ f = Event("prime")) \in BOOLEAN
                OBVIOUS
            <4>3. prod' \in [pc : {"work", "send", "last", "returned"}, frame : Events,
                             next : {"none", "work", "last"}, primed : BOOLEAN, said : Nat,
                             ok : BOOLEAN, emitted : BOOLEAN]
                BY <1>5, <2>1, <3>1, <4>2 DEF EgressInv, ProdSound
            <4>4. f = Piece(prod.said + 1) => f = Piece(said) /\ said > 0
                BY <2>1, <1>2
            <4>. QED  BY <1>1, <1>5, <4>1, <4>3, <4>4 DEF ProdSound
        <3>3. Handed' = prod.said
            BY <3>1, <2>1, <1>2 DEF Handed, EgressInv, ProdSound
        <3>4. Sound(Now, Handed)'
            BY <3>3, <1>2, <1>3
        <3>5. EndSound'
            BY <1>1, <2>3, <3>1 DEF EndSound, EgressInv, ProdSound
        <3>. QED  BY <3>2, <3>4, <3>5 DEF EgressInv
    <2>. QED  BY <2>2, <2>3
<1>6. CASE SendThen(Event("prime"), "work") \/ SendThen(Event("error"), "last")
          \/ SendThen(Piece(prod.said + 1), "work")
    BY <1>2, <1>5, <1>6, EventTypes DEF Plain
<1>7. CASE prod' = [prod EXCEPT !.pc = "last", !.ok = TRUE]
    <2>1. ProdSound'
        BY <1>7 DEF EgressInv, ProdSound
    <2>2. Handed' = prod.said
        BY <1>7 DEF Handed, EgressInv, ProdSound
    <2>3. Sound(Now, Handed)'
        BY <2>2, <1>2, <1>3
    <2>4. EndSound'
        BY <1>1, <1>4, <1>7 DEF EndSound, EgressInv, ProdSound
    <2>. QED  BY <2>1, <2>3, <2>4 DEF EgressInv
<1>. QED  BY <1>6, <1>7 DEF UpstreamSays, Goes
LEMMA UpstreamAbortedSound == EgressInv /\ UpstreamAborted => EgressInv'
<1> SUFFICES ASSUME EgressInv, UpstreamAborted PROVE EgressInv'
    OBVIOUS
<1>1. /\ prod.pc = "work" /\ writer.aborted /\ prod' = [prod EXCEPT !.pc = "last"]
      /\ UNCHANGED <<gate, wire, sock, writer>>
    BY DEF UpstreamAborted, Goes
<1>2. ProdSound' /\ Handed' = Handed
    BY <1>1 DEF EgressInv, ProdSound, Handed
<1>3. Now' = Now
    BY <1>1 DEF Now
<1>4. Sound(Now, Handed)'
    BY <1>2, <1>3 DEF EgressInv
<1>5. EndSound'
    BY <1>1 DEF EndSound, EgressInv, ProdSound
<1>. QED  BY <1>2, <1>4, <1>5 DEF EgressInv

LEMMA SendFrameSound == EgressInv /\ SendFrame => EgressInv'
<1> SUFFICES ASSUME EgressInv, SendFrame PROVE EgressInv'
    OBVIOUS
<1> DEFINE f == prod.frame
           k == Handed
           next == IF Gone(Now) THEN "last" ELSE prod.next
<1>1. /\ prod.pc = "send" /\ ~prod.ok /\ Sound(Now, k)
      /\ prod' = [prod EXCEPT !.pc = next, !.frame = Event("none")]
    BY DEF SendFrame, Goes, EgressInv, ProdSound
<1>2. /\ k \in Nat /\ f \in Plain \cup {Piece(k + 1)}
      /\ prod.said = IF f = Piece(k + 1) THEN k + 1 ELSE k
      /\ f = Event("error") => prod.next = "last"
      /\ prod.next \in {"work", "last"}
    BY <1>1 DEF EgressInv, ProdSound, Handed, Event, Piece, Plain
<1>3. ProdSound' /\ prod'.pc = next /\ next \in {"work", "last"} /\ ~prod'.ok
    BY <1>1, <1>2, EventTypes DEF EgressInv, ProdSound
<1>4. Handed' = prod.said
    BY <1>1, <1>2 DEF Handed, EgressInv, ProdSound
<1>5. CASE Gone(Now)
    <2>1. Now' = Now
        BY <1>5 DEF SendFrame, Becomes, Now
    <2>2. Sound(Now, prod.said)
        BY <1>1, <1>2, <1>5, SoundMore
    <2>3. Sound(Now, Handed)'
        BY <1>4, <2>1, <2>2
    <2>4. EndSound'
        BY <1>1, <1>3, <1>5, <2>1 DEF EndSound, EgressInv, Now
    <2>. QED  BY <1>3, <2>3, <2>4 DEF EgressInv
<1>6. CASE ~Gone(Now)
    <2>1. PICK full \in BOOLEAN : Becomes(Written(Now, f, full))
        BY <1>6 DEF SendFrame
    <2> DEFINE t == Written(Now, f, full)
    <2>2. /\ Sound(t, prod.said) /\ t.writer.aborted = Now.writer.aborted
          /\ t.gate.state = "ended" => f = Event("error")
        BY <1>1, <1>2, <1>6, WrittenSound
    <2>. HIDE DEF t
    <2>3. Now' = t
        BY <2>1, <2>2, BecomesNow DEF t
    <2>4. Sound(Now, Handed)'
        BY <1>4, <2>2, <2>3
    <2>5. gate' = t.gate
        BY <2>1 DEF Becomes, t
    <2>6. gate'.state = "ended" => prod'.pc = "last"
        BY <1>2, <1>3, <1>6, <2>2, <2>5
    <2>7. EndSound'
        BY <1>3, <2>6 DEF EndSound
    <2>. QED  BY <1>3, <2>4, <2>7 DEF EgressInv
<1>. QED  BY <1>5, <1>6

LEMMA HandlerReturnsSound == EgressInv /\ HandlerReturns => EgressInv'
<1> SUFFICES ASSUME EgressInv, HandlerReturns PROVE EgressInv'
    OBVIOUS
<1>1. /\ prod.pc = "last" /\ prod' = [prod EXCEPT !.pc = "returned"]
      /\ Sound(Now, prod.said) /\ prod.said \in Nat
    BY DEF HandlerReturns, Goes, EgressInv, ProdSound, Handed
<1>2. ProdSound' /\ Handed' = prod.said /\ prod'.said = prod.said /\ prod'.ok = prod.ok
      /\ prod'.pc = "returned"
    BY <1>1 DEF EgressInv, ProdSound, Handed
<1>3. (gate.state = "ended" /\ prod.ok /\ ~writer.aborted) => sock.state = "closed"
    BY <1>1 DEF EgressInv, EndSound
\* What is closed, and what it carries when the turn ended well.
<1>4. \E u : /\ Sound(u, prod.said) /\ Becomes(Closing(u))
             /\ u.writer.aborted = writer.aborted
             /\ sock.state = "closed" => u.sock.state = "closed"
             /\ (prod.ok /\ ~writer.aborted) =>
                   \/ u.sock.state = "closed"
                   \/ /\ Complete(u.wire, prod.said)
                      /\ \E i \in DOMAIN u.wire : u.wire[i] = Event("done")
    <2>1. CASE Gone(Now) /\ Becomes(Closing(Now))
        BY <1>1, <1>3, <2>1, NowFields
    <2>2. CASE ~Gone(Now) /\ ~prod.ok
               /\ \E full \in BOOLEAN : Becomes(Closing(Ended(Now, full)))
        <3>1. PICK full \in BOOLEAN : Becomes(Closing(Ended(Now, full)))
            BY <2>2
        <3>2. /\ Sound(Ended(Now, full), prod.said) /\ Ended(Now, full).writer = writer
              /\ sock.state = "closed" => Ended(Now, full).sock.state = "closed"
            BY <1>1, EndedSound, NowFields
        <3>. QED  BY <2>2, <3>1, <3>2
    <2>3. CASE ~Gone(Now) /\ \E full \in BOOLEAN :
               Becomes(Closing(Ended(Written(Now, Event("done"), full), full)))
        <3>1. PICK full \in BOOLEAN :
                 Becomes(Closing(Ended(Written(Now, Event("done"), full), full)))
            BY <2>3
        <3> DEFINE u == Ended(Written(Now, Event("done"), full), full)
        <3>2. /\ Sound(u, prod.said) /\ u.writer.aborted = writer.aborted
              /\ sock.state = "closed" => u.sock.state = "closed"
              /\ Complete(u.wire, prod.said) /\ \E i \in DOMAIN u.wire : u.wire[i] = Event("done")
            BY <1>1, <2>3, FinishSound, NowFields
        <3>. QED  BY <3>1, <3>2
    <2>. QED  BY <2>1, <2>2, <2>3 DEF HandlerReturns
<1>5. PICK u : /\ Sound(u, prod.said) /\ Becomes(Closing(u))
               /\ u.writer.aborted = writer.aborted
               /\ sock.state = "closed" => u.sock.state = "closed"
               /\ (prod.ok /\ ~writer.aborted) =>
                     \/ u.sock.state = "closed"
                     \/ /\ Complete(u.wire, prod.said)
                        /\ \E i \in DOMAIN u.wire : u.wire[i] = Event("done")
    BY <1>4
<1> DEFINE c == Closing(u)
<1>6. /\ Sound(c, prod.said) /\ c.gate.state = "ended" /\ c.writer = u.writer
      /\ c.wire = u.wire
      /\ u.sock.state = "closed" => c.sock.state = "closed"
    BY <1>1, <1>5, ClosingSound
<1>. HIDE DEF c
<1>7. /\ gate' = c.gate /\ wire' = c.wire /\ sock' = c.sock /\ writer' = c.writer
      /\ Now' = c
    BY <1>5, <1>6, BecomesNow DEF Becomes, c
<1>8. Sound(Now, Handed)'
    BY <1>2, <1>6, <1>7
<1>9. (prod'.ok /\ ~writer'.aborted) =>
         \/ sock'.state = "closed"
         \/ On(Event("done"))' /\ Complete(wire', prod'.said)
    <2>1. wire' = u.wire /\ (u.sock.state = "closed" => sock'.state = "closed")
          /\ writer'.aborted = writer.aborted
        BY <1>5, <1>6, <1>7
    <2>2. (\E i \in DOMAIN u.wire : u.wire[i] = Event("done")) => On(Event("done"))'
        BY <2>1 DEF On
    <2>3. Complete(u.wire, prod.said) => Complete(wire', prod'.said)
        BY <2>1, <1>2
    <2>. QED  BY <1>2, <1>5, <2>1, <2>2, <2>3
<1>10. EndSound'
    BY <1>2, <1>6, <1>7, <1>9 DEF EndSound
<1>. QED  BY <1>2, <1>8, <1>10 DEF EgressInv
LEMMA HeartbeatSound == EgressInv /\ Heartbeat => EgressInv'
<1> SUFFICES ASSUME EgressInv, Heartbeat PROVE EgressInv'
    OBVIOUS
<1> DEFINE f == Event("ping")
           k == Handed
<1>1. /\ prod.pc # "returned" /\ gate.state # "ended" /\ prod' = prod
      /\ Sound(Now, k) /\ k \in Nat
    BY InvFacts DEF Heartbeat
<1>2. PICK full \in BOOLEAN : Becomes(Written(Now, f, full))
    BY DEF Heartbeat
<1> DEFINE t == Written(Now, f, full)
<1>3. f \in Plain /\ f # Piece(k + 1) /\ f # Event("error")
    BY DEF Plain, Event, Piece
<1>4. Sound(t, k) /\ t.gate.state # "ended"
    <2>1. CASE Gone(Now)
        BY <2>1, <1>1, NowFields DEF Written
    <2>2. CASE ~Gone(Now)
        BY <2>2, <1>1, <1>3, WrittenSound
    <2>. QED  BY <2>1, <2>2
<1>. HIDE DEF t
<1>5. Now' = t /\ gate' = t.gate
    BY <1>2, <1>4, BecomesNow DEF t, Becomes
<1>6. Handed' = Handed /\ ProdSound'
    BY <1>1 DEF Handed, EgressInv, ProdSound
<1>7. Sound(Now, Handed)'
    BY <1>4, <1>5, <1>6
<1>8. EndSound'
    BY <1>1, <1>4, <1>5 DEF EndSound
<1>. QED  BY <1>6, <1>7, <1>8 DEF EgressInv

LEMMA BootstrapTimeoutSound == EgressInv /\ BootstrapTimeout => EgressInv'
<1> SUFFICES ASSUME EgressInv, BootstrapTimeout PROVE EgressInv'
    OBVIOUS
<1> DEFINE k == Handed
<1>1. /\ gate.state = "held" /\ prod' = prod /\ prod.pc # "returned"
      /\ Sound(Now, k) /\ k \in Nat
    BY InvFacts DEF BootstrapTimeout, EndSound
<1>2. PICK full \in BOOLEAN : Becomes(Opened(Now, full))
    BY DEF BootstrapTimeout
<1> DEFINE t == Opened(Now, full)
<1>3. Sound(t, k)
    BY <1>1, OpenedSound, NowFields
<1>4. /\ t.writer = writer
      /\ t.gate.state = "ended" => sock.state # "open"
    BY <1>1, OpenedFacts, NowFields DEF Sound
<1>5. sock.state # "open" => writer.aborted
    BY <1>1, NowFields DEF Sound, PiecesSound
<1>. HIDE DEF t
<1>6. Now' = t /\ gate' = t.gate /\ writer' = t.writer
    BY <1>2, <1>3, BecomesNow DEF t, Becomes
<1>7. Handed' = Handed /\ ProdSound'
    BY <1>1 DEF Handed, EgressInv, ProdSound
<1>8. Sound(Now, Handed)'
    BY <1>3, <1>6, <1>7
<1>9. EndSound'
    BY <1>1, <1>4, <1>5, <1>6 DEF EndSound
<1>. QED  BY <1>7, <1>8, <1>9 DEF EgressInv

\* The client drains, or leaves.
LEMMA ClientDrainsSound == EgressInv /\ ClientDrains => EgressInv'
<1> SUFFICES ASSUME EgressInv, ClientDrains PROVE EgressInv'
    OBVIOUS
<1>1. /\ sock' = [sock EXCEPT !.full = FALSE] /\ writer' = [writer EXCEPT !.pending = FALSE]
      /\ prod' = prod /\ gate' = gate /\ wire' = wire
      /\ Sound(Now, Handed) /\ Handed \in Nat /\ Now \in Store
    BY InvFacts DEF ClientDrains
<1>2. /\ Now' \in Store /\ sock'.state = sock.state /\ writer'.aborted = writer.aborted
    BY <1>1 DEF Now, Store
<1>3. /\ Now'.wire = Now.wire /\ Now'.gate = Now.gate
      /\ Now'.sock.state = Now.sock.state /\ Now'.writer.aborted = Now.writer.aborted
    BY <1>1, <1>2 DEF Now
<1>4. Gone(Now') <=> Gone(Now)
    BY <1>3 DEF Gone
<1>5. Now.sock.state # "open" => Gone(Now)
    BY <1>1 DEF Sound, PiecesSound
<1>6. Sound(Now', Handed)
    BY <1>1, <1>2, <1>3, <1>4, <1>5, StillSound
<1>7. Handed' = Handed /\ ProdSound'
    BY <1>1 DEF Handed, EgressInv, ProdSound
<1>8. Sound(Now, Handed)'
    BY <1>6, <1>7
<1>9. EndSound'
    BY <1>1, <1>2 DEF EndSound, EgressInv, On
<1>. QED  BY <1>7, <1>8, <1>9 DEF EgressInv

LEMMA ClientClosesSound == EgressInv /\ ClientCloses => EgressInv'
<1> SUFFICES ASSUME EgressInv, ClientCloses PROVE EgressInv'
    OBVIOUS
<1>1. /\ sock' = [state |-> "closed", full |-> FALSE]
      /\ writer' = [writer EXCEPT !.pending = FALSE, !.aborted = @ \/ gate.state # "ended"]
      /\ prod' = prod /\ gate' = gate /\ wire' = wire
      /\ Sound(Now, Handed) /\ Handed \in Nat /\ Now \in Store
    BY InvFacts DEF ClientCloses
<1>2. (gate.state # "ended") \in BOOLEAN /\ (writer.aborted \/ gate.state # "ended") \in BOOLEAN
    OBVIOUS
<1>3. /\ Now' \in Store /\ sock'.state = "closed"
      /\ writer'.aborted = (writer.aborted \/ gate.state # "ended")
    BY <1>1, <1>2 DEF Now, Store
<1>4. /\ Now'.wire = Now.wire /\ Now'.gate = Now.gate /\ Now'.sock.state = "closed"
      /\ Gone(Now')
    BY <1>1, <1>3 DEF Now, Gone
<1>5. Sound(Now', Handed)
    BY <1>1, <1>3, <1>4, StillSound
<1>6. Handed' = Handed /\ ProdSound'
    BY <1>1 DEF Handed, EgressInv, ProdSound
<1>7. Sound(Now, Handed)'
    BY <1>5, <1>6
<1>8. EndSound'
    BY <1>1, <1>3 DEF EndSound, EgressInv
<1>. QED  BY <1>6, <1>7, <1>8 DEF EgressInv

\* The writer's timer, and the end of the process: an error, and all is aborted.
LEMMA DrainTimeoutSound == EgressInv /\ DrainTimeout => EgressInv'
<1> SUFFICES ASSUME EgressInv, DrainTimeout PROVE EgressInv'
    OBVIOUS
<1> DEFINE k == Handed
           f == Event("error")
           m == [Now EXCEPT !.writer.timedOut = TRUE]
           t == Written(m, f, TRUE)
           a == Aborted(t)
<1>1. /\ prod' = prod /\ Becomes(a) /\ Sound(Now, k) /\ k \in Nat /\ Now \in Store
    BY InvFacts DEF DrainTimeout
<1>2. /\ m \in Store /\ m.wire = Now.wire /\ m.gate = Now.gate /\ m.sock = Now.sock
      /\ m.writer.aborted = Now.writer.aborted
    BY <1>1 DEF Store
<1>. HIDE DEF m
<1>3. Gone(m) <=> Gone(Now)
    BY <1>2 DEF Gone
<1>4. Now.sock.state # "open" => Gone(Now)
    BY <1>1 DEF Sound, PiecesSound
<1>5. Sound(m, k)
    BY <1>1, <1>2, <1>3, <1>4, StillSound
<1>6. Sound(t, k) /\ (gate.state = "ended" => t.gate.state = "ended")
    <2>1. CASE Gone(m)
        BY <2>1, <1>2, <1>5, NowFields DEF Written
    <2>2. CASE ~Gone(m)
        <3>1. f \in Plain /\ f # Piece(k + 1)
            BY DEF Plain, Event, Piece
        <3>2. Sound(t, k)
            BY <1>1, <1>5, <2>2, <3>1, WrittenSound
        <3>. QED  BY <2>2, <1>3, <3>2, NowFields
    <2>. QED  BY <2>1, <2>2
<1>. HIDE DEF t
<1>7. /\ Sound(a, k) /\ a.writer.aborted /\ a.gate = t.gate
    BY <1>1, <1>6, AbortedSound
<1>. HIDE DEF a
<1>8. Now' = a /\ gate' = a.gate /\ writer' = a.writer
    BY <1>1, <1>7, BecomesNow DEF Becomes
<1>9. Handed' = Handed /\ ProdSound'
    BY <1>1 DEF Handed, EgressInv, ProdSound
<1>10. Sound(Now, Handed)'
    BY <1>7, <1>8, <1>9
<1>11. EndSound'
    BY <1>1, <1>6, <1>7, <1>8 DEF EndSound, EgressInv
<1>. QED  BY <1>9, <1>10, <1>11 DEF EgressInv

LEMMA ShutDownSound == EgressInv /\ ShutDown => EgressInv'
<1> SUFFICES ASSUME EgressInv, ShutDown PROVE EgressInv'
    OBVIOUS
<1>1. PICK full \in BOOLEAN :
         LET s == Written(Now, Event("error"), full) IN
         Becomes(Aborted(IF s.gate.state = "ended" THEN s
                         ELSE Ended(Written(s, Event("done"), full), full)))
    BY DEF ShutDown
<1> DEFINE k == Handed
           f == Event("error")
           s == Written(Now, f, full)
           t == IF s.gate.state = "ended" THEN s
                ELSE Ended(Written(s, Event("done"), full), full)
           a == Aborted(t)
<1>2. /\ prod' = prod /\ Becomes(a) /\ Sound(Now, k) /\ k \in Nat /\ prod.pc # "returned"
    BY <1>1, InvFacts DEF ShutDown
<1>3. Sound(s, k)
    <2>1. CASE Gone(Now)
        BY <2>1, <1>2 DEF Written
    <2>2. CASE ~Gone(Now)
        <3>1. f \in Plain /\ f # Piece(k + 1)
            BY DEF Plain, Event, Piece
        <3>. QED  BY <1>2, <2>2, <3>1, WrittenSound
    <2>. QED  BY <2>1, <2>2
<1>. HIDE DEF s
<1>4. Sound(t, k)
    BY <1>2, <1>3, FinishSound
<1>. HIDE DEF t
<1>5. /\ Sound(a, k) /\ a.writer.aborted
    BY <1>2, <1>4, AbortedSound
<1>. HIDE DEF a
<1>6. Now' = a /\ writer' = a.writer
    BY <1>2, <1>5, BecomesNow DEF Becomes
<1>7. Handed' = Handed /\ ProdSound'
    BY <1>2 DEF Handed, EgressInv, ProdSound
<1>8. Sound(Now, Handed)'
    BY <1>5, <1>6, <1>7
<1>9. EndSound'
    BY <1>2, <1>5, <1>6 DEF EndSound
<1>. QED  BY <1>7, <1>8, <1>9 DEF EgressInv

-----------------------------------------------------------------------------
LEMMA EgressInitSound == EgressInit => EgressInv
<1> SUFFICES ASSUME EgressInit PROVE EgressInv
    OBVIOUS
<1>1. /\ wire = <<>> /\ <<>> \in Seq(Events) /\ <<>> \in Seq(Boot) /\ DOMAIN <<>> = {}
    BY DEF EgressInit
<1>2. ProdSound /\ Handed = 0 /\ EndSound
    BY EventTypes DEF EgressInit, ProdSound, Handed, EndSound, Event
<1>3. Now \in Store
    BY <1>1 DEF EgressInit, Now, Store
<1>4. WireSound(Now.wire, 0) /\ ErrorsFiled(Now) /\ EndIsLast(Now)
    BY <1>1, NowFields DEF WireSound, ErrorsFiled, EndIsLast
<1>5. GateSound(Now) /\ PiecesSound(Now, 0)
    BY <1>1, NowFields DEF EgressInit, GateSound, PiecesSound, Complete
<1>. QED  BY <1>2, <1>3, <1>4, <1>5 DEF EgressInv, Sound

LEMMA EgressInvHonest == EgressInv => EgressHonest
<1> SUFFICES ASSUME EgressInv PROVE EgressHonest
    OBVIOUS
<1>1. /\ WireSound(wire, Handed) /\ ErrorsFiled(Now) /\ EndIsLast(Now) /\ EndSound
    BY NowFields DEF EgressInv, Sound
<1>2. OneStatus
    BY <1>1 DEF OneStatus, WireSound, On
<1>3. InOrder
    BY <1>1 DEF InOrder, WireSound
<1>4. DoneIsLast
    BY <1>1, NowFields DEF DoneIsLast, EndIsLast, EndSound, Complete, On
<1>5. FailureIsFiled
    BY <1>1, NowFields DEF FailureIsFiled, ErrorsFiled, On
<1>. QED  BY <1>2, <1>3, <1>4, <1>5 DEF EgressHonest

\* What a streaming client was sent is honest.
THEOREM EgressStaysHonest == EgressSpec => []EgressHonest
<1>1. EgressInv /\ UNCHANGED egressVars => EgressInv'
    <2> SUFFICES ASSUME EgressInv, UNCHANGED egressVars PROVE EgressInv'
        OBVIOUS
    <2>1. Now' = Now /\ Handed' = Handed /\ ProdSound' /\ EndSound'
        BY DEF egressVars, Now, Handed, EgressInv, ProdSound, EndSound, On
    <2>. QED  BY <2>1 DEF EgressInv
<1>2. EgressInv /\ [EgressNext]_egressVars => EgressInv'
    BY <1>1, UpstreamSaysSound, UpstreamAbortedSound, SendFrameSound, HandlerReturnsSound,
       HeartbeatSound, BootstrapTimeoutSound, DrainTimeoutSound, ClientDrainsSound,
       ClientClosesSound, ShutDownSound DEF EgressNext
<1>. QED  BY <1>2, EgressInitSound, EgressInvHonest, PTL DEF EgressSpec

-----------------------------------------------------------------------------
(* The translated stream.                                                  *)

ToolState == [name : {"none", "partial", "settled"}, block : {"none", "open", "closed"},
              sent : Nat, pending : Nat]
Delta == [kind : TextKinds, no : Nat]

Translators == [current : {NoBlock} \cup TextKinds \cup Tools, held : Seq(Delta), order : Seq(Tools),
                shown : Seq(Nat), end : {"no", "stop", "error"}, tools : [Tools -> ToolState]]

\* The blocks of a translator: the one that is open is the current one, and those that
\* are closed are whole, or empty.
BlocksOK(x) ==
    /\ x \in Translators
    /\ \A t \in Tools : x.tools[t].block = "open" => x.current = t \/ x.end = "error"
    /\ OnTool(x) => x.tools[x.current].block = "open"
    /\ \A t \in Tools : x.tools[t].block = "closed" => x.tools[t].sent \in {0, Whole}

\* The texts, and the tools in order, are untouched from x to y.
TextsSame(x, y) == y.held = x.held /\ y.shown = x.shown /\ y.order = x.order

\* And the tools, but for t.
ToolsSame(x, y, t) == \A u \in Tools : u # t => y.tools[u] = x.tools[u]

\* What has arrived of the texts, up to the last one, is shown or held.
TextsOK(x, n) ==
    /\ Len(x.shown) + Len(x.held) = n
    /\ AllOf(x.shown) \cup {d.no : d \in AllOf(x.held)} = 1 .. n

\* A stream that stopped normally.
StoppedOK(x, n) ==
    /\ Len(x.shown) = n /\ AllOf(x.shown) = 1 .. n
    /\ \A t \in Tools : x.tools[t].pending = 0 /\ x.tools[t].block # "open"

TranslatorInv ==
    /\ BlocksOK(out) /\ texts \in Nat
    /\ out.end = "no" => TextsOK(out, texts)
    /\ out.end = "stop" => signal = "terminal" /\ StoppedOK(out, texts)

\* The fields of a translator.
LEMMA TranslatorFields ==
  ASSUME NEW x \in Translators
  PROVE  /\ x.current \in {NoBlock} \cup TextKinds \cup Tools /\ x.held \in Seq(Delta)
         /\ x.order \in Seq(Tools) /\ x.shown \in Seq(Nat) /\ x.end \in {"no", "stop", "error"}
         /\ x.tools \in [Tools -> ToolState]
         /\ \A t \in Tools : x.tools[t].sent \in Nat /\ x.tools[t].pending \in Nat
BY DEF Translators, ToolState

\* A translator with the block c, whose tool t is b, and which has ended as e.
WithTool(x, t, b, c, e) ==
    [current |-> c, held |-> x.held, order |-> x.order, shown |-> x.shown,
     end |-> e, tools |-> [x.tools EXCEPT ![t] = b]]

LEMMA TranslatorWritten ==
  ASSUME NEW x \in Translators, NEW t \in Tools, NEW b \in ToolState,
         NEW c \in {NoBlock} \cup TextKinds \cup Tools, NEW e \in {"no", "stop", "error"}
  PROVE  /\ WithTool(x, t, b, c, e) \in Translators /\ TextsSame(x, WithTool(x, t, b, c, e))
         /\ WithTool(x, t, b, c, e).current = c /\ WithTool(x, t, b, c, e).end = e
         /\ WithTool(x, t, b, c, e).tools[t] = b
         /\ ToolsSame(x, WithTool(x, t, b, c, e), t)
<1>1. [x.tools EXCEPT ![t] = b] \in [Tools -> ToolState]
  BY TranslatorFields
<1> QED BY <1>1, TranslatorFields DEF Translators, TextsSame, ToolsSame, WithTool

\* A tool that has sent m fragments and holds n, and one whose block is k.
Fed(b, m, n)  == [b EXCEPT !.sent = m, !.pending = n]
Blocked(b, k) == [b EXCEPT !.block = k]

\* What is flushed of the open tool.
LEMMA FlushedIs ==
  ASSUME NEW x \in Translators, OnTool(x)
  PROVE  Flushed(x) = WithTool(x, x.current, Fed(x.tools[x.current], Received(x, x.current), 0),
                              x.current, x.end)
BY DEF Translators, Flushed, OnTool, WithTool, Fed

\* Which fields of a tool stay as they are.
LEMMA ToolWritten ==
  ASSUME NEW b \in ToolState, NEW m \in Nat, NEW n \in Nat, NEW k \in {"none", "open", "closed"}
  PROVE  /\ Fed(b, m, n) \in ToolState /\ Fed(b, m, n).block = b.block
         /\ Fed(b, m, n).sent = m /\ Fed(b, m, n).pending = n
         /\ Blocked(b, k) \in ToolState /\ Blocked(b, k).block = k
         /\ Blocked(b, k).sent = b.sent /\ Blocked(b, k).pending = b.pending
BY DEF ToolState, Fed, Blocked

\* Fragments go out: the blocks are what they were, and none of the open tool waits.
LEMMA FlushedOK ==
  ASSUME NEW x, BlocksOK(x)
  PROVE  /\ BlocksOK(Flushed(x)) /\ TextsSame(x, Flushed(x))
         /\ Flushed(x).current = x.current /\ Flushed(x).end = x.end
         /\ \A t \in Tools : /\ Flushed(x).tools[t].block = x.tools[t].block
                             /\ x.tools[t].pending = 0 => Flushed(x).tools[t].pending = 0
         /\ ~OnTool(x) => Flushed(x) = x
         /\ OnTool(x) => Flushed(x).tools[x.current].sent = Received(x, x.current)
<1>1. CASE ~OnTool(x)
  BY <1>1 DEF Flushed, TextsSame
<1>2. CASE OnTool(x)
  <2> DEFINE c == x.current
             b == Fed(x.tools[c], Received(x, c), 0)
             y == Flushed(x)
  <2>1. x \in Translators /\ c \in Tools /\ x.tools[c] \in ToolState /\ x.tools[c].block = "open"
    BY <1>2, TranslatorFields DEF BlocksOK, OnTool
  <2>2. Received(x, c) \in Nat
    BY <2>1 DEF Received, ToolState
  <2>3. b \in ToolState /\ b.block = "open" /\ b.sent = Received(x, c) /\ b.pending = 0
    <3>1. PICK n \in Nat : n = Received(x, c)
      BY <2>2
    <3> QED BY <2>1, <3>1, ToolWritten
  <2>4. y = WithTool(x, c, b, x.current, x.end)
    BY <1>2, <2>1, FlushedIs
  <2>5. x.current \in {NoBlock} \cup TextKinds \cup Tools /\ x.end \in {"no", "stop", "error"}
    BY <2>1, TranslatorFields
  <2> HIDE DEF b, c, y
  <2>6. /\ y \in Translators /\ TextsSame(x, y) /\ y.current = x.current /\ y.end = x.end
        /\ y.tools[c] = b /\ ToolsSame(x, y, c)
    BY <2>1, <2>3, <2>4, <2>5, TranslatorWritten
  <2>7. BlocksOK(y)
    BY <1>2, <2>1, <2>3, <2>6 DEF BlocksOK, ToolsSame, OnTool, c
  <2>8. /\ BlocksOK(y) /\ TextsSame(x, y) /\ y.current = x.current /\ y.end = x.end
        /\ \A t \in Tools : /\ y.tools[t].block = x.tools[t].block
                            /\ x.tools[t].pending = 0 => y.tools[t].pending = 0
        /\ y.tools[c].sent = Received(x, c)
    BY <2>1, <2>3, <2>6, <2>7 DEF ToolsSame
  <2> QED BY <1>2, <2>8 DEF y, c
<1> QED BY <1>1, <1>2

\* A block that can be closed is closed: no tool is open then, but where the stream
\* has failed before.
LEMMA ClosedOK ==
  ASSUME NEW x, BlocksOK(x), Closable(x)
  PROVE  /\ BlocksOK(Closed(x)) /\ TextsSame(x, Closed(x))
         /\ Closed(x).current = NoBlock /\ Closed(x).end = x.end
         /\ \A t \in Tools : /\ x.tools[t].block # "open" => Closed(x).tools[t] = x.tools[t]
                             /\ x.tools[t].pending = 0 => Closed(x).tools[t].pending = 0
<1>1. CASE ~OnTool(x)
  <2>1. Closed(x) = [current |-> NoBlock, held |-> x.held, order |-> x.order, shown |-> x.shown,
                     end |-> x.end, tools |-> x.tools]
    BY <1>1 DEF Closed, BlocksOK, Translators
  <2>2. NoBlock \notin Tools
    BY TranslatorAssumption
  <2>3. Closed(x) \in Translators
    BY <2>1, TranslatorFields DEF Translators, BlocksOK
  <2> QED BY <1>1, <2>1, <2>2, <2>3 DEF BlocksOK, TextsSame, OnTool
<1>2. CASE OnTool(x)
  <2> DEFINE c == x.current
             z == Flushed(x)
             b == Blocked(z.tools[c], "closed")
             y == Closed(x)
  <2>1. /\ BlocksOK(z) /\ TextsSame(x, z) /\ z.current = c /\ z.end = x.end
        /\ \A t \in Tools : /\ z.tools[t].block = x.tools[t].block
                            /\ x.tools[t].pending = 0 => z.tools[t].pending = 0
        /\ z.tools[c].sent = Received(x, c)
    BY <1>2, FlushedOK
  <2>2. c \in Tools /\ x.tools[c].block = "open" /\ Received(x, c) \in {0, Whole}
    BY <1>2 DEF BlocksOK, OnTool, Closable
  <2>3. y = [z EXCEPT !.tools[c].block = "closed", !.current = NoBlock]
    BY <1>2 DEF Closed
  <2>4. \A t \in Tools : t # c => z.tools[t] = x.tools[t]
    <3>1. x \in Translators /\ z = WithTool(x, c, Fed(x.tools[c], Received(x, c), 0), c, x.end)
      BY <1>2, FlushedIs DEF BlocksOK
    <3>2. x.tools \in [Tools -> ToolState]
      BY <3>1, TranslatorFields
    <3> HIDE DEF z
    <3> QED BY <2>2, <3>1, <3>2 DEF WithTool
  <2> HIDE DEF z, c, y
  <2>5. y = WithTool(z, c, b, NoBlock, z.end)
    BY <2>1, <2>2, <2>3 DEF BlocksOK, Translators, WithTool, Blocked
  <2>6. b \in ToolState /\ b.block = "closed" /\ b.sent = Received(x, c) /\ b.pending = z.tools[c].pending
    <3>1. z.tools[c] \in ToolState
      BY <2>1, <2>2, TranslatorFields DEF BlocksOK
    <3> QED BY <2>1, <3>1, ToolWritten
  <2> HIDE DEF b
  <2>7. NoBlock \in {NoBlock} \cup TextKinds \cup Tools /\ z.end \in {"no", "stop", "error"} /\ z \in Translators
    BY <2>1, TranslatorFields DEF BlocksOK
  <2>8. /\ y \in Translators /\ TextsSame(z, y) /\ y.current = NoBlock /\ y.end = z.end
        /\ y.tools[c] = b /\ ToolsSame(z, y, c)
    BY <2>2, <2>5, <2>6, <2>7, TranslatorWritten
  <2>9. BlocksOK(y)
    <3>1. NoBlock \notin Tools
      BY TranslatorAssumption
    <3>2. \A t \in Tools : z.tools[t].block = "open" => t = c \/ z.end = "error"
      BY <2>1 DEF BlocksOK
    <3>3. \A t \in Tools : y.tools[t].block = "open" => y.end = "error"
      BY <2>6, <2>8, <3>2 DEF ToolsSame
    <3>4. \A t \in Tools : y.tools[t].block = "closed" => y.tools[t].sent \in {0, Whole}
      BY <2>1, <2>2, <2>6, <2>8 DEF BlocksOK, ToolsSame
    <3> QED BY <2>8, <3>1, <3>3, <3>4 DEF BlocksOK, OnTool
  <2>10. TextsSame(x, y)
    BY <2>1, <2>8 DEF TextsSame
  <2>11. \A t \in Tools : /\ x.tools[t].block # "open" => y.tools[t] = x.tools[t]
                          /\ x.tools[t].pending = 0 => y.tools[t].pending = 0
    BY <2>1, <2>2, <2>4, <2>6, <2>8 DEF ToolsSame
  <2> QED BY <2>1, <2>8, <2>9, <2>10, <2>11 DEF y
<1> QED BY <1>1, <1>2

\* A stream that fails: a block that is not whole is left open.
LEMMA FailedOK ==
  ASSUME NEW x, BlocksOK(x)
  PROVE  BlocksOK(Failed(x)) /\ TextsSame(x, Failed(x)) /\ Failed(x).end = "error"
<1> DEFINE z == IF Closable(x) THEN Closed(x) ELSE [Flushed(x) EXCEPT !.current = NoBlock]
           y == Failed(x)
<1>1. /\ z \in Translators /\ TextsSame(x, z) /\ z.current = NoBlock
      /\ \A t \in Tools : z.tools[t].block = "closed" => z.tools[t].sent \in {0, Whole}
  <2>1. CASE Closable(x)
    BY <2>1, ClosedOK DEF BlocksOK
  <2>2. CASE ~Closable(x)
    <3> DEFINE f == Flushed(x)
    <3>1. BlocksOK(f) /\ TextsSame(x, f)
      BY FlushedOK
    <3>2. z = [f EXCEPT !.current = NoBlock]
      BY <2>2
    <3> HIDE DEF f, z
    <3>3. z = [current |-> NoBlock, held |-> f.held, order |-> f.order, shown |-> f.shown,
               end |-> f.end, tools |-> f.tools]
      BY <3>1, <3>2 DEF BlocksOK, Translators
    <3>4. z \in Translators
      BY <3>1, <3>3, TranslatorFields DEF BlocksOK, Translators
    <3> QED BY <3>1, <3>3, <3>4 DEF BlocksOK, TextsSame
  <2> QED BY <2>1, <2>2
<1>2. y = [z EXCEPT !.end = "error"]
  BY DEF Failed
<1> HIDE DEF y, z
<1>3. y = [current |-> NoBlock, held |-> z.held, order |-> z.order, shown |-> z.shown,
           end |-> "error", tools |-> z.tools]
  BY <1>1, <1>2 DEF Translators
<1>4. y \in Translators
  BY <1>1, <1>3, TranslatorFields DEF Translators
<1>5. NoBlock \notin Tools
  BY TranslatorAssumption
<1>6. BlocksOK(y) /\ TextsSame(x, y) /\ y.end = "error"
  BY <1>1, <1>3, <1>4, <1>5 DEF BlocksOK, TextsSame, OnTool
<1> QED BY <1>6 DEF y

\* A text goes out, in a block of its kind.
LEMMA EmittedOK ==
  ASSUME NEW x, BlocksOK(x), Closable(x), NEW d \in Delta
  PROVE  /\ BlocksOK(Emitted(x, d)) /\ ~OnTool(Emitted(x, d)) /\ Emitted(x, d).end = x.end
         /\ Emitted(x, d).held = x.held /\ Emitted(x, d).order = x.order
         /\ Emitted(x, d).shown = Append(x.shown, d.no)
         /\ ~OnTool(x) => Emitted(x, d).tools = x.tools
<1> DEFINE c == Closed(x)
           z == IF x.current = d.kind THEN x ELSE [c EXCEPT !.current = d.kind]
           y == Emitted(x, d)
<1>1. d.kind \in TextKinds /\ d.no \in Nat /\ d.kind \notin Tools
  BY TranslatorAssumption DEF Delta
<1>2. BlocksOK(c) /\ TextsSame(x, c) /\ c.current = NoBlock /\ c.end = x.end
  BY ClosedOK
<1>3. ~OnTool(x) => c.tools = x.tools
  BY DEF Closed, BlocksOK, Translators
<1>4. y = [z EXCEPT !.shown = Append(@, d.no)]
  BY DEF Emitted
<1> HIDE DEF c
<1>5. /\ BlocksOK(z) /\ z.current = d.kind /\ TextsSame(x, z) /\ z.end = x.end
      /\ ~OnTool(x) => z.tools = x.tools
  <2>1. CASE x.current = d.kind
    BY <2>1 DEF TextsSame
  <2>2. CASE x.current # d.kind
    <3>1. z = [c EXCEPT !.current = d.kind]
      BY <2>2
    <3> HIDE DEF z
    <3>2. z = [current |-> d.kind, held |-> c.held, order |-> c.order, shown |-> c.shown,
               end |-> c.end, tools |-> c.tools]
      BY <1>2, <3>1 DEF BlocksOK, Translators
    <3>3. z \in Translators
      BY <1>1, <1>2, <3>2, TranslatorFields DEF BlocksOK, Translators
    <3>4. \A t \in Tools : c.tools[t].block = "open" => c.end = "error"
      BY <1>2, TranslatorAssumption DEF BlocksOK
    <3> QED BY <1>1, <1>2, <1>3, <3>2, <3>3, <3>4 DEF BlocksOK, TextsSame, OnTool
  <2> QED BY <2>1, <2>2
<1> HIDE DEF y, z
<1>6. y = [current |-> d.kind, held |-> z.held, order |-> z.order, shown |-> Append(z.shown, d.no),
           end |-> z.end, tools |-> z.tools]
  BY <1>4, <1>5 DEF BlocksOK, Translators
<1>7. y \in Translators
  <2>1. Append(z.shown, d.no) \in Seq(Nat)
    BY <1>1, <1>5, TranslatorFields DEF BlocksOK
  <2> QED BY <1>1, <1>5, <1>6, <2>1, TranslatorFields DEF BlocksOK, Translators
<1>8. BlocksOK(y) /\ ~OnTool(y)
  BY <1>1, <1>5, <1>6, <1>7 DEF BlocksOK, OnTool
<1>9. /\ BlocksOK(y) /\ ~OnTool(y) /\ y.end = x.end /\ y.held = x.held /\ y.order = x.order
      /\ y.shown = Append(x.shown, d.no) /\ (~OnTool(x) => y.tools = x.tools)
  BY <1>5, <1>6, <1>8 DEF TextsSame
<1> QED BY <1>9 DEF y

\* The block of a tool that had none is opened.
LEMMA ToolOpenedOK ==
  ASSUME NEW x, BlocksOK(x), Closable(x), NEW t \in Tools, x.tools[t].block = "none"
  PROVE  /\ BlocksOK(ToolOpened(x, t)) /\ TextsSame(x, ToolOpened(x, t)) /\ ToolOpened(x, t).end = x.end
         /\ ToolOpened(x, t).current = t
<1> DEFINE c == Closed(x)
           y == ToolOpened(x, t)
           b == Blocked(c.tools[t], "open")
<1>1. /\ BlocksOK(c) /\ TextsSame(x, c) /\ c.current = NoBlock /\ c.end = x.end
  BY ClosedOK
<1>2. y = [c EXCEPT !.current = t, !.tools[t].block = "open"]
  BY DEF ToolOpened
<1> HIDE DEF c, y
<1>3. y = WithTool(c, t, b, t, c.end)
  BY <1>1, <1>2 DEF BlocksOK, Translators, WithTool, Blocked
<1>4. b \in ToolState /\ b.block = "open"
  <2>1. c.tools[t] \in ToolState
    BY <1>1, TranslatorFields DEF BlocksOK
  <2> QED BY <2>1, ToolWritten
<1> HIDE DEF b
<1>5. t \in {NoBlock} \cup TextKinds \cup Tools /\ c.end \in {"no", "stop", "error"} /\ c \in Translators
  BY <1>1, TranslatorFields DEF BlocksOK
<1>6. /\ y \in Translators /\ TextsSame(c, y) /\ y.current = t /\ y.end = c.end
      /\ y.tools[t] = b /\ ToolsSame(c, y, t)
  BY <1>3, <1>4, <1>5, TranslatorWritten
<1>7. NoBlock \notin Tools
  BY TranslatorAssumption
<1>8. BlocksOK(y)
  BY <1>1, <1>4, <1>6, <1>7 DEF BlocksOK, OnTool, ToolsSame
<1>9. BlocksOK(y) /\ TextsSame(x, y) /\ y.end = x.end /\ y.current = t
  BY <1>1, <1>6, <1>8 DEF TextsSame
<1> QED BY <1>9 DEF y

-----------------------------------------------------------------------------
\* What may come of x while the tools that are held are opened.
OpenedFrom(x) == {y \in Translators : BlocksOK(y) /\ TextsSame(x, y) /\ y.end # "stop"}

\* A tool that is held is opened, or fails the stream.
LEMMA HeldToolOK ==
  ASSUME NEW x, NEW y \in OpenedFrom(x), NEW t \in Tools
  PROVE  HeldTool(y, t) \in OpenedFrom(x)
<1>1. BlocksOK(y) /\ TextsSame(x, y) /\ y.end # "stop"
  BY DEF OpenedFrom
<1>2. CASE y.end # "no" \/ y.tools[t].block # "none" \/ y.tools[t].name = "none"
  BY <1>2 DEF HeldTool
<1>3. CASE y.end = "no" /\ y.tools[t].block = "none" /\ y.tools[t].name # "none" /\ ~Closable(y)
  <2>1. HeldTool(y, t) = Failed(y)
    BY <1>3 DEF HeldTool
  <2>2. BlocksOK(Failed(y)) /\ TextsSame(y, Failed(y)) /\ Failed(y).end = "error"
    BY <1>1, FailedOK
  <2> QED BY <1>1, <2>1, <2>2 DEF OpenedFrom, TextsSame, BlocksOK
<1>4. CASE y.end = "no" /\ y.tools[t].block = "none" /\ y.tools[t].name # "none" /\ Closable(y)
  <2> DEFINE z == ToolOpened(y, t)
  <2>1. HeldTool(y, t) = Flushed(z)
    BY <1>4 DEF HeldTool
  <2>2. BlocksOK(z) /\ TextsSame(y, z) /\ z.end = y.end
    BY <1>1, <1>4, ToolOpenedOK
  <2> HIDE DEF z
  <2>3. BlocksOK(Flushed(z)) /\ TextsSame(z, Flushed(z)) /\ Flushed(z).end = z.end
    BY <2>2, FlushedOK
  <2> QED BY <1>1, <2>1, <2>2, <2>3 DEF OpenedFrom, TextsSame, BlocksOK
<1> QED BY <1>2, <1>3, <1>4

\* All of them.
LEMMA HeldToolsOK ==
  ASSUME NEW x, BlocksOK(x), x.end = "no"
  PROVE  HeldTools(x) \in OpenedFrom(x)
<1> DEFINE V == OpenedFrom(x)
           n == Len(x.order)
           step == [p \in V \X (1 .. n) |-> HeldTool(p[1], x.order[p[2]])]
           Is(f) == f = [i \in 0 .. n |-> IF i = 0 THEN x ELSE HeldTool(f[i - 1], x.order[i])]
<1>1. x \in V /\ n \in Nat /\ x.order \in Seq(Tools)
  BY TranslatorFields DEF OpenedFrom, BlocksOK, TextsSame
<1>2. \A v \in V, i \in 1 .. n : HeldTool(v, x.order[i]) \in V
  <2>1. \A i \in 1 .. n : x.order[i] \in Tools
    BY <1>1
  <2> QED BY <2>1, HeldToolOK
<1> HIDE DEF V, n
<1>3. \A v \in V, i \in 1 .. n : step[<<v, i>>] = HeldTool(v, x.order[i])
  OBVIOUS
<1>4. step \in [V \X (1 .. n) -> V]
  <2>1. \A p \in V \X (1 .. n) : HeldTool(p[1], x.order[p[2]]) \in V
    BY <1>2
  <2> QED BY <2>1
<1> HIDE DEF step
<1>5. PICK f : f \in [0 .. n -> V] /\ Steps(f, x, step, n)
  BY <1>1, <1>4, Recursion
<1>6. f[0] = x /\ \A i \in 1 .. n : f[i] = step[<<f[i - 1], i>>]
  <2>1. 0 \in 0 .. n /\ \A i \in 1 .. n : i \in 0 .. n /\ i # 0
    BY <1>1
  <2> QED BY <1>5, <2>1 DEF Steps
<1>7. \A i \in 1 .. n : f[i] = HeldTool(f[i - 1], x.order[i])
  <2> SUFFICES ASSUME NEW i \in 1 .. n PROVE f[i] = HeldTool(f[i - 1], x.order[i])
    OBVIOUS
  <2>1. i - 1 \in 0 .. n
    BY <1>1
  <2>2. f[i - 1] \in V
    BY <1>5, <2>1
  <2> QED BY <1>3, <1>6, <2>2
<1>8. Is(f)
  <2>1. \A i \in 0 .. n : i # 0 => i \in 1 .. n
    BY <1>1
  <2> QED BY <1>5, <1>6, <1>7, <2>1
<1>9. ASSUME NEW g, Is(g) PROVE g[n] = f[n]
  <2>1. 0 \in 0 .. n /\ \A i \in 1 .. n : i \in 0 .. n /\ i # 0
    BY <1>1
  <2>2. g[0] = x
    BY <1>9, <2>1
  <2>3. \A i \in 1 .. n : g[i] = HeldTool(g[i - 1], x.order[i])
    BY <1>9, <2>1
  <2>4. \A i \in 1 .. n : g[i - 1] \in V => g[i] = step[<<g[i - 1], i>>]
    BY <1>3, <2>3
  <2> HIDE DEF Is
  <2>5. Follows(g, x, V, step, n)
    BY <2>2, <2>4 DEF Follows
  <2>6. BothRun(f, g, x, V, step, n)
    BY <1>1, <1>4, <1>5, <2>5 DEF BothRun
  <2> QED BY <2>6, OneResult
<1>10. Is(CHOOSE g : Is(g))
  BY <1>8
<1>11. HeldTools(x) = (CHOOSE g : Is(g))[n]
  BY DEF HeldTools, n
<1> HIDE DEF Is
<1>12. f[n] = HeldTools(x)
  BY <1>9, <1>10, <1>11
<1>13. f[n] \in V
  BY <1>1, <1>5
<1> QED BY <1>12, <1>13 DEF V

\* What may come of x while its text goes out.
Told(x) ==
    {y \in Translators : /\ BlocksOK(y) /\ ~OnTool(y) /\ y.end = x.end
                         /\ y.held = x.held /\ y.tools = x.tools}

\* A text goes out.
LEMMA ToldOK ==
  ASSUME NEW x, NEW y \in Told(x), NEW d \in Delta
  PROVE  Emitted(y, d) \in Told(x) /\ Emitted(y, d).shown = Append(y.shown, d.no)
<1>1. BlocksOK(y) /\ Closable(y) /\ ~OnTool(y) /\ y.end = x.end /\ y.held = x.held /\ y.tools = x.tools
  BY DEF Told, Closable
<1> DEFINE z == Emitted(y, d)
<1>2. /\ BlocksOK(z) /\ ~OnTool(z) /\ z.end = y.end /\ z.held = y.held
      /\ z.shown = Append(y.shown, d.no) /\ z.tools = y.tools
  BY <1>1, EmittedOK
<1> HIDE DEF z
<1>3. z \in Told(x) /\ z.shown = Append(y.shown, d.no)
  BY <1>1, <1>2 DEF Told, BlocksOK
<1> QED BY <1>3 DEF z

\* What was sent after each of the texts.
TextRun(f, x) ==
    /\ f[Len(x.held)] = HeldText(x) /\ f[0] = x
    /\ \A i \in 0 .. Len(x.held) : f[i] \in Told(x)
    /\ \A i \in 1 .. Len(x.held) : f[i] = Emitted(f[i - 1], x.held[i])

\* HeldText is the last of what its recursion goes through.
LEMMA TextRuns ==
  ASSUME NEW x, BlocksOK(x), ~OnTool(x)
  PROVE  \E f : TextRun(f, x)
<1> DEFINE V == Told(x)
           n == Len(x.held)
           step == [p \in V \X (1 .. n) |-> Emitted(p[1], x.held[p[2]])]
           Is(f) == f = [i \in 0 .. n |-> IF i = 0 THEN x ELSE Emitted(f[i - 1], x.held[i])]
<1>1. x \in V /\ n \in Nat /\ x.held \in Seq(Delta)
  BY TranslatorFields DEF Told, BlocksOK
<1>2. \A v \in V, i \in 1 .. n : Emitted(v, x.held[i]) \in V
  <2>1. \A i \in 1 .. n : x.held[i] \in Delta
    BY <1>1
  <2> QED BY <2>1, ToldOK
<1> HIDE DEF V, n
<1>3. \A v \in V, i \in 1 .. n : step[<<v, i>>] = Emitted(v, x.held[i])
  OBVIOUS
<1>4. step \in [V \X (1 .. n) -> V]
  <2>1. \A p \in V \X (1 .. n) : Emitted(p[1], x.held[p[2]]) \in V
    BY <1>2
  <2> QED BY <2>1
<1> HIDE DEF step
<1>5. PICK f : f \in [0 .. n -> V] /\ Steps(f, x, step, n)
  BY <1>1, <1>4, Recursion
<1>6. f[0] = x /\ \A i \in 1 .. n : f[i] = step[<<f[i - 1], i>>]
  <2>1. 0 \in 0 .. n /\ \A i \in 1 .. n : i \in 0 .. n /\ i # 0
    BY <1>1
  <2> QED BY <1>5, <2>1 DEF Steps
<1>7. \A i \in 1 .. n : f[i] = Emitted(f[i - 1], x.held[i])
  <2> SUFFICES ASSUME NEW i \in 1 .. n PROVE f[i] = Emitted(f[i - 1], x.held[i])
    OBVIOUS
  <2>1. i - 1 \in 0 .. n
    BY <1>1
  <2>2. f[i - 1] \in V
    BY <1>5, <2>1
  <2> QED BY <1>3, <1>6, <2>2
<1>8. Is(f)
  <2>1. \A i \in 0 .. n : i # 0 => i \in 1 .. n
    BY <1>1
  <2> QED BY <1>5, <1>6, <1>7, <2>1
<1>9. ASSUME NEW g, Is(g) PROVE g[n] = f[n]
  <2>1. 0 \in 0 .. n /\ \A i \in 1 .. n : i \in 0 .. n /\ i # 0
    BY <1>1
  <2>2. g[0] = x
    BY <1>9, <2>1
  <2>3. \A i \in 1 .. n : g[i] = Emitted(g[i - 1], x.held[i])
    BY <1>9, <2>1
  <2>4. \A i \in 1 .. n : g[i - 1] \in V => g[i] = step[<<g[i - 1], i>>]
    BY <1>3, <2>3
  <2> HIDE DEF Is
  <2>5. Follows(g, x, V, step, n)
    BY <2>2, <2>4 DEF Follows
  <2>6. BothRun(f, g, x, V, step, n)
    BY <1>1, <1>4, <1>5, <2>5 DEF BothRun
  <2> QED BY <2>6, OneResult
<1>10. Is(CHOOSE g : Is(g))
  BY <1>8
<1>11. HeldText(x) = (CHOOSE g : Is(g))[n]
  BY DEF HeldText, n
<1> HIDE DEF Is
<1>12. f[n] = HeldText(x)
  BY <1>9, <1>10, <1>11
<1>13. \A i \in 0 .. n : f[i] \in V
  BY <1>5
<1> QED BY <1>6, <1>7, <1>12, <1>13 DEF n, V, TextRun

\* One more entry at the end of a list of numbers.
LEMMA OneMore ==
  ASSUME NEW s \in Seq(Nat), NEW k \in Nat
  PROVE  /\ Append(s, k) \in Seq(Nat) /\ Len(Append(s, k)) = Len(s) + 1
         /\ AllOf(Append(s, k)) = AllOf(s) \cup {k}
<1>1. PICK n \in Nat : n = Len(s)
  OBVIOUS
<1>2. /\ Append(s, k) \in Seq(Nat) /\ Len(Append(s, k)) = n + 1
      /\ DOMAIN Append(s, k) = 1 .. (n + 1) /\ DOMAIN s = 1 .. n
      /\ Append(s, k)[n + 1] = k /\ \A i \in 1 .. n : Append(s, k)[i] = s[i]
  BY <1>1
<1>3. 1 .. (n + 1) = (1 .. n) \cup {n + 1}
  BY <1>1
<1> QED BY <1>1, <1>2, <1>3 DEF AllOf

\* All text that was held is shown once, and nothing else is.
LEMMA HeldTextOK ==
  ASSUME NEW x, BlocksOK(x), ~OnTool(x)
  PROVE  /\ HeldText(x) \in Told(x)
         /\ Len(HeldText(x).shown) = Len(x.shown) + Len(x.held)
         /\ AllOf(HeldText(x).shown) = AllOf(x.shown) \cup {d.no : d \in AllOf(x.held)}
<1>1. PICK f : TextRun(f, x)
  BY TextRuns
<1>2. PICK n \in Nat, a \in Nat : n = Len(x.held) /\ a = Len(x.shown)
  BY TranslatorFields DEF BlocksOK
<1>3. /\ f[n] = HeldText(x) /\ f[0] = x /\ \A i \in 0 .. n : f[i] \in Told(x)
      /\ \A i \in 1 .. n : f[i] = Emitted(f[i - 1], x.held[i])
  BY <1>1, <1>2 DEF TextRun
<1>4. x.held \in Seq(Delta) /\ \A i \in 1 .. n : x.held[i] \in Delta
  BY <1>2, TranslatorFields DEF BlocksOK
<1> DEFINE Nos(m) == {x.held[j].no : j \in 1 .. m}
           Good(m) == /\ Len(f[m].shown) = a + m
                      /\ AllOf(f[m].shown) = AllOf(x.shown) \cup Nos(m)
           N == {m \in Nat : m <= n => Good(m)}
<1>5. 0 \in N
  BY <1>2, <1>3
<1>6. ASSUME NEW m \in Nat, m \in N PROVE m + 1 \in N
  <2> HIDE DEF Good
  <2> SUFFICES ASSUME m + 1 <= n PROVE Good(m + 1)
    OBVIOUS
  <2>1. PICK k : k = m + 1 /\ k \in 1 .. n /\ k - 1 = m /\ m \in 0 .. n /\ m <= n
    BY <1>2
  <2>2. Good(m) /\ f[m] \in Told(x) /\ x.held[k] \in Delta /\ f[k] = Emitted(f[m], x.held[k])
    BY <1>3, <1>4, <1>6, <2>1
  <2>3. f[k].shown = Append(f[m].shown, x.held[k].no)
    BY <2>2, ToldOK
  <2>4. f[m].shown \in Seq(Nat) /\ x.held[k].no \in Nat
    BY <2>2, TranslatorFields DEF Told, Delta
  <2>5. Len(f[k].shown) = Len(f[m].shown) + 1 /\ AllOf(f[k].shown) = AllOf(f[m].shown) \cup {x.held[k].no}
    BY <2>3, <2>4, OneMore
  <2>6. Nos(k) = Nos(m) \cup {x.held[k].no}
    <3>1. 1 .. k = (1 .. m) \cup {k}
      BY <2>1
    <3> QED BY <3>1
  <2>7. Len(f[m].shown) = a + m /\ AllOf(f[m].shown) = AllOf(x.shown) \cup Nos(m)
    BY <2>2 DEF Good
  <2> HIDE DEF Nos
  <2>8. Len(f[k].shown) = a + k
    <3>1. PICK p \in Nat : p = Len(f[m].shown)
      BY <2>4
    <3>2. PICK q : q = Len(f[k].shown)
      OBVIOUS
    <3>3. p = a + m /\ q = p + 1
      BY <2>5, <2>7, <3>1, <3>2
    <3>4. a \in Nat /\ k = m + 1
      BY <1>2, <2>1
    <3>5. q = a + k
      BY <3>3, <3>4
    <3> QED BY <3>2, <3>5
  <2>9. AllOf(f[k].shown) = AllOf(x.shown) \cup Nos(k)
    BY <2>5, <2>6, <2>7
  <2> QED BY <2>1, <2>8, <2>9 DEF Good
<1> HIDE DEF N
<1>7. n \in N
  BY <1>2, <1>5, <1>6, NatSetInduction
<1>8. Good(n)
  <2>1. n <= n
    BY <1>2
  <2> QED BY <1>7, <2>1 DEF N
<1>9. Nos(n) = {d.no : d \in AllOf(x.held)}
  <2>1. DOMAIN x.held = 1 .. n
    BY <1>2, <1>4
  <2> QED BY <2>1 DEF AllOf
<1>10. f[n] \in Told(x)
  BY <1>2, <1>3
<1> QED BY <1>2, <1>3, <1>8, <1>9, <1>10

-----------------------------------------------------------------------------
\* The end of a stream: it failed, or all text was shown, all tools are whole, and the
\* upstream had ended it.
LEMMA FinishedOK ==
  ASSUME NEW x, BlocksOK(x), x.end = "no", NEW n \in Nat, TextsOK(x, n)
  PROVE  /\ BlocksOK(Finished(x)) /\ Finished(x).end # "no"
         /\ Finished(x).end = "stop" => signal = "terminal" /\ StoppedOK(Finished(x), n)
<1>1. CASE signal # "terminal" \/ ~Closable(x)
  BY <1>1, FailedOK DEF Finished
<1>2. CASE signal = "terminal" /\ Closable(x)
  <2> DEFINE c == Closed(x)
             y == HeldTools(c)
  <2>1. BlocksOK(c) /\ TextsSame(x, c) /\ c.end = "no"
    BY <1>2, ClosedOK
  <2>2. BlocksOK(y) /\ TextsSame(c, y) /\ y.end # "stop" /\ y.end \in {"no", "stop", "error"}
    <3>1. y \in OpenedFrom(c)
      BY <2>1, HeldToolsOK
    <3> HIDE DEF c, y
    <3> QED BY <3>1, TranslatorFields DEF OpenedFrom
  <2>3. Finished(x) = IF y.end # "no" THEN y
                      ELSE IF ~Closable(y) THEN Failed(y)
                      ELSE IF \E t \in Tools : y.tools[t].pending > 0 THEN Failed(Closed(y))
                      ELSE [Closed(HeldText(Closed(y))) EXCEPT !.held = <<>>, !.end = "stop"]
    BY <1>2 DEF Finished
  <2> HIDE DEF c, y
  <2>4. CASE y.end # "no"
    BY <2>2, <2>3, <2>4
  <2>5. CASE y.end = "no" /\ ~Closable(y)
    BY <2>2, <2>3, <2>5, FailedOK
  <2>6. CASE y.end = "no" /\ Closable(y) /\ \E t \in Tools : y.tools[t].pending > 0
    <3>1. BlocksOK(Closed(y))
      BY <2>2, <2>6, ClosedOK
    <3>2. Finished(x) = Failed(Closed(y))
      BY <2>3, <2>6
    <3> QED BY <3>1, <3>2, FailedOK
  <2>7. CASE y.end = "no" /\ Closable(y) /\ ~(\E t \in Tools : y.tools[t].pending > 0)
    <3> DEFINE z == Closed(y)
               w == HeldText(z)
               v == Closed(w)
               r == Finished(x)
    <3>1. /\ BlocksOK(z) /\ TextsSame(y, z) /\ z.current = NoBlock /\ z.end = "no"
          /\ \A t \in Tools : y.tools[t].pending = 0 => z.tools[t].pending = 0
      BY <2>2, <2>7, ClosedOK
    <3>2. r = [v EXCEPT !.held = <<>>, !.end = "stop"]
      BY <2>3, <2>7
    <3>3. ~OnTool(z)
      BY <3>1, TranslatorAssumption DEF OnTool
    <3> HIDE DEF z
    <3>4. /\ w \in Told(z) /\ Len(w.shown) = Len(z.shown) + Len(z.held)
          /\ AllOf(w.shown) = AllOf(z.shown) \cup {d.no : d \in AllOf(z.held)}
      BY <3>1, <3>3, HeldTextOK
    <3> HIDE DEF w
    <3>5. BlocksOK(w) /\ ~OnTool(w) /\ w.end = "no" /\ w.tools = z.tools
      BY <3>1, <3>4 DEF Told
    <3>6. /\ BlocksOK(v) /\ TextsSame(w, v) /\ v.current = NoBlock /\ v.end = "no"
          /\ \A t \in Tools : /\ w.tools[t].block # "open" => v.tools[t] = w.tools[t]
                              /\ w.tools[t].pending = 0 => v.tools[t].pending = 0
      BY <3>5, ClosedOK DEF Closable
    <3> HIDE DEF v, r
    <3>7. r = [current |-> NoBlock, held |-> <<>>, order |-> v.order, shown |-> v.shown,
               end |-> "stop", tools |-> v.tools]
      BY <3>2, <3>6 DEF BlocksOK, Translators
    <3>8. r \in Translators
      BY <3>6, <3>7, TranslatorFields DEF BlocksOK, Translators
    <3>9. \A t \in Tools : v.tools[t].block # "open"
      BY <3>6, TranslatorAssumption DEF BlocksOK
    <3>10. \A t \in Tools : v.tools[t].pending = 0
      <4> SUFFICES ASSUME NEW t \in Tools PROVE v.tools[t].pending = 0
        OBVIOUS
      <4>1. y.tools[t].pending \in Nat /\ ~(y.tools[t].pending > 0)
        BY <2>2, <2>7, TranslatorFields DEF BlocksOK
      <4>2. y.tools[t].pending = 0
        BY <4>1
      <4> QED BY <3>1, <3>5, <3>6, <4>2
    <3>11. BlocksOK(r)
      BY <3>6, <3>7, <3>8, <3>9, TranslatorAssumption DEF BlocksOK, OnTool
    <3>12. Len(r.shown) = n /\ AllOf(r.shown) = 1 .. n
      <4>1. z.shown = x.shown /\ z.held = x.held
        BY <2>1, <2>2, <3>1 DEF TextsSame
      <4>2. r.shown = w.shown
        BY <3>6, <3>7 DEF TextsSame
      <4> QED BY <3>4, <4>1, <4>2 DEF TextsOK
    <3>13. BlocksOK(r) /\ r.end = "stop" /\ StoppedOK(r, n)
      BY <3>7, <3>9, <3>10, <3>11, <3>12 DEF StoppedOK
    <3> QED BY <1>2, <3>13 DEF r
  <2> QED BY <2>4, <2>5, <2>6, <2>7
<1> QED BY <1>1, <1>2

\* A text arrives, and is shown or held.
LEMMA TextArrives ==
  ASSUME TranslatorInv, NEW kind \in TextKinds, TextDelta(kind)
  PROVE  TranslatorInv'
<1> DEFINE d == [kind |-> kind, no |-> texts + 1]
<1>1. BlocksOK(out) /\ out.end = "no" /\ TextsOK(out, texts) /\ texts \in Nat /\ texts' = texts + 1
  BY DEF TranslatorInv, TextDelta
<1>2. d \in Delta /\ d.no = texts + 1
  BY <1>1 DEF Delta
<1>3. out' = IF OnTool(out) /\ Received(out, out.current) # Whole
             THEN [out EXCEPT !.held = Append(@, d)] ELSE Emitted(out, d)
  BY DEF TextDelta
<1> HIDE DEF d
<1>4. PICK n \in Nat, a \in Nat, h \in Nat :
         n = texts /\ a = Len(out.shown) /\ h = Len(out.held)
  <2>1. out.shown \in Seq(Nat) /\ out.held \in Seq(Delta)
    BY <1>1, TranslatorFields DEF BlocksOK
  <2>2. Len(out.shown) \in Nat /\ Len(out.held) \in Nat
    BY <2>1
  <2> QED BY <1>1, <2>2
<1>5. a + h = n /\ AllOf(out.shown) \cup {q.no : q \in AllOf(out.held)} = 1 .. n
  BY <1>1, <1>4 DEF TextsOK
<1>6. /\ 1 .. (n + 1) = (1 .. n) \cup {n + 1}
      /\ a + (h + 1) = n + 1 /\ (a + 1) + h = n + 1
  <2>1. n \in Nat /\ a \in Nat /\ h \in Nat
    BY <1>4
  <2>2. a + h = n
    BY <1>5
  <2> QED BY <2>1, <2>2
<1>7. CASE OnTool(out) /\ Received(out, out.current) # Whole
  <2>1. out' = [current |-> out.current, held |-> Append(out.held, d), order |-> out.order,
                shown |-> out.shown, end |-> out.end, tools |-> out.tools]
    BY <1>1, <1>3, <1>7 DEF BlocksOK, Translators
  <2>2. /\ Append(out.held, d) \in Seq(Delta) /\ Len(Append(out.held, d)) = h + 1
        /\ AllOf(Append(out.held, d)) = AllOf(out.held) \cup {d}
    <3>1. out.held \in Seq(Delta)
      BY <1>1, TranslatorFields DEF BlocksOK
    <3>2. /\ Append(out.held, d) \in Seq(Delta) /\ Len(Append(out.held, d)) = h + 1
          /\ DOMAIN Append(out.held, d) = 1 .. (h + 1) /\ DOMAIN out.held = 1 .. h
          /\ Append(out.held, d)[h + 1] = d /\ \A i \in 1 .. h : Append(out.held, d)[i] = out.held[i]
      BY <1>2, <1>4, <3>1
    <3>3. 1 .. (h + 1) = (1 .. h) \cup {h + 1}
      BY <1>4
    <3> QED BY <3>2, <3>3 DEF AllOf
  <2>3. BlocksOK(out')
    <3>1. out' \in Translators
      BY <1>1, <2>1, <2>2, TranslatorFields DEF BlocksOK, Translators
    <3> QED BY <1>1, <2>1, <3>1 DEF BlocksOK, OnTool
  <2>4. TextsOK(out', n + 1)
    <3>1. Len(out'.shown) + Len(out'.held) = n + 1
      <4>1. Len(out'.shown) = a /\ Len(out'.held) = h + 1
        BY <1>4, <2>1, <2>2
      <4> QED BY <1>6, <4>1
    <3>2. {q.no : q \in AllOf(out'.held)} = {q.no : q \in AllOf(out.held)} \cup {n + 1}
      BY <1>2, <1>4, <2>1, <2>2
    <3> QED BY <1>5, <1>6, <2>1, <3>1, <3>2 DEF TextsOK
  <2> QED BY <1>1, <1>4, <2>1, <2>3, <2>4 DEF TranslatorInv
<1>8. CASE ~(OnTool(out) /\ Received(out, out.current) # Whole)
  <2>1. Closable(out)
    BY <1>8 DEF Closable
  <2>2. /\ BlocksOK(out') /\ out'.end = "no" /\ out'.held = out.held
        /\ out'.shown = Append(out.shown, d.no)
    BY <1>1, <1>2, <1>3, <1>8, <2>1, EmittedOK
  <2>3. Len(out'.shown) = a + 1 /\ AllOf(out'.shown) = AllOf(out.shown) \cup {n + 1}
    <3>1. out.shown \in Seq(Nat) /\ d.no \in Nat
      BY <1>1, <1>2, TranslatorFields DEF BlocksOK
    <3> QED BY <1>2, <1>4, <2>2, <3>1, OneMore
  <2>4. TextsOK(out', n + 1)
    <3>1. Len(out'.shown) + Len(out'.held) = n + 1
      <4>1. Len(out'.shown) = a + 1 /\ Len(out'.held) = h
        BY <1>4, <2>2, <2>3
      <4> QED BY <1>6, <4>1
    <3> QED BY <1>5, <1>6, <2>2, <2>3, <3>1 DEF TextsOK
  <2> QED BY <1>1, <1>4, <2>2, <2>4 DEF TranslatorInv
<1> QED BY <1>7, <1>8

\* A tool whose block and arguments that were sent are the same.
LEMMA ToolTold ==
  ASSUME NEW x, BlocksOK(x), NEW t \in Tools, NEW b \in ToolState, NEW o \in Seq(Tools),
         b.block = x.tools[t].block, b.sent = x.tools[t].sent
  PROVE  LET y == [current |-> x.current, held |-> x.held, order |-> o, shown |-> x.shown,
                   end |-> x.end, tools |-> [x.tools EXCEPT ![t] = b]]
         IN  /\ BlocksOK(y) /\ y.held = x.held /\ y.shown = x.shown /\ y.end = x.end
             /\ y.current = x.current /\ \A u \in Tools : y.tools[u].block = x.tools[u].block
<1> DEFINE y == [current |-> x.current, held |-> x.held, order |-> o, shown |-> x.shown,
                 end |-> x.end, tools |-> [x.tools EXCEPT ![t] = b]]
<1>1. x \in Translators /\ x.tools \in [Tools -> ToolState]
  BY TranslatorFields DEF BlocksOK
<1>2. y \in Translators
  BY <1>1, TranslatorFields DEF Translators
<1>3. y.tools[t] = b /\ \A u \in Tools : u # t => y.tools[u] = x.tools[u]
  BY <1>1
<1>4. y.held = x.held /\ y.shown = x.shown /\ y.end = x.end /\ y.current = x.current
  OBVIOUS
<1> HIDE DEF y
<1>5. \A u \in Tools : y.tools[u].block = x.tools[u].block /\ y.tools[u].sent = x.tools[u].sent
  BY <1>3
<1>6. BlocksOK(y)
  BY <1>2, <1>4, <1>5 DEF BlocksOK, OnTool
<1> QED BY <1>4, <1>5, <1>6 DEF y

\* A fragment of a tool arrives.
LEMMA ToolArrives ==
  ASSUME TranslatorInv, NEW t \in Tools, NEW name \in {"none", "partial", "settled"}, NEW n \in 0 .. 1,
         ToolDelta(t, name, n)
  PROVE  TranslatorInv'
<1> DEFINE opens == out.tools[t].block = "none" /\ name = "settled" /\ ~OnTool(out)
           known == [out EXCEPT !.order = IF t \in AllOf(@) THEN @ ELSE Append(@, t),
                                !.tools[t].name = name]
           open  == IF opens THEN ToolOpened(known, t) ELSE known
           fed   == [open EXCEPT !.tools[t].pending = @ + n]
<1>1. BlocksOK(out) /\ out.end = "no" /\ TextsOK(out, texts) /\ texts \in Nat
  BY DEF TranslatorInv, ToolDelta
<1>2. /\ out' = IF out.current = t \/ opens THEN Flushed(fed) ELSE fed
      /\ UNCHANGED <<texts, signal>>
  BY DEF ToolDelta
<1>3. /\ BlocksOK(known) /\ known.held = out.held /\ known.shown = out.shown /\ known.end = "no"
      /\ known.current = out.current /\ \A u \in Tools : known.tools[u].block = out.tools[u].block
  <2> DEFINE b == [out.tools[t] EXCEPT !.name = name]
             o == IF t \in AllOf(out.order) THEN out.order ELSE Append(out.order, t)
  <2>1. known = [current |-> out.current, held |-> out.held, order |-> o, shown |-> out.shown,
                 end |-> out.end, tools |-> [out.tools EXCEPT ![t] = b]]
    <3>1. PICK q : q = o
      OBVIOUS
    <3>2. known = [out EXCEPT !.order = q, !.tools[t].name = name]
      BY <3>1
    <3> HIDE DEF o, known
    <3> QED BY <1>1, <3>1, <3>2 DEF BlocksOK, Translators
  <2>2. b \in ToolState /\ b.block = out.tools[t].block /\ b.sent = out.tools[t].sent
    <3>1. out.tools[t] \in ToolState
      BY <1>1, TranslatorFields DEF BlocksOK
    <3> QED BY <3>1 DEF ToolState
  <2>3. o \in Seq(Tools)
    BY <1>1, TranslatorFields DEF BlocksOK
  <2> HIDE DEF b, o, known
  <2> QED BY <1>1, <2>1, <2>2, <2>3, ToolTold
<1> HIDE DEF known
<1>4. BlocksOK(open) /\ open.held = out.held /\ open.shown = out.shown /\ open.end = "no"
  <2>1. CASE opens
    <3>1. Closable(known) /\ known.tools[t].block = "none"
      BY <1>3, <2>1 DEF Closable, OnTool
    <3> QED BY <1>3, <2>1, <3>1, ToolOpenedOK DEF TextsSame
  <2>2. CASE ~opens
    BY <1>3, <2>2
  <2> QED BY <2>1, <2>2
<1> HIDE DEF open
<1>5. BlocksOK(fed) /\ fed.held = out.held /\ fed.shown = out.shown /\ fed.end = "no"
  <2> DEFINE b == [open.tools[t] EXCEPT !.pending = @ + n]
  <2>1. fed = [current |-> open.current, held |-> open.held, order |-> open.order, shown |-> open.shown,
               end |-> open.end, tools |-> [open.tools EXCEPT ![t] = b]]
    BY <1>4 DEF BlocksOK, Translators
  <2>2. b \in ToolState /\ b.block = open.tools[t].block /\ b.sent = open.tools[t].sent
    <3>1. open.tools[t] \in ToolState /\ open.tools[t].pending + n \in Nat
      BY <1>4, TranslatorFields DEF BlocksOK
    <3> QED BY <3>1 DEF ToolState
  <2>3. open.order \in Seq(Tools)
    BY <1>4, TranslatorFields DEF BlocksOK
  <2> HIDE DEF b, fed
  <2> QED BY <1>4, <2>1, <2>2, <2>3, ToolTold
<1> HIDE DEF fed
<1>6. BlocksOK(out') /\ out'.held = out.held /\ out'.shown = out.shown /\ out'.end = "no"
  <2>1. BlocksOK(Flushed(fed)) /\ TextsSame(fed, Flushed(fed)) /\ Flushed(fed).end = fed.end
    BY <1>5, FlushedOK
  <2> QED BY <1>2, <1>5, <2>1 DEF TextsSame
<1> QED BY <1>1, <1>2, <1>6 DEF TranslatorInv, TextsOK

LEMMA TranslatorInitInv == TranslatorInit => TranslatorInv
<1> SUFFICES ASSUME TranslatorInit PROVE TranslatorInv
  OBVIOUS
<1>1. /\ out = [current |-> NoBlock, held |-> <<>>, order |-> <<>>, shown |-> <<>>, end |-> "no",
                tools |-> [t \in Tools |-> [name |-> "none", block |-> "none",
                                            sent |-> 0, pending |-> 0]]]
      /\ texts = 0
  BY DEF TranslatorInit
<1>2. out \in Translators
  BY <1>1 DEF Translators, ToolState
<1>3. NoBlock \notin Tools
  BY TranslatorAssumption
<1>4. BlocksOK(out)
  BY <1>1, <1>2, <1>3 DEF BlocksOK, OnTool
<1>5. TextsOK(out, texts)
  <2>1. Len(<<>>) = 0 /\ AllOf(<<>>) = {} /\ 1 .. 0 = {}
    BY DEF AllOf
  <2> QED BY <1>1, <2>1 DEF TextsOK
<1> QED BY <1>1, <1>4, <1>5 DEF TranslatorInv

\* Every step keeps the invariant.
LEMMA TranslatorStepInv == TranslatorInv /\ [TranslatorNext]_translatorVars => TranslatorInv'
<1> SUFFICES ASSUME TranslatorInv, [TranslatorNext]_translatorVars PROVE TranslatorInv'
  OBVIOUS
<1>1. ASSUME NEW kind \in TextKinds, TextDelta(kind) PROVE TranslatorInv'
  BY <1>1, TextArrives
<1>2. ASSUME NEW t \in Tools, NEW name \in {"none", "partial", "settled"}, NEW n \in 0 .. 1,
             ToolDelta(t, name, n)
      PROVE  TranslatorInv'
  BY <1>2, ToolArrives
<1>3. ASSUME out' = out, texts' = texts, out.end = "no" PROVE TranslatorInv'
  BY <1>3 DEF TranslatorInv
<1>4. CASE \/ \E synthetic \in BOOLEAN : FinishFrame(synthetic)
           \/ DoneFrame
  BY <1>3, <1>4 DEF FinishFrame, DoneFrame
<1>5. CASE ErrorChunk
  <2>1. BlocksOK(out) /\ out' = Failed(out) /\ texts' = texts /\ texts \in Nat
    BY <1>5 DEF ErrorChunk, TranslatorInv
  <2>2. BlocksOK(out') /\ out'.end = "error"
    BY <2>1, FailedOK
  <2> QED BY <2>1, <2>2 DEF TranslatorInv
<1>6. CASE Finish
  <2>1. /\ BlocksOK(out) /\ out.end = "no" /\ TextsOK(out, texts) /\ texts \in Nat
        /\ out' = Finished(out) /\ texts' = texts /\ signal' = signal
    BY <1>6 DEF Finish, TranslatorInv
  <2>2. /\ BlocksOK(out') /\ out'.end # "no"
        /\ out'.end = "stop" => signal = "terminal" /\ StoppedOK(out', texts)
    BY <2>1, FinishedOK
  <2> QED BY <2>1, <2>2 DEF TranslatorInv
<1>7. CASE UNCHANGED translatorVars
  BY <1>7 DEF TranslatorInv, translatorVars
<1> QED BY <1>1, <1>2, <1>4, <1>5, <1>6, <1>7 DEF TranslatorNext

\* Nothing that is not whole becomes executable or final, for any number of tools, texts
\* and fragments, in whichever order they arrive.
THEOREM NothingIsTruncated == TranslatorSpec => []NothingTruncated
<1>1. TranslatorInv => NothingTruncated
  BY DEF TranslatorInv, BlocksOK, StoppedOK, NothingTruncated
<1> QED BY <1>1, TranslatorInitInv, TranslatorStepInv, PTL DEF TranslatorSpec
=============================================================================
