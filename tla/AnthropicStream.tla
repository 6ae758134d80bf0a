--------------------------- MODULE AnthropicStream ---------------------------
(***************************************************************************)
(* The translator of a chat-completion stream into an Anthropic one         *)
(* (AnthropicStreamTranslator, src/handlers/messages.js).  One content       *)
(* block is open at a time, and the block of a tool is never opened again:   *)
(* text that arrives while a tool's arguments are incomplete is held, and    *)
(* so is a tool that arrives while another one's block is open.             *)
(*                                                                         *)
(* The upstream interleaves its deltas as it likes and ends with a finish    *)
(* frame, an error, a finish frame made up for a dead stream, or nothing.    *)
(* Texts are numbered as they arrive; arguments are fragments, Whole of      *)
(* which are one JSON value.  Left out: usage, stop reasons, signatures,     *)
(* pings, the framing, and which ids and names the tools have.              *)
(***************************************************************************)
EXTENDS Listing

CONSTANTS Tools,
          MaxTexts, MaxPieces       \* bounds: texts, fragments of a tool

Whole == 2

VARIABLES
    out,        \* the translator and what it has sent
    texts,      \* texts that arrived
    signal      \* how the upstream ended, as far as the translator can tell

translatorVars == <<out, texts, signal>>

TextKinds == {"text", "thinking"}
NoBlock == "none"

ASSUME TranslatorAssumption ==
    /\ Tools \cap ({NoBlock} \cup TextKinds) = {}
    /\ MaxTexts \in Nat /\ MaxPieces \in Nat

Tool == [name : {"none", "partial", "settled"},     \* the id and the name so far
         block : {"none", "open", "closed"},
         sent : 0 .. MaxPieces, pending : 0 .. MaxPieces]

TranslatorTypeOK ==
    /\ out.current \in {NoBlock} \cup TextKinds \cup Tools
    /\ out.held \in Seq([kind : TextKinds, no : 1 .. MaxTexts])
    /\ out.tools \in [Tools -> Tool]
    /\ out.order \in Seq(Tools)
    /\ out.shown \in Seq(1 .. MaxTexts)
    /\ out.end \in {"no", "stop", "error"}
    /\ texts \in 0 .. MaxTexts
    /\ signal \in {"none", "terminal", "synthetic"}

TranslatorInit ==
    /\ out = [current |-> NoBlock, held |-> <<>>, order |-> <<>>, shown |-> <<>>, end |-> "no",
              tools |-> [t \in Tools |-> [name |-> "none", block |-> "none",
                                          sent |-> 0, pending |-> 0]]]
    /\ texts = 0 /\ signal = "none"

-----------------------------------------------------------------------------
Received(x, t) == x.tools[t].sent + x.tools[t].pending
OnTool(x) == x.current \in Tools

\* flushToolArgs: fragments go out while the block is open.
Flushed(x) ==
    IF ~OnTool(x) THEN x
    ELSE [x EXCEPT !.tools[x.current].sent = Received(x, x.current),
                   !.tools[x.current].pending = 0]

\* Mistake: whatever was sent of the arguments will do.
ClosableUnchecked(x) == TRUE

\* The arguments are no JSON value, so the block must not be closed.
Closable(x) == OnTool(x) => Received(x, x.current) \in {0, Whole}

\* closeCurrentBlock, of a block that can be closed.
Closed(x) ==
    IF OnTool(x) THEN [Flushed(x) EXCEPT !.tools[x.current].block = "closed", !.current = NoBlock]
    ELSE [x EXCEPT !.current = NoBlock]

\* error(), which closes what can be closed.
Failed(x) == [(IF Closable(x) THEN Closed(x) ELSE [Flushed(x) EXCEPT !.current = NoBlock])
                 EXCEPT !.end = "error"]

\* A text or a thinking delta goes out, in a block of its kind.
Emitted(x, d) ==
    [(IF x.current = d.kind THEN x ELSE [Closed(x) EXCEPT !.current = d.kind])
        EXCEPT !.shown = Append(@, d.no)]

ToolOpened(x, t) == [Closed(x) EXCEPT !.current = t, !.tools[t].block = "open"]

-----------------------------------------------------------------------------
\* processChunk of a text; holdIfToolBlockOpen holds it while fragments of the
\* open tool may follow.
TextDelta(kind) ==
    /\ out.end = "no" /\ texts < MaxTexts
    /\ LET d == [kind |-> kind, no |-> texts + 1]
       IN  out' = IF OnTool(out) /\ Received(out, out.current) # Whole
                  THEN [out EXCEPT !.held = Append(@, d)]
                  ELSE Emitted(out, d)
    /\ texts' = texts + 1 /\ UNCHANGED signal

Names == {<<"none", "none">>, <<"none", "partial">>, <<"none", "settled">>,
          <<"partial", "partial">>, <<"partial", "settled">>, <<"settled", "settled">>}

\* emitToolCallDelta: the block is opened as soon as the name is settled and no
\* other tool's block is open.
ToolDelta(t, name, n) ==
    /\ out.end = "no" /\ Received(out, t) + n <= MaxPieces
    /\ <<out.tools[t].name, name>> \in Names
    /\ LET opens == out.tools[t].block = "none" /\ name = "settled" /\ ~OnTool(out)
           known == [out EXCEPT !.order = IF t \in AllOf(@) THEN @ ELSE Append(@, t),
                                !.tools[t].name = name]
           open  == IF opens THEN ToolOpened(known, t) ELSE known
           fed   == [open EXCEPT !.tools[t].pending = @ + n]
       IN  out' = IF out.current = t \/ opens THEN Flushed(fed) ELSE fed
    /\ UNCHANGED <<texts, signal>>

\* A finish reason, or [DONE]: neither counts after a made-up finish.
FinishFrame(synthetic) ==
    /\ out.end = "no"
    /\ signal' = IF synthetic THEN (IF signal = "terminal" THEN signal ELSE "synthetic")
                 ELSE "terminal"
    /\ UNCHANGED <<out, texts>>

DoneFrame ==
    /\ out.end = "no" /\ signal # "synthetic"
    /\ signal' = "terminal" /\ UNCHANGED <<out, texts>>

ErrorChunk ==
    /\ out.end = "no" /\ out' = Failed(out)
    /\ signal' = "terminal" /\ UNCHANGED texts

-----------------------------------------------------------------------------
\* The tools that are still held are opened one after the other; a malformed one
\* fails the stream when the next one would close it.
HeldTool(x, t) ==
    IF x.end # "no" \/ x.tools[t].block # "none" \/ x.tools[t].name = "none" THEN x
    ELSE IF ~Closable(x) THEN Failed(x)
    ELSE Flushed(ToolOpened(x, t))

HeldTools(x) ==
    LET left[i \in 0 .. Len(x.order)] ==
          IF i = 0 THEN x ELSE HeldTool(left[i - 1], x.order[i])
    IN  left[Len(x.order)]

\* The text that was held.
HeldText(x) ==
    LET left[i \in 0 .. Len(x.held)] == IF i = 0 THEN x ELSE Emitted(left[i - 1], x.held[i])
    IN  left[Len(x.held)]

\* finish(): fragments that have no block to go to fail the stream; then comes
\* the text that was held, and the end.
Finished(x) ==
    IF signal # "terminal" \/ ~Closable(x) THEN Failed(x)
    ELSE LET y == HeldTools(Closed(x))
         IN  IF y.end # "no" THEN y
             ELSE IF ~Closable(y) THEN Failed(y)
             ELSE IF \E t \in Tools : y.tools[t].pending > 0 THEN Failed(Closed(y))
             ELSE [Closed(HeldText(Closed(y))) EXCEPT !.held = <<>>, !.end = "stop"]

\* The stream is over, whatever came of it.
Finish ==
    /\ out.end = "no" /\ out' = Finished(out)
    /\ UNCHANGED <<texts, signal>>

TranslatorNext ==
    \/ \E kind \in TextKinds : TextDelta(kind)
    \/ \E t \in Tools, name \in {"none", "partial", "settled"}, n \in 0 .. 1 : ToolDelta(t, name, n)
    \/ \E synthetic \in BOOLEAN : FinishFrame(synthetic)
    \/ DoneFrame
    \/ ErrorChunk
    \/ Finish

TranslatorSpec == TranslatorInit /\ [][TranslatorNext]_translatorVars

-----------------------------------------------------------------------------
\* Nothing is executable or final that is not whole: the block of a tool is
\* closed only on no arguments or on all of a JSON value, and a stream that stops
\* normally was ended by the upstream and has given every text once and every
\* fragment that arrived (messages.js, KH-017 and BUG1).
NothingTruncated ==
    /\ \A t \in Tools : out.tools[t].block = "closed" => out.tools[t].sent \in {0, Whole}
    /\ out.end = "stop" =>
          /\ signal = "terminal"
          /\ Len(out.shown) = texts /\ AllOf(out.shown) = 1 .. texts
          /\ \A t \in Tools : out.tools[t].pending = 0 /\ out.tools[t].block # "open"
=============================================================================
