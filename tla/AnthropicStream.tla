--------------------------- MODULE AnthropicStream ---------------------------
(***************************************************************************)
(* streamConverter (relay/relaymode/anthropic/stream.go): an OpenAI stream *)
(* read line by line and written as the events of one Anthropic message.   *)
(* One action writes at most one event.  A chunk has at most one choice    *)
(* here; its pieces are chosen as the converter comes to them.  Lines that *)
(* are not data or do not parse are skipped, and change nothing.           *)
(***************************************************************************)
EXTENDS Integers, Sequences

CONSTANT MaxPieces      \* bound of the pieces of text and of calls upstream sends

ASSUME StreamAssumption == MaxPieces \in Nat

VARIABLES
  conv,   \* the converter: where it is, its flags and the piece in hand
  got,    \* what its client has made of the events so far
  up      \* history: what upstream has said

streamVars == <<conv, got, up>>

\* finish_reason and what stopReasonFromOpenAI makes of it; "none" is nil.
FinishReason == {"stop", "length", "tool_calls", "content_filter"}
StopReason == {"none", "end_turn", "max_tokens", "tool_use"}
stopReasonFromOpenAI(f) ==
  CASE f = "length" -> "max_tokens"
    [] f = "tool_calls" -> "tool_use"
    [] OTHER -> "end_turn"

\* The pieces are numbered as upstream sends them, and a call has its first
\* piece's number for an id; 0 is no text, no id, no arguments.
Piece == 1..MaxPieces
NoPiece == 0
NoBlock == -1

ConvPcs == {"read", "chunk", "text", "calls", "newCall", "call", "args", "finish",
            "close", "delta", "stop", "done", "broken"}

StreamTypeOK ==
  /\ conv \in [pc: ConvPcs, sentMessageStart: BOOLEAN, sentPing: BOOLEAN,
               nextBlockIndex: Nat, activeBlockIndex: Nat \cup {NoBlock},
               textBlockStarted: BOOLEAN, toolBlockStarted: BOOLEAN,
               finalStopReason: StopReason, outputTokens: Nat,
               id: Nat, data: Nat]
  /\ got \in [phase: {"none", "started", "closing", "ended"},
              blocks: Seq([index: Nat, kind: {"text", "tool_use"}, id: Nat,
                           data: Seq(Nat), open: BOOLEAN]),
              stop: StopReason, out: Nat]
  /\ up \in [sent: Nat, last: {"none", "text", "call"}, text: Seq(Nat),
             calls: Seq([id: Nat, args: Seq(Nat)]), finish: StopReason, usage: Nat]

StreamInit ==
  /\ conv = [pc |-> "read", sentMessageStart |-> FALSE, sentPing |-> FALSE,
             nextBlockIndex |-> 0, activeBlockIndex |-> NoBlock,
             textBlockStarted |-> FALSE, toolBlockStarted |-> FALSE,
             finalStopReason |-> "none", outputTokens |-> 0,
             id |-> NoPiece, data |-> NoPiece]
  /\ got = [phase |-> "none", blocks |-> <<>>, stop |-> "none", out |-> 0]
  /\ up = [sent |-> 0, last |-> "none", text |-> <<>>, calls |-> <<>>,
           finish |-> "none", usage |-> 0]

-----------------------------------------------------------------------------
(* What the client makes of the events of a block.                         *)
ContentBlockStart(i, kind, id) ==
  got' = [got EXCEPT !.blocks = Append(@,
    [index |-> i, kind |-> kind, id |-> id, data |-> <<>>, open |-> TRUE])]

ContentBlockDelta(i, d) ==
  got' = [got EXCEPT !.blocks = [j \in DOMAIN got.blocks |->
    LET b == got.blocks[j] IN
    IF b.index = i THEN [b EXCEPT !.data = Append(b.data, d)] ELSE b]]

ContentBlockStop(i) ==
  got' = [got EXCEPT !.blocks = [j \in DOMAIN @ |->
    IF @[j].index = i THEN [@[j] EXCEPT !.open = FALSE] ELSE @[j]]]

-----------------------------------------------------------------------------
(* run: the scanner's loop.                                                *)
ReadChunk ==
  /\ conv.pc = "read"
  /\ conv' = [conv EXCEPT !.pc = "chunk"]
  /\ UNCHANGED <<got, up>>

\* The end of the stream, [DONE], or a data line without a payload.
ReadEnd ==
  /\ conv.pc = "read"
  /\ conv' = [conv EXCEPT !.pc = "close"]
  /\ UNCHANGED <<got, up>>

\* scanner.Err: the connection breaks, or a line is longer than 4 MiB.
ReadError ==
  /\ conv.pc = "read"
  /\ conv' = [conv EXCEPT !.pc = "broken"]
  /\ UNCHANGED <<got, up>>

(* handleChunk.                                                            *)
WriteMessageStart ==
  /\ conv.pc = "chunk" /\ ~conv.sentMessageStart
  /\ conv' = [conv EXCEPT !.sentMessageStart = TRUE]
  /\ got' = [got EXCEPT !.phase = "started"]
  /\ UNCHANGED up

\* A ping says nothing to the client.
WritePing ==
  /\ conv.pc = "chunk" /\ conv.sentMessageStart /\ ~conv.sentPing
  /\ conv' = [conv EXCEPT !.sentPing = TRUE]
  /\ UNCHANGED <<got, up>>

NextPiece == up.sent + 1

ChunkText ==
  /\ conv.pc = "chunk" /\ conv.sentMessageStart /\ conv.sentPing
  /\ \/ /\ up.sent < MaxPieces
        /\ conv' = [conv EXCEPT !.pc = "text", !.data = NextPiece]
        /\ up' = [up EXCEPT !.sent = NextPiece, !.last = "text", !.text = Append(@, NextPiece)]
     \/ conv' = [conv EXCEPT !.pc = "calls"] /\ UNCHANGED up
  /\ UNCHANGED got

\* The next of the chunk's tool_calls: one with an id opens a call, one without
\* has more arguments for the call before it; upstream writes no text in between.
ChunkCall ==
  /\ conv.pc = "calls"
  /\ up.sent < MaxPieces
  /\ \/ \E data \in {NoPiece, NextPiece} :
          /\ conv' = [conv EXCEPT !.pc = "newCall", !.id = NextPiece, !.data = data]
          /\ up' = [up EXCEPT !.sent = NextPiece, !.last = "call",
               !.calls = Append(@, [id |-> NextPiece,
                                    args |-> IF data = NoPiece THEN <<>> ELSE <<data>>])]
     \/ /\ up.last = "call"
        /\ conv' = [conv EXCEPT !.pc = "call", !.id = NoPiece, !.data = NextPiece]
        /\ up' = [up EXCEPT !.sent = NextPiece, !.calls[Len(up.calls)].args = Append(@, NextPiece)]
  /\ UNCHANGED got

ChunkCallsOver ==
  /\ conv.pc = "calls"
  /\ conv' = [conv EXCEPT !.pc = "finish"]
  /\ UNCHANGED <<got, up>>

\* finish_reason and usage, where the chunk has them.
ChunkEnd ==
  /\ conv.pc = "finish"
  /\ \E f \in {"none"} \cup FinishReason, u \in {up.usage, up.sent} :
       LET stop == IF f = "none" THEN conv.finalStopReason ELSE stopReasonFromOpenAI(f) IN
       /\ conv' = [conv EXCEPT !.pc = "read", !.finalStopReason = stop, !.outputTokens = u]
       /\ up' = [up EXCEPT !.finish = stop, !.usage = u]
  /\ UNCHANGED got

-----------------------------------------------------------------------------
(* openTextBlockIfNeeded and writeTextDelta.                               *)

\* A mutant: the open tool block is not closed.
CloseToolForget ==
  /\ conv.pc = "text" /\ ~conv.textBlockStarted /\ conv.toolBlockStarted
  /\ conv' = [conv EXCEPT !.toolBlockStarted = FALSE]
  /\ UNCHANGED <<got, up>>

closeToolBlockOnly ==
  /\ conv.pc = "text" /\ ~conv.textBlockStarted /\ conv.toolBlockStarted
  /\ conv' = [conv EXCEPT !.toolBlockStarted = FALSE]
  /\ IF conv.activeBlockIndex = NoBlock THEN UNCHANGED got
     ELSE ContentBlockStop(conv.activeBlockIndex)
  /\ UNCHANGED up

OpenBlock == [conv EXCEPT !.activeBlockIndex = conv.nextBlockIndex, !.nextBlockIndex = @ + 1]

openTextBlock ==
  /\ conv.pc = "text" /\ ~conv.textBlockStarted /\ ~conv.toolBlockStarted
  /\ conv' = [OpenBlock EXCEPT !.textBlockStarted = TRUE]
  /\ ContentBlockStart(conv.nextBlockIndex, "text", NoPiece)
  /\ UNCHANGED up

writeTextDelta ==
  /\ conv.pc = "text" /\ conv.textBlockStarted
  /\ conv' = [conv EXCEPT !.pc = "calls"]
  /\ ContentBlockDelta(conv.activeBlockIndex, conv.data)
  /\ UNCHANGED up

-----------------------------------------------------------------------------
\* A mutant: the flag of the text block survives its end.
CloseSticky(pc) ==
  /\ conv' = [conv EXCEPT !.pc = pc, !.activeBlockIndex = NoBlock, !.toolBlockStarted = FALSE]
  /\ IF conv.activeBlockIndex = NoBlock THEN UNCHANGED got
     ELSE ContentBlockStop(conv.activeBlockIndex)
  /\ UNCHANGED up

\* closeActiveBlock, before a new call and at the end.
closeActiveBlock(pc) ==
  /\ IF conv.activeBlockIndex = NoBlock
     THEN conv' = [conv EXCEPT !.pc = pc] /\ UNCHANGED got
     ELSE /\ conv' = [conv EXCEPT !.pc = pc, !.activeBlockIndex = NoBlock,
                        !.textBlockStarted = FALSE, !.toolBlockStarted = FALSE]
          /\ ContentBlockStop(conv.activeBlockIndex)
  /\ UNCHANGED up

CloseForCall == conv.pc = "newCall" /\ closeActiveBlock("call")

\* With a tool block already open only the pending id and name change.
openToolBlock ==
  /\ conv.pc = "call"
  /\ IF conv.toolBlockStarted
     THEN conv' = [conv EXCEPT !.pc = "args"] /\ UNCHANGED got
     ELSE /\ conv' = [OpenBlock EXCEPT !.pc = "args", !.toolBlockStarted = TRUE]
          /\ ContentBlockStart(conv.nextBlockIndex, "tool_use", conv.id)
  /\ UNCHANGED up

writeInputJSONDelta ==
  /\ conv.pc = "args"
  /\ conv' = [conv EXCEPT !.pc = "calls"]
  /\ IF conv.data = NoPiece THEN UNCHANGED got
     ELSE ContentBlockDelta(conv.activeBlockIndex, conv.data)
  /\ UNCHANGED up

-----------------------------------------------------------------------------
CloseAtEnd == conv.pc = "close" /\ closeActiveBlock("delta")

writeMessageDelta ==
  /\ conv.pc = "delta"
  /\ conv' = [conv EXCEPT !.pc = "stop"]
  /\ got' = [got EXCEPT !.phase = "closing", !.stop = conv.finalStopReason, !.out = conv.outputTokens]
  /\ UNCHANGED up

writeMessageStop ==
  /\ conv.pc = "stop"
  /\ conv' = [conv EXCEPT !.pc = "done"]
  /\ got' = [got EXCEPT !.phase = "ended"]
  /\ UNCHANGED up

StreamNext ==
  \/ ReadChunk \/ ReadEnd \/ ReadError
  \/ WriteMessageStart \/ WritePing \/ ChunkText \/ ChunkCall \/ ChunkCallsOver \/ ChunkEnd
  \/ closeToolBlockOnly \/ openTextBlock \/ writeTextDelta
  \/ CloseForCall \/ openToolBlock \/ writeInputJSONDelta
  \/ CloseAtEnd \/ writeMessageDelta \/ writeMessageStop

StreamSpec == StreamInit /\ [][StreamNext]_streamVars

-----------------------------------------------------------------------------
\* The client is sent the events in the order of the protocol: blocks are numbered
\* without gaps, never overlap, and get their deltas while they are open.
Grammar == INSTANCE EventGrammar WITH
  Kind <- {"text", "tool_use"}, Id <- {NoPiece} \cup Piece, Datum <- Piece,
  Reason <- StopReason, Count <- 0..MaxPieces
ImplementsEventGrammar == Grammar!Spec
=============================================================================
