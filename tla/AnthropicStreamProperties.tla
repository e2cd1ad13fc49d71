---------------------- MODULE AnthropicStreamProperties ----------------------
(***************************************************************************)
(* What a client has when the stream is over, against what upstream said.  *)
(***************************************************************************)
EXTENDS AnthropicStream, SequencesExt

\* The text and the calls in the client's blocks, in order.
TextIn(b) == IF b.kind = "text" THEN b.data ELSE <<>>
CallsIn(b) == IF b.kind = "tool_use" THEN <<[id |-> b.id, args |-> b.data]>> ELSE <<>>
AllText(blocks) == FlattenSeq([j \in DOMAIN blocks |-> TextIn(blocks[j])])
AllCalls(blocks) == FlattenSeq([j \in DOMAIN blocks |-> CallsIn(blocks[j])])

\* messageContentToAnthropic of the same message not streamed: its text, then a block
\* for every call.
WholeText == up.text
WholeCalls == up.calls

\* A finished stream leaves the client with what the same answer would have given it
\* without streaming: all the text in order, every call with its id and arguments in
\* order, the stop reason and the number of output tokens.
Reassembles ==
  conv.pc = "done" =>
    /\ AllText(got.blocks) = WholeText
    /\ AllCalls(got.blocks) = WholeCalls
    /\ got.stop = up.finish /\ got.out = up.usage
=============================================================================
