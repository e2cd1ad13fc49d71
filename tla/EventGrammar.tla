---------------------------- MODULE EventGrammar ----------------------------
(***************************************************************************)
(* The order in which an Anthropic client may be sent the events of one    *)
(* message, as the comment above WriteAnthropicSSE lists them, and what    *)
(* the client makes of them.                                               *)
(***************************************************************************)
EXTENDS Integers, Sequences

CONSTANTS Kind, Id, Datum, Reason, Count
VARIABLE got    \* phase, the blocks received so far, stop_reason and output_tokens

Open == {j \in DOMAIN got.blocks : got.blocks[j].open}
Started == got.phase = "started"

Init == got = [phase |-> "none", blocks |-> <<>>, stop |-> "none", out |-> 0]

MessageStart ==
  /\ got.phase = "none"
  /\ got' = [got EXCEPT !.phase = "started"]

\* Blocks are numbered from 0 and never overlap.
BlockStart ==
  /\ Started /\ Open = {}
  /\ \E k \in Kind, i \in Id :
       got' = [got EXCEPT !.blocks = Append(@,
         [index |-> Len(got.blocks), kind |-> k, id |-> i, data |-> <<>>, open |-> TRUE])]

\* A delta goes to the last block, which is open.
BlockDelta ==
  LET n == Len(got.blocks) IN
  /\ Started /\ Open = {n}
  /\ \E d \in Datum : got' = [got EXCEPT !.blocks[n].data = Append(@, d)]

BlockStop ==
  LET n == Len(got.blocks) IN
  /\ Started /\ Open = {n}
  /\ got' = [got EXCEPT !.blocks[n].open = FALSE]

\* An upstream that sends no chunk gets no message_start: the code's exception.
MessageDelta ==
  /\ Open = {} /\ got.phase \in {"none", "started"}
  /\ \E s \in Reason, o \in Count : got' = [got EXCEPT !.phase = "closing", !.stop = s, !.out = o]

MessageStop ==
  /\ got.phase = "closing"
  /\ got' = [got EXCEPT !.phase = "ended"]

Next ==
  \/ MessageStart \/ BlockStart \/ BlockDelta \/ BlockStop
  \/ MessageDelta \/ MessageStop

Spec == Init /\ [][Next]_got
=============================================================================
