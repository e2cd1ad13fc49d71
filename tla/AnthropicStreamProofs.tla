------------------------ MODULE AnthropicStreamProofs ------------------------
(***************************************************************************)
(* The converter sends its events in the order of the protocol, however    *)
(* long the stream and however its text and calls alternate: StreamSpec    *)
(* implements EventGrammar.                                                *)
(***************************************************************************)
EXTENDS AnthropicStreamProperties, SequencesExt, SequenceTheorems, WellFoundedInduction, TLAPS

Block == [index: Nat, kind: {"text", "tool_use"}, id: Nat, data: Seq(Nat), open: BOOLEAN]
IsOpen == conv.textBlockStarted \/ conv.toolBlockStarted

\* The blocks the client has are numbered as they came, and the flags say which is open:
\* the last one, the active one.
BlocksInv ==
  /\ conv.nextBlockIndex = Len(got.blocks)
  /\ \A j \in 1..Len(got.blocks) : got.blocks[j].index = j - 1
  /\ IsOpen => Len(got.blocks) > 0 /\ conv.activeBlockIndex = Len(got.blocks) - 1
  /\ \A j \in 1..Len(got.blocks) : got.blocks[j].open <=> IsOpen /\ j = Len(got.blocks)

\* closeToolBlockOnly leaves a block active that is closed, until a text block follows.
FlagsInv ==
  /\ ~(conv.textBlockStarted /\ conv.toolBlockStarted)
  /\ conv.activeBlockIndex # NoBlock /\ ~IsOpen => conv.pc = "text"
  /\ conv.pc \in {"delta", "stop", "done"} => ~IsOpen
  /\ conv.pc = "text" => up.last = "text"
  /\ conv.pc = "args" => conv.toolBlockStarted
  /\ conv.pc = "call" => conv.toolBlockStarted \/ ~IsOpen
  /\ conv.pc \in {"read", "chunk", "calls", "finish"} /\ up.last = "call" => conv.toolBlockStarted

PhaseInv ==
  /\ conv.pc \in {"text", "calls", "newCall", "call", "args", "finish"} \/ IsOpen => conv.sentMessageStart
  /\ got.phase = CASE conv.pc = "stop" -> "closing"
                   [] conv.pc = "done" -> "ended"
                   [] conv.pc \notin {"stop", "done"} /\ conv.sentMessageStart -> "started"
                   [] conv.pc \notin {"stop", "done"} /\ ~conv.sentMessageStart -> "none"

Counts == 0..MaxPieces
RangesInv ==
  /\ up.sent \in Counts /\ up.usage \in Counts /\ conv.outputTokens \in Counts
  /\ conv.id \in Counts /\ conv.data \in Counts
  /\ conv.pc = "text" => conv.data # NoPiece
  /\ up.last = "call" => up.calls # <<>>

StreamInv == StreamTypeOK /\ BlocksInv /\ FlagsInv /\ PhaseInv /\ RangesInv

-----------------------------------------------------------------------------
(* What the events of a block do to the blocks, whatever is in them.       *)

\* Two sequences that differ in their last element at most.
LastOnly(s, t) == Len(t) = Len(s) /\ \A j \in 1..(Len(s) - 1) : t[j] = s[j]

\* The blocks the client has, as a sequence of records numbered from zero.
LEMMA BlocksType ==
  ASSUME StreamInv
  PROVE  /\ got.blocks \in Seq(Block) /\ Len(got.blocks) \in Nat
         /\ DOMAIN got.blocks = 1..Len(got.blocks)
         /\ \A j \in 1..Len(got.blocks) : got.blocks[j] \in Block
         /\ IsOpen => Grammar!Open = {Len(got.blocks)}
         /\ ~IsOpen => Grammar!Open = {}
<1>1. got.blocks \in Seq(Block)
  BY DEF StreamInv, StreamTypeOK, Block
<1>2. /\ Len(got.blocks) \in Nat
      /\ DOMAIN got.blocks = 1..Len(got.blocks)
      /\ \A j \in 1..Len(got.blocks) : got.blocks[j] \in Block
  BY <1>1
<1>3. \A j \in 1..Len(got.blocks) : got.blocks[j].open <=> IsOpen /\ j = Len(got.blocks)
  BY DEF StreamInv, BlocksInv
<1>4. IsOpen => Len(got.blocks) \in 1..Len(got.blocks)
  BY <1>2 DEF StreamInv, BlocksInv
<1> QED BY <1>1, <1>2, <1>3, <1>4 DEF Grammar!Open

\* A new block comes last, and is the open one.
LEMMA BlockStarts ==
  ASSUME StreamInv, ~IsOpen, got.phase = "started",
         NEW kind \in {"text", "tool_use"}, NEW id \in Counts,
         ContentBlockStart(conv.nextBlockIndex, kind, id)
  PROVE  /\ got' = [got EXCEPT !.blocks = got'.blocks]
         /\ got'.blocks \in Seq(Block) /\ Len(got'.blocks) = Len(got.blocks) + 1
         /\ \A j \in 1..Len(got'.blocks) :
              got'.blocks[j].index = j - 1 /\ (got'.blocks[j].open <=> j = Len(got'.blocks))
         /\ \E b \in Block : /\ b.kind = kind /\ b.id = id /\ b.data = <<>>
                            /\ got'.blocks = Append(got.blocks, b)
         /\ Grammar!BlockStart
<1> DEFINE n == Len(got.blocks)
           new == [index |-> n, kind |-> kind, id |-> id, data |-> <<>>, open |-> TRUE]
<1>1. /\ conv.nextBlockIndex = n
      /\ \A j \in 1..n : got.blocks[j].index = j - 1 /\ ~got.blocks[j].open
  BY DEF StreamInv, BlocksInv
<1>2. got.blocks \in Seq(Block) /\ n \in Nat /\ Grammar!Open = {}
  BY BlocksType
<1>3. got' = [got EXCEPT !.blocks = Append(got.blocks, new)]
  BY <1>1 DEF ContentBlockStart
<1>4. new \in Block
  <2>1. id \in Nat /\ n \in Nat /\ <<>> \in Seq(Nat)
    BY <1>2, StreamAssumption DEF Counts
  <2> QED BY <2>1 DEF Block
<1>5. got'.blocks = Append(got.blocks, new)
  BY <1>3 DEF StreamInv, StreamTypeOK
<1>6. Grammar!BlockStart
  <2>1. id \in {NoPiece} \cup Piece
    BY StreamAssumption DEF Counts, NoPiece, Piece
  <2> QED BY <1>2, <1>3, <2>1 DEF Grammar!BlockStart, Grammar!Started
<1>7. new.index = n /\ new.open = TRUE /\ new.kind = kind /\ new.id = id /\ new.data = <<>>
  OBVIOUS
<1> HIDE DEF new
<1>8. /\ got'.blocks \in Seq(Block) /\ Len(got'.blocks) = n + 1
      /\ got'.blocks[n + 1] = new
      /\ \A j \in 1..n : got'.blocks[j] = got.blocks[j]
  BY <1>2, <1>4, <1>5
<1>9. ASSUME NEW j \in 1..Len(got'.blocks)
      PROVE  got'.blocks[j].index = j - 1 /\ (got'.blocks[j].open <=> j = Len(got'.blocks))
  <2>1. j \in 1..n \/ j = n + 1
    BY <1>2, <1>8
  <2>2. CASE j \in 1..n
    <3>1. j # Len(got'.blocks)
      BY <1>2, <1>8, <2>2
    <3> QED BY <1>1, <1>8, <2>2, <3>1
  <2>3. CASE j = n + 1
    BY <1>2, <1>7, <1>8, <2>3
  <2> QED BY <2>1, <2>2, <2>3
<1> QED BY <1>3, <1>4, <1>5, <1>6, <1>7, <1>8, <1>9

\* A delta for the active block goes to the last one and changes nothing but its data.
LEMMA BlockGrows ==
  ASSUME StreamInv, IsOpen, got.phase = "started", NEW d \in Piece,
         ContentBlockDelta(conv.activeBlockIndex, d)
  PROVE  /\ got' = [got EXCEPT !.blocks = got'.blocks]
         /\ got'.blocks \in Seq(Block) /\ Len(got'.blocks) = Len(got.blocks)
         /\ \A j \in 1..Len(got.blocks) :
              got'.blocks[j].index = got.blocks[j].index /\ got'.blocks[j].open = got.blocks[j].open
         /\ Len(got.blocks) > 0
         /\ LastOnly(got.blocks, got'.blocks)
         /\ LET b == got.blocks[Len(got.blocks)]  c == got'.blocks[Len(got.blocks)] IN
            c.kind = b.kind /\ c.id = b.id /\ c.data = Append(b.data, d)
         /\ Grammar!BlockDelta
<1> DEFINE n == Len(got.blocks)
           i == conv.activeBlockIndex
           grown(j) == [got.blocks[j] EXCEPT !.data = Append(got.blocks[j].data, d)]
           blocks == [j \in 1..n |-> IF got.blocks[j].index = i THEN grown(j) ELSE got.blocks[j]]
<1>1. /\ n \in 1..n /\ i = n - 1
      /\ \A j \in 1..n : got.blocks[j].index = j - 1
  BY BlocksType DEF StreamInv, BlocksInv
<1>2. /\ got.blocks \in Seq(Block) /\ n \in Nat /\ DOMAIN got.blocks = 1..n
      /\ \A j \in 1..n : got.blocks[j] \in Block
  BY BlocksType
<1>3. got' = [got EXCEPT !.blocks = blocks]
  BY <1>2 DEF ContentBlockDelta
<1>4. \A j \in 1..n : grown(j) \in Block
  <2>1. d \in Nat
    BY StreamAssumption DEF Piece
  <2>2. \A j \in 1..n : Append(got.blocks[j].data, d) \in Seq(Nat)
    BY <1>2, <2>1 DEF Block
  <2> QED BY <1>2, <2>2 DEF Block
<1>5. \A j \in 1..n : grown(j).index = got.blocks[j].index /\ grown(j).open = got.blocks[j].open
  BY <1>2 DEF Block
<1>6. \A j \in 1..n : got.blocks[j].index = i <=> j = n
  BY <1>1, <1>2
<1>7. blocks = [got.blocks EXCEPT ![n].data = Append(got.blocks[n].data, d)]
  BY <1>1, <1>2, <1>6
<1>8. Grammar!BlockDelta
  <2>1. got' = [got EXCEPT !.blocks[n].data = Append(got.blocks[n].data, d)]
    BY <1>3, <1>7
  <2>2. Grammar!Open = {n}
    BY BlocksType
  <2> QED BY <2>1, <2>2 DEF Grammar!BlockDelta, Grammar!Started
<1> HIDE DEF grown
<1>9. blocks \in [1..n -> Block]
  BY <1>2, <1>4
<1>10. \A j \in 1..n : blocks[j].index = got.blocks[j].index /\ blocks[j].open = got.blocks[j].open
  BY <1>5
<1> HIDE DEF blocks
<1>11. blocks \in Seq(Block) /\ Len(blocks) = n
  BY <1>2, <1>9
<1>12. got'.blocks = blocks
  BY <1>3 DEF StreamInv, StreamTypeOK
<1>13. /\ n > 0 /\ LastOnly(got.blocks, blocks)
       /\ blocks[n].kind = got.blocks[n].kind /\ blocks[n].id = got.blocks[n].id
       /\ blocks[n].data = Append(got.blocks[n].data, d)
  <2>1. \A j \in 1..n : blocks[j] = IF j = n THEN grown(j) ELSE got.blocks[j]
    BY <1>6 DEF blocks
  <2>2. /\ grown(n).kind = got.blocks[n].kind /\ grown(n).id = got.blocks[n].id
        /\ grown(n).data = Append(got.blocks[n].data, d)
    BY <1>1, <1>2 DEF grown, Block
  <2>3. n > 0 /\ blocks[n] = grown(n) /\ \A j \in 1..(n - 1) : j \in 1..n /\ j # n
    BY <1>1, <1>2, <2>1
  <2>4. LastOnly(got.blocks, blocks)
    BY <1>11, <2>1, <2>3 DEF LastOnly
  <2> QED BY <2>2, <2>3, <2>4
<1> QED BY <1>3, <1>8, <1>10, <1>11, <1>12, <1>13

\* A stop for the active block closes the last one and changes nothing else.
LEMMA BlockEnds ==
  ASSUME StreamInv, IsOpen, got.phase = "started",
         ContentBlockStop(conv.activeBlockIndex)
  PROVE  /\ got' = [got EXCEPT !.blocks = got'.blocks]
         /\ got'.blocks \in Seq(Block) /\ Len(got'.blocks) = Len(got.blocks)
         /\ \A j \in 1..Len(got.blocks) :
              got'.blocks[j].index = got.blocks[j].index /\ ~got'.blocks[j].open
         /\ Len(got.blocks) > 0
         /\ LastOnly(got.blocks, got'.blocks)
         /\ LET b == got.blocks[Len(got.blocks)]  c == got'.blocks[Len(got.blocks)] IN
            c.kind = b.kind /\ c.id = b.id /\ c.data = b.data
         /\ Grammar!BlockStop
<1> DEFINE n == Len(got.blocks)
           i == conv.activeBlockIndex
           ended(j) == [got.blocks[j] EXCEPT !.open = FALSE]
           blocks == [j \in 1..n |-> IF got.blocks[j].index = i THEN ended(j) ELSE got.blocks[j]]
<1>1. /\ n \in 1..n /\ i = n - 1
      /\ \A j \in 1..n : got.blocks[j].index = j - 1
      /\ \A j \in 1..n : got.blocks[j].open <=> j = n
  BY BlocksType, SMTT(30) DEF StreamInv, BlocksInv
<1>2. /\ got.blocks \in Seq(Block) /\ n \in Nat /\ DOMAIN got.blocks = 1..n
      /\ \A j \in 1..n : got.blocks[j] \in Block
  BY BlocksType
<1>3. got' = [got EXCEPT !.blocks = blocks]
  BY <1>2 DEF ContentBlockStop
<1>4. \A j \in 1..n : ended(j) \in Block
  BY <1>2 DEF Block
<1>5. \A j \in 1..n : ended(j).index = got.blocks[j].index /\ ended(j).open = FALSE
  BY <1>2 DEF Block
<1>6. \A j \in 1..n : got.blocks[j].index = i <=> j = n
  BY <1>1, <1>2
<1>7. blocks = [got.blocks EXCEPT ![n].open = FALSE]
  BY <1>1, <1>2, <1>6
<1>8. Grammar!BlockStop
  <2>1. got' = [got EXCEPT !.blocks[n].open = FALSE]
    BY <1>3, <1>7
  <2>2. Grammar!Open = {n}
    BY BlocksType
  <2> QED BY <2>1, <2>2 DEF Grammar!BlockStop, Grammar!Started
<1> HIDE DEF ended
<1>9. blocks \in [1..n -> Block]
  BY <1>2, <1>4
<1>10. \A j \in 1..n : blocks[j].index = got.blocks[j].index /\ ~blocks[j].open
  BY <1>1, <1>5, <1>6
<1> HIDE DEF blocks
<1>11. blocks \in Seq(Block) /\ Len(blocks) = n
  BY <1>2, <1>9
<1>12. got'.blocks = blocks
  BY <1>3 DEF StreamInv, StreamTypeOK
<1>13. /\ n > 0 /\ LastOnly(got.blocks, blocks)
       /\ blocks[n].kind = got.blocks[n].kind /\ blocks[n].id = got.blocks[n].id
       /\ blocks[n].data = got.blocks[n].data
  <2>1. \A j \in 1..n : blocks[j] = IF j = n THEN ended(j) ELSE got.blocks[j]
    BY <1>6 DEF blocks
  <2>2. /\ ended(n).kind = got.blocks[n].kind /\ ended(n).id = got.blocks[n].id
        /\ ended(n).data = got.blocks[n].data
    BY <1>1, <1>2 DEF ended, Block
  <2>3. n > 0 /\ blocks[n] = ended(n) /\ \A j \in 1..(n - 1) : j \in 1..n /\ j # n
    BY <1>1, <1>2, <2>1
  <2>4. LastOnly(got.blocks, blocks)
    BY <1>11, <2>1, <2>3 DEF LastOnly
  <2> QED BY <2>2, <2>3, <2>4
<1> QED BY <1>3, <1>8, <1>10, <1>11, <1>12, <1>13

-----------------------------------------------------------------------------
(* The steps that send nothing of a block.                                 *)

\* A converter whose blocks, flags of blocks and indices are left alone.
LEMMA BlocksLeft ==
  ASSUME StreamInv, UNCHANGED <<conv.nextBlockIndex, conv.activeBlockIndex, conv.textBlockStarted,
                                conv.toolBlockStarted, got.blocks>>
  PROVE  BlocksInv'
BY DEF StreamInv, BlocksInv, IsOpen

\* Reading the next line.
LEMMA ReadKeeps ==
  ASSUME StreamInv, ReadChunk \/ ReadEnd \/ ReadError
  PROVE  StreamInv'
<1>1. CASE ReadChunk
  <2>1. StreamTypeOK'
    BY <1>1, StreamAssumption DEF ReadChunk, StreamInv, StreamTypeOK, RangesInv, Counts, ConvPcs
  <2>2. BlocksInv'
    BY <1>1, BlocksLeft DEF ReadChunk, StreamInv, StreamTypeOK
  <2>3. FlagsInv'
    BY <1>1 DEF ReadChunk, StreamInv, StreamTypeOK, FlagsInv, BlocksInv, IsOpen, ConvPcs
  <2>4. PhaseInv'
    BY <1>1 DEF ReadChunk, StreamInv, StreamTypeOK, PhaseInv, IsOpen
  <2>5. RangesInv'
    BY <1>1, StreamAssumption DEF ReadChunk, StreamInv, StreamTypeOK, RangesInv, Counts
  <2> QED BY <2>1, <2>2, <2>3, <2>4, <2>5 DEF StreamInv
<1>2. CASE ReadEnd
  <2>1. StreamTypeOK'
    BY <1>2, StreamAssumption DEF ReadEnd, StreamInv, StreamTypeOK, RangesInv, Counts, ConvPcs
  <2>2. BlocksInv'
    BY <1>2, BlocksLeft DEF ReadEnd, StreamInv, StreamTypeOK
  <2>3. FlagsInv'
    BY <1>2 DEF ReadEnd, StreamInv, StreamTypeOK, FlagsInv, BlocksInv, IsOpen, ConvPcs
  <2>4. PhaseInv'
    BY <1>2 DEF ReadEnd, StreamInv, StreamTypeOK, PhaseInv, IsOpen
  <2>5. RangesInv'
    BY <1>2, StreamAssumption DEF ReadEnd, StreamInv, StreamTypeOK, RangesInv, Counts
  <2> QED BY <2>1, <2>2, <2>3, <2>4, <2>5 DEF StreamInv
<1>3. CASE ReadError
  <2>1. StreamTypeOK'
    BY <1>3, StreamAssumption DEF ReadError, StreamInv, StreamTypeOK, RangesInv, Counts, ConvPcs
  <2>2. BlocksInv'
    BY <1>3, BlocksLeft DEF ReadError, StreamInv, StreamTypeOK
  <2>3. FlagsInv'
    BY <1>3 DEF ReadError, StreamInv, StreamTypeOK, FlagsInv, BlocksInv, IsOpen, ConvPcs
  <2>4. PhaseInv'
    BY <1>3 DEF ReadError, StreamInv, StreamTypeOK, PhaseInv, IsOpen
  <2>5. RangesInv'
    BY <1>3, StreamAssumption DEF ReadError, StreamInv, StreamTypeOK, RangesInv, Counts
  <2> QED BY <2>1, <2>2, <2>3, <2>4, <2>5 DEF StreamInv
<1> QED BY <1>1, <1>2, <1>3

\* Opening a message, and going through a chunk.
LEMMA ChunkKeeps ==
  ASSUME StreamInv, WriteMessageStart \/ WritePing \/ ChunkText \/ ChunkCall \/ ChunkCallsOver \/ ChunkEnd
  PROVE  StreamInv'
<1>1. CASE WriteMessageStart
  <2>1. StreamTypeOK'
    BY <1>1, StreamAssumption DEF WriteMessageStart, StreamInv, StreamTypeOK, RangesInv, Counts, ConvPcs
  <2>2. BlocksInv'
    BY <1>1, BlocksLeft DEF WriteMessageStart, StreamInv, StreamTypeOK
  <2>3. FlagsInv'
    BY <1>1 DEF WriteMessageStart, StreamInv, StreamTypeOK, FlagsInv, BlocksInv, IsOpen, ConvPcs
  <2>4. PhaseInv'
    BY <1>1 DEF WriteMessageStart, StreamInv, StreamTypeOK, PhaseInv, IsOpen
  <2>5. RangesInv'
    BY <1>1, StreamAssumption DEF WriteMessageStart, StreamInv, StreamTypeOK, RangesInv, Counts
  <2> QED BY <2>1, <2>2, <2>3, <2>4, <2>5 DEF StreamInv
<1>2. CASE WritePing
  <2>1. StreamTypeOK'
    BY <1>2, StreamAssumption DEF WritePing, StreamInv, StreamTypeOK, RangesInv, Counts, ConvPcs
  <2>2. BlocksInv'
    BY <1>2, BlocksLeft DEF WritePing, StreamInv, StreamTypeOK
  <2>3. FlagsInv'
    BY <1>2 DEF WritePing, StreamInv, StreamTypeOK, FlagsInv, BlocksInv, IsOpen, ConvPcs
  <2>4. PhaseInv'
    BY <1>2 DEF WritePing, StreamInv, StreamTypeOK, PhaseInv, IsOpen
  <2>5. RangesInv'
    BY <1>2, StreamAssumption DEF WritePing, StreamInv, StreamTypeOK, RangesInv, Counts
  <2> QED BY <2>1, <2>2, <2>3, <2>4, <2>5 DEF StreamInv
<1>3. CASE ChunkText
  <2>1. CASE conv' = [conv EXCEPT !.pc = "calls"] /\ UNCHANGED <<up, got>>
    <3>1. StreamTypeOK' /\ RangesInv'
      BY <2>1 DEF StreamInv, StreamTypeOK, RangesInv, Counts, ConvPcs
    <3>2. BlocksInv'
      BY <2>1, BlocksLeft DEF StreamInv, StreamTypeOK
    <3>3. FlagsInv'
      BY <1>3, <2>1 DEF ChunkText, StreamInv, StreamTypeOK, FlagsInv, BlocksInv, IsOpen, ConvPcs
    <3>4. PhaseInv'
      BY <1>3, <2>1 DEF ChunkText, StreamInv, StreamTypeOK, PhaseInv, IsOpen
    <3> QED BY <3>1, <3>2, <3>3, <3>4 DEF StreamInv
  <2>2. CASE /\ up.sent < MaxPieces
             /\ conv' = [conv EXCEPT !.pc = "text", !.data = NextPiece]
             /\ up' = [up EXCEPT !.sent = NextPiece, !.last = "text", !.text = Append(up.text, NextPiece)]
             /\ UNCHANGED got
    <3>1. NextPiece \in Nat /\ NextPiece \in Counts /\ NextPiece # NoPiece
      BY <2>2, StreamAssumption DEF StreamInv, RangesInv, Counts, NextPiece, NoPiece
    <3> HIDE DEF NextPiece
    <3>2. Append(up.text, NextPiece) \in Seq(Nat)
      BY <3>1 DEF StreamInv, StreamTypeOK
    <3>3. conv'.data = NextPiece /\ up'.sent = NextPiece
      BY <2>2 DEF StreamInv, StreamTypeOK
    <3>4. StreamTypeOK'
      BY <2>2, <3>1, <3>2 DEF StreamInv, StreamTypeOK, ConvPcs
    <3>5. RangesInv'
      BY <2>2, <3>1, <3>3 DEF StreamInv, StreamTypeOK, RangesInv
    <3>6. BlocksInv'
      BY <2>2, BlocksLeft DEF StreamInv, StreamTypeOK
    <3>7. FlagsInv'
      BY <1>3, <2>2 DEF ChunkText, StreamInv, StreamTypeOK, FlagsInv, BlocksInv, IsOpen, ConvPcs
    <3>8. PhaseInv'
      BY <1>3, <2>2 DEF ChunkText, StreamInv, StreamTypeOK, PhaseInv, IsOpen
    <3> QED BY <3>4, <3>5, <3>6, <3>7, <3>8 DEF StreamInv
  <2> QED BY <1>3, <2>1, <2>2 DEF ChunkText
<1>4. CASE ChunkCall
  <2>1. up.sent < MaxPieces /\ conv.pc = "calls" /\ UNCHANGED got
    BY <1>4 DEF ChunkCall
  <2>2. NextPiece \in Nat /\ NextPiece \in Counts /\ NoPiece \in Counts
    BY <2>1, StreamAssumption DEF StreamInv, RangesInv, Counts, NextPiece, NoPiece
  <2>3. CASE \E data \in {NoPiece, NextPiece} :
               /\ conv' = [conv EXCEPT !.pc = "newCall", !.id = NextPiece, !.data = data]
               /\ up' = [up EXCEPT !.sent = NextPiece, !.last = "call",
                    !.calls = Append(up.calls, [id |-> NextPiece,
                                args |-> IF data = NoPiece THEN <<>> ELSE <<data>>])]
    <3>1. PICK data \in {NoPiece, NextPiece} :
               /\ conv' = [conv EXCEPT !.pc = "newCall", !.id = NextPiece, !.data = data]
               /\ up' = [up EXCEPT !.sent = NextPiece, !.last = "call",
                    !.calls = Append(up.calls, [id |-> NextPiece,
                                args |-> IF data = NoPiece THEN <<>> ELSE <<data>>])]
      BY <2>3
    <3> DEFINE call == [id |-> NextPiece, args |-> IF data = NoPiece THEN <<>> ELSE <<data>>]
               calls == Append(up.calls, call)
    <3> HIDE DEF NextPiece
    <3>2. data \in Counts /\ data \in Nat
      BY <2>2, StreamAssumption DEF Counts
    <3>3. call \in [id: Nat, args: Seq(Nat)]
      <4>1. <<>> \in Seq(Nat) /\ <<data>> \in Seq(Nat)
        BY <3>2
      <4> QED BY <2>2, <4>1
    <3> HIDE DEF call
    <3>4. calls \in Seq([id: Nat, args: Seq(Nat)]) /\ calls # <<>>
      <4> DEFINE Calls == [id: Nat, args: Seq(Nat)]
      <4>1. up.calls \in Seq(Calls) /\ call \in Calls
        BY <3>3 DEF StreamInv, StreamTypeOK
      <4> HIDE DEF Calls
      <4>2. calls \in Seq(Calls) /\ calls # <<>>
        BY <4>1, AppendProperties DEF calls
      <4> QED BY <4>2 DEF Calls
    <3>5. up' = [up EXCEPT !.sent = NextPiece, !.last = "call", !.calls = calls]
      BY <3>1 DEF call
    <3> HIDE DEF calls
    <3>6. StreamTypeOK'
      BY <2>1, <2>2, <3>1, <3>2, <3>4, <3>5 DEF StreamInv, StreamTypeOK, ConvPcs
    <3>7. RangesInv'
      BY <2>1, <2>2, <3>1, <3>2, <3>4, <3>5 DEF StreamInv, StreamTypeOK, RangesInv
    <3>8. BlocksInv'
      BY <2>1, <3>1, BlocksLeft DEF StreamInv, StreamTypeOK
    <3>9. FlagsInv'
      BY <2>1, <3>1 DEF StreamInv, StreamTypeOK, FlagsInv, BlocksInv, IsOpen, ConvPcs
    <3>10. PhaseInv'
      BY <2>1, <3>1 DEF StreamInv, StreamTypeOK, PhaseInv, IsOpen
    <3> QED BY <3>6, <3>7, <3>8, <3>9, <3>10 DEF StreamInv
  <2>4. CASE /\ up.last = "call"
             /\ conv' = [conv EXCEPT !.pc = "call", !.id = NoPiece, !.data = NextPiece]
             /\ up' = [up EXCEPT !.sent = NextPiece,
                         !.calls[Len(up.calls)].args = Append(@, NextPiece)]
    <3> DEFINE n == Len(up.calls)
               call == [up.calls[n] EXCEPT !.args = Append(up.calls[n].args, NextPiece)]
               calls == [up.calls EXCEPT ![n] = call]
    <3> HIDE DEF NextPiece
    <3>1. up.calls \in Seq([id: Nat, args: Seq(Nat)]) /\ up.calls # <<>> /\ n \in 1..n
      BY <2>4 DEF StreamInv, StreamTypeOK, RangesInv
    <3>2. up.calls[n] \in [id: Nat, args: Seq(Nat)]
      BY <3>1, ElementOfSeq
    <3>3. Append(up.calls[n].args, NextPiece) \in Seq(Nat)
      BY <2>2, <3>2
    <3>4. call \in [id: Nat, args: Seq(Nat)]
      BY <3>2, <3>3
    <3>5. up' = [up EXCEPT !.sent = NextPiece, !.calls = calls]
      BY <2>4
    <3> HIDE DEF call
    <3>6. calls \in Seq([id: Nat, args: Seq(Nat)]) /\ Len(calls) = n
      BY <3>1, <3>4, ExceptSeq
    <3> HIDE DEF calls
    <3>7. calls # <<>>
      BY <3>1, <3>6
    <3>8. StreamTypeOK'
      BY <2>1, <2>2, <2>4, <3>5, <3>6 DEF StreamInv, StreamTypeOK, ConvPcs, NoPiece
    <3>9. RangesInv'
      BY <2>1, <2>2, <2>4, <3>5, <3>7 DEF StreamInv, StreamTypeOK, RangesInv
    <3>10. BlocksInv'
      BY <2>1, <2>4, BlocksLeft DEF StreamInv, StreamTypeOK
    <3>11. FlagsInv'
      BY <2>1, <2>4, <3>5 DEF StreamInv, StreamTypeOK, FlagsInv, BlocksInv, IsOpen, ConvPcs
    <3>12. PhaseInv'
      BY <2>1, <2>4 DEF StreamInv, StreamTypeOK, PhaseInv, IsOpen
    <3> QED BY <3>8, <3>9, <3>10, <3>11, <3>12 DEF StreamInv
  <2> QED BY <1>4, <2>3, <2>4 DEF ChunkCall
<1>5. CASE ChunkCallsOver
  <2>1. StreamTypeOK'
    BY <1>5, StreamAssumption DEF ChunkCallsOver, StreamInv, StreamTypeOK, RangesInv, Counts, ConvPcs
  <2>2. BlocksInv'
    BY <1>5, BlocksLeft DEF ChunkCallsOver, StreamInv, StreamTypeOK
  <2>3. FlagsInv'
    BY <1>5 DEF ChunkCallsOver, StreamInv, StreamTypeOK, FlagsInv, BlocksInv, IsOpen, ConvPcs
  <2>4. PhaseInv'
    BY <1>5 DEF ChunkCallsOver, StreamInv, StreamTypeOK, PhaseInv, IsOpen
  <2>5. RangesInv'
    BY <1>5, StreamAssumption DEF ChunkCallsOver, StreamInv, StreamTypeOK, RangesInv, Counts
  <2> QED BY <2>1, <2>2, <2>3, <2>4, <2>5 DEF StreamInv
<1>6. CASE ChunkEnd
  <2>1. StreamTypeOK'
    <3>1. PICK f \in {"none"} \cup FinishReason, u \in {up.usage, up.sent} :
            LET stop == IF f = "none" THEN conv.finalStopReason ELSE stopReasonFromOpenAI(f) IN
            /\ conv' = [conv EXCEPT !.pc = "read", !.finalStopReason = stop, !.outputTokens = u]
            /\ up' = [up EXCEPT !.finish = stop, !.usage = u]
      BY <1>6 DEF ChunkEnd
    <3>2. u \in Nat
      BY DEF StreamInv, StreamTypeOK
    <3>3. (IF f = "none" THEN conv.finalStopReason ELSE stopReasonFromOpenAI(f)) \in StopReason
      BY DEF stopReasonFromOpenAI, FinishReason, StopReason, StreamInv, StreamTypeOK
    <3> HIDE DEF StopReason
    <3> QED BY <1>6, <3>1, <3>2, <3>3 DEF ChunkEnd, StreamInv, StreamTypeOK, ConvPcs
  <2>2. BlocksInv'
    BY <1>6, BlocksLeft DEF ChunkEnd, stopReasonFromOpenAI, FinishReason, StopReason, StreamInv, StreamTypeOK
  <2>3. FlagsInv'
    BY <1>6 DEF ChunkEnd, stopReasonFromOpenAI, FinishReason, StopReason, StreamInv, StreamTypeOK, FlagsInv, BlocksInv, IsOpen, ConvPcs
  <2>4. PhaseInv'
    BY <1>6 DEF ChunkEnd, stopReasonFromOpenAI, FinishReason, StopReason, StreamInv, StreamTypeOK, PhaseInv, IsOpen
  <2>5. RangesInv'
    BY <1>6, StreamAssumption DEF ChunkEnd, stopReasonFromOpenAI, FinishReason, StopReason, StreamInv, StreamTypeOK, RangesInv, Counts
  <2> QED BY <2>1, <2>2, <2>3, <2>4, <2>5 DEF StreamInv
<1> QED BY <1>1, <1>2, <1>3, <1>4, <1>5, <1>6

\* The last two events.
LEMMA EndKeeps ==
  ASSUME StreamInv, writeMessageDelta \/ writeMessageStop
  PROVE  StreamInv'
<1>1. CASE writeMessageDelta
  <2>1. StreamTypeOK'
    BY <1>1, StreamAssumption DEF writeMessageDelta, StreamInv, StreamTypeOK, RangesInv, Counts, ConvPcs
  <2>2. BlocksInv'
    BY <1>1, BlocksLeft DEF writeMessageDelta, StreamInv, StreamTypeOK
  <2>3. FlagsInv'
    BY <1>1 DEF writeMessageDelta, StreamInv, StreamTypeOK, FlagsInv, BlocksInv, IsOpen, ConvPcs
  <2>4. PhaseInv'
    BY <1>1 DEF writeMessageDelta, StreamInv, StreamTypeOK, PhaseInv, IsOpen
  <2>5. RangesInv'
    BY <1>1, StreamAssumption DEF writeMessageDelta, StreamInv, StreamTypeOK, RangesInv, Counts
  <2> QED BY <2>1, <2>2, <2>3, <2>4, <2>5 DEF StreamInv
<1>2. CASE writeMessageStop
  <2>1. StreamTypeOK'
    BY <1>2, StreamAssumption DEF writeMessageStop, StreamInv, StreamTypeOK, RangesInv, Counts, ConvPcs
  <2>2. BlocksInv'
    BY <1>2, BlocksLeft DEF writeMessageStop, StreamInv, StreamTypeOK
  <2>3. FlagsInv'
    BY <1>2 DEF writeMessageStop, StreamInv, StreamTypeOK, FlagsInv, BlocksInv, IsOpen, ConvPcs
  <2>4. PhaseInv'
    BY <1>2 DEF writeMessageStop, StreamInv, StreamTypeOK, PhaseInv, IsOpen
  <2>5. RangesInv'
    BY <1>2, StreamAssumption DEF writeMessageStop, StreamInv, StreamTypeOK, RangesInv, Counts
  <2> QED BY <2>1, <2>2, <2>3, <2>4, <2>5 DEF StreamInv
<1> QED BY <1>1, <1>2

-----------------------------------------------------------------------------
(* The steps that start, fill and end blocks.                              *)

\* The blocks' part of the type, once their sequence is known to have it.
LEMMA GotType ==
  ASSUME StreamInv, got' = [got EXCEPT !.blocks = got'.blocks], got'.blocks \in Seq(Block)
  PROVE  /\ got' \in [phase: {"none", "started", "closing", "ended"},
                      blocks: Seq(Block), stop: StopReason, out: Nat]
         /\ got'.phase = got.phase
BY DEF StreamInv, StreamTypeOK, Block

\* With a block open the message has begun and is not closing.
LEMMA StartedPhase ==
  ASSUME StreamInv, conv.sentMessageStart, conv.pc \notin {"stop", "done"}
  PROVE  got.phase = "started"
BY DEF StreamInv, PhaseInv

LEMMA OpenKeeps ==
  ASSUME StreamInv, NEW kind \in {"text", "tool_use"}, NEW id \in Counts, NEW pc \in ConvPcs,
         ~IsOpen, got.phase = "started", conv.sentMessageStart,
         ContentBlockStart(conv.nextBlockIndex, kind, id),
         conv' = [conv EXCEPT !.activeBlockIndex = conv.nextBlockIndex,
                              !.nextBlockIndex = conv.nextBlockIndex + 1, !.pc = pc,
                              !.textBlockStarted = (kind = "text"), !.toolBlockStarted = (kind = "tool_use")],
         \/ kind = "text" /\ pc = "text" /\ conv.pc = "text"
         \/ kind = "tool_use" /\ pc = "args",
         UNCHANGED up
  PROVE  StreamInv' /\ Grammar!BlockStart
<1>1. /\ got' = [got EXCEPT !.blocks = got'.blocks]
      /\ got'.blocks \in Seq(Block) /\ Len(got'.blocks) = Len(got.blocks) + 1
      /\ \A j \in 1..Len(got'.blocks) :
           got'.blocks[j].index = j - 1 /\ (got'.blocks[j].open <=> j = Len(got'.blocks))
      /\ Grammar!BlockStart
  BY BlockStarts
<1>2. Len(got.blocks) \in Nat /\ conv.nextBlockIndex = Len(got.blocks)
  BY BlocksType DEF StreamInv, BlocksInv
<1>3. /\ conv'.activeBlockIndex = Len(got.blocks) /\ conv'.nextBlockIndex = Len(got.blocks) + 1
      /\ conv'.pc = pc /\ conv'.textBlockStarted = (kind = "text") /\ conv'.toolBlockStarted = (kind = "tool_use")
      /\ conv'.sentMessageStart = conv.sentMessageStart /\ conv'.outputTokens = conv.outputTokens
      /\ conv'.id = conv.id /\ conv'.data = conv.data
  BY <1>2 DEF StreamInv, StreamTypeOK
<1>4. StreamTypeOK'
  <2>1. conv' \in [pc: ConvPcs, sentMessageStart: BOOLEAN, sentPing: BOOLEAN,
               nextBlockIndex: Nat, activeBlockIndex: Nat \cup {NoBlock},
               textBlockStarted: BOOLEAN, toolBlockStarted: BOOLEAN,
               finalStopReason: StopReason, outputTokens: Nat,
               id: Nat, data: Nat]
    <3>1. conv.nextBlockIndex \in Nat /\ conv.nextBlockIndex + 1 \in Nat
      BY <1>2
    <3> QED BY <3>1 DEF StreamInv, StreamTypeOK
  <2> QED BY <1>1, <2>1, GotType DEF StreamInv, StreamTypeOK, Block
<1>5. IsOpen'
  BY <1>3 DEF IsOpen
<1>6. BlocksInv'
  BY <1>1, <1>2, <1>3, <1>5 DEF BlocksInv
<1>7. FlagsInv'
  BY <1>3, <1>5 DEF StreamInv, FlagsInv
<1>8. PhaseInv'
  BY <1>1, <1>3, GotType DEF PhaseInv
<1>9. RangesInv'
  BY <1>3 DEF StreamInv, RangesInv
<1> QED BY <1>1, <1>4, <1>6, <1>7, <1>8, <1>9 DEF StreamInv

\* A delta, after which the converter goes on to the calls.
LEMMA DeltaKeeps ==
  ASSUME StreamInv, NEW d \in Piece, IsOpen, got.phase = "started", conv.sentMessageStart,
         ContentBlockDelta(conv.activeBlockIndex, d),
         conv' = [conv EXCEPT !.pc = "calls"],
         up.last = "call" => conv.toolBlockStarted,
         UNCHANGED up
  PROVE  StreamInv' /\ Grammar!BlockDelta
<1>1. /\ got' = [got EXCEPT !.blocks = got'.blocks]
      /\ got'.blocks \in Seq(Block) /\ Len(got'.blocks) = Len(got.blocks)
      /\ \A j \in 1..Len(got.blocks) :
           got'.blocks[j].index = got.blocks[j].index /\ got'.blocks[j].open = got.blocks[j].open
      /\ Grammar!BlockDelta
  BY BlockGrows
<1>2. /\ conv'.pc = "calls"
      /\ UNCHANGED <<conv.activeBlockIndex, conv.nextBlockIndex, conv.textBlockStarted, conv.toolBlockStarted,
                     conv.sentMessageStart, conv.outputTokens, conv.id, conv.data>>
  BY DEF StreamInv, StreamTypeOK
<1>3. IsOpen' = IsOpen
  BY <1>2 DEF IsOpen
<1>4. StreamTypeOK'
  <2>1. conv' \in [pc: ConvPcs, sentMessageStart: BOOLEAN, sentPing: BOOLEAN,
               nextBlockIndex: Nat, activeBlockIndex: Nat \cup {NoBlock},
               textBlockStarted: BOOLEAN, toolBlockStarted: BOOLEAN,
               finalStopReason: StopReason, outputTokens: Nat,
               id: Nat, data: Nat]
    BY DEF StreamInv, StreamTypeOK, ConvPcs
  <2> QED BY <1>1, <2>1, GotType DEF StreamInv, StreamTypeOK, Block
<1>5. BlocksInv'
  BY <1>1, <1>2, <1>3 DEF StreamInv, BlocksInv
<1>6. FlagsInv'
  BY <1>2, <1>3 DEF StreamInv, FlagsInv
<1>7. PhaseInv'
  BY <1>1, <1>2, GotType DEF PhaseInv
<1>8. RangesInv'
  BY <1>2 DEF StreamInv, RangesInv
<1> QED BY <1>1, <1>4, <1>5, <1>6, <1>7, <1>8 DEF StreamInv

\* A stop, of a tool block before text or of the active block.
LEMMA StopKeeps ==
  ASSUME StreamInv, NEW pc \in ConvPcs, NEW i \in Nat \cup {NoBlock},
         IsOpen, got.phase = "started", conv.sentMessageStart,
         ContentBlockStop(conv.activeBlockIndex),
         conv' = [conv EXCEPT !.pc = pc, !.activeBlockIndex = i,
                              !.textBlockStarted = FALSE, !.toolBlockStarted = FALSE],
         \/ i = NoBlock /\ pc \in {"call", "delta"}
         \/ conv.pc = "text" /\ pc = "text",
         UNCHANGED up
  PROVE  StreamInv' /\ Grammar!BlockStop
<1>1. /\ got' = [got EXCEPT !.blocks = got'.blocks]
      /\ got'.blocks \in Seq(Block) /\ Len(got'.blocks) = Len(got.blocks)
      /\ \A j \in 1..Len(got.blocks) :
           got'.blocks[j].index = got.blocks[j].index /\ ~got'.blocks[j].open
      /\ Grammar!BlockStop
  BY BlockEnds
<1>2. /\ conv'.pc = pc /\ conv'.activeBlockIndex = i
      /\ conv'.textBlockStarted = FALSE /\ conv'.toolBlockStarted = FALSE
      /\ UNCHANGED <<conv.nextBlockIndex, conv.sentMessageStart, conv.outputTokens, conv.id, conv.data>>
  BY DEF StreamInv, StreamTypeOK
<1>3. ~IsOpen'
  BY <1>2 DEF IsOpen
<1>4. StreamTypeOK'
  <2>1. conv' \in [pc: ConvPcs, sentMessageStart: BOOLEAN, sentPing: BOOLEAN,
               nextBlockIndex: Nat, activeBlockIndex: Nat \cup {NoBlock},
               textBlockStarted: BOOLEAN, toolBlockStarted: BOOLEAN,
               finalStopReason: StopReason, outputTokens: Nat,
               id: Nat, data: Nat]
    BY DEF StreamInv, StreamTypeOK
  <2> QED BY <1>1, <2>1, GotType DEF StreamInv, StreamTypeOK, Block
<1>5. BlocksInv'
  BY <1>1, <1>2, <1>3 DEF StreamInv, BlocksInv
<1>6. FlagsInv'
  BY <1>2, <1>3 DEF StreamInv, FlagsInv
<1>7. PhaseInv'
  BY <1>1, <1>2, GotType DEF PhaseInv
<1>8. RangesInv'
  BY <1>2 DEF StreamInv, RangesInv
<1> QED BY <1>1, <1>4, <1>5, <1>6, <1>7, <1>8 DEF StreamInv

\* A step that only moves on, among the places where blocks are looked after.
LEMMA MoveKeeps ==
  ASSUME StreamInv, NEW pc \in ConvPcs,
         conv' = [conv EXCEPT !.pc = pc], UNCHANGED <<got, up>>,
         conv.pc \in {"newCall", "call", "args", "close"},
         \/ pc = "call" /\ ~IsOpen /\ conv.pc = "newCall"
         \/ pc = "args" /\ conv.toolBlockStarted
         \/ pc = "calls" /\ conv.toolBlockStarted
         \/ pc = "delta" /\ ~IsOpen
  PROVE  StreamInv'
<1>1. StreamTypeOK'
  BY DEF StreamInv, StreamTypeOK
<1>2. /\ conv'.pc = pc
      /\ UNCHANGED <<conv.activeBlockIndex, conv.nextBlockIndex, conv.textBlockStarted, conv.toolBlockStarted,
                     conv.sentMessageStart, conv.outputTokens, conv.id, conv.data, got.blocks>>
  BY DEF StreamInv, StreamTypeOK
<1>3. BlocksInv'
  BY <1>2, BlocksLeft
<1>4. FlagsInv'
  BY <1>2 DEF StreamInv, FlagsInv, IsOpen
<1>5. PhaseInv'
  BY <1>2 DEF StreamInv, PhaseInv, IsOpen
<1>6. RangesInv'
  BY <1>2 DEF StreamInv, RangesInv
<1> QED BY <1>1, <1>3, <1>4, <1>5, <1>6 DEF StreamInv

LEMMA CloseKeeps ==
  ASSUME StreamInv, NEW pc \in {"call", "delta"}, closeActiveBlock(pc),
         \/ conv.pc = "newCall" /\ pc = "call"
         \/ conv.pc = "close" /\ pc = "delta"
  PROVE  StreamInv' /\ [Grammar!BlockStop]_got
<1>1. pc \in ConvPcs
  BY DEF ConvPcs
<1>2. CASE conv.activeBlockIndex = NoBlock
  <2>1. conv' = [conv EXCEPT !.pc = pc] /\ UNCHANGED <<got, up>>
    BY <1>2 DEF closeActiveBlock
  <2>2. ~IsOpen
    BY <1>2, BlocksType DEF StreamInv, BlocksInv, NoBlock
  <2> QED BY <1>1, <2>1, <2>2, MoveKeeps
<1>3. CASE conv.activeBlockIndex # NoBlock
  <2>1. /\ conv' = [conv EXCEPT !.pc = pc, !.activeBlockIndex = NoBlock,
                      !.textBlockStarted = FALSE, !.toolBlockStarted = FALSE]
        /\ ContentBlockStop(conv.activeBlockIndex)
        /\ UNCHANGED up
    BY <1>3 DEF closeActiveBlock
  <2>2. IsOpen
    BY <1>3 DEF StreamInv, FlagsInv
  <2>3. conv.sentMessageStart
    BY <2>2 DEF StreamInv, PhaseInv
  <2>4. got.phase = "started"
    BY <2>3, StartedPhase
  <2>5. NoBlock \in Nat \cup {NoBlock}
    OBVIOUS
  <2>6. StreamInv' /\ Grammar!BlockStop
    BY ONLY <1>1, <2>1, <2>2, <2>3, <2>4, <2>5, StopKeeps, StreamInv, pc \in {"call", "delta"}, Zenon
  <2> QED BY <2>6
<1> QED BY <1>2, <1>3

LEMMA BlockSteps ==
  ASSUME StreamInv,
         \/ closeToolBlockOnly \/ openTextBlock \/ writeTextDelta
         \/ CloseForCall \/ openToolBlock \/ writeInputJSONDelta \/ CloseAtEnd
  PROVE  StreamInv' /\ [Grammar!Next]_got
<1>1. CASE closeToolBlockOnly
  <2>1. IsOpen /\ conv.sentMessageStart /\ got.phase = "started"
    BY <1>1, StartedPhase DEF closeToolBlockOnly, IsOpen, StreamInv, PhaseInv
  <2>2. conv.activeBlockIndex # NoBlock /\ conv.activeBlockIndex \in Nat \cup {NoBlock}
    BY <2>1, BlocksType DEF StreamInv, StreamTypeOK, BlocksInv, NoBlock
  <2>3. /\ ContentBlockStop(conv.activeBlockIndex)
        /\ UNCHANGED up
        /\ conv.pc = "text"
    BY <1>1, <2>2 DEF closeToolBlockOnly
  <2>4. conv' = [conv EXCEPT !.pc = "text", !.activeBlockIndex = conv.activeBlockIndex,
                   !.textBlockStarted = FALSE, !.toolBlockStarted = FALSE]
    BY <1>1 DEF closeToolBlockOnly, StreamInv, StreamTypeOK
  <2>5. "text" \in ConvPcs
    BY DEF ConvPcs
  <2>6. StreamInv' /\ Grammar!BlockStop
    BY <2>1, <2>2, <2>3, <2>4, <2>5, StopKeeps
  <2> QED BY <2>6 DEF Grammar!Next
<1>2. CASE openTextBlock
  <2>1. ~IsOpen /\ conv.pc = "text" /\ conv.sentMessageStart
    BY <1>2 DEF openTextBlock, IsOpen, StreamInv, PhaseInv
  <2>2. got.phase = "started"
    BY <2>1, StartedPhase
  <2>3. conv' = [conv EXCEPT !.activeBlockIndex = conv.nextBlockIndex,
                   !.nextBlockIndex = conv.nextBlockIndex + 1, !.pc = "text",
                   !.textBlockStarted = ("text" = "text"), !.toolBlockStarted = ("text" = "tool_use")]
    BY <1>2 DEF openTextBlock, OpenBlock, StreamInv, StreamTypeOK
  <2>4. ContentBlockStart(conv.nextBlockIndex, "text", NoPiece) /\ UNCHANGED up
    BY <1>2 DEF openTextBlock
  <2>5. NoPiece \in Counts /\ "text" \in ConvPcs
    BY StreamAssumption DEF NoPiece, Counts, ConvPcs
  <2>6. "text" \in {"text", "tool_use"} /\ ("text" = "text" /\ "text" = "text" /\ conv.pc = "text")
    BY <2>1
  <2>7. StreamInv' /\ Grammar!BlockStart
    BY ONLY <2>1, <2>2, <2>3, <2>4, <2>5, <2>6, OpenKeeps, StreamInv, Zenon
  <2> QED BY <2>7 DEF Grammar!Next
<1>3. CASE writeTextDelta
  <2>1. /\ IsOpen /\ conv.pc = "text" /\ conv.sentMessageStart
        /\ up.last = "text" /\ conv.data # NoPiece /\ conv.data \in Counts
    BY <1>3 DEF writeTextDelta, IsOpen, StreamInv, PhaseInv, FlagsInv, RangesInv
  <2>2. got.phase = "started"
    BY <2>1, StartedPhase
  <2>3. conv.data \in Piece
    BY <2>1, StreamAssumption DEF Counts, Piece, NoPiece
  <2>4. ContentBlockDelta(conv.activeBlockIndex, conv.data) /\ UNCHANGED up
        /\ conv' = [conv EXCEPT !.pc = "calls"]
    BY <1>3 DEF writeTextDelta
  <2>5. StreamInv' /\ Grammar!BlockDelta
    BY <2>1, <2>2, <2>3, <2>4, DeltaKeeps
  <2> QED BY <2>5 DEF Grammar!Next
<1>4. CASE CloseForCall
  <2>2. closeActiveBlock("call") /\ conv.pc = "newCall" /\ "call" \in {"call", "delta"}
    BY <1>4 DEF CloseForCall
  <2>1. StreamInv' /\ [Grammar!BlockStop]_got
    BY <2>2, CloseKeeps, Zenon
  <2> QED BY <2>1 DEF Grammar!Next
<1>5. CASE openToolBlock
  <2>1. "args" \in ConvPcs /\ conv.pc = "call" /\ conv.sentMessageStart
    BY <1>5 DEF openToolBlock, ConvPcs, StreamInv, PhaseInv
  <2>2. CASE conv.toolBlockStarted
    <3>1. conv' = [conv EXCEPT !.pc = "args"] /\ UNCHANGED <<got, up>>
      BY <1>5, <2>2 DEF openToolBlock
    <3> QED BY <2>1, <2>2, <3>1, MoveKeeps
  <2>3. CASE ~conv.toolBlockStarted
    <3>1. ~IsOpen
      BY <2>1, <2>3 DEF StreamInv, FlagsInv
    <3>2. got.phase = "started"
      BY <2>1, StartedPhase
    <3>3. conv' = [conv EXCEPT !.activeBlockIndex = conv.nextBlockIndex,
                     !.nextBlockIndex = conv.nextBlockIndex + 1, !.pc = "args",
                     !.textBlockStarted = ("tool_use" = "text"),
                     !.toolBlockStarted = ("tool_use" = "tool_use")]
      <4>1. conv.textBlockStarted = FALSE
        BY <3>1 DEF StreamInv, StreamTypeOK, IsOpen
      <4>2. conv' = [OpenBlock EXCEPT !.pc = "args", !.toolBlockStarted = TRUE]
        BY <1>5, <2>3 DEF openToolBlock
      <4> QED BY <4>1, <4>2 DEF OpenBlock, StreamInv, StreamTypeOK
    <3>4. ContentBlockStart(conv.nextBlockIndex, "tool_use", conv.id) /\ UNCHANGED up
      BY <1>5, <2>3 DEF openToolBlock
    <3>5. conv.id \in Counts
      BY DEF StreamInv, RangesInv
    <3>6. StreamInv' /\ Grammar!BlockStart
      BY <2>1, <3>1, <3>2, <3>3, <3>4, <3>5, OpenKeeps
    <3> QED BY <3>6 DEF Grammar!Next
  <2> QED BY <2>2, <2>3
<1>6. CASE writeInputJSONDelta
  <2>1. /\ IsOpen /\ conv.toolBlockStarted /\ conv.pc = "args" /\ conv.sentMessageStart
        /\ conv.data \in Counts /\ "calls" \in ConvPcs
    BY <1>6 DEF writeInputJSONDelta, IsOpen, StreamInv, PhaseInv, FlagsInv, RangesInv, ConvPcs
  <2>2. got.phase = "started"
    BY <2>1, StartedPhase
  <2>3. conv' = [conv EXCEPT !.pc = "calls"] /\ UNCHANGED up
    BY <1>6 DEF writeInputJSONDelta
  <2>4. CASE conv.data = NoPiece
    <3>1. UNCHANGED got
      BY <1>6, <2>4 DEF writeInputJSONDelta
    <3> QED BY <2>1, <2>3, <3>1, MoveKeeps
  <2>5. CASE conv.data # NoPiece
    <3>1. conv.data \in Piece
      BY <2>1, <2>5, StreamAssumption DEF Counts, Piece, NoPiece
    <3>2. ContentBlockDelta(conv.activeBlockIndex, conv.data)
      BY <1>6, <2>5 DEF writeInputJSONDelta
    <3>3. StreamInv' /\ Grammar!BlockDelta
      BY <2>1, <2>2, <2>3, <3>1, <3>2, DeltaKeeps
    <3> QED BY <3>3 DEF Grammar!Next
  <2> QED BY <2>4, <2>5
<1>7. CASE CloseAtEnd
  <2>1. StreamInv' /\ [Grammar!BlockStop]_got
    BY <1>7, CloseKeeps DEF CloseAtEnd
  <2> QED BY <2>1 DEF Grammar!Next
<1> QED BY <1>1, <1>2, <1>3, <1>4, <1>5, <1>6, <1>7

-----------------------------------------------------------------------------
LEMMA StreamInitHolds == StreamInit => StreamInv /\ Grammar!Init
<1> SUFFICES ASSUME StreamInit
             PROVE  StreamInv /\ Grammar!Init
  OBVIOUS
<1>1. StreamTypeOK
  <2>1. <<>> \in Seq(Block) /\ <<>> \in Seq(Nat) /\ <<>> \in Seq([id: Nat, args: Seq(Nat)])
    OBVIOUS
  <2> QED BY <2>1 DEF StreamInit, StreamTypeOK, Block, ConvPcs, StopReason, NoBlock, NoPiece
<1>2. BlocksInv
  <2>1. Len(got.blocks) = 0 /\ conv.nextBlockIndex = 0 /\ ~IsOpen
    BY DEF StreamInit, IsOpen
  <2> QED BY <2>1 DEF BlocksInv
<1>3. FlagsInv /\ PhaseInv
  BY DEF StreamInit, FlagsInv, PhaseInv, IsOpen
<1>4. RangesInv
  BY StreamAssumption DEF StreamInit, RangesInv, Counts, NoPiece
<1>5. Grammar!Init
  BY DEF StreamInit, Grammar!Init
<1> QED BY <1>1, <1>2, <1>3, <1>4, <1>5 DEF StreamInv

\* Every step keeps the invariant and is a step of the grammar, or sends nothing.
LEMMA StreamStep ==
  ASSUME StreamInv, [StreamNext]_streamVars
  PROVE  StreamInv' /\ [Grammar!Next]_got
<1>1. CASE ReadChunk \/ ReadEnd \/ ReadError
  BY <1>1, ReadKeeps DEF ReadChunk, ReadEnd, ReadError
<1>2. CASE WriteMessageStart
  <2>1. got.phase = "none"
    BY <1>2 DEF WriteMessageStart, StreamInv, PhaseInv
  <2>2. Grammar!MessageStart
    BY <1>2, <2>1 DEF WriteMessageStart, Grammar!MessageStart
  <2> QED BY <1>2, <2>2, ChunkKeeps DEF Grammar!Next
<1>3. CASE WritePing \/ ChunkText \/ ChunkCall \/ ChunkCallsOver \/ ChunkEnd
  BY <1>3, ChunkKeeps DEF WritePing, ChunkText, ChunkCall, ChunkCallsOver, ChunkEnd
<1>4. CASE \/ closeToolBlockOnly \/ openTextBlock \/ writeTextDelta
           \/ CloseForCall \/ openToolBlock \/ writeInputJSONDelta \/ CloseAtEnd
  BY <1>4, BlockSteps
<1>5. CASE writeMessageDelta
  <2>1. ~IsOpen /\ got.phase \in {"none", "started"}
    BY <1>5 DEF writeMessageDelta, StreamInv, FlagsInv, PhaseInv
  <2>2. Grammar!Open = {}
    BY <2>1, BlocksType
  <2>3. conv.finalStopReason \in StopReason /\ conv.outputTokens \in 0..MaxPieces
    BY DEF StreamInv, StreamTypeOK, RangesInv, Counts
  <2>4. Grammar!MessageDelta
    BY <1>5, <2>1, <2>2, <2>3 DEF writeMessageDelta, Grammar!MessageDelta
  <2> QED BY <1>5, <2>4, EndKeeps DEF Grammar!Next
<1>6. CASE writeMessageStop
  <2>1. got.phase = "closing"
    BY <1>6 DEF writeMessageStop, StreamInv, PhaseInv
  <2>2. Grammar!MessageStop
    BY <1>6, <2>1 DEF writeMessageStop, Grammar!MessageStop
  <2> QED BY <1>6, <2>2, EndKeeps DEF Grammar!Next
<1>7. CASE UNCHANGED streamVars
  BY <1>7 DEF streamVars, StreamInv, StreamTypeOK, BlocksInv, FlagsInv, PhaseInv, RangesInv, IsOpen
<1> QED BY <1>1, <1>2, <1>3, <1>4, <1>5, <1>6, <1>7 DEF StreamNext

LEMMA StreamInvariant == StreamSpec => []StreamInv
<1> QED BY StreamInitHolds, StreamStep, PTL DEF StreamSpec

\* The converter, its client and the history keep their types, however long the stream.
THEOREM StreamTypes == StreamSpec => []StreamTypeOK
<1>1. StreamInv => StreamTypeOK
  BY DEF StreamInv
<1> QED BY <1>1, StreamInvariant, PTL

\* However upstream's text and calls alternate, and however long its stream, the client
\* is sent the events in the order of the protocol (stream.go, streamConverter).
THEOREM StreamImplementsGrammar == StreamSpec => ImplementsEventGrammar
<1> QED BY StreamInitHolds, StreamStep, StreamInvariant, PTL DEF StreamSpec, ImplementsEventGrammar, Grammar!Spec

-----------------------------------------------------------------------------
\* A set of numbers up to N with 0, and with a number the next, has all of them.
LEMMA UpToAll ==
  ASSUME NEW N \in Nat, NEW G \in SUBSET (0..N), 0 \in G,
         \A k \in 1..N : k - 1 \in G => k \in G
  PROVE  G = 0..N
<1> DEFINE bad == (0..N) \ G
<1>1. SUFFICES ASSUME bad # {} PROVE FALSE
  OBVIOUS
<1>2. PICK k \in bad : \A i \in bad : <<i, k>> \notin OpToRel(<, Nat)
  <2>1. bad \subseteq Nat
    OBVIOUS
  <2> HIDE DEF bad
  <2> QED BY <1>1, <2>1, NatLessThanWellFounded, WFMin
<1>3. k \in 1..N /\ k - 1 \in 0..N
  OBVIOUS
<1>4. k - 1 \in G
  <2>1. <<k - 1, k>> \in OpToRel(<, Nat)
    BY <1>3 DEF OpToRel
  <2> QED BY <1>2, <1>3, <2>1
<1> QED BY <1>3, <1>4

-----------------------------------------------------------------------------
(***************************************************************************)
(* FlattenSeq of the community modules: of no sequence, and of one more.   *)
(***************************************************************************)
Flattens(g, ss) == g = [i \in 1..Len(ss) |-> IF i = 1 THEN ss[i] ELSE g[i - 1] \o ss[i]]

UpTo(g, k, ss, S) ==
  /\ g = [i \in 1..k |-> g[i]]
  /\ \A i \in 1..k : g[i] = (IF i = 1 THEN ss[i] ELSE g[i - 1] \o ss[i]) /\ g[i] \in Seq(S)

\* The function FlattenSeq is defined by exists, and its values are sequences.
LEMMA FlattenExists ==
  ASSUME NEW S, NEW ss \in Seq(Seq(S))
  PROVE  \E g : Flattens(g, ss) /\ \A i \in 1..Len(ss) : g[i] \in Seq(S)
<1> DEFINE N == Len(ss)
           G == {k \in 0..N : \E g : UpTo(g, k, ss, S)}
<1>1. N \in Nat /\ \A i \in 1..N : ss[i] \in Seq(S)
  OBVIOUS
<1>2. 0 \in G
  <2>1. UpTo([i \in 1..0 |-> <<>>], 0, ss, S)
    BY DEF UpTo
  <2>2. \E g : UpTo(g, 0, ss, S)
    BY <2>1
  <2> QED BY <1>1, <2>2
<1>3. ASSUME NEW k \in 1..N, k - 1 \in G PROVE k \in G
  <2>3. k \in Nat /\ k \in 1..N
    BY <1>1
  <2>4. PICK g : UpTo(g, k - 1, ss, S)
    BY <1>3
  <2> DEFINE new == IF k = 1 THEN ss[k] ELSE g[k - 1] \o ss[k]
             h == [i \in 1..k |-> IF i = k THEN new ELSE g[i]]
  <2>5. new \in Seq(S)
    <3>1. ss[k] \in Seq(S)
      BY <1>1, <2>3
    <3>2. k # 1 => g[k - 1] \in Seq(S)
      <4>1. k # 1 => k - 1 \in 1..(k - 1)
        BY <2>3
      <4> QED BY <2>4, <4>1 DEF UpTo
    <3> QED BY <3>1, <3>2
  <2>6. ASSUME NEW i \in 1..k
        PROVE  h[i] = (IF i = 1 THEN ss[i] ELSE h[i - 1] \o ss[i]) /\ h[i] \in Seq(S)
    <3>1. i # 1 => i - 1 \in 1..(k - 1) /\ h[i - 1] = g[i - 1]
      BY <2>3
    <3>2. CASE i = k
      <4>1. h[i] = new
        BY <3>2
      <4> HIDE DEF h
      <4> QED BY <2>5, <3>1, <3>2, <4>1
    <3>3. CASE i # k
      <4>1. i \in 1..(k - 1) /\ h[i] = g[i]
        BY <2>3, <3>3
      <4> HIDE DEF h
      <4> QED BY <2>4, <3>1, <4>1 DEF UpTo
    <3> QED BY <3>2, <3>3
  <2>7. h = [i \in 1..k |-> h[i]]
    OBVIOUS
  <2>8. UpTo(h, k, ss, S)
    <3> HIDE DEF h
    <3> QED BY <2>6, <2>7 DEF UpTo
  <2>9. \E f : UpTo(f, k, ss, S)
    BY <2>8
  <2> HIDE DEF h
  <2> QED BY <2>3, <2>9
<1>5. G = 0..N
  <2> HIDE DEF G
  <2>1. G \in SUBSET (0..N)
    BY DEF G
  <2> QED BY <1>1, <1>2, <1>3, <2>1, UpToAll
<1>6. \E g : UpTo(g, N, ss, S)
  BY <1>1, <1>5
<1>7. PICK g : UpTo(g, N, ss, S)
  BY <1>6
<1> QED BY <1>7 DEF Flattens, UpTo

\* Such a function agrees with one for a longer sequence.
LEMMA FlattenAgrees ==
  ASSUME NEW ss, NEW tt, Len(ss) \in Nat, Len(tt) \in Nat, Len(ss) <= Len(tt),
         \A i \in 1..Len(ss) : tt[i] = ss[i],
         NEW g, Flattens(g, ss), NEW h, Flattens(h, tt)
  PROVE  \A i \in 1..Len(ss) : h[i] = g[i]
<1> DEFINE G == {k \in 0..Len(ss) : \A i \in 1..k : h[i] = g[i]}
<1>1. Len(ss) \in Nat /\ Len(tt) \in Nat
  OBVIOUS
<1>2. 0 \in G
  BY <1>1
<1>3. ASSUME NEW k \in 1..Len(ss), k - 1 \in G PROVE k \in G
  <2>1. k \in 1..Len(tt)
    BY <1>1
  <2>2. /\ g[k] = IF k = 1 THEN ss[k] ELSE g[k - 1] \o ss[k]
        /\ h[k] = IF k = 1 THEN tt[k] ELSE h[k - 1] \o tt[k]
    BY <2>1 DEF Flattens
  <2>3. \A i \in 1..(k - 1) : h[i] = g[i]
    BY <1>3
  <2>4. k # 1 => k - 1 \in 1..(k - 1)
    BY <1>1
  <2>5. h[k] = g[k]
    BY <2>2, <2>3, <2>4
  <2>6. \A i \in 1..k : i = k \/ i \in 1..(k - 1)
    BY <1>1
  <2>7. \A i \in 1..k : h[i] = g[i]
    <3> HIDE DEF G
    <3> QED BY <2>3, <2>5, <2>6
  <2>8. k \in 0..Len(ss)
    BY <1>1
  <2> QED BY <2>7, <2>8
<1>4. G = 0..Len(ss)
  <2> HIDE DEF G
  <2>1. G \in SUBSET (0..Len(ss))
    BY DEF G
  <2> QED BY <1>1, <1>2, <1>3, <2>1, UpToAll
<1>5. Len(ss) \in G
  <2>1. Len(ss) \in 0..Len(ss)
    BY <1>1
  <2> HIDE DEF G
  <2> QED BY <1>4, <2>1
<1> QED BY <1>5

LEMMA FlattenIs ==
  ASSUME NEW S, NEW ss \in Seq(Seq(S)), Len(ss) # 0
  PROVE  \E g : Flattens(g, ss) /\ FlattenSeq(ss) = g[Len(ss)] /\ g[Len(ss)] \in Seq(S)
<1>1. PICK f : Flattens(f, ss) /\ \A i \in 1..Len(ss) : f[i] \in Seq(S)
  BY FlattenExists
<1> DEFINE g == CHOOSE g : Flattens(g, ss)
<1>2. Flattens(g, ss)
  BY <1>1
<1>3. FlattenSeq(ss) = g[Len(ss)]
  BY DEF FlattenSeq, Flattens
<1> HIDE DEF g
<1>4. Len(ss) \in Nat /\ Len(ss) <= Len(ss) /\ Len(ss) \in 1..Len(ss)
  OBVIOUS
<1>5. g[Len(ss)] = f[Len(ss)]
  BY <1>1, <1>2, <1>4, FlattenAgrees
<1> QED BY <1>1, <1>2, <1>3, <1>4, <1>5

LEMMA FlattenType ==
  ASSUME NEW S, NEW ss \in Seq(Seq(S))
  PROVE  FlattenSeq(ss) \in Seq(S)
<1>1. CASE Len(ss) = 0
  <2>1. FlattenSeq(ss) = ss /\ ss = <<>>
    BY <1>1 DEF FlattenSeq
  <2> QED BY <2>1
<1>2. CASE Len(ss) # 0
  BY <1>2, FlattenIs
<1> QED BY <1>1, <1>2

\* One sequence more is put behind.
LEMMA FlattenAppend ==
  ASSUME NEW S, NEW ss \in Seq(Seq(S)), NEW s \in Seq(S)
  PROVE  FlattenSeq(Append(ss, s)) = FlattenSeq(ss) \o s
<1> DEFINE n == Len(ss)
           tt == Append(ss, s)
<1>1. /\ n \in Nat /\ tt \in Seq(Seq(S)) /\ Len(tt) = n + 1 /\ tt[n + 1] = s
      /\ \A i \in 1..n : tt[i] = ss[i]
  OBVIOUS
<1> HIDE DEF tt
<1>2. PICK h : Flattens(h, tt) /\ FlattenSeq(tt) = h[n + 1]
  BY <1>1, FlattenIs
<1>3. h[n + 1] = IF n + 1 = 1 THEN s ELSE h[n] \o s
  <2>1. n + 1 \in 1..(n + 1) /\ (n + 1) - 1 = n
    BY <1>1
  <2> QED BY <1>1, <1>2, <2>1 DEF Flattens
<1>4. CASE n = 0
  <2>1. FlattenSeq(ss) = <<>>
    BY <1>4 DEF FlattenSeq
  <2> QED BY <1>2, <1>3, <1>4, <2>1 DEF tt
<1>5. CASE n # 0
  <2>1. PICK g : Flattens(g, ss) /\ FlattenSeq(ss) = g[n]
    BY <1>5, FlattenIs
  <2>2. n \in 1..n /\ n <= Len(tt) /\ n + 1 # 1
    BY <1>1, <1>5
  <2>3. h[n] = g[n]
    <3>1. /\ Len(ss) \in Nat /\ Len(tt) \in Nat /\ Len(ss) <= Len(tt)
          /\ \A i \in 1..Len(ss) : tt[i] = ss[i]
          /\ Flattens(g, ss) /\ Flattens(h, tt)
      BY <1>1, <1>2, <2>1
    <3>2. \A i \in 1..Len(ss) : h[i] = g[i]
      BY ONLY <3>1, FlattenAgrees
    <3> QED BY <2>2, <3>2
  <2> QED BY <1>2, <1>3, <2>1, <2>2, <2>3 DEF tt
<1> QED BY <1>4, <1>5

(***************************************************************************)
(* What is where in a flattened sequence.                                  *)
(***************************************************************************)
\* f has what the first n sequences have, sequence after sequence.
Placed(f, ss, n) ==
  /\ \A k \in DOMAIN f : \E i \in 1..n : \E a \in DOMAIN ss[i] : f[k] = ss[i][a]
  /\ \A i \in 1..n : \A a \in DOMAIN ss[i] : \E k \in DOMAIN f : f[k] = ss[i][a]
  /\ \A j, k \in DOMAIN f : j < k =>
       \E i, l \in 1..n : \E a \in DOMAIN ss[i] : \E b \in DOMAIN ss[l] :
         f[j] = ss[i][a] /\ f[k] = ss[l][b] /\ (i < l \/ (i = l /\ a < b))

\* Two elements are in the order of their sequences.
Precedes(f, ss, n, j, k) ==
  \E i, l \in 1..n : \E a \in DOMAIN ss[i] : \E b \in DOMAIN ss[l] :
    f[j] = ss[i][a] /\ f[k] = ss[l][b] /\ (i < l \/ (i = l /\ a < b))

LEMMA PlacedOrder ==
  ASSUME NEW f, NEW ss, NEW n, Placed(f, ss, n), NEW j \in DOMAIN f, NEW k \in DOMAIN f, j < k
  PROVE  Precedes(f, ss, n, j, k)
BY DEF Placed, Precedes

LEMMA PlacedNext ==
  ASSUME NEW S, NEW ss \in Seq(Seq(S)), NEW n \in Nat, n + 1 \in 1..Len(ss),
         NEW f \in Seq(S), Placed(f, ss, n)
  PROVE  Placed(f \o ss[n + 1], ss, n + 1)
<1> DEFINE s == ss[n + 1]
           g == f \o s
<1>1. /\ s \in Seq(S) /\ Len(f) \in Nat /\ Len(s) \in Nat
      /\ DOMAIN f = 1..Len(f) /\ DOMAIN s = 1..Len(s)
  BY LenProperties
<1>2. /\ g \in Seq(S) /\ DOMAIN g = 1..(Len(f) + Len(s))
      /\ \A k \in 1..(Len(f) + Len(s)) : g[k] = IF k <= Len(f) THEN f[k] ELSE s[k - Len(f)]
  BY <1>1, ConcatProperties, LenProperties
<1> HIDE DEF g
<1>3. /\ \A k \in DOMAIN g : (k \in DOMAIN f /\ g[k] = f[k]) \/
                             (k > Len(f) /\ k - Len(f) \in DOMAIN s /\ g[k] = s[k - Len(f)])
      /\ \A k \in DOMAIN f : k \in DOMAIN g /\ g[k] = f[k]
      /\ \A a \in DOMAIN s : a + Len(f) \in DOMAIN g /\ g[a + Len(f)] = s[a]
  <2>1. ASSUME NEW k \in DOMAIN g
        PROVE  (k \in DOMAIN f /\ g[k] = f[k]) \/
               (k > Len(f) /\ k - Len(f) \in DOMAIN s /\ g[k] = s[k - Len(f)])
    <3> HIDE DEF s
    <3>1. k \in 1..(Len(f) + Len(s)) /\ g[k] = IF k <= Len(f) THEN f[k] ELSE s[k - Len(f)]
      BY <1>2
    <3>2. CASE k <= Len(f)
      BY <1>1, <3>1, <3>2
    <3>3. CASE ~(k <= Len(f))
      <4>1. k > Len(f) /\ k - Len(f) \in 1..Len(s)
        BY <1>1, <3>1, <3>3
      <4> QED BY <1>1, <3>1, <3>3, <4>1
    <3> QED BY <3>2, <3>3
  <2>2. ASSUME NEW k \in DOMAIN f PROVE k \in DOMAIN g /\ g[k] = f[k]
    BY <1>1, <1>2
  <2>3. ASSUME NEW a \in DOMAIN s PROVE a + Len(f) \in DOMAIN g /\ g[a + Len(f)] = s[a]
    <3>1. a \in 1..Len(s) /\ a + Len(f) \in 1..(Len(f) + Len(s)) /\ ~(a + Len(f) <= Len(f))
          /\ (a + Len(f)) - Len(f) = a
      BY <1>1
    <3> QED BY <1>2, <3>1
  <2> QED BY <2>1, <2>2, <2>3
<1>4. n + 1 \in 1..(n + 1) /\ \A i \in 1..(n + 1) : i \in 1..n \/ i = n + 1
  OBVIOUS
<1>5. \A i \in 1..n : i \in 1..(n + 1) /\ i < n + 1
  OBVIOUS
<1>6. ASSUME NEW k \in DOMAIN g
      PROVE  \E i \in 1..(n + 1) : \E a \in DOMAIN ss[i] : g[k] = ss[i][a]
  <2>1. CASE k \in DOMAIN f /\ g[k] = f[k]
    <3>1. PICK i \in 1..n : \E a \in DOMAIN ss[i] : f[k] = ss[i][a]
      BY <2>1 DEF Placed
    <3> QED BY <1>5, <2>1, <3>1
  <2>2. CASE k - Len(f) \in DOMAIN s /\ g[k] = s[k - Len(f)]
    BY <1>4, <2>2
  <2> QED BY <1>3, <2>1, <2>2
<1>7. ASSUME NEW i \in 1..(n + 1), NEW a \in DOMAIN ss[i]
      PROVE  \E k \in DOMAIN g : g[k] = ss[i][a]
  <2>1. CASE i = n + 1
    <3>1. a + Len(f) \in DOMAIN g /\ g[a + Len(f)] = ss[i][a]
      BY <1>3, <2>1
    <3> QED BY <3>1
  <2>2. CASE i \in 1..n
    <3>1. PICK k \in DOMAIN f : f[k] = ss[i][a]
      BY <2>2 DEF Placed
    <3> QED BY <1>3, <3>1
  <2> QED BY <1>4, <2>1, <2>2
<1>8. ASSUME NEW j \in DOMAIN g, NEW k \in DOMAIN g, j < k
      PROVE  \E i, l \in 1..(n + 1) : \E a \in DOMAIN ss[i] : \E b \in DOMAIN ss[l] :
               g[j] = ss[i][a] /\ g[k] = ss[l][b] /\ (i < l \/ (i = l /\ a < b))
  <2>1. CASE k \in DOMAIN f /\ g[k] = f[k]
    <3>1. j \in DOMAIN f /\ g[j] = f[j]
      BY <1>1, <1>2, <1>8, <2>1
    <3>2. j < k
      BY <1>8
    <3>3. Precedes(f, ss, n, j, k)
      BY <2>1, <3>1, <3>2, PlacedOrder
    <3>4. PICK i, l \in 1..n : \E a \in DOMAIN ss[i] : \E b \in DOMAIN ss[l] :
            f[j] = ss[i][a] /\ f[k] = ss[l][b] /\ (i < l \/ (i = l /\ a < b))
      BY <3>3 DEF Precedes
    <3> QED BY <1>5, <2>1, <3>1, <3>4
  <2>2. CASE k > Len(f) /\ k - Len(f) \in DOMAIN s /\ g[k] = s[k - Len(f)]
    <3>1. CASE j \in DOMAIN f /\ g[j] = f[j]
      <4>1. PICK i \in 1..n : \E a \in DOMAIN ss[i] : f[j] = ss[i][a]
        BY <3>1 DEF Placed
      <4> QED BY <1>4, <1>5, <2>2, <3>1, <4>1
    <3>2. CASE j > Len(f) /\ j - Len(f) \in DOMAIN s /\ g[j] = s[j - Len(f)]
      <4>1. j - Len(f) < k - Len(f)
        BY <1>1, <1>2, <1>8
      <4> QED BY <1>4, <2>2, <3>2, <4>1
    <3> QED BY <1>3, <3>1, <3>2
  <2> QED BY <1>3, <2>1, <2>2
<1> HIDE DEF s
<1>9. Placed(g, ss, n + 1)
  BY <1>6, <1>7, <1>8 DEF Placed
<1> QED BY <1>9 DEF g, s

\* A flattened sequence has what its sequences have, one sequence after the other.
LEMMA FlattenPlaced ==
  ASSUME NEW S, NEW ss \in Seq(Seq(S))
  PROVE  FlattenSeq(ss) \in Seq(S) /\ Placed(FlattenSeq(ss), ss, Len(ss))
<1> DEFINE N == Len(ss)
           first(k) == SubSeq(ss, 1, k)
           G == {k \in 0..N : FlattenSeq(first(k)) \in Seq(S) /\ Placed(FlattenSeq(first(k)), ss, k)}
<1>1. N \in Nat /\ first(N) = ss /\ \A i \in 1..N : ss[i] \in Seq(S)
  BY SubSeqFull, LenProperties
<1>2. 0 \in G
  <2>1. first(0) = <<>>
    BY SubSeqEmpty
  <2>2. FlattenSeq(<<>>) = <<>>
    BY DEF FlattenSeq
  <2>3. Placed(<<>>, ss, 0)
    BY DEF Placed
  <2>4. <<>> \in Seq(S) /\ 0 \in 0..N
    BY <1>1
  <2> HIDE DEF first
  <2> QED BY <2>1, <2>2, <2>3, <2>4
<1>3. ASSUME NEW k \in 1..N, k - 1 \in G PROVE k \in G
  <2>1. FlattenSeq(first(k - 1)) \in Seq(S) /\ Placed(FlattenSeq(first(k - 1)), ss, k - 1)
    BY <1>3
  <2>2. first(k) = Append(first(k - 1), ss[k]) /\ first(k - 1) \in Seq(Seq(S)) /\ ss[k] \in Seq(S)
    <3>1. /\ 1 \in Int /\ k - 1 \in Int /\ k \in Nat /\ 1 \in 1..N /\ k \in 1..N
          /\ \A i \in 1..(k - 1) : ss[i] \in Seq(S)
      BY <1>1
    <3>2. first(k - 1) \in Seq(Seq(S))
      BY <3>1, SubSeqProperties
    <3>3. first(k) = first(k - 1) \o <<ss[k]>>
      BY <3>1, SubSeqRecursiveSecond
    <3>4. Append(first(k - 1), ss[k]) = first(k - 1) \o <<ss[k]>>
      BY <1>1, <3>1, <3>2, AppendIsConcat
    <3> QED BY <1>1, <3>1, <3>2, <3>3, <3>4
  <2>3. FlattenSeq(first(k)) = FlattenSeq(first(k - 1)) \o ss[k]
    <3> HIDE DEF first
    <3> QED BY <2>2, FlattenAppend
  <2> HIDE DEF first
  <2>4. k - 1 \in Nat /\ (k - 1) + 1 = k /\ (k - 1) + 1 \in 1..Len(ss)
    BY <1>1
  <2>5. Placed(FlattenSeq(first(k - 1)) \o ss[k], ss, k)
    BY <2>1, <2>4, PlacedNext
  <2>6. FlattenSeq(first(k)) \in Seq(S)
    BY <2>1, <2>2, <2>3, ConcatProperties
  <2>7. k \in 0..N
    BY <1>1
  <2> QED BY <2>3, <2>5, <2>6, <2>7
<1>4. G = 0..N
  <2> HIDE DEF G
  <2>1. G \in SUBSET (0..N)
    BY DEF G
  <2> QED BY <1>1, <1>2, <1>3, <2>1, UpToAll
<1>5. N \in G
  <2>1. N \in 0..N
    BY <1>1
  <2> HIDE DEF G
  <2> QED BY <1>4, <2>1
<1>6. FlattenSeq(first(N)) \in Seq(S) /\ Placed(FlattenSeq(first(N)), ss, N)
  BY <1>5
<1> HIDE DEF first
<1> QED BY <1>1, <1>6

\* Sequences of one element each flatten to the sequence of these.
LEMMA FlattenSingles ==
  ASSUME NEW S, NEW s \in Seq(S)
  PROVE  FlattenSeq([i \in DOMAIN s |-> <<s[i]>>]) = s
<1> DEFINE N == Len(s)
           ss == [i \in DOMAIN s |-> <<s[i]>>]
           G == {k \in 0..N : FlattenSeq(SubSeq(ss, 1, k)) = SubSeq(s, 1, k)}
<1>1. /\ N \in Nat /\ DOMAIN s = 1..N /\ SubSeq(s, 1, N) = s
      /\ \A i \in 1..N : s[i] \in S /\ <<s[i]>> \in Seq(S)
  BY SubSeqFull, LenProperties
<1>2. ss \in Seq(Seq(S)) /\ Len(ss) = N /\ SubSeq(ss, 1, N) = ss /\ \A i \in 1..N : ss[i] = <<s[i]>>
  <2>1. ss \in Seq(Seq(S)) /\ Len(ss) = N /\ \A i \in 1..N : ss[i] = <<s[i]>>
    BY <1>1
  <2> HIDE DEF ss
  <2>2. SubSeq(ss, 1, Len(ss)) = ss
    BY <2>1, SubSeqFull
  <2> QED BY <2>1, <2>2
<1> HIDE DEF ss
<1>3. 0 \in G
  <2>1. SubSeq(ss, 1, 0) = <<>> /\ SubSeq(s, 1, 0) = <<>>
    BY SubSeqEmpty
  <2>2. FlattenSeq(<<>>) = <<>> /\ 0 \in 0..N
    BY <1>1 DEF FlattenSeq
  <2>3. FlattenSeq(SubSeq(ss, 1, 0)) = SubSeq(s, 1, 0)
    BY ONLY <2>1, <2>2
  <2> QED BY <2>2, <2>3
<1>4. ASSUME NEW k \in 1..N, k - 1 \in G PROVE k \in G
  <2>1. /\ 1 \in Int /\ k - 1 \in Int /\ k \in Nat /\ 1 \in 1..N /\ k \in 1..N /\ k \in 0..N
        /\ \A i \in 1..(k - 1) : ss[i] \in Seq(S)
    BY <1>1, <1>2
  <2>2. SubSeq(ss, 1, k - 1) \in Seq(Seq(S))
    BY <2>1, SubSeqProperties
  <2>3. SubSeq(ss, 1, k) = SubSeq(ss, 1, k - 1) \o <<ss[k]>>
    BY <1>2, <2>1, SubSeqRecursiveSecond
  <2>4. SubSeq(s, 1, k) = SubSeq(s, 1, k - 1) \o <<s[k]>>
    BY <1>1, <2>1, SubSeqRecursiveSecond
  <2>5. SubSeq(ss, 1, k) = Append(SubSeq(ss, 1, k - 1), <<s[k]>>)
    BY <1>1, <1>2, <2>1, <2>2, <2>3, AppendIsConcat
  <2>6. FlattenSeq(SubSeq(ss, 1, k)) = FlattenSeq(SubSeq(ss, 1, k - 1)) \o <<s[k]>>
    BY <1>1, <2>1, <2>2, <2>5, FlattenAppend
  <2>7. FlattenSeq(SubSeq(ss, 1, k - 1)) = SubSeq(s, 1, k - 1)
    BY <1>4
  <2> QED BY <2>1, <2>4, <2>6, <2>7
<1>5. G = 0..N
  <2> HIDE DEF G
  <2>1. G \in SUBSET (0..N)
    BY DEF G
  <2> QED BY <1>1, <1>3, <1>4, <2>1, UpToAll
<1>6. N \in G
  <2>1. N \in 0..N
    BY <1>1
  <2> HIDE DEF G
  <2> QED BY <1>5, <2>1
<1>7. FlattenSeq(ss) = s
  BY <1>1, <1>2, <1>6
<1> QED BY <1>7 DEF ss

-----------------------------------------------------------------------------
(***************************************************************************)
(* The text and the calls in the blocks.                                   *)
(***************************************************************************)
CallBlock == [id: Nat, args: Seq(Nat)]

\* A block more adds its text or its call.
LEMMA BlockAdds ==
  ASSUME NEW s \in Seq(Block), NEW b \in Block
  PROVE  /\ AllText(s) \in Seq(Nat) /\ AllText(Append(s, b)) = AllText(s) \o TextIn(b)
         /\ AllCalls(s) \in Seq(CallBlock) /\ AllCalls(Append(s, b)) = AllCalls(s) \o CallsIn(b)
<1> DEFINE n == Len(s)
           t == Append(s, b)
           texts(u) == [j \in DOMAIN u |-> TextIn(u[j])]
           calls(u) == [j \in DOMAIN u |-> CallsIn(u[j])]
<1>1. /\ n \in Nat /\ t \in Seq(Block) /\ Len(t) = n + 1 /\ t[n + 1] = b
      /\ \A j \in 1..n : t[j] = s[j]
      /\ DOMAIN s = 1..n /\ DOMAIN t = 1..(n + 1)
      /\ \A j \in 1..n : s[j] \in Block
  OBVIOUS
<1>2. \A c \in Block : TextIn(c) \in Seq(Nat) /\ CallsIn(c) \in Seq(CallBlock)
  <2> SUFFICES ASSUME NEW c \in Block PROVE TextIn(c) \in Seq(Nat) /\ CallsIn(c) \in Seq(CallBlock)
    OBVIOUS
  <2>1. c.data \in Seq(Nat) /\ [id |-> c.id, args |-> c.data] \in CallBlock
    BY DEF Block, CallBlock
  <2> QED BY <2>1 DEF TextIn, CallsIn
<1> HIDE DEF t
<1>3. texts(s) \in Seq(Seq(Nat)) /\ calls(s) \in Seq(Seq(CallBlock))
  BY <1>1, <1>2, SMTT(30)
<1>4. texts(t) = Append(texts(s), TextIn(b))
  <2>1. texts(t) = [j \in 1..(n + 1) |-> IF j = n + 1 THEN TextIn(b) ELSE TextIn(s[j])]
    BY <1>1
  <2>2. Len(texts(s)) = n /\ \A j \in 1..n : texts(s)[j] = TextIn(s[j])
    BY <1>1
  <2>3. Append(texts(s), TextIn(b)) = [j \in 1..(n + 1) |-> IF j = n + 1 THEN TextIn(b) ELSE TextIn(s[j])]
    BY <1>1, <1>3, <2>2
  <2> QED BY <2>1, <2>3
<1>5. calls(t) = Append(calls(s), CallsIn(b))
  <2>1. calls(t) = [j \in 1..(n + 1) |-> IF j = n + 1 THEN CallsIn(b) ELSE CallsIn(s[j])]
    BY <1>1
  <2>2. Len(calls(s)) = n /\ \A j \in 1..n : calls(s)[j] = CallsIn(s[j])
    BY <1>1
  <2>3. Append(calls(s), CallsIn(b)) = [j \in 1..(n + 1) |-> IF j = n + 1 THEN CallsIn(b) ELSE CallsIn(s[j])]
    BY <1>1, <1>3, <2>2
  <2> QED BY <2>1, <2>3
<1>6. /\ AllText(s) = FlattenSeq(texts(s)) /\ AllText(t) = FlattenSeq(texts(t))
      /\ AllCalls(s) = FlattenSeq(calls(s)) /\ AllCalls(t) = FlattenSeq(calls(t))
  BY DEF AllText, AllCalls
<1>7. TextIn(b) \in Seq(Nat) /\ CallsIn(b) \in Seq(CallBlock)
  BY <1>2
<1> HIDE DEF texts, calls
<1>8. FlattenSeq(texts(s)) \in Seq(Nat) /\ FlattenSeq(texts(t)) = FlattenSeq(texts(s)) \o TextIn(b)
  BY <1>3, <1>4, <1>7, FlattenType, FlattenAppend
<1>9. FlattenSeq(calls(s)) \in Seq(CallBlock) /\ FlattenSeq(calls(t)) = FlattenSeq(calls(s)) \o CallsIn(b)
  BY <1>3, <1>5, <1>7, FlattenType, FlattenAppend
<1> QED BY <1>6, <1>8, <1>9 DEF t

LEMMA AllTypes ==
  ASSUME NEW s \in Seq(Block)
  PROVE  AllText(s) \in Seq(Nat) /\ AllCalls(s) \in Seq(CallBlock)
<1>1. [index |-> 0, kind |-> "text", id |-> 0, data |-> <<>>, open |-> TRUE] \in Block
  BY DEF Block
<1> QED BY <1>1, BlockAdds

\* Blocks that differ in the last only are the same blocks and one more.
LEMMA LastApart ==
  ASSUME NEW s \in Seq(Block), NEW t \in Seq(Block), Len(s) > 0, LastOnly(s, t)
  PROVE  \E front \in Seq(Block) :
           s = Append(front, s[Len(s)]) /\ t = Append(front, t[Len(s)])
<1> DEFINE n == Len(s)
           front == [j \in 1..(n - 1) |-> s[j]]
<1>1. n \in Nat /\ n \in 1..n /\ n - 1 \in Nat /\ \A j \in 1..n : s[j] \in Block /\ t[j] \in Block
  BY DEF LastOnly
<1>2. front \in Seq(Block) /\ Len(front) = n - 1
  BY <1>1
<1>3. s = Append(front, s[n])
  BY <1>1, <1>2
<1>4. t = Append(front, t[n])
  BY <1>1, <1>2 DEF LastOnly
<1> QED BY <1>2, <1>3, <1>4

LEMMA ConcatAppend ==
  ASSUME NEW S, NEW s \in Seq(S), NEW t \in Seq(S), NEW e \in S
  PROVE  s \o Append(t, e) = Append(s \o t, e)
<1>1. s \o Append(t, e) \in Seq(S) /\ Append(s \o t, e) \in Seq(S)
  OBVIOUS
<1>2. Len(s \o Append(t, e)) = Len(Append(s \o t, e))
  OBVIOUS
<1>3. \A i \in 1..Len(s \o Append(t, e)) : (s \o Append(t, e))[i] = Append(s \o t, e)[i]
  OBVIOUS
<1> QED BY <1>1, <1>2, <1>3, SeqEqual

LEMMA AppendOther ==
  ASSUME NEW S, NEW s \in Seq(S), NEW d \in S, NEW e \in S
  PROVE  Append(s, e) = [Append(s, d) EXCEPT ![Len(s) + 1] = e]
<1> DEFINE n == Len(s) + 1
           t == [Append(s, d) EXCEPT ![n] = e]
<1>1. n \in 1..n /\ Append(s, d) \in Seq(S) /\ Len(Append(s, d)) = n
  OBVIOUS
<1>2. t \in Seq(S) /\ Len(t) = n /\ \A i \in 1..n : t[i] = IF i = n THEN e ELSE Append(s, d)[i]
  <2>1. \A u \in Seq(S) : \A i \in 1..Len(u) :
          /\ [u EXCEPT ![i] = e] \in Seq(S) /\ Len([u EXCEPT ![i] = e]) = Len(u)
          /\ \A j \in 1..Len(u) : [u EXCEPT ![i] = e][j] = IF j = i THEN e ELSE u[j]
    BY ExceptSeq
  <2> QED BY <1>1, <2>1
<1> HIDE DEF t
<1>3. /\ Append(s, e) \in Seq(S) /\ Len(Append(s, e)) = n
      /\ \A i \in 1..n : Append(s, e)[i] = IF i = n THEN e ELSE Append(s, d)[i]
  OBVIOUS
<1>4. \A i \in 1..n : Append(s, e)[i] = t[i]
  BY <1>2, <1>3
<1>5. Append(s, e) = t
  BY ONLY <1>2, <1>3, <1>4, SeqEqual
<1> QED BY <1>5 DEF t

LastMore(calls, d) == [calls EXCEPT ![Len(calls)].args = Append(@, d)]

LEMMA MoreOfLast ==
  ASSUME NEW s \in Seq(CallBlock), NEW x \in CallBlock, NEW y \in CallBlock, NEW d,
         y = [x EXCEPT !.args = Append(@, d)]
  PROVE  Append(s, x) # <<>> /\ Append(s, y) = LastMore(Append(s, x), d)
<1>1. /\ Append(s, x) \in Seq(CallBlock) /\ Len(Append(s, x)) = Len(s) + 1
      /\ Append(s, x)[Len(s) + 1] = x /\ Append(s, x) # <<>>
  OBVIOUS
<1>2. LastMore(Append(s, x), d) = [Append(s, x) EXCEPT ![Len(s) + 1] = y]
  BY <1>1 DEF LastMore
<1>3. Append(s, y) = [Append(s, x) EXCEPT ![Len(s) + 1] = y]
  BY ONLY s \in Seq(CallBlock), x \in CallBlock, y \in CallBlock, AppendOther
<1> QED BY <1>1, <1>2, <1>3

\* The end of a block leaves the text and the calls; a delta is one piece more, of the
\* text or of the arguments of the last call.
LEMMA LastBlock ==
  ASSUME NEW s \in Seq(Block), NEW t \in Seq(Block), Len(s) > 0, LastOnly(s, t),
         t[Len(s)].kind = s[Len(s)].kind, t[Len(s)].id = s[Len(s)].id
  PROVE  /\ t[Len(s)].data = s[Len(s)].data => AllText(t) = AllText(s) /\ AllCalls(t) = AllCalls(s)
         /\ \A d \in Nat : t[Len(s)].data = Append(s[Len(s)].data, d) =>
              /\ s[Len(s)].kind = "text" => AllText(t) = Append(AllText(s), d) /\ AllCalls(t) = AllCalls(s)
              /\ s[Len(s)].kind = "tool_use" =>
                   AllText(t) = AllText(s) /\ AllCalls(s) # <<>> /\ AllCalls(t) = LastMore(AllCalls(s), d)
<1> DEFINE n == Len(s)
<1>1. PICK front \in Seq(Block) : s = Append(front, s[n]) /\ t = Append(front, t[n])
  BY LastApart
<1>2. s[n] \in Block /\ t[n] \in Block
  BY DEF LastOnly
<1>3. PICK b \in Block, c \in Block : b = s[n] /\ c = t[n]
  BY <1>2
<1>4. /\ AllText(front) \in Seq(Nat) /\ AllCalls(front) \in Seq(CallBlock)
      /\ AllText(s) = AllText(front) \o TextIn(b) /\ AllText(t) = AllText(front) \o TextIn(c)
      /\ AllCalls(s) = AllCalls(front) \o CallsIn(b) /\ AllCalls(t) = AllCalls(front) \o CallsIn(c)
  <2>1. s = Append(front, b) /\ t = Append(front, c)
    BY <1>1, <1>3
  <2> QED BY <2>1, BlockAdds
<1>5. c.data = b.data => AllText(t) = AllText(s) /\ AllCalls(t) = AllCalls(s)
  BY <1>3, <1>4 DEF TextIn, CallsIn
<1>6. ASSUME NEW d \in Nat, c.data = Append(b.data, d)
      PROVE  /\ b.kind = "text" => AllText(t) = Append(AllText(s), d) /\ AllCalls(t) = AllCalls(s)
             /\ b.kind = "tool_use" =>
                  AllText(t) = AllText(s) /\ AllCalls(s) # <<>> /\ AllCalls(t) = LastMore(AllCalls(s), d)
  <2>1. b.data \in Seq(Nat) /\ b.id \in Nat /\ c.kind = b.kind /\ c.id = b.id
    BY <1>3 DEF Block
  <2>2. CASE b.kind = "text"
    <3>1. /\ TextIn(b) = b.data /\ TextIn(c) = Append(b.data, d)
          /\ CallsIn(b) = <<>> /\ CallsIn(c) = <<>>
      BY <1>6, <2>1, <2>2 DEF TextIn, CallsIn
    <3>2. AllText(front) \o Append(b.data, d) = Append(AllText(front) \o b.data, d)
      <4>1. \A u, v \in Seq(Nat) : \A e \in Nat : u \o Append(v, e) = Append(u \o v, e)
        BY ConcatAppend, SMTT(30)
      <4> QED BY <1>4, <2>1, <4>1
    <3> QED BY <1>4, <2>2, <3>1, <3>2
  <2>3. CASE b.kind = "tool_use"
    <3> DEFINE old == [id |-> b.id, args |-> b.data]
               new == [id |-> b.id, args |-> Append(b.data, d)]
    <3>1. /\ TextIn(b) = <<>> /\ TextIn(c) = <<>>
          /\ CallsIn(b) = <<old>> /\ CallsIn(c) = <<new>>
      BY <1>6, <2>1, <2>3 DEF TextIn, CallsIn
    <3>2. old \in CallBlock /\ new \in CallBlock /\ new = [old EXCEPT !.args = Append(@, d)]
      <4>1. Append(b.data, d) \in Seq(Nat)
        BY <2>1
      <4>2. old \in CallBlock /\ new \in CallBlock
        BY <2>1, <4>1 DEF CallBlock
      <4>3. \A a : [old EXCEPT !.args = a] = [id |-> b.id, args |-> a] /\ old.args = b.data
        OBVIOUS
      <4> QED BY <4>2, <4>3
    <3> HIDE DEF old, new
    <3>3. AllCalls(s) = Append(AllCalls(front), old) /\ AllCalls(t) = Append(AllCalls(front), new)
      BY <1>4, <3>1, <3>2
    <3>4. AllCalls(s) # <<>> /\ AllCalls(t) = LastMore(AllCalls(s), d)
      <4>1. \A u \in Seq(CallBlock) : \A x, y \in CallBlock : y = [x EXCEPT !.args = Append(@, d)] =>
              Append(u, x) # <<>> /\ Append(u, y) = LastMore(Append(u, x), d)
        BY MoreOfLast
      <4> QED BY <1>4, <3>2, <3>3, <4>1
    <3> QED BY <1>4, <2>3, <3>1, <3>4
  <2> QED BY <2>1, <2>2, <2>3 DEF Block
<1> QED BY <1>3, <1>5, <1>6

(***************************************************************************)
(* What the client has, at every step, is what upstream has said but for   *)
(* the piece in hand.                                                      *)
(***************************************************************************)
NewCall == [id |-> conv.id, args |-> IF conv.data = NoPiece THEN <<>> ELSE <<conv.data>>]
MoreArgs(calls) == IF conv.data = NoPiece THEN calls ELSE LastMore(calls, conv.data)
CallPending == conv.pc = "newCall" \/ (conv.pc = "call" /\ ~conv.toolBlockStarted)
ArgsPending == conv.pc = "args" \/ (conv.pc = "call" /\ conv.toolBlockStarted)

SaidInv ==
  /\ conv.pc = "text" => up.text = Append(AllText(got.blocks), conv.data)
  /\ conv.pc # "text" => up.text = AllText(got.blocks)
  /\ CallPending => up.calls = Append(AllCalls(got.blocks), NewCall)
  /\ ArgsPending => up.calls = MoreArgs(AllCalls(got.blocks))
  /\ ~CallPending /\ ~ArgsPending => up.calls = AllCalls(got.blocks)
  /\ conv.textBlockStarted => got.blocks[Len(got.blocks)].kind = "text"
  /\ conv.toolBlockStarted => got.blocks[Len(got.blocks)].kind = "tool_use"
  /\ conv.finalStopReason = up.finish /\ conv.outputTokens = up.usage
  /\ conv.pc \in {"stop", "done"} => got.stop = up.finish /\ got.out = up.usage

LEMMA NothingSaid == StreamInit => SaidInv
<1> SUFFICES ASSUME StreamInit PROVE SaidInv
  OBVIOUS
<1>1. AllText(<<>>) = <<>> /\ AllCalls(<<>>) = <<>>
  <2>1. FlattenSeq(<<>>) = <<>>
    BY DEF FlattenSeq
  <2>2. [j \in DOMAIN <<>> |-> TextIn(<<>>[j])] = <<>> /\ [j \in DOMAIN <<>> |-> CallsIn(<<>>[j])] = <<>>
    OBVIOUS
  <2> QED BY <2>1, <2>2 DEF AllText, AllCalls
<1> QED BY <1>1 DEF StreamInit, SaidInv, CallPending, ArgsPending

\* The steps that leave the blocks alone.
LEMMA QuietSays ==
  ASSUME StreamInv, SaidInv,
         \/ ReadChunk \/ ReadEnd \/ ReadError \/ WriteMessageStart \/ WritePing \/ ChunkText
         \/ ChunkCall \/ ChunkCallsOver \/ ChunkEnd \/ writeMessageDelta \/ writeMessageStop
  PROVE  SaidInv'
<1>1. /\ AllText(got.blocks) \in Seq(Nat) /\ AllCalls(got.blocks) \in Seq(CallBlock)
      /\ got.blocks \in Seq(Block)
  BY BlocksType, AllTypes
<1>2. CASE ReadChunk \/ ReadEnd \/ ReadError \/ WriteMessageStart \/ WritePing \/ ChunkCallsOver
  BY <1>2, ZenonT(40) DEF ReadChunk, ReadEnd, ReadError, WriteMessageStart, WritePing, ChunkCallsOver,
              StreamInv, StreamTypeOK, SaidInv, CallPending, ArgsPending
<1>3. CASE ChunkText
  <2>1. /\ conv.pc = "chunk" /\ UNCHANGED got
        /\ up.text = AllText(got.blocks) /\ up.calls = AllCalls(got.blocks)
    BY <1>3 DEF ChunkText, SaidInv, CallPending, ArgsPending
  <2>2. /\ UNCHANGED <<up.calls, up.finish, up.usage>>
        /\ UNCHANGED <<conv.textBlockStarted, conv.toolBlockStarted, conv.finalStopReason, conv.outputTokens>>
        /\ \/ conv'.pc = "text" /\ up'.text = Append(up.text, conv'.data)
           \/ conv'.pc = "calls" /\ up'.text = up.text
    BY <1>3, ZenonT(40) DEF ChunkText, StreamInv, StreamTypeOK
  <2> QED BY <2>1, <2>2 DEF SaidInv, CallPending, ArgsPending
<1>4. CASE ChunkCall
  <2>1. /\ conv.pc = "calls" /\ UNCHANGED got
        /\ up.text = AllText(got.blocks) /\ up.calls = AllCalls(got.blocks)
    BY <1>4 DEF ChunkCall, SaidInv, CallPending, ArgsPending
  <2>2. CASE \E data \in {NoPiece, NextPiece} :
               /\ conv' = [conv EXCEPT !.pc = "newCall", !.id = NextPiece, !.data = data]
               /\ up' = [up EXCEPT !.sent = NextPiece, !.last = "call",
                    !.calls = Append(@, [id |-> NextPiece,
                                         args |-> IF data = NoPiece THEN <<>> ELSE <<data>>])]
    <3>1. PICK data \in {NoPiece, NextPiece} :
               /\ conv' = [conv EXCEPT !.pc = "newCall", !.id = NextPiece, !.data = data]
               /\ up' = [up EXCEPT !.sent = NextPiece, !.last = "call",
                    !.calls = Append(@, [id |-> NextPiece,
                                         args |-> IF data = NoPiece THEN <<>> ELSE <<data>>])]
      BY <2>2
    <3>2. /\ conv'.pc = "newCall" /\ conv'.id = NextPiece /\ conv'.data = data
          /\ UNCHANGED <<conv.textBlockStarted, conv.toolBlockStarted, conv.finalStopReason, conv.outputTokens>>
      BY <3>1 DEF StreamInv, StreamTypeOK
    <3>3. /\ up'.calls = Append(up.calls, [id |-> NextPiece, args |-> IF data = NoPiece THEN <<>> ELSE <<data>>])
          /\ UNCHANGED <<up.text, up.finish, up.usage>>
      BY <3>1 DEF StreamInv, StreamTypeOK
    <3>4. up'.calls = Append(AllCalls(got'.blocks), NewCall')
      BY <2>1, <3>2, <3>3 DEF NewCall
    <3> HIDE DEF NextPiece
    <3>5. conv'.pc = "newCall" /\ CallPending' /\ ~ArgsPending' /\ got'.blocks = got.blocks
      <4>1. conv'.pc = "newCall" /\ UNCHANGED got
        BY <2>1, <3>2
      <4> QED BY ONLY <4>1 DEF CallPending, ArgsPending
    <3>6. up'.text = AllText(got'.blocks)
      BY <2>1, <3>3
    <3> QED BY <2>1, <3>2, <3>3, <3>4, <3>5, <3>6 DEF SaidInv
  <2>3. CASE /\ up.last = "call"
             /\ conv' = [conv EXCEPT !.pc = "call", !.id = NoPiece, !.data = NextPiece]
             /\ up' = [up EXCEPT !.sent = NextPiece, !.calls[Len(up.calls)].args = Append(@, NextPiece)]
    <3>1. conv.toolBlockStarted
      BY <2>1, <2>3 DEF StreamInv, FlagsInv
    <3>2. /\ conv'.pc = "call" /\ conv'.data = NextPiece
          /\ UNCHANGED <<conv.textBlockStarted, conv.toolBlockStarted, conv.finalStopReason, conv.outputTokens>>
      BY <2>3 DEF StreamInv, StreamTypeOK
    <3>3. up'.calls = LastMore(up.calls, NextPiece) /\ UNCHANGED <<up.text, up.finish, up.usage>>
      BY <2>3 DEF StreamInv, StreamTypeOK, LastMore
    <3>4. NextPiece # NoPiece
      BY DEF StreamInv, StreamTypeOK, NextPiece, NoPiece
    <3>5. up'.calls = MoreArgs(AllCalls(got.blocks))'
      BY <2>1, <3>2, <3>3, <3>4 DEF MoreArgs
    <3> QED BY <2>1, <3>1, <3>2, <3>3, <3>5 DEF SaidInv, CallPending, ArgsPending
  <2> QED BY <1>4, <2>2, <2>3 DEF ChunkCall
<1>5. CASE ChunkEnd
  <2>1. conv.pc = "finish" /\ UNCHANGED got
    BY <1>5 DEF ChunkEnd
  <2>2. /\ UNCHANGED <<up.text, up.calls>> /\ conv'.pc = "read"
        /\ UNCHANGED <<conv.textBlockStarted, conv.toolBlockStarted>>
        /\ conv'.finalStopReason = up'.finish /\ conv'.outputTokens = up'.usage
    <3>1. PICK f \in {"none"} \cup FinishReason, u \in {up.usage, up.sent} :
            LET stop == IF f = "none" THEN conv.finalStopReason ELSE stopReasonFromOpenAI(f) IN
            /\ conv' = [conv EXCEPT !.pc = "read", !.finalStopReason = stop, !.outputTokens = u]
            /\ up' = [up EXCEPT !.finish = stop, !.usage = u]
      BY <1>5 DEF ChunkEnd
    <3> QED BY <3>1 DEF StreamInv, StreamTypeOK
  <2> QED BY <2>1, <2>2 DEF SaidInv, CallPending, ArgsPending
<1>6. CASE writeMessageDelta \/ writeMessageStop
  BY <1>6, ZenonT(40) DEF writeMessageDelta, writeMessageStop, StreamInv, StreamTypeOK, SaidInv, CallPending, ArgsPending
<1> QED BY <1>2, <1>3, <1>4, <1>5, <1>6

\* Closing a block changes neither, with a block to close or without.
LEMMA ShutFlags ==
  ASSUME StreamInv, closeToolBlockOnly \/ CloseForCall \/ CloseAtEnd
  PROVE  /\ UNCHANGED <<up, conv.finalStopReason, conv.outputTokens, conv.id, conv.data, got.stop, got.out>>
         /\ \/ conv.pc = "text" /\ conv'.pc = "text"
            \/ conv.pc = "newCall" /\ conv'.pc = "call"
            \/ conv.pc = "close" /\ conv'.pc = "delta"
         /\ ~conv'.toolBlockStarted /\ ~conv'.textBlockStarted
<1>1. CASE closeToolBlockOnly
  BY <1>1 DEF closeToolBlockOnly, ContentBlockStop, StreamInv, StreamTypeOK
<1>2. CASE CloseForCall \/ CloseAtEnd
  <2>1. CASE conv.activeBlockIndex = NoBlock
    <3>1. ~IsOpen
      BY <2>1, BlocksType DEF StreamInv, BlocksInv, NoBlock
    <3> QED BY <1>2, <2>1, <3>1, ZenonT(40) DEF CloseForCall, CloseAtEnd, closeActiveBlock, IsOpen, StreamInv, StreamTypeOK
  <2>2. CASE conv.activeBlockIndex # NoBlock
    BY <1>2, <2>2, ZenonT(40) DEF CloseForCall, CloseAtEnd, closeActiveBlock, ContentBlockStop, StreamInv, StreamTypeOK
  <2> QED BY <2>1, <2>2
<1> QED BY <1>1, <1>2

LEMMA ShutSays ==
  ASSUME StreamInv, closeToolBlockOnly \/ CloseForCall \/ CloseAtEnd
  PROVE  AllText(got'.blocks) = AllText(got.blocks) /\ AllCalls(got'.blocks) = AllCalls(got.blocks)
<1>1. CASE UNCHANGED got
  BY <1>1
<1>2. CASE ~UNCHANGED got
  <2>1. ContentBlockStop(conv.activeBlockIndex) /\ conv.activeBlockIndex # NoBlock
    BY <1>2 DEF closeToolBlockOnly, CloseForCall, CloseAtEnd, closeActiveBlock
  <2>2. IsOpen
    BY <2>1 DEF closeToolBlockOnly, CloseForCall, CloseAtEnd, closeActiveBlock, IsOpen, StreamInv, FlagsInv
  <2>3. conv.sentMessageStart
    BY <2>2 DEF StreamInv, PhaseInv
  <2>4. conv.pc \notin {"stop", "done"}
    BY DEF closeToolBlockOnly, CloseForCall, CloseAtEnd
  <2>5. got.phase = "started"
    BY <2>3, <2>4, StartedPhase
  <2>6. /\ got'.blocks \in Seq(Block) /\ Len(got.blocks) > 0 /\ LastOnly(got.blocks, got'.blocks)
        /\ got'.blocks[Len(got.blocks)].kind = got.blocks[Len(got.blocks)].kind
        /\ got'.blocks[Len(got.blocks)].id = got.blocks[Len(got.blocks)].id
        /\ got'.blocks[Len(got.blocks)].data = got.blocks[Len(got.blocks)].data
    BY <2>1, <2>2, <2>5, BlockEnds
  <2>7. got.blocks \in Seq(Block)
    BY BlocksType
  <2> QED BY <2>6, <2>7, LastBlock
<1> QED BY <1>1, <1>2

\* The steps that send an event of a block.
LEMMA BlockSays ==
  ASSUME StreamInv, SaidInv,
         \/ closeToolBlockOnly \/ openTextBlock \/ writeTextDelta
         \/ CloseForCall \/ openToolBlock \/ writeInputJSONDelta \/ CloseAtEnd
  PROVE  SaidInv'
<1> DEFINE s == got.blocks
           n == Len(got.blocks)
           t == got'.blocks
<1>0. /\ s \in Seq(Block) /\ n \in Nat
      /\ AllText(s) \in Seq(Nat) /\ AllCalls(s) \in Seq(CallBlock)
  BY BlocksType, AllTypes
<1>1. CASE closeToolBlockOnly \/ CloseForCall \/ CloseAtEnd
  <2>1. /\ UNCHANGED <<up, conv.finalStopReason, conv.outputTokens, conv.id, conv.data, got.stop, got.out>>
        /\ \/ conv.pc = "text" /\ conv'.pc = "text"
           \/ conv.pc = "newCall" /\ conv'.pc = "call"
           \/ conv.pc = "close" /\ conv'.pc = "delta"
        /\ ~conv'.toolBlockStarted /\ ~conv'.textBlockStarted
    BY <1>1, ShutFlags
  <2>2. AllText(t) = AllText(s) /\ AllCalls(t) = AllCalls(s)
    BY <1>1, ShutSays
  <2> QED BY <2>1, <2>2 DEF SaidInv, CallPending, ArgsPending, NewCall
<1>2. CASE openTextBlock
  <2>1. /\ ~IsOpen /\ conv.pc = "text" /\ conv.sentMessageStart
        /\ ContentBlockStart(conv.nextBlockIndex, "text", NoPiece) /\ UNCHANGED up
    BY <1>2 DEF openTextBlock, IsOpen, StreamInv, PhaseInv
  <2>2. got.phase = "started" /\ NoPiece \in Counts
    BY <2>1, StartedPhase, StreamAssumption DEF NoPiece, Counts
  <2>3. PICK b \in Block : b.kind = "text" /\ b.id = NoPiece /\ b.data = <<>> /\ t = Append(s, b)
    BY <2>1, <2>2, BlockStarts
  <2>4. AllText(t) = AllText(s) /\ AllCalls(t) = AllCalls(s)
    <3>1. TextIn(b) = <<>> /\ CallsIn(b) = <<>>
      BY <2>3 DEF TextIn, CallsIn
    <3>2. AllText(t) = AllText(s) \o <<>> /\ AllCalls(t) = AllCalls(s) \o <<>>
      BY <1>0, <2>3, <3>1, BlockAdds
    <3>3. AllText(s) \o <<>> = AllText(s) /\ AllCalls(s) \o <<>> = AllCalls(s)
      BY <1>0, ConcatEmptySeq
    <3> QED BY <3>2, <3>3
  <2>5. t[Len(t)].kind = "text"
    BY <1>0, <2>3
  <2>6. /\ UNCHANGED <<conv.finalStopReason, conv.outputTokens, conv.data, conv.pc, conv.toolBlockStarted>>
    BY <1>2 DEF openTextBlock, OpenBlock, StreamInv, StreamTypeOK
  <2> HIDE DEF s, t
  <2>7. ~conv'.toolBlockStarted
    BY <2>1, <2>6 DEF IsOpen
  <2> QED BY <2>1, <2>4, <2>5, <2>6, <2>7 DEF SaidInv, CallPending, ArgsPending, s, t
<1>3. CASE writeTextDelta
  <2>1. /\ IsOpen /\ conv.pc = "text" /\ conv.sentMessageStart /\ conv.textBlockStarted
        /\ conv.data # NoPiece /\ conv.data \in Counts /\ ~conv.toolBlockStarted
    BY <1>3 DEF writeTextDelta, IsOpen, StreamInv, PhaseInv, FlagsInv, RangesInv
  <2>2. got.phase = "started"
    BY <2>1, StartedPhase
  <2>3. conv.data \in Piece /\ conv.data \in Nat
    BY <2>1, StreamAssumption DEF Counts, Piece, NoPiece
  <2>4. /\ ContentBlockDelta(conv.activeBlockIndex, conv.data) /\ UNCHANGED up
        /\ conv'.pc = "calls"
        /\ UNCHANGED <<conv.finalStopReason, conv.outputTokens, conv.textBlockStarted, conv.toolBlockStarted>>
    BY <1>3 DEF writeTextDelta, StreamInv, StreamTypeOK
  <2>5. /\ t \in Seq(Block) /\ n > 0 /\ LastOnly(s, t) /\ Len(t) = n
        /\ t[n].kind = s[n].kind /\ t[n].id = s[n].id /\ t[n].data = Append(s[n].data, conv.data)
    BY <2>1, <2>2, <2>3, <2>4, BlockGrows
  <2>6. s[n].kind = "text"
    BY <2>1 DEF SaidInv
  <2>7. AllText(t) = Append(AllText(s), conv.data) /\ AllCalls(t) = AllCalls(s)
    BY <1>0, <2>3, <2>5, <2>6, LastBlock
  <2> QED BY <2>1, <2>4, <2>5, <2>6, <2>7 DEF SaidInv, CallPending, ArgsPending
<1>4. CASE openToolBlock
  <2>1. /\ conv.pc = "call" /\ conv.sentMessageStart /\ UNCHANGED up /\ conv.toolBlockStarted \in BOOLEAN
        /\ conv'.pc = "args" /\ conv'.toolBlockStarted
        /\ UNCHANGED <<conv.finalStopReason, conv.outputTokens, conv.textBlockStarted, conv.id, conv.data>>
    BY <1>4 DEF openToolBlock, OpenBlock, StreamInv, StreamTypeOK, PhaseInv
  <2>2. CASE conv.toolBlockStarted
    <3>1. UNCHANGED got
      BY <1>4, <2>2 DEF openToolBlock
    <3> QED BY <2>1, <2>2, <3>1 DEF SaidInv, CallPending, ArgsPending, MoreArgs
  <2>3. CASE ~conv.toolBlockStarted
    <3>1. /\ ~IsOpen /\ ContentBlockStart(conv.nextBlockIndex, "tool_use", conv.id)
          /\ ~conv.textBlockStarted /\ conv.id \in Counts
      BY <1>4, <2>1, <2>3 DEF openToolBlock, StreamInv, FlagsInv, RangesInv, IsOpen
    <3>2. got.phase = "started"
      BY <2>1, StartedPhase
    <3>3. PICK b \in Block : b.kind = "tool_use" /\ b.id = conv.id /\ b.data = <<>> /\ t = Append(s, b)
      BY <3>1, <3>2, BlockStarts
    <3>4. AllText(t) = AllText(s) /\ AllCalls(t) = Append(AllCalls(s), [id |-> conv.id, args |-> <<>>])
      <4>1. TextIn(b) = <<>> /\ CallsIn(b) = <<[id |-> conv.id, args |-> <<>>]>>
        BY <3>3 DEF TextIn, CallsIn
      <4>2. [id |-> conv.id, args |-> <<>>] \in CallBlock
        BY DEF StreamInv, StreamTypeOK, CallBlock
      <4>3. AllText(t) = AllText(s) \o <<>> /\ AllCalls(t) = AllCalls(s) \o <<[id |-> conv.id, args |-> <<>>]>>
        BY <1>0, <3>3, <4>1, BlockAdds
      <4>4. \A x \in CallBlock : AllCalls(s) \o <<x>> = Append(AllCalls(s), x)
        BY <1>0, AppendIsConcat
      <4>5. AllText(s) \o <<>> = AllText(s)
        BY <1>0, ConcatEmptySeq
      <4> QED BY <4>2, <4>3, <4>4, <4>5
    <3>5. t[Len(t)].kind = "tool_use"
      BY <1>0, <3>3
    <3>6. up.calls = Append(AllCalls(s), NewCall) /\ up.text = AllText(s)
      BY <2>1, <2>3 DEF SaidInv, CallPending
    <3>7. up.calls = MoreArgs(AllCalls(t))
      <4> DEFINE x == [id |-> conv.id, args |-> <<>>]
      <4>1. x \in CallBlock /\ NewCall \in CallBlock /\ conv.data \in Nat
        BY DEF StreamInv, StreamTypeOK, CallBlock, NewCall
      <4>2. CASE conv.data = NoPiece
        BY <3>4, <3>6, <4>2 DEF NewCall, MoreArgs
      <4>3. CASE conv.data # NoPiece
        <5>1. NewCall = [x EXCEPT !.args = Append(@, conv.data)]
          BY <4>1, <4>3 DEF NewCall
        <5> HIDE DEF x
        <5>2. Append(AllCalls(s), NewCall) = LastMore(Append(AllCalls(s), x), conv.data)
          BY <1>0, <4>1, <5>1, MoreOfLast, SMTT(30)
        <5> QED BY <3>4, <3>6, <4>3, <5>2, SMTT(30) DEF MoreArgs, x
      <4> QED BY <4>2, <4>3
    <3>8. MoreArgs(AllCalls(t)) = MoreArgs(AllCalls(got.blocks))'
      BY <2>1 DEF MoreArgs
    <3> QED BY <2>1, <3>1, <3>4, <3>5, <3>6, <3>7, <3>8 DEF SaidInv, CallPending, ArgsPending
  <2> QED BY <2>2, <2>3
<1>5. CASE writeInputJSONDelta
  <2>1. /\ IsOpen /\ conv.toolBlockStarted /\ conv.pc = "args" /\ conv.sentMessageStart
        /\ conv.data \in Counts /\ ~conv.textBlockStarted
        /\ conv'.pc = "calls" /\ UNCHANGED up
        /\ UNCHANGED <<conv.finalStopReason, conv.outputTokens, conv.textBlockStarted, conv.toolBlockStarted>>
    BY <1>5 DEF writeInputJSONDelta, IsOpen, StreamInv, StreamTypeOK, PhaseInv, FlagsInv, RangesInv
  <2>2. got.phase = "started"
    BY <2>1, StartedPhase
  <2>3. up.calls = MoreArgs(AllCalls(s)) /\ up.text = AllText(s) /\ s[n].kind = "tool_use"
    BY <2>1 DEF SaidInv, ArgsPending
  <2>4. CASE conv.data = NoPiece
    <3>1. UNCHANGED got
      BY <1>5, <2>4 DEF writeInputJSONDelta
    <3> QED BY <2>1, <2>3, <2>4, <3>1 DEF SaidInv, CallPending, ArgsPending, MoreArgs
  <2>5. CASE conv.data # NoPiece
    <3>1. conv.data \in Piece /\ conv.data \in Nat
      BY <2>1, <2>5, StreamAssumption DEF Counts, Piece, NoPiece
    <3>2. ContentBlockDelta(conv.activeBlockIndex, conv.data)
      BY <1>5, <2>5 DEF writeInputJSONDelta
    <3>3. /\ t \in Seq(Block) /\ n > 0 /\ LastOnly(s, t) /\ Len(t) = n
          /\ t[n].kind = s[n].kind /\ t[n].id = s[n].id /\ t[n].data = Append(s[n].data, conv.data)
      BY <2>1, <2>2, <3>1, <3>2, BlockGrows
    <3>4. AllText(t) = AllText(s) /\ AllCalls(t) = LastMore(AllCalls(s), conv.data)
      <4>1. \A d \in Nat : t[n].data = Append(s[n].data, d) =>
              AllText(t) = AllText(s) /\ AllCalls(t) = LastMore(AllCalls(s), d)
        <5>1. s[n].kind = "tool_use"
          BY <2>3
        <5>2. /\ s \in Seq(Block) /\ t \in Seq(Block) /\ n > 0 /\ LastOnly(s, t)
              /\ t[n].kind = s[n].kind /\ t[n].id = s[n].id
          BY <1>0, <3>3
        <5> QED BY ONLY <5>1, <5>2, LastBlock
      <4> QED BY <3>1, <3>3, <4>1
    <3>5. up.calls = AllCalls(t)
      BY <2>3, <2>5, <3>4 DEF MoreArgs
    <3> QED BY <2>1, <2>3, <3>3, <3>4, <3>5 DEF SaidInv, CallPending, ArgsPending
  <2> QED BY <2>4, <2>5
<1> QED BY <1>1, <1>2, <1>3, <1>4, <1>5

LEMMA SaidStep ==
  ASSUME StreamInv, SaidInv, [StreamNext]_streamVars
  PROVE  SaidInv'
<1>1. CASE UNCHANGED streamVars
  BY <1>1 DEF streamVars, SaidInv, CallPending, ArgsPending, NewCall, MoreArgs
<1> QED BY <1>1, QuietSays, BlockSays DEF StreamNext

\* A finished stream leaves the client with what upstream has said, whatever the order of
\* its text and its calls and however long it goes on (stream.go, streamConverter).
THEOREM StreamReassembles == StreamSpec => []Reassembles
<1>1. StreamInv /\ SaidInv => Reassembles
  BY DEF SaidInv, CallPending, ArgsPending, Reassembles, WholeText, WholeCalls
<1>2. StreamInit => SaidInv
  BY NothingSaid
<1>3. StreamInv /\ SaidInv /\ [StreamNext]_streamVars => SaidInv'
  BY SaidStep
<1> QED BY <1>1, <1>2, <1>3, StreamInvariant, PTL DEF StreamSpec
=============================================================================
