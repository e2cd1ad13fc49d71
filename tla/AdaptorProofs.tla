----------------------------- MODULE AdaptorProofs -----------------------------
(***************************************************************************)
(* What the adaptors make of requests and of answers, for any number of    *)
(* turns, lines and pieces: what the client of any provider is sent and    *)
(* charged, and what any provider is told of a conversation.  The lemmas   *)
(* on flattened sequences are those of AnthropicStreamProofs.              *)
(***************************************************************************)
EXTENDS ProviderAnswers, RequestConversion, AnthropicStreamProofs, FiniteSetTheorems

-----------------------------------------------------------------------------
(* Answers.                                                                *)

Providers == ChatOnly \cup WithEmbeddings \cup {"replicate"}
PassesDone == {"openai", "replicate"}
CountsText == {"gemini", "tencent", "coze", "cloudflare", "replicate"}
StreamMode == mode = "stream" /\ provider \notin OneBody

ModesInv ==
  /\ provider \in Providers /\ mode \in {"chat", "stream", "embedding"}
  /\ provider = "replicate" => mode = "stream"
  /\ mode = "embedding" => provider \in WithEmbeddings

\* What is said is numbered as it was generated, and all is said that was read.
Said == {i \in DOMAIN out : out[i] # Done}
SentInv ==
  /\ out \in Seq(Int) /\ heard \in Seq(Nat) /\ pieces \in Nat /\ unread \subseteq 1..pieces
  /\ \A i \in Said : Number(out[i]) \in (1..pieces) \ unread
  /\ \A i, j \in Said : i < j => Number(out[i]) < Number(out[j])
  /\ \A p \in (1..pieces) \ unread : \E i \in Said : Number(out[i]) = p
  /\ provider = "openai" /\ ending # "long" => unread = {}

\* What is said and was read is what was heard.
HeardIn(s) == {i \in DOMAIN s : s[i] > 0}
HeardInv == Cardinality(HeardIn(out)) = Len(heard)

\* [DONE] is sent before the provider is done by two handlers, and comes last.
EndsInDone(s) == s # <<>> /\ \A i \in DOMAIN s : s[i] = Done <=> i = Len(s)
Ended == doneRendered = TRUE \/ (provider = "openai" /\ ending = "bare")
DoneInv ==
  /\ status = "open" => ~Ended
  /\ Ended => EndsInDone(out)
  /\ ~Ended => Done \notin ToSet(out)
  /\ doneRendered = TRUE => ending # "bare"

\* The usage while a stream is read: what the provider told, where the text is not counted.
ToldPrompt ==
  IF provider \in CountsText \cup {"aiproxy"} THEN 0
  ELSE IF provider \in Claude THEN (IF opening = NotBegun THEN 0 ELSE PromptTokens)
  ELSE IF metered = 0 THEN 0 ELSE PromptTokens
ToldCompletion ==
  IF provider \in CountsText \cup {"aiproxy"} THEN 0
  ELSE IF provider \in Claude THEN (IF opening = NotBegun THEN metered ELSE metered + opening)
  ELSE IF provider = "bedrockLlama" /\ ending # "stop" THEN 0
  ELSE metered
UsageInv ==
  /\ metered \in 0..pieces /\ opening \in {NotBegun, 0, 1} /\ usage \in [known: BOOLEAN, prompt: Nat, completion: Nat]
  /\ usage.prompt = ToldPrompt /\ usage.completion = ToldCompletion

LinesInv == StreamMode => SentInv /\ HeardInv /\ (status \in {"open", "closing"} => DoneInv /\ UsageInv)

AnswersInv == ModesInv /\ LinesInv /\ NothingSentBeforeError /\ StreamDelivered /\ DeliveredIsCharged

-----------------------------------------------------------------------------
(* HeardIn, and the pieces of a line.                                        *)

LEMMA TextsAll ==
  ASSUME NEW s \in Seq(Int), \A i \in 1..Len(s) : s[i] > 0
  PROVE  Cardinality(HeardIn(s)) = Len(s)
<1>1. HeardIn(s) = 1..Len(s) /\ Len(s) \in Nat
  BY DEF HeardIn
<1>2. \A n \in Nat : Cardinality(1..n) = IF 1 > n THEN 0 ELSE n - 1 + 1
  BY FS_Interval
<1> QED BY ONLY <1>1, <1>2

LEMMA TextsStay ==
  ASSUME NEW s \in Seq(Int), NEW t \in Seq(Int), \A i \in 1..Len(t) : ~(t[i] > 0)
  PROVE  HeardIn(s \o t) = HeardIn(s)
<1>1. /\ DOMAIN s = 1..Len(s) /\ DOMAIN (s \o t) = 1..(Len(s) + Len(t)) /\ Len(s) \in Nat /\ Len(t) \in Nat
      /\ \A i \in 1..Len(s) : (s \o t)[i] = s[i]
  OBVIOUS
<1>2. \A i \in (Len(s) + 1)..(Len(s) + Len(t)) : i - Len(s) \in 1..Len(t) /\ (s \o t)[i] = t[i - Len(s)]
  OBVIOUS
<1> DEFINE st == s \o t
<1> HIDE DEF st
<1>3. \A i \in DOMAIN st : st[i] > 0 <=> i \in 1..Len(s) /\ s[i] > 0
  BY <1>1, <1>2 DEF st
<1>4. 1..Len(s) \subseteq DOMAIN st
  BY <1>1 DEF st
<1>5. HeardIn(st) = HeardIn(s)
  BY <1>1, <1>3, <1>4 DEF HeardIn
<1> QED BY <1>5 DEF st

LEMMA TextsGrow ==
  ASSUME NEW s \in Seq(Int), NEW t \in Seq(Int), \A i \in 1..Len(t) : t[i] > 0
  PROVE  Cardinality(HeardIn(s \o t)) = Cardinality(HeardIn(s)) + Len(t)
<1>1. /\ DOMAIN s = 1..Len(s) /\ DOMAIN (s \o t) = 1..(Len(s) + Len(t)) /\ Len(s) \in Nat /\ Len(t) \in Nat
      /\ \A i \in 1..Len(s) : (s \o t)[i] = s[i]
  OBVIOUS
<1>2. \A i \in (Len(s) + 1)..(Len(s) + Len(t)) : i - Len(s) \in 1..Len(t) /\ (s \o t)[i] = t[i - Len(s)]
  OBVIOUS
<1> DEFINE st == s \o t  new == (Len(s) + 1)..(Len(s) + Len(t))
<1> HIDE DEF st
<1>3. \A i \in DOMAIN st : st[i] > 0 <=> (i \in 1..Len(s) /\ s[i] > 0) \/ i \in new
  BY <1>1, <1>2 DEF st
<1>4. 1..Len(s) \subseteq DOMAIN st /\ new \subseteq DOMAIN st /\ new \cap (1..Len(s)) = {}
  BY <1>1 DEF st
<1>5. HeardIn(st) = HeardIn(s) \cup new /\ HeardIn(s) \cap new = {} /\ HeardIn(s) \subseteq 1..Len(s)
  BY <1>1, <1>3, <1>4 DEF HeardIn
<1>6. IsFiniteSet(HeardIn(s)) /\ IsFiniteSet(new) /\ Cardinality(new) = Len(t)
  <2>1. IsFiniteSet(1..Len(s))
    BY <1>1, FS_Interval
  <2>2. IsFiniteSet(HeardIn(s))
    BY <1>5, <2>1, FS_Subset
  <2>3. IsFiniteSet(new) /\ Cardinality(new) = IF Len(s) + 1 > Len(s) + Len(t) THEN 0 ELSE (Len(s) + Len(t)) - (Len(s) + 1) + 1
    <3>1. \A a, b \in Int : IsFiniteSet(a..b) /\ Cardinality(a..b) = IF a > b THEN 0 ELSE b - a + 1
      BY FS_Interval
    <3>2. Len(s) + 1 \in Int /\ Len(s) + Len(t) \in Int
      BY <1>1
    <3> QED BY <3>1, <3>2
  <2>4. (IF Len(s) + 1 > Len(s) + Len(t) THEN 0 ELSE (Len(s) + Len(t)) - (Len(s) + 1) + 1) = Len(t)
    BY ONLY <1>1
  <2> QED BY <2>2, <2>3, <2>4
<1>7. Cardinality(HeardIn(s) \cup new) = Cardinality(HeardIn(s)) + Cardinality(new) - Cardinality(HeardIn(s) \cap new)
  BY <1>6, FS_Union
<1>8. Cardinality({}) = 0
  BY FS_EmptySet
<1>9. Cardinality(HeardIn(s)) \in Nat
  BY <1>6, FS_CardinalityType
<1>10. Cardinality(HeardIn(st)) = Cardinality(HeardIn(s)) + Len(t) - 0
  BY <1>5, <1>6, <1>7, <1>8
<1>11. Cardinality(HeardIn(st)) = Cardinality(HeardIn(s)) + Len(t)
  BY ONLY <1>1, <1>9, <1>10
<1> QED BY <1>11 DEF st

\* The pieces of a line come behind those there were.
LEMMA PartsOfLine ==
  ASSUME NEW parts \in SeqOf(Part, 2)
  PROVE  /\ parts \in Seq(Part) /\ parts \in Seq(Nat) /\ Len(parts) \in 0..2 /\ DOMAIN parts = 1..Len(parts)
         /\ \A i \in 1..Len(parts) : parts[i] \in Part
         /\ First(parts) = IF Len(parts) = 0 THEN <<>> ELSE <<parts[1]>>
         /\ Final(parts) = IF Len(parts) = 0 THEN <<>> ELSE <<parts[Len(parts)]>>
<1>1. PICK n \in 0..2 : parts \in [1..n -> Part]
  BY DEF SeqOf
<1>2. parts \in Seq(Nat) /\ Len(parts) = n /\ DOMAIN parts = 1..n
  <2>1. MaxParts \in Nat /\ Part \subseteq Nat
    BY AnswersAssumption DEF Part
  <2>2. parts \in [1..n -> Nat]
    BY <1>1, <2>1
  <2>3. n \in Nat
    BY <1>1
  <2> QED BY ONLY <2>2, <2>3
<1>3. parts \in Seq(Part) /\ \A i \in 1..Len(parts) : parts[i] \in Part
  <2>1. n \in Nat /\ parts \in [1..n -> Part]
    BY <1>1
  <2> QED BY ONLY <2>1
<1>4. CASE parts = <<>>
  BY <1>2, <1>3, <1>4 DEF First, Final
<1>5. CASE parts # <<>>
  <2>1. Len(parts) \in 1..2 /\ Head(parts) = parts[1] /\ Last(parts) = parts[Len(parts)]
    BY <1>2, <1>5 DEF Last
  <2>2. First(parts) = <<parts[1]>> /\ Final(parts) = <<parts[Len(parts)]>>
    BY <1>5, <2>1 DEF First, Final
  <2> QED BY <1>2, <1>3, <2>1, <2>2
<1> QED BY <1>4, <1>5

-----------------------------------------------------------------------------
(* What one line does, whoever handles it.                                 *)

Passed(l) ==
  IF provider = "gemini" THEN First(l.parts) ELSE IF provider = "replicate" THEN Final(l.parts) ELSE l.parts
Dones(l) == (l.kind = "done" /\ provider \in PassesDone) \/ (l.kind = "bare" /\ provider = "openai")
Takes(l) == Read(l) \/ (l.kind = "start" /\ provider \in Claude)
SendOf(l) ==
  IF Dones(l) THEN <<Done>>
  ELSE IF Takes(l) THEN Passed(l)
  ELSE IF l.kind = "bad" /\ provider = "openai" THEN [i \in DOMAIN l.parts |-> -l.parts[i]]
  ELSE <<>>
HeardOf(l) == IF Takes(l) THEN Passed(l) ELSE <<>>
UsageOf(l) ==
  IF ~Takes(l) \/ provider \in CountsText \cup {"aiproxy"} THEN usage
  ELSE IF provider \in Claude THEN ClaudeUsage(l)
  ELSE IF provider = "bedrockLlama" THEN LlamaUsage(l)
  ELSE IF provider \in {"xunfei", "cohere"} THEN Added(l)
  ELSE Later(l)
RenderedOf(l) == IF l.kind = "done" /\ provider \in PassesDone THEN TRUE ELSE doneRendered
StatusOf(l) ==
  IF l.kind = "done" /\ provider \in {"cloudflare", "replicate"} THEN "closing"
  ELSE IF l.kind = "bare" /\ provider = "cloudflare" THEN "closing"
  ELSE IF l.kind = "bad" /\ provider = "xunfei" THEN "closing"
  ELSE IF l.kind = "bad" /\ provider \in Bedrock THEN "ok"
  ELSE IF l.kind = "long" /\ provider = "replicate" THEN "error"
  ELSE "open"
HandledAs(l) == [send |-> SendOf(l), heard |-> HeardOf(l), usage |-> UsageOf(l), rendered |-> RenderedOf(l),
                 status |-> StatusOf(l)]

LEMMA HandledIs ==
  ASSUME ModesInv, StreamMode, NEW l \in Line
  PROVE  Handled(l) = HandledAs(l)
<1> USE DEF HandledAs, SendOf, HeardOf, UsageOf, RenderedOf, StatusOf, Passed, Dones, Takes, Ignored, Text, Read,
            PassesDone, Bedrock, Claude, CountsText, Handled
<1>0. l.kind \in {"data", "start", "bad", "other", "done", "bare", "long"}
  BY DEF Line
<1>1. CASE provider = "openai"
  BY <1>0, <1>1 DEF openaiLine
<1>2. CASE provider = "anthropic"
  BY <1>0, <1>2 DEF anthropicLine
<1>3. CASE provider = "gemini"
  <2>1. [l EXCEPT !.parts = First(@)].parts = First(l.parts)
    BY DEF Line
  <2>2. Handled(l) = IF l.kind = "data" THEN Text([l EXCEPT !.parts = First(@)]) ELSE Ignored
    BY <1>3 DEF geminiLine
  <2> QED BY <1>0, <1>3, <2>1, <2>2
<1>4. CASE provider = "baidu"
  BY <1>0, <1>4 DEF baiduLine
<1>5. CASE provider = "tencent"
  BY <1>0, <1>5 DEF tencentLine
<1>6. CASE provider = "zhipu"
  BY <1>0, <1>6 DEF zhipuLine
<1>7. CASE provider = "ali"
  BY <1>0, <1>7 DEF aliLine
<1>8. CASE provider = "ollama"
  BY <1>0, <1>8 DEF ollamaLine
<1>9. CASE provider = "cohere"
  BY <1>0, <1>9 DEF cohereLine
<1>10. CASE provider = "coze"
  BY <1>0, <1>10 DEF cozeLine
<1>11. CASE provider = "cloudflare"
  BY <1>0, <1>11 DEF cloudflareLine
<1>12. CASE provider = "replicate"
  <2>1. [l EXCEPT !.parts = Final(@)].parts = Final(l.parts)
    BY DEF Line
  <2>2. l.kind = "data" => Handled(l) = Text([l EXCEPT !.parts = Final(@)])
    BY <1>12 DEF replicateLine
  <2>3. l.kind = "data" => Handled(l) = HandledAs(l)
    BY <1>12, <2>1, <2>2
  <2>4. l.kind # "data" => Handled(l) = HandledAs(l)
    BY <1>0, <1>12 DEF replicateLine
  <2> QED BY <2>3, <2>4
<1>13. CASE provider = "aiproxy"
  BY <1>0, <1>13 DEF aiproxyLine
<1>14. CASE provider = "xunfei"
  BY <1>0, <1>14 DEF xunfeiLine
<1>15. CASE provider = "bedrockClaude"
  BY <1>0, <1>15 DEF bedrockClaudeLine
<1>16. CASE provider = "bedrockLlama"
  BY <1>0, <1>16 DEF bedrockLlamaLine
<1> QED
  BY <1>1, <1>2, <1>3, <1>4, <1>5, <1>6, <1>7, <1>8, <1>9, <1>10, <1>11, <1>12, <1>13, <1>14, <1>15, <1>16
     DEF ModesInv, StreamMode, Providers, ChatOnly, WithEmbeddings, OneBody

\* A line's pieces, and the numbers of those that are passed on or kept, all of one or the
\* other sign.
Numbers(s) == {Number(s[i]) : i \in DOMAIN s}
Rising(s) == \A i, j \in DOMAIN s : i < j => Number(s[i]) < Number(s[j])

LEMMA LineParts ==
  ASSUME pieces \in Nat, NEW l \in Line, MayFollow(l)
  PROVE  /\ l.parts \in Seq(Nat) /\ Len(l.parts) \in 0..2
         /\ DOMAIN l.parts = 1..Len(l.parts) /\ \A i \in 1..Len(l.parts) : l.parts[i] = pieces + i
         /\ ToSet(l.parts) = (pieces + 1)..(pieces + Len(l.parts))
         /\ l.kind \in {"data", "start", "bad", "other", "done", "bare", "long"} /\ l.tokens \in Nat
<1>1. /\ l.parts \in SeqOf(Part, 2) /\ l.kind \in {"data", "start", "bad", "other", "done", "bare", "long"}
      /\ l.tokens \in 0..MaxParts
  BY DEF Line
<1> DEFINE n == Len(l.parts)
<1>2. l.parts \in Seq(Nat) /\ n \in 0..2 /\ DOMAIN l.parts = 1..n
  BY <1>1, PartsOfLine
<1>3. \A i \in 1..n : l.parts[i] = pieces + i
  <2>1. l.parts = [i \in 1..n |-> pieces + i]
    BY DEF MayFollow
  <2> QED BY <2>1
<1>4. ToSet(l.parts) = (pieces + 1)..(pieces + n)
  <2>1. \A x : x \in ToSet(l.parts) <=> \E i \in 1..n : x = pieces + i
    BY <1>2, <1>3 DEF ToSet
  <2>2. ASSUME NEW x \in (pieces + 1)..(pieces + n)
        PROVE  x \in ToSet(l.parts)
    <3>1. x - pieces \in 1..n /\ x = pieces + (x - pieces)
      BY <1>2
    <3> QED BY <2>1, <3>1
  <2>3. ASSUME NEW x \in ToSet(l.parts)
        PROVE  x \in (pieces + 1)..(pieces + n)
    <3>1. PICK i \in 1..n : x = pieces + i
      BY <2>1
    <3> QED BY <1>2, <3>1
  <2> QED BY <2>2, <2>3
<1>5. l.tokens \in Nat
  BY <1>1, AnswersAssumption
<1> QED BY <1>1, <1>2, <1>3, <1>4, <1>5

LEMMA LineSends ==
  ASSUME ModesInv, StreamMode, pieces \in Nat, NEW l \in Line, MayFollow(l), ~Dones(l)
  PROVE  /\ SendOf(l) \in Seq(Int) /\ HeardOf(l) \in Seq(Nat)
         /\ Numbers(SendOf(l)) = Kept(l) /\ Rising(SendOf(l)) /\ Kept(l) \subseteq ToSet(l.parts)
         /\ provider = "openai" /\ l.kind # "long" => Kept(l) = ToSet(l.parts)
         /\ Takes(l) => SendOf(l) = HeardOf(l) /\ \A i \in 1..Len(SendOf(l)) : SendOf(l)[i] > 0
         /\ ~Takes(l) => HeardOf(l) = <<>> /\ \A i \in 1..Len(SendOf(l)) : ~(SendOf(l)[i] > 0)
<1> DEFINE n == Len(l.parts)
<1>1. /\ l.parts \in Seq(Nat) /\ n \in 0..2
      /\ DOMAIN l.parts = 1..n /\ \A i \in 1..n : l.parts[i] = pieces + i
      /\ ToSet(l.parts) = (pieces + 1)..(pieces + n)
      /\ l.kind \in {"data", "start", "bad", "other", "done", "bare", "long"}
  BY LineParts
<1>2. /\ First(l.parts) = IF n = 0 THEN <<>> ELSE <<l.parts[1]>>
      /\ Final(l.parts) = IF n = 0 THEN <<>> ELSE <<l.parts[n]>>
  BY PartsOfLine DEF Line
<1>3. provider \in {"gemini", "replicate"} =>
        Passed(l) = IF n = 0 THEN <<>> ELSE IF provider = "gemini" THEN <<pieces + 1>> ELSE <<pieces + n>>
  <2>1. n # 0 => 1 \in 1..n /\ n \in 1..n
    BY <1>1
  <2> QED BY <1>1, <1>2, <2>1 DEF Passed
<1>4. /\ Passed(l) \in Seq(Nat) /\ (\A i \in 1..Len(Passed(l)) : Passed(l)[i] > 0 /\ Number(Passed(l)[i]) = Passed(l)[i])
      /\ Rising(Passed(l)) /\ Numbers(Passed(l)) = ToSet(Passed(l)) /\ ToSet(Passed(l)) \subseteq ToSet(l.parts)
  <2>1. CASE provider \notin {"gemini", "replicate"}
    <3>1. Passed(l) = l.parts
      BY <2>1 DEF Passed
    <3>2. \A i \in 1..n : l.parts[i] > 0 /\ Number(l.parts[i]) = l.parts[i]
      BY <1>1 DEF Number
    <3>3. Rising(l.parts)
      BY <1>1, <3>2 DEF Rising
    <3>4. Numbers(l.parts) = ToSet(l.parts)
      BY <1>1, <3>2 DEF Numbers, ToSet
    <3> QED BY <1>1, <3>1, <3>2, <3>3, <3>4
  <2>2. CASE provider \in {"gemini", "replicate"} /\ n = 0
    <3>1. Passed(l) = <<>>
      BY <1>3, <2>2
    <3>2. <<>> \in Seq(Nat) /\ Len(<<>>) = 0 /\ DOMAIN <<>> = {}
      OBVIOUS
    <3> QED BY <3>1, <3>2 DEF Rising, Numbers, ToSet
  <2>3. CASE provider \in {"gemini", "replicate"} /\ n # 0
    <3>1. PICK x \in (pieces + 1)..(pieces + n) : Passed(l) = <<x>>
      <4>1. pieces + 1 \in (pieces + 1)..(pieces + n) /\ pieces + n \in (pieces + 1)..(pieces + n)
        BY <1>1, <2>3
      <4> QED BY <1>3, <2>3, <4>1
    <3>2. x \in Nat /\ x > 0 /\ Number(x) = x
      BY <1>1 DEF Number
    <3>3. <<x>> \in Seq(Nat) /\ Len(<<x>>) = 1 /\ DOMAIN <<x>> = {1} /\ <<x>>[1] = x
      BY <3>2
    <3>4. Rising(<<x>>)
      BY <3>3 DEF Rising
    <3>5. Numbers(<<x>>) = {x} /\ ToSet(<<x>>) = {x}
      BY <3>2, <3>3 DEF Numbers, ToSet
    <3>6. \A i \in 1..Len(<<x>>) : <<x>>[i] > 0 /\ Number(<<x>>[i]) = <<x>>[i]
      BY <3>2, <3>3
    <3>7. {x} \subseteq ToSet(l.parts)
      BY <1>1, <3>1
    <3> QED BY <3>1, <3>3, <3>4, <3>5, <3>6, <3>7
  <2> QED BY <2>1, <2>2, <2>3
<1>5. HeardOf(l) \in Seq(Nat) /\ (~Takes(l) => HeardOf(l) = <<>>)
  BY <1>4 DEF HeardOf
<1>6. CASE Takes(l)
  <2>1. SendOf(l) = Passed(l) /\ HeardOf(l) = Passed(l) /\ Passed(l) \in Seq(Int)
    BY <1>4, <1>6 DEF SendOf, HeardOf
  <2>2. Kept(l) = ToSet(Passed(l))
    <3>1. CASE Read(l)
      BY <3>1 DEF Kept, Passed, Read
    <3>2. CASE ~Read(l)
      <4>1. l.kind = "start" /\ provider \in {"anthropic", "bedrockClaude"}
        BY <1>6, <3>2 DEF Takes, Claude
      <4>2. MostParts(l.kind) = 0
        BY <4>1 DEF MostParts
      <4>6. n <= MostParts(l.kind)
        BY DEF MayFollow
      <4>7. n = 0
        BY <1>1, <4>2, <4>6
      <4>3. l.parts = <<>> /\ Passed(l) = l.parts
        BY <1>1, <4>1, <4>7 DEF Passed
      <4>4. Kept(l) = {}
        BY <4>1 DEF Kept, Read
      <4>5. ToSet(<<>>) = {}
        BY DEF ToSet
      <4> QED BY <4>3, <4>4, <4>5
    <3> QED BY <3>1, <3>2
  <2>3. provider = "openai" => ToSet(Passed(l)) = ToSet(l.parts)
    BY DEF Passed
  <2> QED BY <1>4, <1>6, <2>1, <2>2, <2>3
<1>7. CASE ~Takes(l) /\ l.kind = "bad" /\ provider = "openai"
  <2> DEFINE s == [i \in DOMAIN l.parts |-> -l.parts[i]]
  <2>1. SendOf(l) = s /\ Kept(l) = ToSet(l.parts)
    BY <1>7 DEF SendOf, Kept, Read
  <2>2. s = [i \in 1..n |-> -(pieces + i)]
    BY <1>1
  <2>3. s \in Seq(Int) /\ Len(s) = n /\ DOMAIN s = 1..n
    <3>1. n \in Nat /\ \A i \in 1..n : -(pieces + i) \in Int
      BY <1>1
    <3> QED BY ONLY <2>2, <3>1
  <2>4. \A i \in 1..n : Number(s[i]) = pieces + i /\ ~(s[i] > 0)
    BY <1>1, <2>2 DEF Number
  <2> HIDE DEF s
  <2>5. Rising(s)
    BY <1>1, <2>3, <2>4 DEF Rising
  <2>6. Numbers(s) = ToSet(l.parts)
    BY <1>1, <2>3, <2>4 DEF Numbers, ToSet
  <2> QED BY <1>5, <1>7, <2>1, <2>3, <2>4, <2>5, <2>6
<1>8. CASE ~Takes(l) /\ ~(l.kind = "bad" /\ provider = "openai")
  <2>1. SendOf(l) = <<>>
    BY <1>8 DEF SendOf
  <2>2. Kept(l) = {}
    BY <1>8 DEF Kept, Takes
  <2>3. provider = "openai" /\ l.kind # "long" => ToSet(l.parts) = {}
    <3>1. ASSUME provider = "openai", l.kind # "long"
          PROVE  n = 0
      <4>1. l.kind \in {"start", "other", "done", "bare"}
        BY <1>1, <1>8, <3>1 DEF Takes, Read
      <4>2. MostParts(l.kind) = 0
        BY <4>1 DEF MostParts
      <4>3. n <= MostParts(l.kind)
        BY DEF MayFollow
      <4> QED BY <1>1, <4>2, <4>3
    <3>2. n = 0 => (pieces + 1)..(pieces + n) = {}
      BY <1>1
    <3> QED BY <1>1, <3>1, <3>2
  <2>4. <<>> \in Seq(Int) /\ Len(<<>>) = 0 /\ DOMAIN <<>> = {}
    OBVIOUS
  <2>5. Numbers(<<>>) = {} /\ Rising(<<>>)
    BY <2>4 DEF Numbers, Rising
  <2> QED BY <1>5, <1>8, <2>1, <2>2, <2>3, <2>4, <2>5
<1> QED BY <1>6, <1>7, <1>8

\* What comes behind what was said is said in order, too.
LEMMA SaidNext ==
  ASSUME SentInv, Done \notin ToSet(out), NEW send \in Seq(Int), NEW n \in Nat, Rising(send),
         Numbers(send) \subseteq (pieces + 1)..(pieces + n),
         provider' = "openai" /\ ending' # "long" =>
           unread = {} /\ Numbers(send) = (pieces + 1)..(pieces + n),
         out' = out \o send, heard' \in Seq(Nat), pieces' = pieces + n,
         unread' = unread \cup (((pieces + 1)..(pieces + n)) \ Numbers(send))
  PROVE  SentInv' /\ Done \notin ToSet(out')
<1> DEFINE m == Len(out)
<1>1. /\ m \in Nat /\ DOMAIN out = 1..m /\ \A i \in 1..m : out[i] \in Int /\ out[i] # Done
      /\ pieces \in Nat /\ unread \subseteq 1..pieces /\ Len(send) \in Nat /\ DOMAIN send = 1..Len(send)
  BY DEF SentInv, ToSet
<1>2. /\ out' \in Seq(Int) /\ Len(out') = m + Len(send) /\ DOMAIN out' = 1..(m + Len(send))
      /\ \A i \in 1..m : out'[i] = out[i]
      /\ \A i \in (m + 1)..(m + Len(send)) : i - m \in 1..Len(send) /\ out'[i] = send[i - m]
  <2>1. out' \in Seq(Int) /\ Len(out') = m + Len(send)
    BY <1>1 DEF SentInv
  <2>2. \A i \in 1..m : (out \o send)[i] = out[i]
    BY <1>1 DEF SentInv
  <2>3. \A i \in (m + 1)..(m + Len(send)) : i - m \in 1..Len(send) /\ (out \o send)[i] = send[i - m]
    BY <1>1 DEF SentInv
  <2> QED BY <2>1, <2>2, <2>3
<1>3. \A i \in 1..m : Number(out'[i]) \in (1..pieces) \ unread
  BY <1>1, <1>2 DEF SentInv, Said
<1>4. \A i \in 1..Len(send) : Number(send[i]) \in Numbers(send) /\ Number(send[i]) \in (pieces + 1)..(pieces + n)
  BY <1>1 DEF Numbers
<1>5. \A i \in (m + 1)..(m + Len(send)) :
        i - m \in 1..Len(send) /\ Number(out'[i]) = Number(send[i - m]) /\ out'[i] # Done
  <2>1. \A i \in 1..Len(send) : send[i] # Done
    BY <1>1, <1>4 DEF Number, Done
  <2> QED BY <1>2, <2>1
<1>6. Done \notin ToSet(out') /\ Said' = 1..(m + Len(send))
  BY <1>1, <1>2, <1>5 DEF ToSet, Said
<1>7. \A p \in Int : p \in (1..pieces') \ unread' <=> (p \in (1..pieces) \ unread \/ p \in Numbers(send))
  BY <1>1
<1>8. unread' \subseteq 1..pieces' /\ pieces' \in Nat
  <2>1. ASSUME NEW x \in unread'
        PROVE  x \in 1..(pieces + n)
    <3>1. x \in 1..pieces \/ x \in (pieces + 1)..(pieces + n)
      BY <1>1
    <3> QED BY <1>1, <3>1
  <2>2. pieces' = pieces + n /\ pieces + n \in Nat
    BY <1>1
  <2> QED BY ONLY <2>1, <2>2
<1>9. \A i \in Said' : Number(out'[i]) \in (1..pieces') \ unread'
  <2> SUFFICES ASSUME NEW i \in 1..(m + Len(send))
               PROVE  Number(out'[i]) \in (1..pieces') \ unread'
    BY <1>6
  <2>1. CASE i \in 1..m
    <3>1. Number(out'[i]) \in (1..pieces) \ unread
      BY <1>3, <2>1
    <3> QED BY <1>1, <1>7, <3>1
  <2>2. CASE i \in (m + 1)..(m + Len(send))
    <3>1. Number(out'[i]) \in Numbers(send) /\ Number(out'[i]) \in Int
      BY <1>4, <1>5, <2>2
    <3> QED BY <1>7, <3>1
  <2> QED BY <1>1, <2>1, <2>2
<1>10. \A i, j \in Said' : i < j => Number(out'[i]) < Number(out'[j])
  <2> SUFFICES ASSUME NEW i \in 1..(m + Len(send)), NEW j \in 1..(m + Len(send)), i < j
               PROVE  Number(out'[i]) < Number(out'[j])
    BY <1>6
  <2>1. CASE j <= m
    <3>1. i \in 1..m /\ j \in 1..m
      BY <1>1, <2>1
    <3>2. i \in Said /\ j \in Said
      BY <1>1, <3>1 DEF Said
    <3> QED BY <1>2, <3>1, <3>2 DEF SentInv
  <2>2. CASE i <= m /\ j > m
    <3>1. i \in 1..m /\ j \in (m + 1)..(m + Len(send))
      BY <1>1, <2>2
    <3>2. Number(out'[i]) \in 1..pieces
      BY <1>3, <3>1
    <3>3. Number(out'[j]) \in (pieces + 1)..(pieces + n)
      BY <1>4, <1>5, <3>1
    <3> QED BY <1>1, <3>2, <3>3
  <2>3. CASE i > m
    <3>1. i \in (m + 1)..(m + Len(send)) /\ j \in (m + 1)..(m + Len(send)) /\ i - m < j - m
      BY <1>1, <2>3
    <3>2. i - m \in DOMAIN send /\ j - m \in DOMAIN send
      BY <1>1, <1>5, <3>1
    <3>3. Number(send[i - m]) < Number(send[j - m])
      BY <3>1, <3>2 DEF Rising
    <3> QED BY <1>5, <3>1, <3>3
  <2> QED BY <1>1, <2>1, <2>2, <2>3
<1>11. \A p \in (1..pieces') \ unread' : \E i \in Said' : Number(out'[i]) = p
  <2> SUFFICES ASSUME NEW p \in (1..pieces') \ unread'
               PROVE  \E i \in Said' : Number(out'[i]) = p
    OBVIOUS
  <2>1. CASE p \in (1..pieces) \ unread
    <3>1. PICK i \in Said : Number(out[i]) = p
      BY <2>1 DEF SentInv
    <3>2. i \in 1..m /\ i \in 1..(m + Len(send))
      BY <1>1 DEF Said
    <3>3. Number(out'[i]) = p /\ i \in Said'
      BY <1>2, <1>6, <3>1, <3>2
    <3> QED BY <3>3
  <2>2. CASE p \in Numbers(send)
    <3>1. PICK k \in 1..Len(send) : Number(send[k]) = p
      BY <1>1, <2>2 DEF Numbers
    <3>2. m + k \in (m + 1)..(m + Len(send)) /\ m + k \in 1..(m + Len(send)) /\ (m + k) - m = k
      BY <1>1, <3>1
    <3>3. Number(out'[m + k]) = p /\ m + k \in Said'
      BY <1>5, <1>6, <3>1, <3>2
    <3> QED BY <3>3
  <2>3. p \in Int
    BY <1>8
  <2> QED BY <1>7, <2>1, <2>2, <2>3
<1>12. provider' = "openai" /\ ending' # "long" => unread' = {}
  OBVIOUS
<1> QED BY <1>2, <1>6, <1>8, <1>9, <1>10, <1>11, <1>12 DEF SentInv

\* [DONE] behind what was said says nothing.
LEMMA DoneNext ==
  ASSUME SentInv, out' = Append(out, Done), UNCHANGED <<pieces, unread, provider, heard>>,
         ending = "long" => ending' = "long"
  PROVE  /\ SentInv' /\ HeardIn(out') = HeardIn(out)
         /\ Done \notin ToSet(out) => EndsInDone(out')
         /\ EndsInDone(out) => Len(out') >= 2 /\ \A i \in DOMAIN out' : out'[i] = Done <=> i > Len(out') - 2
<1> DEFINE m == Len(out)
<1>1. /\ m \in Nat /\ DOMAIN out = 1..m /\ \A i \in 1..m : out[i] \in Int
  BY DEF SentInv
<1>2. /\ out' \in Seq(Int) /\ Len(out') = m + 1 /\ DOMAIN out' = 1..(m + 1)
      /\ (\A i \in 1..m : out'[i] = out[i]) /\ out'[m + 1] = Done
  BY <1>1 DEF SentInv, Done
<1>3. Said' = Said /\ Said \subseteq 1..m /\ HeardIn(out') = HeardIn(out)
  BY <1>1, <1>2 DEF Said, HeardIn, Done
<1>4. \A i \in 1..m : Number(out'[i]) = Number(out[i])
  BY <1>2
<1>5. \A i \in Said' : Number(out'[i]) \in (1..pieces') \ unread'
  BY <1>3, <1>4 DEF SentInv
<1>6. \A i, j \in Said' : i < j => Number(out'[i]) < Number(out'[j])
  BY <1>3, <1>4 DEF SentInv
<1>7. \A p \in (1..pieces') \ unread' : \E i \in Said' : Number(out'[i]) = p
  BY <1>3, <1>4 DEF SentInv
<1>8. SentInv'
  BY <1>2, <1>5, <1>6, <1>7 DEF SentInv
<1>9. Done \notin ToSet(out) => EndsInDone(out')
  <2> SUFFICES ASSUME Done \notin ToSet(out)
               PROVE  EndsInDone(out')
    OBVIOUS
  <2>1. \A i \in 1..m : out[i] # Done
    BY <1>1 DEF ToSet
  <2>2. out' # <<>> /\ Len(out') = m + 1
    BY <1>1, <1>2
  <2>3. \A i \in 1..(m + 1) : out'[i] = Done <=> i = m + 1
    BY <1>1, <1>2, <2>1
  <2> QED BY <1>2, <2>2, <2>3 DEF EndsInDone
<1>10. EndsInDone(out) => Len(out') >= 2 /\ \A i \in DOMAIN out' : out'[i] = Done <=> i > Len(out') - 2
  <2> SUFFICES ASSUME EndsInDone(out)
               PROVE  Len(out') >= 2 /\ \A i \in DOMAIN out' : out'[i] = Done <=> i > Len(out') - 2
    OBVIOUS
  <2>1. out # <<>> /\ out \in Seq(Int)
    BY DEF EndsInDone, SentInv
  <2>2. m >= 1
    BY <2>1
  <2>3. \A i \in DOMAIN out : out[i] = Done <=> i = m
    BY DEF EndsInDone
  <2>4. \A i \in 1..(m + 1) : out'[i] = Done <=> i > m - 1
    <3>1. \A i \in 1..m : out'[i] = Done <=> i = m
      BY <1>1, <1>2, <2>3
    <3>2. \A i \in 1..(m + 1) : i \in 1..m \/ i = m + 1
      BY <1>1
    <3>3. \A i \in 1..m : i = m <=> i > m - 1
      <4>1. \A k \in Nat : \A i \in 1..k : (i = k) <=> (i > k - 1)
        OBVIOUS
      <4>2. m \in Nat
        BY <1>1
      <4> QED BY ONLY <4>1, <4>2
    <3>4. m + 1 > m - 1
      BY <1>1
    <3> QED BY <1>2, <3>1, <3>2, <3>3, <3>4
  <2>5. Len(out') >= 2 /\ Len(out') - 2 = m - 1
    BY <1>1, <1>2, <2>2
  <2> QED BY <1>2, <2>4, <2>5
<1> QED BY <1>3, <1>8, <1>9, <1>10

\* To say all that was read, in order, is to deliver it.
LEMMA SaidDelivers ==
  ASSUME SentInv',
         mode' = "stream" /\ status' = "ok" =>
           \/ ~(provider' = "openai" /\ ending' = "bare") /\ EndsInDone(out')
           \/ /\ provider' = "openai" /\ ending' = "bare" /\ Len(out') >= 2
              /\ \A i \in DOMAIN out' : out'[i] = Done <=> i > Len(out') - 2
           \/ ending' = "unread" \/ (gone' /\ provider' \in Stepwise)
  PROVE  StreamDelivered'
<1>1. \A i, j \in Said' : i < j => Number(out'[i]) < Number(out'[j])
  BY DEF SentInv
<1>2. {Number(out'[i]) : i \in Said'} = (1..pieces') \ unread'
  BY DEF SentInv
<1>3. provider' = "openai" /\ ending' # "long" => unread' = {}
  BY DEF SentInv
<1>4. EndsInDone(out') => 1 <= Len(out') /\ \A i \in DOMAIN out' : out'[i] = Done <=> i > Len(out') - 1
  <2>1. out' \in Seq(Int)
    BY DEF SentInv
  <2> QED BY <2>1 DEF EndsInDone
<1> QED BY <1>1, <1>2, <1>3, <1>4 DEF StreamDelivered, Said

\* What a line is to the stream's end.
LEMMA EndsIs ==
  ASSUME NEW l \in Line, MayFollow(l)
  PROVE  /\ EndsWith(l) \in {"", "stop", "bare", "long", "unread"}
         /\ (EndsWith(l) = "bare" <=> l.kind = "bare") /\ (EndsWith(l) = "long" <=> l.kind = "long")
         /\ (EndsWith(l) = "stop" <=> l.stop)
         /\ l.kind = "bad" /\ provider \in Bedrock => EndsWith(l) = "unread"
<1>1. l.stop \in BOOLEAN /\ (l.stop => l.kind = "data")
  BY DEF Line, MayFollow
<1>2. CASE l.stop
  BY <1>1, <1>2 DEF EndsWith
<1>3. CASE ~l.stop /\ l.kind \in {"bare", "long"}
  BY <1>1, <1>3 DEF EndsWith
<1>4. CASE ~l.stop /\ l.kind = "bad" /\ provider \in Bedrock
  BY <1>1, <1>4 DEF EndsWith
<1>5. CASE ~l.stop /\ l.kind \notin {"bare", "long"} /\ ~(l.kind = "bad" /\ provider \in Bedrock)
  BY <1>1, <1>5 DEF EndsWith
<1> QED BY <1>1, <1>2, <1>3, <1>4, <1>5

\* What is charged after a line.
LEMMA LineCharges ==
  ASSUME ModesInv, UsageInv, pieces \in Nat, NEW l \in Line, MayFollow(l),
         usage' = UsageOf(l), metered' = IF l.kind = "data" /\ l.tokens # 0 THEN l.tokens ELSE metered,
         opening' = IF l.kind = "start" THEN l.tokens ELSE opening,
         pieces' = pieces + Len(l.parts), ending' = EndsWith(l), UNCHANGED <<provider, mode>>
  PROVE  UsageInv'
<1>1. /\ l.tokens \in Nat /\ Len(l.parts) \in 0..2 /\ metered \in 0..pieces /\ metered \in Nat
      /\ opening \in {NotBegun, 0, 1} /\ usage \in [known: BOOLEAN, prompt: Nat, completion: Nat]
      /\ l.kind \in {"data", "start", "bad", "other", "done", "bare", "long"}
      /\ usage.prompt = ToldPrompt /\ usage.completion = ToldCompletion
  BY LineParts DEF UsageInv
<1>2. /\ ending = ""
      /\ l.kind = "start" => provider \in Claude /\ opening = NotBegun /\ metered = 0 /\ l.tokens <= 1
      /\ l.kind = "data" => l.tokens \in {0, pieces + Len(l.parts)}
      /\ l.kind \notin {"data", "start"} => l.tokens = 0
      /\ l.kind = "data" /\ l.tokens # 0 /\ provider \in ToldOnce => metered = 0
      /\ l.stop => l.kind = "data" /\ l.tokens = pieces + Len(l.parts)
  BY DEF MayFollow
<1>3. metered' \in 0..pieces' /\ opening' \in {NotBegun, 0, 1} /\ (ending' = "stop" <=> l.stop) /\ l.stop \in BOOLEAN
  <2>1. metered' \in 0..pieces'
    <3>1. CASE l.kind = "data" /\ l.tokens # 0
      <4>1. metered' = pieces + Len(l.parts)
        BY <1>2, <3>1
      <4> QED BY ONLY <1>1, <4>1, pieces \in Nat, pieces' = pieces + Len(l.parts)
    <3>2. CASE ~(l.kind = "data" /\ l.tokens # 0)
      <4>1. metered' = metered
        BY <3>2
      <4> QED BY ONLY <1>1, <4>1, pieces \in Nat, pieces' = pieces + Len(l.parts)
    <3> QED BY <3>1, <3>2
  <2>2. opening' \in {NotBegun, 0, 1}
    <3>1. l.kind = "start" => l.tokens <= 1
      BY <1>2
    <3>2. l.tokens \in Nat /\ opening \in {NotBegun, 0, 1}
      BY <1>1
    <3> QED BY <3>1, <3>2
  <2>3. ending' = "stop" <=> l.stop
    BY EndsIs
  <2>4. l.stop \in BOOLEAN
    BY DEF Line
  <2> QED BY <2>1, <2>2, <2>3, <2>4
<1>4. /\ Told(l) = IF l.tokens = 0 THEN [known |-> TRUE, prompt |-> 0, completion |-> 0]
                  ELSE [known |-> TRUE, prompt |-> PromptTokens, completion |-> l.tokens]
      /\ Added(l) = [known |-> TRUE, prompt |-> usage.prompt + Told(l).prompt,
                     completion |-> usage.completion + Told(l).completion]
  BY DEF Told, Tokens, Added
<1>5. CASE provider \in CountsText \cup {"aiproxy"}
  <2>1. usage' = usage
    BY <1>5 DEF UsageOf
  <2>2. ToldPrompt = 0 /\ ToldCompletion = 0 /\ ToldPrompt' = 0 /\ ToldCompletion' = 0
    BY <1>5 DEF ToldPrompt, ToldCompletion
  <2> QED BY <1>1, <1>3, <2>1, <2>2 DEF UsageInv
<1>6. CASE provider \in Claude
  <2>1. provider \notin CountsText \cup {"aiproxy"} /\ provider \in ToldOnce
    BY <1>6 DEF Claude, CountsText, ToldOnce
  <2>2. /\ ToldPrompt = IF opening = NotBegun THEN 0 ELSE PromptTokens
        /\ ToldCompletion = IF opening = NotBegun THEN metered ELSE metered + opening
        /\ ToldPrompt' = IF opening' = NotBegun THEN 0 ELSE PromptTokens
        /\ ToldCompletion' = IF opening' = NotBegun THEN metered' ELSE metered' + opening'
    BY <1>6, <2>1 DEF ToldPrompt, ToldCompletion
  <2>3. CASE ~Takes(l)
    <3>1. usage' = usage /\ metered' = metered /\ opening' = opening
      BY <1>6, <2>3 DEF UsageOf, Takes, Read
    <3> QED BY <1>1, <1>3, <2>2, <3>1 DEF UsageInv
  <2>4. CASE l.kind = "data"
    <3>1. usage' = [known |-> TRUE, prompt |-> usage.prompt + 0, completion |-> usage.completion + l.tokens]
      BY <1>6, <2>1, <2>4 DEF UsageOf, Takes, Read, ClaudeUsage, Tokens
    <3>2. opening' = opening /\ (l.tokens = 0 => metered' = metered) /\ (l.tokens # 0 => metered' = l.tokens /\ metered = 0)
      BY <1>2, <2>1, <2>4
    <3>3. usage' \in [known: BOOLEAN, prompt: Nat, completion: Nat]
          /\ usage'.prompt = usage.prompt /\ usage'.completion = usage.completion + l.tokens
      BY <1>1, <3>1
    <3>4. usage'.completion = ToldCompletion'
      BY <1>1, <2>2, <3>2, <3>3 DEF NotBegun
    <3> QED BY <1>1, <1>3, <2>2, <3>2, <3>3, <3>4 DEF UsageInv
  <2>5. CASE l.kind = "start"
    <3>1. usage' = [known |-> TRUE, prompt |-> usage.prompt + PromptTokens, completion |-> usage.completion + l.tokens]
      BY <1>6, <2>1, <2>5 DEF UsageOf, Takes, Read, ClaudeUsage, Tokens
    <3>2. opening' = l.tokens /\ metered' = metered /\ metered = 0 /\ opening = NotBegun
      BY <1>2, <2>5
    <3>3. usage' \in [known: BOOLEAN, prompt: Nat, completion: Nat]
          /\ usage'.prompt = usage.prompt + PromptTokens /\ usage'.completion = usage.completion + l.tokens
      BY <1>1, <3>1 DEF PromptTokens
    <3>4. opening' # NotBegun
      BY <1>1, <3>2 DEF NotBegun
    <3> QED BY <1>1, <1>3, <2>2, <3>2, <3>3, <3>4 DEF UsageInv, PromptTokens
  <2> QED BY <1>6, <2>3, <2>4, <2>5 DEF Takes, Read
<1>7. CASE provider \notin CountsText \cup {"aiproxy"} /\ provider \notin Claude
  <2>1. /\ ToldPrompt = IF metered = 0 THEN 0 ELSE PromptTokens
        /\ ToldPrompt' = IF metered' = 0 THEN 0 ELSE PromptTokens
        /\ ToldCompletion = IF provider = "bedrockLlama" THEN 0 ELSE metered
        /\ ToldCompletion' = IF provider = "bedrockLlama" /\ ~l.stop THEN 0 ELSE metered'
    BY <1>2, <1>3, <1>7 DEF ToldPrompt, ToldCompletion
  <2>2. Takes(l) <=> l.kind = "data"
    BY <1>7 DEF Takes, Read
  <2>3. CASE ~Takes(l)
    <3>1. usage' = usage /\ metered' = metered /\ ~l.stop
      BY <1>2, <2>2, <2>3 DEF UsageOf
    <3> QED BY <1>1, <1>3, <2>1, <3>1 DEF UsageInv
  <2>4. CASE Takes(l) /\ provider = "bedrockLlama"
    <3>1. usage' = [known |-> TRUE, prompt |-> IF l.tokens = 0 THEN usage.prompt ELSE PromptTokens,
                    completion |-> IF l.stop THEN l.tokens ELSE usage.completion]
      BY <1>7, <2>4 DEF UsageOf, LlamaUsage, Tokens
    <3>2. metered' = IF l.tokens # 0 THEN l.tokens ELSE metered
      BY <2>2, <2>4
    <3>3. l.stop /\ l.tokens = 0 => metered = 0
      <4>1. l.stop => l.tokens = pieces + Len(l.parts)
        BY <1>2
      <4>2. pieces + Len(l.parts) = 0 => metered = 0
        BY ONLY <1>1, pieces \in Nat
      <4> QED BY <4>1, <4>2
    <3>4. usage' \in [known: BOOLEAN, prompt: Nat, completion: Nat]
      BY <1>1, <3>1 DEF PromptTokens
    <3>5. usage'.prompt = ToldPrompt'
      BY <1>1, <2>1, <3>1, <3>2
    <3>6. usage'.completion = ToldCompletion'
      BY <1>1, <2>1, <2>4, <3>1, <3>2, <3>3
    <3> QED BY <1>3, <3>4, <3>5, <3>6 DEF UsageInv
  <2>5. CASE Takes(l) /\ provider \in {"xunfei", "cohere"}
    <3>1. usage' = Added(l) /\ provider \in ToldOnce
      BY <1>7, <2>5 DEF UsageOf, ToldOnce
    <3>2. (l.tokens = 0 => metered' = metered) /\ (l.tokens # 0 => metered' = l.tokens /\ metered = 0)
      BY <1>2, <2>2, <2>5, <3>1
    <3>3. usage' \in [known: BOOLEAN, prompt: Nat, completion: Nat]
      BY <1>1, <1>4, <3>1 DEF PromptTokens
    <3>4. usage'.prompt = ToldPrompt' /\ usage'.completion = ToldCompletion'
      BY <1>1, <1>4, <2>1, <2>5, <3>1, <3>2 DEF PromptTokens
    <3> QED BY <1>3, <3>3, <3>4 DEF UsageInv
  <2>6. CASE Takes(l) /\ provider \notin {"bedrockLlama", "xunfei", "cohere"}
    <3>1. usage' = IF l.tokens = 0 THEN usage ELSE Told(l)
      BY <1>7, <2>6 DEF UsageOf, Later
    <3>2. metered' = IF l.tokens # 0 THEN l.tokens ELSE metered
      BY <2>2, <2>6
    <3>3. usage' \in [known: BOOLEAN, prompt: Nat, completion: Nat]
      BY <1>1, <1>4, <3>1 DEF PromptTokens
    <3>4. usage'.prompt = ToldPrompt' /\ usage'.completion = ToldCompletion'
      BY <1>1, <1>4, <2>1, <2>6, <3>1, <3>2
    <3> QED BY <1>3, <3>3, <3>4 DEF UsageInv
  <2> QED BY <2>3, <2>4, <2>5, <2>6
<1> QED BY <1>5, <1>6, <1>7

\* What a stream costs when it ends: the texts, if they are counted, or what was told.
PricedInv ==
  status = "ok" =>
    IF provider \in CountsText \/ (provider = "openai" /\ metered = 0)
    THEN usage.prompt = PromptTokens /\ usage.completion = Cardinality(HeardIn(out))
    ELSE usage.prompt = ToldPrompt /\ usage.completion = ToldCompletion

LEMMA StreamPriced ==
  ASSUME ModesInv, StreamMode, PricedInv
  PROVE  DeliveredIsCharged
<1> SUFFICES ASSUME status = "ok"
             PROVE  DeliveredIsCharged
  BY DEF DeliveredIsCharged
<1> DEFINE texts == IF provider \in {"gemini", "palm"} /\ mode = "chat" THEN 1 ELSE Cardinality({i \in DOMAIN out : out[i] > 0})
           counts == {"gemini", "coze", "cloudflare", "replicate", "palm"}
                     \cup (IF mode = "stream" THEN {"tencent"} ELSE {})
                     \cup (IF metered = 0 THEN {"openai"} ELSE {})
           price ==
             CASE mode = "embedding" -> <<IF provider \in {"baidu", "zhipu"} THEN metered ELSE 0, 0>>
               [] provider = "aiproxy" -> <<0, 0>>
               [] provider = "deepl" -> <<PromptTokens, 0>>
               [] mode # "embedding" /\ provider \in counts -> <<PromptTokens, texts>>
               [] provider \in Claude /\ mode = "stream" ->
                    IF opening = NotBegun THEN <<0, metered>> ELSE <<PromptTokens, metered + opening>>
               [] provider = "bedrockLlama" /\ mode = "stream" ->
                    <<IF metered = 0 THEN 0 ELSE PromptTokens, IF ending = "stop" THEN metered ELSE 0>>
               [] OTHER -> <<IF metered = 0 THEN 0 ELSE PromptTokens, metered>>
<1>1. mode = "stream" /\ provider \notin {"palm", "deepl"}
  BY DEF StreamMode, OneBody
<1>2. texts = Cardinality(HeardIn(out))
  BY <1>1 DEF HeardIn
<1>3. provider \in counts <=> provider \in CountsText \/ (provider = "openai" /\ metered = 0)
  BY <1>1 DEF CountsText
<1> SUFFICES <<usage.prompt, usage.completion>> = price
  BY DEF DeliveredIsCharged
<1> HIDE DEF texts, counts
<1>4. CASE provider = "aiproxy"
  <2>1. price = <<0, 0>>
    BY <1>1, <1>3, <1>4 DEF CountsText, Claude
  <2>2. ToldPrompt = 0 /\ ToldCompletion = 0
    BY <1>4 DEF ToldPrompt, ToldCompletion
  <2>3. provider \notin CountsText /\ provider # "openai"
    BY <1>4 DEF CountsText
  <2> QED BY <2>1, <2>2, <2>3 DEF PricedInv
<1>5. CASE provider \in counts
  <2>1. price = <<PromptTokens, texts>>
    BY <1>1, <1>3, <1>5 DEF CountsText, Claude
  <2> QED BY <1>2, <1>3, <1>5, <2>1 DEF PricedInv
<1>6. CASE provider \in Claude
  <2>1. provider \notin CountsText \cup {"aiproxy", "openai", "deepl", "bedrockLlama"} /\ provider \notin counts
    BY <1>3, <1>6 DEF CountsText, Claude
  <2>2. price = IF opening = NotBegun THEN <<0, metered>> ELSE <<PromptTokens, metered + opening>>
    BY <1>1, <1>6, <2>1
  <2> QED BY <1>6, <2>1, <2>2 DEF PricedInv, ToldPrompt, ToldCompletion
<1>7. CASE provider = "bedrockLlama"
  <2>1. provider \notin CountsText \cup {"aiproxy", "openai", "deepl"} /\ provider \notin counts /\ provider \notin Claude
    BY <1>3, <1>7 DEF CountsText, Claude
  <2>2. price = <<IF metered = 0 THEN 0 ELSE PromptTokens, IF ending = "stop" THEN metered ELSE 0>>
    BY <1>1, <1>7, <2>1
  <2> QED BY <1>7, <2>1, <2>2 DEF PricedInv, ToldPrompt, ToldCompletion
<1>8. CASE provider \notin counts /\ provider \notin Claude /\ provider \notin {"aiproxy", "bedrockLlama"}
  <2>1. price = <<IF metered = 0 THEN 0 ELSE PromptTokens, metered>>
    BY <1>1, <1>8
  <2>2. provider \notin CountsText /\ ~(provider = "openai" /\ metered = 0)
    BY <1>3, <1>8
  <2> QED BY <1>8, <2>1, <2>2 DEF PricedInv, ToldPrompt, ToldCompletion
<1> QED BY <1>4, <1>5, <1>6, <1>7, <1>8

LEMMA LineKeeps ==
  ASSUME AnswersInv, StreamLine
  PROVE  AnswersInv'
<1>1. PICK l \in Line :
        /\ StreamMode /\ status = "open" /\ MayFollow(l)
        /\ out' = out \o Handled(l).send /\ heard' = heard \o Handled(l).heard
        /\ usage' = IF Handled(l).status = "error" THEN NoUsage ELSE Handled(l).usage
        /\ doneRendered' = Handled(l).rendered
        /\ status' = IF l.kind \in {"done", "bare", "long"} /\ Handled(l).status = "open" THEN "closing"
                     ELSE Handled(l).status
        /\ pieces' = pieces + Len(l.parts)
        /\ metered' = IF l.kind = "data" /\ l.tokens # 0 THEN l.tokens ELSE metered
        /\ opening' = IF l.kind = "start" THEN l.tokens ELSE opening
        /\ ending' = EndsWith(l)
        /\ unread' = unread \cup (ToSet(l.parts) \ Kept(l))
        /\ UNCHANGED <<provider, mode, gone>>
  BY DEF StreamLine, StreamMode
<1>2. /\ ModesInv /\ SentInv /\ HeardInv /\ DoneInv /\ UsageInv /\ ~Ended /\ Done \notin ToSet(out) /\ ending = ""
      /\ heard \in Seq(Nat) /\ pieces \in Nat /\ out \in Seq(Int) /\ unread \subseteq 1..pieces
      /\ provider = "openai" => unread = {}
  <2>1. ModesInv /\ SentInv /\ HeardInv /\ DoneInv /\ UsageInv
    BY <1>1 DEF AnswersInv, LinesInv
  <2>2. ~Ended /\ Done \notin ToSet(out)
    BY <1>1, <2>1 DEF DoneInv
  <2>3. ending = ""
    BY <1>1 DEF MayFollow
  <2> QED BY <2>1, <2>2, <2>3 DEF SentInv
<1>3. Handled(l) = HandledAs(l)
  BY <1>1, <1>2, HandledIs
<1>4. /\ out' = out \o SendOf(l) /\ heard' = heard \o HeardOf(l) /\ doneRendered' = RenderedOf(l)
      /\ usage' = IF StatusOf(l) = "error" THEN NoUsage ELSE UsageOf(l)
      /\ status' = IF l.kind \in {"done", "bare", "long"} /\ StatusOf(l) = "open" THEN "closing" ELSE StatusOf(l)
  BY <1>1, <1>3 DEF HandledAs
<1>5. /\ status' \in {"open", "closing", "ok", "error"}
      /\ status' = "ok" => l.kind = "bad" /\ provider \in Bedrock
      /\ status' = "error" => provider = "replicate"
      /\ l.kind \in {"done", "bare"} => status' = "closing"
      /\ StatusOf(l) = "error" => status' = "error"
  BY <1>4 DEF StatusOf
<1>6. status' # "error" => UsageInv'
  <2> SUFFICES ASSUME status' # "error"
               PROVE  UsageInv'
    OBVIOUS
  <2>1. usage' = UsageOf(l)
    BY <1>4, <1>5
  <2> QED BY <1>1, <1>2, <2>1, LineCharges
<1>7. /\ EndsWith(l) \in {"", "stop", "bare", "long", "unread"}
      /\ (EndsWith(l) = "bare" <=> l.kind = "bare") /\ (EndsWith(l) = "long" <=> l.kind = "long")
      /\ l.kind = "bad" /\ provider \in Bedrock => EndsWith(l) = "unread"
  BY <1>1, EndsIs
<1>8. /\ l.parts \in Seq(Nat) /\ Len(l.parts) \in Nat
      /\ ToSet(l.parts) = (pieces + 1)..(pieces + Len(l.parts))
  <2>1. l.parts \in Seq(Nat) /\ Len(l.parts) \in 0..2
        /\ ToSet(l.parts) = (pieces + 1)..(pieces + Len(l.parts))
    BY <1>1, <1>2, LineParts
  <2> QED BY ONLY <2>1
<1>9. SentInv' /\ HeardInv' /\ (status' \in {"open", "closing"} => DoneInv')
  <2>1. CASE Dones(l)
    <3>1. /\ SendOf(l) = <<Done>> /\ l.kind \in {"done", "bare"} /\ provider \in PassesDone /\ ~Takes(l)
          /\ HeardOf(l) = <<>>
      BY <2>1 DEF Dones, SendOf, HeardOf, Takes, Read, PassesDone
    <3>2. out' = Append(out, Done)
      <4>1. Done \in Int
        BY DEF Done
      <4>2. out \in Seq(Int) /\ out' = out \o <<Done>>
        BY <1>2, <1>4, <3>1
      <4> QED BY ONLY <4>1, <4>2
    <3>3. Len(l.parts) = 0
      <4>1. MostParts(l.kind) = 0
        BY <3>1 DEF MostParts
      <4>2. Len(l.parts) <= MostParts(l.kind)
        BY <1>1 DEF MayFollow
      <4> QED BY <1>8, <4>1, <4>2
    <3>4. pieces' = pieces /\ unread' = unread /\ heard' = heard
      <4>1. pieces' = pieces
        <5>1. pieces \in Nat /\ pieces' = pieces + 0
          BY <1>1, <1>2, <3>3
        <5> QED BY ONLY <5>1
      <4>2. ToSet(l.parts) = {}
        <5>1. ToSet(l.parts) = (pieces + 1)..(pieces + 0) /\ pieces \in Nat
          BY <1>2, <1>8, <3>3
        <5> QED BY ONLY <5>1
      <4>3. unread' = unread
        BY <1>1, <4>2
      <4>4. heard' = heard
        <5>1. heard \in Seq(Nat) /\ heard' = heard \o <<>>
          BY <1>2, <1>4, <3>1
        <5> QED BY ONLY <5>1
      <4> QED BY <4>1, <4>3, <4>4
    <3>5. SentInv' /\ HeardIn(out') = HeardIn(out) /\ EndsInDone(out')
      BY <1>1, <1>2, <3>2, <3>4, DoneNext
    <3>6. status' = "closing" /\ (doneRendered' = TRUE => ending' # "bare")
      <4>1. status' = "closing"
        BY <1>5, <3>1
      <4>2. l.kind = "bare" => doneRendered' # TRUE
        BY <1>2, <1>4 DEF RenderedOf, Ended
      <4>3. ending' = "bare" => l.kind = "bare"
        BY <1>1, <1>7
      <4> QED BY <4>1, <4>2, <4>3
    <3>7. Ended'
      <4>1. CASE l.kind = "done"
        BY <1>4, <3>1, <4>1 DEF RenderedOf, Ended
      <4>2. CASE l.kind = "bare"
        <5>1. provider = "openai" /\ ending' = "bare"
          BY <1>1, <1>7, <2>1, <4>2 DEF Dones
        <5> QED BY <1>1, <5>1 DEF Ended
      <4> QED BY <3>1, <4>1, <4>2
    <3>8. HeardInv'
      BY <1>2, <3>4, <3>5 DEF HeardInv
    <3>9. DoneInv'
      BY <3>5, <3>6, <3>7 DEF DoneInv
    <3> QED BY <3>5, <3>8, <3>9
  <2>2. CASE ~Dones(l)
    <3>1. /\ SendOf(l) \in Seq(Int) /\ HeardOf(l) \in Seq(Nat)
          /\ Numbers(SendOf(l)) = Kept(l) /\ Rising(SendOf(l)) /\ Kept(l) \subseteq ToSet(l.parts)
          /\ provider = "openai" /\ l.kind # "long" => Kept(l) = ToSet(l.parts)
          /\ Takes(l) => SendOf(l) = HeardOf(l) /\ \A i \in 1..Len(SendOf(l)) : SendOf(l)[i] > 0
          /\ ~Takes(l) => HeardOf(l) = <<>> /\ \A i \in 1..Len(SendOf(l)) : ~(SendOf(l)[i] > 0)
      BY <1>1, <1>2, <2>2, LineSends
    <3>2. heard' \in Seq(Nat)
      <4>1. heard' = heard \o HeardOf(l) /\ heard \in Seq(Nat) /\ HeardOf(l) \in Seq(Nat)
        BY <1>2, <1>4, <3>1
      <4> QED BY ONLY <4>1
    <3>3. SentInv' /\ Done \notin ToSet(out')
      <4>1. provider' = "openai" /\ ending' # "long" =>
              unread = {} /\ Numbers(SendOf(l)) = (pieces + 1)..(pieces + Len(l.parts))
        BY <1>1, <1>2, <1>7, <1>8, <3>1
      <4>2. Numbers(SendOf(l)) \subseteq (pieces + 1)..(pieces + Len(l.parts))
        BY <1>8, <3>1
      <4>3. unread' = unread \cup (((pieces + 1)..(pieces + Len(l.parts))) \ Numbers(SendOf(l)))
        BY <1>1, <1>8, <3>1
      <4> QED BY <1>1, <1>2, <1>4, <1>8, <3>1, <3>2, <4>1, <4>2, <4>3, SaidNext
    <3>4. HeardInv'
      <4>1. CASE Takes(l)
        <5>1. Cardinality(HeardIn(out \o SendOf(l))) = Cardinality(HeardIn(out)) + Len(SendOf(l))
          BY <1>2, <3>1, <4>1, TextsGrow
        <5>2. Len(heard \o HeardOf(l)) = Len(heard) + Len(HeardOf(l))
          <6>1. heard \in Seq(Nat) /\ HeardOf(l) \in Seq(Nat)
            BY <1>2, <3>1
          <6> QED BY ONLY <6>1
        <5> QED BY <1>2, <1>4, <3>1, <4>1, <5>1, <5>2 DEF HeardInv
      <4>2. CASE ~Takes(l)
        <5>1. HeardIn(out \o SendOf(l)) = HeardIn(out)
          BY <1>2, <3>1, <4>2, TextsStay
        <5>2. heard' = heard
          <6>1. heard \in Seq(Nat) /\ heard' = heard \o <<>>
            BY <1>2, <1>4, <3>1, <4>2
          <6> QED BY ONLY <6>1
        <5> QED BY <1>2, <1>4, <5>1, <5>2 DEF HeardInv
      <4> QED BY <4>1, <4>2
    <3>5. ~Ended'
      <4>1. doneRendered' = doneRendered /\ doneRendered # TRUE
        BY <1>2, <1>4, <2>2 DEF RenderedOf, Dones, Ended
      <4>2. ~(provider' = "openai" /\ ending' = "bare")
        BY <1>1, <1>7, <2>2 DEF Dones
      <4> QED BY <4>1, <4>2 DEF Ended
    <3>6. DoneInv'
      BY <3>3, <3>5 DEF DoneInv, Ended
    <3> QED BY <3>3, <3>4, <3>6
  <2> QED BY <2>1, <2>2
<1>10. StreamMode' = StreamMode /\ ModesInv'
  BY <1>1, <1>2 DEF StreamMode, ModesInv
<1>11. LinesInv' /\ NothingSentBeforeError'
  <2>1. status' \in {"open", "closing"} => UsageInv'
    BY <1>6
  <2>2. LinesInv'
    BY <1>9, <2>1 DEF LinesInv
  <2>3. NothingSentBeforeError'
    BY <1>1, <1>5 DEF NothingSentBeforeError
  <2> QED BY <2>2, <2>3
<1>12. StreamDelivered'
  <2>1. status' = "ok" => ending' = "unread"
    BY <1>1, <1>5, <1>7
  <2> QED BY <1>9, <2>1, SaidDelivers
<1>13. DeliveredIsCharged'
  <2>1. PricedInv'
    <3> SUFFICES ASSUME status' = "ok"
                 PROVE  /\ provider' \notin CountsText /\ provider' # "openai"
                        /\ usage'.prompt = ToldPrompt' /\ usage'.completion = ToldCompletion'
      BY DEF PricedInv
    <3>1. UsageInv' /\ provider' \in Bedrock
      BY <1>1, <1>5, <1>6
    <3> QED BY <3>1 DEF UsageInv, Bedrock, CountsText
  <2>2. ModesInv' /\ StreamMode'
    BY <1>1, <1>10
  <2>3. (ModesInv /\ StreamMode /\ PricedInv => DeliveredIsCharged)'
    BY StreamPriced, PTL
  <2> QED BY <2>1, <2>2, <2>3
<1> QED BY <1>10, <1>11, <1>12, <1>13 DEF AnswersInv

-----------------------------------------------------------------------------
(* The end of a stream.                                                    *)

\* What is charged when the provider is done.
LEMMA EndCharges ==
  ASSUME ModesInv, StreamMode, SentInv, HeardInv, UsageInv,
         usage' = IF status' = "ok" THEN DoResponse ELSE NoUsage,
         HeardIn(out') = HeardIn(out), UNCHANGED <<provider, mode, metered, opening, ending>>
  PROVE  PricedInv'
<1> SUFFICES ASSUME status' = "ok"
             PROVE  IF provider \in CountsText \/ (provider = "openai" /\ metered = 0)
                    THEN usage'.prompt = PromptTokens /\ usage'.completion = Cardinality(HeardIn(out))
                    ELSE usage'.prompt = ToldPrompt /\ usage'.completion = ToldCompletion
  BY DEF PricedInv, ToldPrompt, ToldCompletion
<1>1. /\ heard \in Seq(Nat) /\ metered \in Nat /\ Cardinality(HeardIn(out)) = Len(heard)
      /\ usage.prompt = ToldPrompt /\ usage.completion = ToldCompletion
  BY DEF UsageInv, SentInv, HeardInv
<1>2. ResponseText2Usage(heard) = [known |-> TRUE, prompt |-> PromptTokens, completion |-> Len(heard)]
  BY DEF ResponseText2Usage, Tokens
<1>3. usage' = IF provider \in CountsText \/ (provider = "openai" /\ usage.prompt + usage.completion = 0)
               THEN ResponseText2Usage(heard) ELSE usage
  BY DEF DoResponse, CountsText
<1>4. provider = "openai" => (usage.prompt + usage.completion = 0 <=> metered = 0)
  <2> SUFFICES ASSUME provider = "openai"
               PROVE  usage.prompt + usage.completion = 0 <=> metered = 0
    OBVIOUS
  <2>1. usage.prompt = (IF metered = 0 THEN 0 ELSE PromptTokens) /\ usage.completion = metered
    BY <1>1 DEF ToldPrompt, ToldCompletion, CountsText, Claude
  <2> QED BY <1>1, <2>1 DEF PromptTokens
<1> QED BY <1>1, <1>2, <1>3, <1>4

LEMMA StreamEndKeeps ==
  ASSUME AnswersInv, StreamEnd
  PROVE  AnswersInv'
<1>1. PICK broken \in BOOLEAN, fails \in BOOLEAN :
        /\ StreamMode /\ status \in {"open", "closing"} /\ (broken => status = "open")
        /\ IF broken /\ provider = "replicate"
           THEN status' = "error" /\ usage' = NoUsage /\ UNCHANGED out
           ELSE /\ out' = IF doneRendered THEN out ELSE Append(out, Done)
                /\ status' = IF fails /\ provider \in Closing THEN "error" ELSE "ok"
                /\ usage' = IF status' = "ok" THEN DoResponse ELSE NoUsage
        /\ UNCHANGED <<provider, mode, heard, doneRendered, pieces, metered, opening, ending, unread, gone>>
  BY DEF StreamEnd, StreamMode
<1>2. ModesInv /\ SentInv /\ HeardInv /\ DoneInv /\ UsageInv
  BY <1>1 DEF AnswersInv, LinesInv
<1>3. ModesInv' /\ StreamMode'
  BY <1>1, <1>2 DEF ModesInv, StreamMode
<1>4. CASE broken /\ provider = "replicate"
  <2>1. status' = "error" /\ UNCHANGED <<out, provider, mode, heard, pieces, unread, gone, ending>>
    BY <1>1, <1>4
  <2>2. SentInv' /\ HeardInv'
    BY <1>2, <2>1 DEF SentInv, Said, HeardInv, HeardIn
  <2>3. LinesInv'
    BY <2>1, <2>2 DEF LinesInv
  <2>4. StreamDelivered'
    BY <2>1, <2>2, SaidDelivers
  <2>5. NothingSentBeforeError' /\ DeliveredIsCharged'
    BY <1>4, <2>1 DEF NothingSentBeforeError, DeliveredIsCharged
  <2> QED BY <1>3, <2>3, <2>4, <2>5 DEF AnswersInv
<1>5. CASE ~(broken /\ provider = "replicate")
  <2>1. /\ out' = IF doneRendered THEN out ELSE Append(out, Done)
        /\ status' = IF fails /\ provider \in Closing THEN "error" ELSE "ok"
        /\ usage' = IF status' = "ok" THEN DoResponse ELSE NoUsage
        /\ UNCHANGED <<provider, mode, heard, doneRendered, pieces, metered, opening, ending, unread, gone>>
    BY <1>1, <1>5
  <2>2. /\ SentInv' /\ HeardIn(out') = HeardIn(out) /\ out' # <<>> /\ Last(out') = Done
        /\ \/ ~(provider' = "openai" /\ ending' = "bare") /\ EndsInDone(out')
           \/ /\ provider' = "openai" /\ ending' = "bare" /\ Len(out') >= 2
              /\ \A i \in DOMAIN out' : out'[i] = Done <=> i > Len(out') - 2
    <3>1. CASE doneRendered
      <4>1. out' = out
        BY <2>1, <3>1
      <4>2. SentInv'
        BY <1>2, <2>1, <4>1 DEF SentInv, Said
      <4>3. EndsInDone(out) /\ ending # "bare"
        BY <1>2, <3>1 DEF DoneInv, Ended
      <4>4. out # <<>> /\ Last(out) = Done
        <5>1. out # <<>> /\ out \in Seq(Int)
          BY <1>2, <4>3 DEF EndsInDone, SentInv
        <5>2. Len(out) \in DOMAIN out
          BY <5>1
        <5> QED BY <4>3, <5>1, <5>2 DEF EndsInDone, Last
      <4> QED BY <2>1, <4>1, <4>2, <4>3, <4>4
    <3>2. CASE ~doneRendered
      <4>1. out' = Append(out, Done) /\ out \in Seq(Int) /\ Done \in Int
        BY <1>2, <2>1, <3>2 DEF SentInv, Done
      <4>2. /\ SentInv' /\ HeardIn(out') = HeardIn(out)
            /\ Done \notin ToSet(out) => EndsInDone(out')
            /\ EndsInDone(out) => Len(out') >= 2 /\ \A i \in DOMAIN out' : out'[i] = Done <=> i > Len(out') - 2
        BY <1>2, <2>1, <4>1, DoneNext
      <4>3. out' # <<>> /\ Last(out') = Done
        BY <4>1 DEF Last
      <4>4. CASE provider = "openai" /\ ending = "bare"
        <5>1. EndsInDone(out)
          BY <1>2, <4>4 DEF DoneInv, Ended
        <5> QED BY <2>1, <4>2, <4>3, <4>4, <5>1
      <4>5. CASE ~(provider = "openai" /\ ending = "bare")
        <5>1. Done \notin ToSet(out)
          BY <1>2, <3>2, <4>5 DEF DoneInv, Ended
        <5> QED BY <2>1, <4>2, <4>3, <4>5, <5>1
      <4> QED BY <4>4, <4>5
    <3> QED BY <3>1, <3>2
  <2>3. StreamDelivered'
    BY <2>2, SaidDelivers
  <2>4. HeardInv'
    BY <1>2, <2>1, <2>2 DEF HeardInv
  <2>5. LinesInv'
    BY <2>1, <2>2, <2>4 DEF LinesInv
  <2>6. PricedInv'
    BY <1>1, <1>2, <2>1, <2>2, EndCharges
  <2>7. DeliveredIsCharged'
    <3>1. (ModesInv /\ StreamMode /\ PricedInv => DeliveredIsCharged)'
      BY StreamPriced, PTL
    <3> QED BY <1>3, <2>6, <3>1
  <2>8. NothingSentBeforeError'
    BY <1>3, <2>1, <2>2 DEF NothingSentBeforeError, StreamMode
  <2> QED BY <1>3, <2>3, <2>5, <2>7, <2>8 DEF AnswersInv
<1> QED BY <1>4, <1>5

LEMMA ClientLeavesKeeps ==
  ASSUME AnswersInv, ClientLeaves
  PROVE  AnswersInv'
<1>1. /\ StreamMode /\ status \in {"open", "closing"} /\ provider \in Stepwise /\ status' = "ok" /\ gone' = TRUE
      /\ UNCHANGED <<provider, mode, out, heard, usage, pieces, metered, opening, ending, unread>>
  BY DEF ClientLeaves, StreamMode, Stepwise, OneBody
<1>2. ModesInv /\ SentInv /\ HeardInv /\ DoneInv /\ UsageInv
  BY <1>1 DEF AnswersInv, LinesInv
<1>3. ModesInv' /\ StreamMode'
  BY <1>1, <1>2 DEF ModesInv, StreamMode
<1>4. SentInv' /\ HeardInv'
  BY <1>1, <1>2 DEF SentInv, Said, HeardInv, HeardIn
<1>5. LinesInv' /\ NothingSentBeforeError'
  BY <1>1, <1>4 DEF LinesInv, NothingSentBeforeError
<1>6. StreamDelivered'
  BY <1>1, <1>4, SaidDelivers
<1>7. PricedInv'
  BY <1>1, <1>2 DEF PricedInv, UsageInv, ToldPrompt, ToldCompletion, Stepwise, CountsText
<1>8. DeliveredIsCharged'
  <2>1. (ModesInv /\ StreamMode /\ PricedInv => DeliveredIsCharged)'
    BY StreamPriced, PTL
  <2> QED BY <1>3, <1>7, <2>1
<1> QED BY <1>3, <1>5, <1>6, <1>8 DEF AnswersInv

-----------------------------------------------------------------------------
(* Whole bodies.                                                           *)

UsageType == [known: BOOLEAN, prompt: 0..(PromptTokens + MaxParts), completion: 0..(MaxParts + 1)]

\* What a body costs of which the texts s were sent.
PricePrompt(b) ==
  IF mode = "embedding" THEN (IF provider \in {"baidu", "zhipu"} THEN b.tokens ELSE 0)
  ELSE IF provider = "aiproxy" THEN 0
  ELSE IF provider \in {"deepl", "gemini", "palm", "coze", "cloudflare", "openai"} THEN PromptTokens
  ELSE IF b.tokens = 0 THEN 0 ELSE PromptTokens
PriceCompletion(b, s) ==
  IF mode = "embedding" \/ provider \in {"aiproxy", "deepl"} THEN 0
  ELSE IF provider \in {"gemini", "palm"} THEN 1
  ELSE IF provider \in {"coze", "cloudflare"} \/ (provider = "openai" /\ b.tokens = 0) THEN Len(s)
  ELSE b.tokens

\* What the client gets of a body, and what it pays, if the handler does not decline.
Served(a, b) ==
  /\ a.ok \in BOOLEAN /\ a.send \in {b.parts, First(b.parts), <<>>} /\ a.usage \in UsageType
  /\ ~a.ok => a.send = <<>>
  /\ a.ok /\ a.send # <<>> =>
       a.usage.prompt = PricePrompt(b) /\ a.usage.completion = PriceCompletion(b, a.send)
  /\ provider = "palm" /\ mode = "stream" => a.send \in {First(b.parts), <<>>}

NumberedBody(b) ==
  b.parts = [i \in 1..Len(b.parts) |-> i] /\ b.tokens \in {0, Len(b.parts)}

\* The usages the handlers make.
UsageIs(u, prompt, completion) == u \in UsageType /\ u.prompt = prompt /\ u.completion = completion

LEMMA UsagesMade ==
  ASSUME NEW b \in Body, NumberedBody(b)
  PROVE  /\ b.tokens \in Nat /\ b.parts \in Seq(Nat) /\ First(b.parts) \in Seq(Nat)
         /\ \A i \in DOMAIN b.parts : b.parts[i] > 0
         /\ \A i \in DOMAIN First(b.parts) : First(b.parts)[i] > 0
         /\ Len(First(b.parts)) = (IF b.parts = <<>> THEN 0 ELSE 1) /\ (First(b.parts) # <<>> => b.parts # <<>>)
         /\ UsageIs(Told(b), IF b.tokens = 0 THEN 0 ELSE PromptTokens, b.tokens)
         /\ UsageIs(ResponseText2Usage(b.parts), PromptTokens, Len(b.parts))
         /\ UsageIs(ResponseText2Usage(First(b.parts)), PromptTokens, Len(First(b.parts)))
         /\ UsageIs(Tokens(0, 0), 0, 0) /\ UsageIs(NoUsage, 0, 0)
         /\ UsageIs(Tokens(b.tokens, 0), b.tokens, 0) /\ UsageIs(Tokens(PromptTokens, 0), PromptTokens, 0)
<1>1. b.parts \in SeqOf(Part, 2) /\ b.tokens \in 0..MaxParts /\ MaxParts \in Nat
  BY AnswersAssumption DEF Body
<1> DEFINE n == Len(b.parts)
<1>2. /\ b.parts \in Seq(Nat) /\ n \in 0..2 /\ DOMAIN b.parts = 1..n /\ \A i \in 1..n : b.parts[i] \in Part
      /\ First(b.parts) = IF n = 0 THEN <<>> ELSE <<b.parts[1]>>
  BY <1>1, PartsOfLine
<1>3. \A i \in 1..n : b.parts[i] = i
  <2>1. b.parts = [i \in 1..n |-> i]
    BY DEF NumberedBody
  <2> QED BY <2>1
<1>4. \A i \in DOMAIN b.parts : b.parts[i] > 0
  BY <1>2, <1>3
<1>5. n <= MaxParts
  <2>1. CASE n = 0
    BY <1>1, <2>1
  <2>2. CASE n # 0
    <3>1. n \in 1..n /\ b.parts[n] = n /\ b.parts[n] \in 1..MaxParts
      BY <1>2, <1>3, <2>2 DEF Part
    <3> QED BY <1>1, <3>1
  <2> QED BY <2>1, <2>2
<1>6. b.parts = <<>> <=> n = 0
  BY <1>2
<1>7. /\ First(b.parts) \in Seq(Nat) /\ Len(First(b.parts)) = (IF b.parts = <<>> THEN 0 ELSE 1)
      /\ \A i \in DOMAIN First(b.parts) : First(b.parts)[i] > 0
      /\ First(b.parts) # <<>> => b.parts # <<>>
  <2>1. CASE n = 0
    <3>1. First(b.parts) = <<>> /\ b.parts = <<>>
      BY <1>2, <1>6, <2>1
    <3>2. <<>> \in Seq(Nat) /\ Len(<<>>) = 0 /\ DOMAIN <<>> = {}
      OBVIOUS
    <3> QED BY <3>1, <3>2
  <2>2. CASE n # 0
    <3>1. First(b.parts) = <<b.parts[1]>> /\ b.parts # <<>> /\ b.parts[1] = 1
      BY <1>2, <1>3, <1>6, <2>2
    <3>2. <<1>> \in Seq(Nat) /\ Len(<<1>>) = 1 /\ DOMAIN <<1>> = {1} /\ <<1>>[1] = 1
      OBVIOUS
    <3> QED BY <3>1, <3>2
  <2> QED BY <2>1, <2>2
<1>8. ASSUME NEW p \in Nat, NEW c \in Nat, p <= 1 + MaxParts, c <= MaxParts + 1
      PROVE  UsageIs(Tokens(p, c), p, c)
  BY <1>1, <1>8 DEF UsageIs, UsageType, Tokens, PromptTokens
<1>9. n \in Nat /\ b.tokens \in Nat /\ b.tokens <= MaxParts /\ Len(First(b.parts)) \in Nat /\ Len(First(b.parts)) <= MaxParts + 1
  BY <1>1, <1>2, <1>7
<1>10. UsageIs(Told(b), IF b.tokens = 0 THEN 0 ELSE PromptTokens, b.tokens)
  <2>1. CASE b.tokens = 0
    BY <1>1, <1>8, <2>1 DEF Told
  <2>2. CASE b.tokens # 0
    BY <1>1, <1>8, <1>9, <2>2 DEF Told, PromptTokens
  <2> QED BY <2>1, <2>2
<1>11. UsageIs(ResponseText2Usage(b.parts), PromptTokens, n)
       /\ UsageIs(ResponseText2Usage(First(b.parts)), PromptTokens, Len(First(b.parts)))
  BY <1>1, <1>5, <1>8, <1>9 DEF ResponseText2Usage, PromptTokens
<1>12. UsageIs(Tokens(0, 0), 0, 0)
  BY <1>1, <1>8
<1>13. UsageIs(Tokens(b.tokens, 0), b.tokens, 0)
  BY <1>1, <1>8, <1>9
<1>14. UsageIs(Tokens(PromptTokens, 0), PromptTokens, 0)
  BY <1>1, <1>8 DEF PromptTokens
<1>15. UsageIs(NoUsage, 0, 0)
  BY <1>1 DEF UsageIs, UsageType, NoUsage, PromptTokens
<1> QED BY <1>2, <1>4, <1>7, <1>9, <1>10, <1>11, <1>12, <1>13, <1>14, <1>15

\* What a handler answers, if not an error, and what of it.
Answering(a, send, u) == a.ok = TRUE /\ a.send = send /\ a.usage = u

LEMMA AnswersAre ==
  ASSUME NEW b, NEW send, NEW u
  PROVE  /\ Answering(Answers(send, u), send, u) /\ Answering([Answers(send, u) EXCEPT !.tells = TRUE], send, u)
         /\ \A a : OrError(b, a) \in {a, Declined}
BY DEF Answering, Answers, OrError

LEMMA DeclinedServed ==
  ASSUME NEW b \in Body, NumberedBody(b)
  PROVE  Served(Declined, b)
<1>1. NoUsage \in UsageType
  BY UsagesMade DEF UsageIs
<1> QED BY <1>1 DEF Served, Declined

LEMMA AnswerServed ==
  ASSUME NEW b, NEW send, NEW u, NEW a, Answering(a, send, u), send \in {b.parts, First(b.parts)},
         send # <<>> => UsageIs(u, PricePrompt(b), PriceCompletion(b, send)),
         u \in UsageType, provider = "palm" /\ mode = "stream" => send = First(b.parts)
  PROVE  Served(a, b)
BY DEF Served, Answering, UsageIs

LEMMA EmbeddingServed ==
  ASSUME ModesInv, mode = "embedding", NEW b \in Body, NumberedBody(b)
  PROVE  Served(Answered(b), b)
<1>1. Served(Declined, b)
  BY DeclinedServed
<1>2. UsageIs(Tokens(0, 0), 0, 0) /\ UsageIs(Tokens(b.tokens, 0), b.tokens, 0)
  BY UsagesMade
<1>3. provider \in WithEmbeddings
  BY DEF ModesInv
<1>4. PICK n \in {0, b.tokens} :
        /\ n = PricePrompt(b) /\ Answered(b) \in {Answers(b.parts, Tokens(n, 0)), Declined}
  <2> USE DEF Answered, Embedded, OrError, PricePrompt
  <2>1. CASE provider = "gemini"
    BY <2>1 DEF geminiEmbedding
  <2>2. CASE provider = "baidu"
    BY <2>2 DEF baiduEmbedding
  <2>3. CASE provider = "tencent"
    BY <2>3 DEF tencentEmbedding
  <2>4. CASE provider = "zhipu"
    BY <2>4 DEF zhipuEmbedding
  <2>5. CASE provider = "ali"
    BY <2>5 DEF aliEmbedding
  <2>6. CASE provider = "ollama"
    BY <2>6 DEF ollamaEmbedding
  <2> QED BY <1>3, <2>1, <2>2, <2>3, <2>4, <2>5, <2>6 DEF WithEmbeddings
<1>5. UsageIs(Tokens(n, 0), n, 0) /\ PriceCompletion(b, b.parts) = 0
  BY <1>2 DEF PriceCompletion
<1>6. Answering(Answers(b.parts, Tokens(n, 0)), b.parts, Tokens(n, 0))
  BY AnswersAre
<1>7. Tokens(n, 0) \in UsageType /\ provider # "palm"
  BY <1>3, <1>5 DEF UsageIs, WithEmbeddings
<1>8. Served(Answers(b.parts, Tokens(n, 0)), b)
  BY <1>4, <1>5, <1>6, <1>7, AnswerServed
<1> QED BY <1>1, <1>4, <1>8

\* What a handler of a chat answer makes of a body, if it does not decline.
Made(b) ==
  IF provider \in {"baidu", "xunfei", "zhipu", "ali", "ollama", "cohere", "bedrockLlama"} THEN <<b.parts, Told(b)>>
  ELSE IF provider \in {"anthropic", "tencent", "bedrockClaude"} THEN <<First(b.parts), Told(b)>>
  ELSE IF provider = "gemini" \/ (provider = "palm" /\ mode # "stream") THEN <<b.parts, ResponseText2Usage(First(b.parts))>>
  ELSE IF provider \in {"coze", "palm"} THEN <<First(b.parts), ResponseText2Usage(First(b.parts))>>
  ELSE IF provider = "cloudflare" THEN <<b.parts, ResponseText2Usage(b.parts)>>
  ELSE IF provider = "openai" THEN <<b.parts, IF b.tokens = 0 THEN ResponseText2Usage(b.parts) ELSE Told(b)>>
  ELSE IF provider = "deepl" THEN <<First(b.parts), Tokens(PromptTokens, 0)>>
  ELSE <<b.parts, Tokens(0, 0)>>

LEMMA BodyMade ==
  ASSUME ModesInv, mode = "chat" \/ (mode = "stream" /\ provider \in OneBody), NEW b \in Body
  PROVE  \/ Answered(b) = Declined
         \/ Answering(Answered(b), Made(b)[1], Made(b)[2])
<1> DEFINE X == Answers(Made(b)[1], Made(b)[2])
           Y == [Answers(Made(b)[1], Made(b)[2]) EXCEPT !.tells = TRUE]
<1>1. Answered(b) \in {X, Y, Declined}
  <2>1. mode # "embedding" /\ (mode = "stream" => provider \in {"palm", "deepl"})
    BY DEF OneBody
  <2> USE <2>1 DEF Answered, OrError, Made
  <2>2. CASE provider = "openai"
    BY <2>2 DEF openaiBody
  <2>3. CASE provider = "anthropic"
    BY <2>3 DEF anthropicBody
  <2>4. CASE provider = "gemini"
    BY <2>4 DEF geminiBody
  <2>5. CASE provider = "baidu"
    BY <2>5 DEF baiduBody
  <2>6. CASE provider = "xunfei"
    BY <2>6 DEF xunfeiBody
  <2>7. CASE provider = "tencent"
    BY <2>7 DEF tencentBody
  <2>8. CASE provider = "zhipu"
    BY <2>8 DEF zhipuBody
  <2>9. CASE provider = "ali"
    BY <2>9 DEF aliBody
  <2>10. CASE provider = "ollama"
    BY <2>10 DEF ollamaBody
  <2>11. CASE provider = "cohere"
    BY <2>11 DEF cohereBody
  <2>12. CASE provider = "coze"
    BY <2>12 DEF cozeBody
  <2>13. CASE provider = "cloudflare"
    BY <2>13 DEF cloudflareBody
  <2>14. CASE provider = "palm"
    BY <2>14 DEF palmBody, palmStream
  <2>15. CASE provider = "deepl"
    BY <2>15 DEF deeplBody, deeplStream
  <2>16. CASE provider = "aiproxy"
    BY <2>16 DEF aiproxyBody
  <2>17. CASE provider = "bedrockClaude"
    BY <2>17 DEF bedrockClaudeBody
  <2>18. CASE provider = "bedrockLlama"
    BY <2>18 DEF bedrockLlamaBody
  <2> QED
    BY <2>2, <2>3, <2>4, <2>5, <2>6, <2>7, <2>8, <2>9, <2>10, <2>11, <2>12, <2>13, <2>14, <2>15, <2>16, <2>17, <2>18
       DEF ModesInv, Providers, ChatOnly, WithEmbeddings
<1>2. Answering(X, Made(b)[1], Made(b)[2]) /\ Answering(Y, Made(b)[1], Made(b)[2])
  BY AnswersAre
<1> HIDE DEF X, Y
<1> QED BY <1>1, <1>2

LEMMA BodyServed ==
  ASSUME ModesInv, mode = "chat" \/ (mode = "stream" /\ provider \in OneBody), NEW b \in Body, NumberedBody(b)
  PROVE  Served(Answered(b), b)
<1> DEFINE send == Made(b)[1]  u == Made(b)[2]
<1>1. /\ Len(First(b.parts)) = (IF b.parts = <<>> THEN 0 ELSE 1) /\ (First(b.parts) # <<>> => b.parts # <<>>)
      /\ UsageIs(Told(b), IF b.tokens = 0 THEN 0 ELSE PromptTokens, b.tokens)
      /\ UsageIs(ResponseText2Usage(b.parts), PromptTokens, Len(b.parts))
      /\ UsageIs(ResponseText2Usage(First(b.parts)), PromptTokens, Len(First(b.parts)))
      /\ UsageIs(Tokens(0, 0), 0, 0) /\ UsageIs(Tokens(PromptTokens, 0), PromptTokens, 0)
  BY UsagesMade
<1>2. mode # "embedding" /\ provider \in Providers
  BY DEF ModesInv
<1>3. /\ send \in {b.parts, First(b.parts)} /\ u \in UsageType
      /\ send # <<>> => UsageIs(u, PricePrompt(b), PriceCompletion(b, send))
      /\ provider = "palm" /\ mode = "stream" => send = First(b.parts)
  <2> USE <1>2 DEF Made, PricePrompt, PriceCompletion
  <2>1. CASE provider \in {"baidu", "xunfei", "zhipu", "ali", "ollama", "cohere", "bedrockLlama"}
    <3>1. send = b.parts /\ u = Told(b) /\ provider # "palm"
      BY <2>1
    <3>2. PricePrompt(b) = (IF b.tokens = 0 THEN 0 ELSE PromptTokens) /\ PriceCompletion(b, send) = b.tokens
      BY <2>1
    <3> HIDE DEF send, u
    <3> QED BY ONLY <1>1, <3>1, <3>2 DEF UsageIs
  <2>2. CASE provider \in {"anthropic", "tencent", "bedrockClaude"}
    <3>1. send = First(b.parts) /\ u = Told(b) /\ provider # "palm"
      BY <2>2
    <3>2. PricePrompt(b) = (IF b.tokens = 0 THEN 0 ELSE PromptTokens) /\ PriceCompletion(b, send) = b.tokens
      BY <2>2
    <3> HIDE DEF send, u
    <3> QED BY ONLY <1>1, <3>1, <3>2 DEF UsageIs
  <2>3. CASE provider \in {"gemini", "palm"}
    <3>1. /\ send \in {b.parts, First(b.parts)} /\ u = ResponseText2Usage(First(b.parts))
          /\ provider = "palm" /\ mode = "stream" => send = First(b.parts)
      BY <2>3
    <3>2. PricePrompt(b) = PromptTokens /\ PriceCompletion(b, send) = 1
      BY <2>3
    <3> HIDE DEF send, u
    <3> QED BY ONLY <1>1, <3>1, <3>2 DEF UsageIs
  <2>4. CASE provider = "coze"
    <3>1. send = First(b.parts) /\ u = ResponseText2Usage(First(b.parts)) /\ provider # "palm"
      BY <2>4
    <3>2. PricePrompt(b) = PromptTokens /\ PriceCompletion(b, send) = Len(send)
      BY <2>4
    <3> HIDE DEF send, u
    <3> QED BY ONLY <1>1, <3>1, <3>2 DEF UsageIs
  <2>5. CASE provider = "cloudflare"
    <3>1. send = b.parts /\ u = ResponseText2Usage(b.parts) /\ provider # "palm"
      BY <2>5
    <3>2. PricePrompt(b) = PromptTokens /\ PriceCompletion(b, send) = Len(send)
      BY <2>5
    <3> HIDE DEF send, u
    <3> QED BY ONLY <1>1, <3>1, <3>2 DEF UsageIs
  <2>6. CASE provider = "openai" /\ b.tokens = 0
    <3>1. send = b.parts /\ u = ResponseText2Usage(b.parts) /\ provider # "palm"
      BY <2>6
    <3>2. PricePrompt(b) = PromptTokens /\ PriceCompletion(b, send) = Len(send)
      BY <2>6
    <3> HIDE DEF send, u
    <3> QED BY ONLY <1>1, <3>1, <3>2 DEF UsageIs
  <2>7. CASE provider = "openai" /\ b.tokens # 0
    <3>1. send = b.parts /\ u = Told(b) /\ provider # "palm"
      BY <2>7
    <3>2. PricePrompt(b) = PromptTokens /\ PriceCompletion(b, send) = b.tokens
      BY <2>7
    <3> HIDE DEF send, u
    <3> QED BY ONLY <1>1, <2>7, <3>1, <3>2 DEF UsageIs
  <2>8. CASE provider = "deepl"
    <3>1. send = First(b.parts) /\ u = Tokens(PromptTokens, 0) /\ provider # "palm"
      BY <2>8
    <3>2. PricePrompt(b) = PromptTokens /\ PriceCompletion(b, send) = 0
      BY <2>8
    <3> HIDE DEF send, u
    <3> QED BY ONLY <1>1, <3>1, <3>2 DEF UsageIs
  <2>9. CASE provider = "aiproxy"
    <3>1. send = b.parts /\ u = Tokens(0, 0) /\ provider # "palm"
      BY <2>9
    <3>2. PricePrompt(b) = 0 /\ PriceCompletion(b, send) = 0
      BY <2>9
    <3> HIDE DEF send, u
    <3> QED BY ONLY <1>1, <3>1, <3>2 DEF UsageIs
  <2>10. provider # "replicate"
    BY DEF ModesInv, OneBody
  <2> HIDE DEF send, u
  <2> QED BY ONLY <1>2, <2>1, <2>2, <2>3, <2>4, <2>5, <2>6, <2>7, <2>8, <2>9, <2>10
             DEF Providers, ChatOnly, WithEmbeddings
<1> HIDE DEF send, u
<1>4. CASE Answered(b) = Declined
  BY <1>4, DeclinedServed
<1>5. CASE Answering(Answered(b), send, u)
  BY <1>3, <1>5, AnswerServed
<1> QED BY <1>4, <1>5, BodyMade DEF send, u

LEMMA BodyKeeps ==
  ASSUME AnswersInv, WholeBody
  PROVE  AnswersInv'
<1>1. PICK b \in Body, fails \in BOOLEAN :
        /\ mode # "stream" \/ provider \in OneBody
        /\ NumberedBody(b)
        /\ status' = IF Answered(b).ok /\ ~(fails /\ Answered(b).tells) THEN "ok" ELSE "error"
        /\ out' = IF Answered(b).ok /\ mode = "stream" THEN Append(Answered(b).send, Done) ELSE Answered(b).send
        /\ usage' = IF status' = "ok" THEN Answered(b).usage ELSE NoUsage
        /\ metered' = b.tokens /\ gone' = fails
        /\ UNCHANGED <<provider, mode>>
  BY DEF WholeBody, NumberedBody
<1>2. ModesInv
  BY DEF AnswersInv
<1>3. Served(Answered(b), b)
  BY <1>1, <1>2, EmbeddingServed, BodyServed DEF ModesInv
<1> DEFINE a == Answered(b)
<1>4. /\ b.parts \in Seq(Nat) /\ First(b.parts) \in Seq(Nat)
      /\ \A i \in DOMAIN b.parts : b.parts[i] > 0
      /\ \A i \in DOMAIN First(b.parts) : First(b.parts)[i] > 0
      /\ Len(First(b.parts)) = (IF b.parts = <<>> THEN 0 ELSE 1)
  BY <1>1, UsagesMade
<1>5. a.send \in Seq(Int) /\ Done \in Int /\ \A i \in 1..Len(a.send) : a.send[i] > 0 /\ a.send[i] # Done
  <2>1. a.send = b.parts \/ a.send = First(b.parts) \/ a.send = <<>>
    BY <1>3 DEF Served
  <2>2. <<>> \in Seq(Int) /\ Len(<<>>) = 0
    OBVIOUS
  <2>3. b.parts \in Seq(Int) /\ First(b.parts) \in Seq(Int)
    BY <1>4
  <2> HIDE DEF a
  <2>4. \A i \in 1..Len(b.parts) : b.parts[i] > 0
    BY <1>4
  <2>5. \A i \in 1..Len(First(b.parts)) : First(b.parts)[i] > 0
    BY <1>4
  <2>6. a.send \in Seq(Int) /\ \A i \in 1..Len(a.send) : a.send[i] > 0
    <3>1. CASE a.send = b.parts
      BY ONLY <2>3, <2>4, <3>1
    <3>2. CASE a.send = First(b.parts)
      BY ONLY <2>3, <2>5, <3>2
    <3>3. CASE a.send = <<>>
      BY ONLY <2>2, <3>3
    <3> QED BY <2>1, <3>1, <3>2, <3>3
  <2> QED BY <2>6 DEF Done
<1>6. ModesInv' /\ LinesInv'
  BY <1>1, <1>2 DEF ModesInv, LinesInv, StreamMode
<1>7. NothingSentBeforeError'
  BY <1>1, <1>3 DEF NothingSentBeforeError, Served
<1>8. StreamDelivered'
  <2> HIDE DEF a
  <2>1. LET s == Append(a.send, Done)
        IN  1 <= Len(s) /\ \A i \in DOMAIN s : s[i] = Done <=> i > Len(s) - 1
    BY <1>5 DEF Done
  <2>2. mode' = "stream" /\ status' = "ok" => out' = Append(a.send, Done)
    BY <1>1 DEF a
  <2>3. provider' = "openai" => mode' # "stream"
    BY <1>1 DEF OneBody
  <2>4. mode' = "stream" => provider' \in OneBody
    BY <1>1
  <2> QED BY <2>1, <2>2, <2>3, <2>4 DEF StreamDelivered
<1>9. DeliveredIsCharged'
  <2> SUFFICES ASSUME status' = "ok", \E i \in DOMAIN out' : out'[i] # Done
               PROVE  DeliveredIsCharged'
    BY DEF DeliveredIsCharged
  <2>1. /\ a.ok /\ usage' = a.usage
        /\ out' = IF mode = "stream" THEN Append(a.send, Done) ELSE a.send
    BY <1>1
  <2>2. a.send # <<>>
    <3>1. CASE a.send = <<>>
      <4>1. out' = <<Done>> \/ out' = <<>>
        BY <2>1, <3>1
      <4> QED BY <4>1
    <3> QED BY <3>1
  <2>3. usage'.prompt = PricePrompt(b) /\ usage'.completion = PriceCompletion(b, a.send)
    BY <1>3, <2>1, <2>2 DEF Served
  <2> HIDE DEF a
  <2>4. Cardinality(HeardIn(out')) = Len(a.send)
    <3>1. Cardinality(HeardIn(a.send)) = Len(a.send)
      BY <1>5, TextsAll
    <3>2. CASE mode # "stream"
      BY <2>1, <3>1, <3>2
    <3>3. CASE mode = "stream"
      <4>1. out' = a.send \o <<Done>> /\ <<Done>> \in Seq(Int)
        BY <1>5, <2>1, <3>3
      <4>2. \A i \in 1..Len(<<Done>>) : ~(<<Done>>[i] > 0)
        BY DEF Done
      <4>3. HeardIn(a.send \o <<Done>>) = HeardIn(a.send)
        BY <1>5, <4>1, <4>2, TextsStay
      <4> QED BY <3>1, <4>1, <4>3
    <3> QED BY <3>2, <3>3
  <2>5. provider = "palm" /\ mode = "stream" => Len(a.send) = 1
    <3>1. provider = "palm" /\ mode = "stream" => a.send = First(b.parts)
      BY <1>3, <2>2 DEF Served, a
    <3>2. b.parts = <<>> => Len(First(b.parts)) = 0 /\ First(b.parts) = <<>>
      BY DEF First
    <3> QED BY <1>4, <2>2, <3>1, <3>2
  <2> DEFINE texts == IF provider \in {"gemini", "palm"} /\ mode = "chat" THEN 1
                      ELSE Cardinality({i \in DOMAIN out' : out'[i] > 0})
             counts == {"gemini", "coze", "cloudflare", "replicate", "palm"}
                       \cup (IF mode = "stream" THEN {"tencent"} ELSE {})
                       \cup (IF b.tokens = 0 THEN {"openai"} ELSE {})
             price ==
               CASE mode = "embedding" -> <<IF provider \in {"baidu", "zhipu"} THEN b.tokens ELSE 0, 0>>
                 [] provider = "aiproxy" -> <<0, 0>>
                 [] provider = "deepl" -> <<PromptTokens, 0>>
                 [] mode # "embedding" /\ provider \in counts -> <<PromptTokens, texts>>
                 [] provider \in Claude /\ mode = "stream" ->
                      IF opening' = NotBegun THEN <<0, b.tokens>> ELSE <<PromptTokens, b.tokens + opening'>>
                 [] provider = "bedrockLlama" /\ mode = "stream" ->
                      <<IF b.tokens = 0 THEN 0 ELSE PromptTokens, IF ending' = "stop" THEN b.tokens ELSE 0>>
                 [] OTHER -> <<IF b.tokens = 0 THEN 0 ELSE PromptTokens, b.tokens>>
  <2>6. metered' = b.tokens /\ provider' = provider /\ mode' = mode
    BY <1>1
  <2> SUFFICES <<usage'.prompt, usage'.completion>> = price
    BY <2>6 DEF DeliveredIsCharged
  <2>7. texts = IF provider \in {"gemini", "palm"} /\ mode = "chat" THEN 1 ELSE Len(a.send)
    BY <2>4 DEF HeardIn
  <2>8. mode \in {"chat", "stream", "embedding"} /\ (mode = "stream" => provider \in {"palm", "deepl"})
        /\ (mode = "embedding" => provider \in WithEmbeddings)
        /\ provider # "replicate"
    BY <1>1, <1>2 DEF ModesInv, OneBody
  <2> HIDE DEF texts
  <2>9. provider \in counts <=> provider \in {"gemini", "coze", "cloudflare", "palm"} \/ (provider = "openai" /\ b.tokens = 0)
    BY <2>8
  <2> HIDE DEF counts
  <2>10. CASE mode = "embedding"
    <3>1. provider \notin {"aiproxy", "deepl"} /\ provider \notin Claude /\ provider # "bedrockLlama"
      BY <2>8, <2>10 DEF WithEmbeddings, Claude
    <3>2. price = <<IF provider \in {"baidu", "zhipu"} THEN b.tokens ELSE 0, 0>>
      BY <2>10, <3>1
    <3> QED BY <2>3, <2>10, <3>2 DEF PricePrompt, PriceCompletion
  <2>11. CASE mode # "embedding" /\ provider = "aiproxy"
    <3>1. price = <<0, 0>>
      BY <2>9, <2>11 DEF Claude
    <3> QED BY <2>3, <2>11, <3>1 DEF PricePrompt, PriceCompletion
  <2>12. CASE mode # "embedding" /\ provider = "deepl"
    <3>1. price = <<PromptTokens, 0>>
      BY <2>9, <2>12 DEF Claude
    <3> QED BY <2>3, <2>12, <3>1 DEF PricePrompt, PriceCompletion
  <2>13. CASE mode # "embedding" /\ provider \in counts
    <3>1. price = <<PromptTokens, texts>>
      BY <2>9, <2>13 DEF Claude
    <3>2. PricePrompt(b) = PromptTokens
      BY <2>9, <2>13 DEF PricePrompt
    <3>3. PriceCompletion(b, a.send) = texts
      <4>1. CASE provider = "gemini"
        BY <2>7, <2>8, <2>13, <4>1 DEF PriceCompletion
      <4>2. CASE provider = "palm" /\ mode = "chat"
        BY <2>7, <2>13, <4>2 DEF PriceCompletion
      <4>3. CASE provider = "palm" /\ mode = "stream"
        BY <2>5, <2>7, <2>13, <4>3 DEF PriceCompletion
      <4>4. CASE provider \in {"coze", "cloudflare", "openai"}
        BY <2>7, <2>9, <2>13, <4>4 DEF PriceCompletion
      <4> QED BY <2>8, <2>9, <2>13, <4>1, <4>2, <4>3, <4>4
    <3> QED BY <2>3, <3>1, <3>2, <3>3
  <2>14. CASE mode # "embedding" /\ provider \notin counts /\ provider \notin {"aiproxy", "deepl"}
    <3>1. price = <<IF b.tokens = 0 THEN 0 ELSE PromptTokens, b.tokens>>
      <4>1. mode # "stream"
        BY <2>8, <2>9, <2>14
      <4> QED BY <2>14, <4>1
    <3>2. PricePrompt(b) = (IF b.tokens = 0 THEN 0 ELSE PromptTokens) /\ PriceCompletion(b, a.send) = b.tokens
      BY <2>9, <2>14 DEF PricePrompt, PriceCompletion
    <3> QED BY <2>3, <3>1, <3>2
  <2> QED BY <2>10, <2>11, <2>12, <2>13, <2>14
<1> QED BY <1>6, <1>7, <1>8, <1>9 DEF AnswersInv

-----------------------------------------------------------------------------
(* The invariant and the theorems.                                         *)

LEMMA AnswersInductive ==
  AnswersSpec => []AnswersInv
<1>1. AnswersInit => AnswersInv
  <2> SUFFICES ASSUME AnswersInit
               PROVE  AnswersInv
    OBVIOUS
  <2>1. ModesInv
    BY DEF AnswersInit, ModesInv, Providers, ChatOnly, WithEmbeddings
  <2>2. /\ out = <<>> /\ heard = <<>> /\ pieces = 0 /\ unread = {} /\ metered = 0 /\ status = "open"
        /\ doneRendered = FALSE /\ opening = NotBegun /\ ending = ""
    BY DEF AnswersInit
  <2>3. <<>> \in Seq(Int) /\ <<>> \in Seq(Nat) /\ DOMAIN <<>> = {} /\ Len(<<>>) = 0
    OBVIOUS
  <2>4. SentInv
    <3>1. Said = {} /\ (1..pieces) \ unread = {} /\ unread \subseteq 1..pieces
      <4>1. pieces = 0 /\ unread = {} /\ DOMAIN out = {}
        BY <2>2, <2>3
      <4> QED BY ONLY <4>1 DEF Said
    <3>2. out \in Seq(Int) /\ heard \in Seq(Nat) /\ pieces \in Nat
      BY <2>2, <2>3
    <3> QED BY <2>2, <3>1, <3>2 DEF SentInv
  <2>5. HeardInv
    <3>1. HeardIn(out) = {}
      BY <2>2, <2>3 DEF HeardIn
    <3>2. Cardinality({}) = 0
      BY FS_EmptySet
    <3> QED BY <2>2, <2>3, <3>1, <3>2 DEF HeardInv
  <2>6. DoneInv
    BY <2>2, <2>3 DEF DoneInv, Ended, ToSet
  <2>7. UsageInv
    <3>1. usage \in {NoUsage, Tokens(0, 0)}
      BY DEF AnswersInit
    <3>2. usage \in [known: BOOLEAN, prompt: Nat, completion: Nat] /\ usage.prompt = 0 /\ usage.completion = 0
      <4>1. CASE usage = NoUsage
        BY <4>1 DEF NoUsage
      <4>2. CASE usage = Tokens(0, 0)
        BY <4>2 DEF Tokens
      <4> QED BY <3>1, <4>1, <4>2
    <3>3. ToldPrompt = 0 /\ ToldCompletion = 0
      BY <2>2 DEF ToldPrompt, ToldCompletion
    <3>4. metered \in 0..pieces /\ opening \in {NotBegun, 0, 1}
      <4>1. metered = 0 /\ pieces = 0 /\ opening = NotBegun
        BY <2>2
      <4> QED BY ONLY <4>1
    <3> QED BY <3>2, <3>3, <3>4 DEF UsageInv
  <2>8. NothingSentBeforeError /\ DeliveredIsCharged
    BY <2>2 DEF NothingSentBeforeError, DeliveredIsCharged
  <2>9. StreamDelivered
    <3>1. Said = {} /\ (1..pieces) \ unread = {}
      <4>1. pieces = 0 /\ unread = {} /\ DOMAIN out = {}
        BY <2>2, <2>3
      <4> QED BY ONLY <4>1 DEF Said
    <3>2. {Number(out[i]) : i \in Said} = {}
      BY <3>1
    <3> QED BY <2>2, <3>1, <3>2 DEF StreamDelivered, Said
  <2> QED BY <2>1, <2>4, <2>5, <2>6, <2>7, <2>8, <2>9 DEF AnswersInv, LinesInv
<1>2. AnswersInv /\ [AnswersNext]_answerVars => AnswersInv'
  <2>1. AnswersInv /\ UNCHANGED answerVars => AnswersInv'
    <3> SUFFICES ASSUME AnswersInv, UNCHANGED answerVars
                 PROVE  AnswersInv'
      OBVIOUS
    <3>1. ModesInv' /\ NothingSentBeforeError'
      BY DEF AnswersInv, answerVars, ModesInv, NothingSentBeforeError
    <3>2. LinesInv'
      BY DEF AnswersInv, answerVars, LinesInv, StreamMode, SentInv, Said, HeardInv, HeardIn, DoneInv, Ended, UsageInv,
             ToldPrompt, ToldCompletion
    <3>3. StreamDelivered'
      BY DEF AnswersInv, answerVars, StreamDelivered
    <3>4. DeliveredIsCharged'
      BY DEF AnswersInv, answerVars, DeliveredIsCharged
    <3> QED BY <3>1, <3>2, <3>3, <3>4 DEF AnswersInv
  <2> QED BY <2>1, LineKeeps, StreamEndKeeps, ClientLeavesKeeps, BodyKeeps DEF AnswersNext
<1> QED BY <1>1, <1>2, PTL DEF AnswersSpec

\* Every stream handler of relay/adaptor, for any number of lines: a stream that is answered ends with one
\* [DONE], or OpenAI's with two behind a bare one, unless Bedrock's could not be read to its end or the
\* client left; and the client has all pieces, in order, but those no handler reads and those of lines that
\* are too long.
THEOREM StreamsDelivered ==
  AnswersSpec => []StreamDelivered
<1>1. AnswersInv => StreamDelivered
  BY DEF AnswersInv
<1> QED BY <1>1, AnswersInductive, PTL

\* No handler of relay/adaptor returns an error behind an answer it has begun to send, but Replicate's, to a
\* client that is gone, and of the twelve that close the body behind the [DONE] of a stream.
THEOREM NothingSentFirst ==
  AnswersSpec => []NothingSentBeforeError
<1>1. AnswersInv => NothingSentBeforeError
  BY DEF AnswersInv
<1> QED BY <1>1, AnswersInductive, PTL

\* What a handler of relay/adaptor has sent is charged, prompt and completion, by the texts it has read or
\* as the provider told it last; for nothing where it takes no tokens over, and Llama's stream for its
\* prompt alone where it did not stop by itself.
THEOREM DeliveredCharged ==
  AnswersSpec => []DeliveredIsCharged
<1>1. AnswersInv => DeliveredIsCharged
  BY DEF AnswersInv
<1> QED BY <1>1, AnswersInductive, PTL

-----------------------------------------------------------------------------
(* Types: what is counted is within the bounds on what is said.            *)
RangesKept == AnswersTypeOK /\ Len(heard) <= pieces /\ (~StreamMode => heard = <<>>)

\* A line has pieces, and tells tokens, up to the bound.
LEMMA LineRanges ==
  ASSUME pieces \in 0..MaxParts, NEW l \in Line, MayFollow(l)
  PROVE  /\ Len(l.parts) \in Nat /\ pieces + Len(l.parts) \in 0..MaxParts
         /\ l.parts \in Seq(Part) /\ Passed(l) \in Seq(Part) /\ Len(Passed(l)) <= Len(l.parts)
         /\ ToSet(l.parts) \subseteq 1..(pieces + Len(l.parts))
         /\ l.tokens \in 0..MaxParts
<1>1. l.parts \in SeqOf(Part, 2) /\ l.tokens \in 0..MaxParts /\ MaxParts \in Nat
  BY AnswersAssumption DEF Line
<1> DEFINE n == Len(l.parts)
<1>2. /\ n \in 0..2 /\ l.parts \in Seq(Part) /\ DOMAIN l.parts = 1..n /\ \A i \in 1..n : l.parts[i] \in Part
      /\ First(l.parts) = IF n = 0 THEN <<>> ELSE <<l.parts[1]>>
      /\ Final(l.parts) = IF n = 0 THEN <<>> ELSE <<l.parts[n]>>
  BY <1>1, PartsOfLine
<1>3. \A i \in 1..n : l.parts[i] = pieces + i
  <2>1. l.parts = [i \in 1..n |-> pieces + i]
    BY DEF MayFollow
  <2> QED BY <2>1
<1>4. pieces + n \in 0..MaxParts
  <2>1. CASE n = 0
    BY <1>1, <2>1
  <2>2. CASE n # 0
    <3>1. n \in 1..n
      BY <1>2, <2>2
    <3>2. pieces + n \in 1..MaxParts
      BY <1>2, <1>3, <3>1 DEF Part
    <3> QED BY <3>2
  <2> QED BY <2>1, <2>2
<1>5. Passed(l) \in Seq(Part) /\ Len(Passed(l)) <= n
  <2>1. CASE n = 0
    <3>1. Passed(l) = <<>>
      BY <1>2, <2>1 DEF Passed
    <3> QED BY <2>1, <3>1
  <2>2. CASE n # 0
    <3>1. l.parts[1] \in Part /\ l.parts[n] \in Part
      BY <1>2, <2>2
    <3>2. <<l.parts[1]>> \in Seq(Part) /\ <<l.parts[n]>> \in Seq(Part) /\ 1 <= n
      BY <1>2, <2>2, <3>1
    <3> QED BY <1>2, <2>2, <3>2 DEF Passed
  <2> QED BY <2>1, <2>2
<1>6. ToSet(l.parts) \subseteq 1..(pieces + n)
  BY <1>2, <1>3 DEF ToSet
<1> QED BY <1>1, <1>2, <1>4, <1>5, <1>6

LEMMA LineRanged ==
  ASSUME AnswersInv, RangesKept, StreamLine
  PROVE  RangesKept'
<1>1. PICK l \in Line :
        /\ StreamMode /\ status = "open" /\ MayFollow(l)
        /\ lines < MaxRead /\ lines' = lines + 1
        /\ out' = out \o Handled(l).send /\ heard' = heard \o Handled(l).heard
        /\ usage' = IF Handled(l).status = "error" THEN NoUsage ELSE Handled(l).usage
        /\ doneRendered' = Handled(l).rendered
        /\ status' = IF l.kind \in {"done", "bare", "long"} /\ Handled(l).status = "open" THEN "closing"
                     ELSE Handled(l).status
        /\ pieces' = pieces + Len(l.parts)
        /\ metered' = IF l.kind = "data" /\ l.tokens # 0 THEN l.tokens ELSE metered
        /\ opening' = IF l.kind = "start" THEN l.tokens ELSE opening
        /\ ending' = EndsWith(l)
        /\ unread' = unread \cup (ToSet(l.parts) \ Kept(l))
        /\ UNCHANGED <<provider, mode, gone>>
  BY DEF StreamLine, StreamMode
<1>2. /\ ModesInv /\ UsageInv /\ AnswersTypeOK /\ pieces \in 0..MaxParts /\ MaxParts \in Nat /\ MaxRead \in Nat
      /\ Len(heard) <= pieces /\ heard \in Seq(Part) /\ lines \in 0..MaxRead
  BY <1>1, AnswersAssumption DEF AnswersInv, LinesInv, RangesKept, AnswersTypeOK
<1>3. /\ Len(l.parts) \in Nat /\ pieces + Len(l.parts) \in 0..MaxParts
      /\ l.parts \in Seq(Part) /\ Passed(l) \in Seq(Part) /\ Len(Passed(l)) <= Len(l.parts)
      /\ ToSet(l.parts) \subseteq 1..(pieces + Len(l.parts))
      /\ l.tokens \in 0..MaxParts
  BY <1>1, <1>2, LineRanges
<1>4. Handled(l) = HandledAs(l)
  BY <1>1, <1>2, HandledIs
<1>5. /\ heard' = heard \o HeardOf(l) /\ doneRendered' = RenderedOf(l)
      /\ usage' = IF StatusOf(l) = "error" THEN NoUsage ELSE UsageOf(l)
      /\ status' = IF l.kind \in {"done", "bare", "long"} /\ StatusOf(l) = "open" THEN "closing" ELSE StatusOf(l)
  BY <1>1, <1>4 DEF HandledAs
<1>6. heard' \in Seq(Part) /\ Len(heard') <= pieces'
  <2> DEFINE h == HeardOf(l)
  <2>1. h \in Seq(Part) /\ Len(h) <= Len(l.parts)
    BY <1>3 DEF HeardOf
  <2>2. heard' = heard \o h
    BY <1>5
  <2> HIDE DEF h
  <2>3. heard \o h \in Seq(Part) /\ Len(heard \o h) = Len(heard) + Len(h)
    BY <1>2, <2>1
  <2>4. Len(heard) \in Nat /\ Len(h) \in Nat
    BY <1>2, <2>1
  <2> QED BY <1>1, <1>2, <1>3, <2>1, <2>2, <2>3, <2>4
<1>7. out' \in Seq(Int)
  <2>1. AnswersInv'
    BY LineKeeps
  <2>2. StreamMode'
    BY <1>1 DEF StreamMode
  <2> QED BY <2>1, <2>2 DEF AnswersInv, LinesInv, SentInv
<1>8. /\ lines' \in 0..MaxRead /\ pieces' \in 0..MaxParts /\ metered' \in 0..MaxParts /\ gone' \in BOOLEAN
      /\ opening' \in {NotBegun, 0, 1}
  <2>1. opening' \in {NotBegun, 0, 1}
    <3>1. l.kind = "start" => l.tokens <= 1 /\ l.tokens \in Nat
      <4>1. l.kind = "start" => l.tokens <= 1
        BY <1>1 DEF MayFollow
      <4>2. l.tokens \in Nat
        BY <1>2, <1>3
      <4> QED BY <4>1, <4>2
    <3>2. l.kind = "start" => l.tokens \in {0, 1}
      BY ONLY <3>1
    <3>3. opening \in {NotBegun, 0, 1}
      BY <1>2 DEF UsageInv
    <3> QED BY <1>1, <3>2, <3>3
  <2>2. lines' \in 0..MaxRead
    <3>1. lines < MaxRead /\ lines' = lines + 1 /\ lines \in 0..MaxRead /\ MaxRead \in Nat
      BY <1>1, <1>2
    <3> QED BY ONLY <3>1
  <2>3. metered' \in 0..MaxParts
    BY <1>1, <1>2, <1>3 DEF AnswersTypeOK
  <2>4. gone' \in BOOLEAN
    BY <1>1, <1>2 DEF AnswersTypeOK
  <2> QED BY <1>1, <1>3, <2>1, <2>2, <2>3, <2>4
<1>9. usage' \in UsageType
  <2>1. CASE StatusOf(l) = "error"
    <3>1. usage' = NoUsage
      BY <1>5, <2>1
    <3> QED BY <1>2, <3>1 DEF NoUsage, UsageType, PromptTokens
  <2>2. CASE StatusOf(l) # "error"
    <3>1. usage' = UsageOf(l) /\ pieces \in Nat
      BY <1>2, <1>5, <2>2
    <3>2. UsageInv'
      BY <1>1, <1>2, <3>1, LineCharges
    <3>3. /\ usage' \in [known: BOOLEAN, prompt: Nat, completion: Nat]
          /\ usage'.prompt = ToldPrompt' /\ usage'.completion = ToldCompletion'
      BY <3>2 DEF UsageInv
    <3>4. ToldPrompt' \in {0, 1}
      BY DEF ToldPrompt, PromptTokens
    <3>5. opening' = NotBegun \/ opening' = 0 \/ opening' = 1
      BY <1>8
    <3>6. ToldCompletion' \in {0, metered', metered' + opening'} /\ (opening' = NotBegun => ToldCompletion' \in {0, metered'})
      BY DEF ToldCompletion
    <3>7. ToldCompletion' \in 0..(MaxParts + 1)
      BY ONLY <1>2, <1>8, <3>5, <3>6
    <3>8. usage'.prompt \in 0..(1 + MaxParts)
      BY <1>2, <3>3, <3>4
    <3> QED BY <3>3, <3>7, <3>8 DEF UsageType, PromptTokens
  <2> QED BY <2>1, <2>2
<1>10. status' \in {"open", "closing", "ok", "error"} /\ doneRendered' \in BOOLEAN /\ ending' \in {"", "stop", "bare", "long", "unread"}
  <2>1. status' \in {"open", "closing", "ok", "error"}
    BY <1>5 DEF StatusOf
  <2>2. doneRendered' \in BOOLEAN
    BY <1>2, <1>5 DEF RenderedOf, AnswersTypeOK
  <2>3. ending' \in {"", "stop", "bare", "long", "unread"}
    BY <1>1, EndsIs
  <2> QED BY <2>1, <2>2, <2>3
<1>11. unread' \subseteq 1..pieces'
  <2>1. unread \subseteq 1..pieces
    BY <1>2 DEF AnswersTypeOK
  <2>2. 1..pieces \subseteq 1..(pieces + Len(l.parts))
    BY <1>2, <1>3
  <2> QED BY <1>1, <1>3, <2>1, <2>2
<1>12. provider' = provider /\ mode' = mode
  BY <1>1
<1>13. AnswersTypeOK'
  BY <1>2, <1>6, <1>7, <1>8, <1>9, <1>10, <1>11, <1>12 DEF AnswersTypeOK, UsageType
<1> QED BY <1>1, <1>6, <1>12, <1>13 DEF RangesKept, StreamMode

LEMMA EndRanged ==
  ASSUME AnswersInv, RangesKept, StreamEnd \/ ClientLeaves
  PROVE  RangesKept'
<1>1. /\ StreamMode
      /\ usage' \in {usage, DoResponse, NoUsage} /\ out' \in {out, Append(out, Done)}
      /\ status' \in {"ok", "error"} /\ gone' \in {gone, TRUE}
      /\ UNCHANGED <<provider, mode, heard, doneRendered, lines, pieces, metered, opening, ending, unread>>
  <2>1. CASE StreamEnd
    BY <2>1 DEF StreamEnd, StreamMode
  <2>2. CASE ClientLeaves
    BY <2>2 DEF ClientLeaves, StreamMode, Stepwise, OneBody
  <2> QED BY <2>1, <2>2
<1>2. /\ AnswersTypeOK /\ Len(heard) <= pieces /\ heard \in Seq(Part) /\ pieces \in 0..MaxParts /\ MaxParts \in Nat
      /\ usage \in UsageType /\ out \in Seq(Int)
  BY AnswersAssumption DEF RangesKept, AnswersTypeOK, UsageType
<1>3. ResponseText2Usage(heard) \in UsageType /\ NoUsage \in UsageType
  <2>1. Len(heard) \in 0..MaxParts
    BY <1>2
  <2> QED BY <1>2, <2>1 DEF ResponseText2Usage, Tokens, NoUsage, UsageType, PromptTokens
<1>4. usage' \in UsageType
  <2>1. usage' \in {usage, ResponseText2Usage(heard), NoUsage}
    BY <1>1 DEF DoResponse
  <2> QED BY <1>2, <1>3, <2>1
<1>5. out' \in Seq(Int)
  <2>1. Append(out, Done) \in Seq(Int)
    BY <1>2 DEF Done
  <2> QED BY <1>1, <1>2, <2>1
<1>6. AnswersTypeOK'
  BY <1>1, <1>2, <1>4, <1>5 DEF AnswersTypeOK, UsageType
<1> QED BY <1>1, <1>2, <1>6 DEF RangesKept, StreamMode

LEMMA BodyRanged ==
  ASSUME AnswersInv, RangesKept, WholeBody
  PROVE  RangesKept'
<1>1. PICK b \in Body, fails \in BOOLEAN :
        /\ mode # "stream" \/ provider \in OneBody
        /\ NumberedBody(b)
        /\ status' = IF Answered(b).ok /\ ~(fails /\ Answered(b).tells) THEN "ok" ELSE "error"
        /\ out' = IF Answered(b).ok /\ mode = "stream" THEN Append(Answered(b).send, Done) ELSE Answered(b).send
        /\ usage' = IF status' = "ok" THEN Answered(b).usage ELSE NoUsage
        /\ pieces' = Len(b.parts) /\ metered' = b.tokens /\ gone' = fails
        /\ unread' = ToSet(b.parts) \ ToSet(Answered(b).send)
        /\ UNCHANGED <<provider, mode, heard, doneRendered, lines, opening, ending>>
  BY DEF WholeBody, NumberedBody
<1>2. ModesInv /\ AnswersTypeOK /\ heard = <<>> /\ ~StreamMode
  BY <1>1 DEF AnswersInv, RangesKept, StreamMode
<1>3. Served(Answered(b), b)
  BY <1>1, <1>2, EmbeddingServed, BodyServed DEF ModesInv
<1>4. /\ b.parts \in Seq(Nat) /\ First(b.parts) \in Seq(Nat) /\ NoUsage \in UsageType
      /\ Len(b.parts) \in 0..MaxParts /\ b.tokens \in 0..MaxParts
  <2>1. b.parts \in SeqOf(Part, 2) /\ b.tokens \in 0..MaxParts /\ MaxParts \in Nat
    BY AnswersAssumption DEF Body
  <2>2. b.parts \in Seq(Nat) /\ First(b.parts) \in Seq(Nat) /\ NoUsage \in UsageType /\ Len(b.parts) \in Nat
    BY <1>1, <2>1, UsagesMade, PartsOfLine DEF UsageIs
  <2>3. Len(b.parts) <= MaxParts
    <3>1. CASE Len(b.parts) = 0
      BY <2>1, <3>1
    <3>2. CASE Len(b.parts) # 0
      <4>1. Len(b.parts) \in 1..Len(b.parts) /\ b.parts = [i \in 1..Len(b.parts) |-> i]
        BY <1>1, <2>2, <3>2 DEF NumberedBody
      <4>2. b.parts[Len(b.parts)] = Len(b.parts)
        BY <4>1
      <4>6. b.parts[Len(b.parts)] \in Part
        BY <2>1, <4>1, PartsOfLine
      <4> QED BY <2>1, <2>2, <4>2, <4>6 DEF Part
    <3> QED BY <3>1, <3>2
  <2> QED BY <2>1, <2>2, <2>3
<1> DEFINE a == Answered(b)
<1>5. a.send \in Seq(Nat)
  <2>1. a.send = b.parts \/ a.send = First(b.parts) \/ a.send = <<>>
    BY <1>3 DEF Served
  <2>2. <<>> \in Seq(Nat)
    OBVIOUS
  <2> HIDE DEF a
  <2> QED BY ONLY <1>4, <2>1, <2>2
<1>6. usage' \in UsageType /\ status' \in {"open", "closing", "ok", "error"}
  BY <1>1, <1>3, <1>4 DEF Served
<1>7. out' \in Seq(Int)
  <2>1. out' = Append(a.send, Done) \/ out' = a.send
    BY <1>1
  <2> HIDE DEF a
  <2>2. a.send \in Seq(Int) /\ Done \in Int
    BY <1>5 DEF Done
  <2> QED BY <2>1, <2>2
<1>8. unread' \subseteq 1..pieces'
  <2>1. b.parts = [i \in 1..Len(b.parts) |-> i]
    BY <1>1 DEF NumberedBody
  <2>2. \A i \in DOMAIN b.parts : b.parts[i] \in 1..Len(b.parts)
    BY <1>4, <2>1
  <2>3. ToSet(b.parts) \subseteq 1..Len(b.parts)
    BY ONLY <2>2 DEF ToSet
  <2> QED BY <1>1, <2>3
<1>9. AnswersTypeOK'
  BY <1>1, <1>2, <1>4, <1>6, <1>7, <1>8 DEF AnswersTypeOK, UsageType
<1>10. Len(heard') <= pieces' /\ ~StreamMode' /\ heard' = <<>>
  BY <1>1, <1>2, <1>4 DEF StreamMode
<1> QED BY <1>9, <1>10 DEF RangesKept

\* The handlers' variables stay in their ranges for any number of lines and pieces: the
\* usage that some of relay/adaptor add up is never more than the tokens there are.
THEOREM AnswersTypes == AnswersSpec => []AnswersTypeOK
<1>1. AnswersInit => RangesKept
  <2> SUFFICES ASSUME AnswersInit
               PROVE  RangesKept
    OBVIOUS
  <2>1. /\ out = <<>> /\ heard = <<>> /\ pieces = 0 /\ unread = {} /\ metered = 0 /\ status = "open" /\ lines = 0 /\ gone = FALSE
        /\ doneRendered = FALSE /\ opening = NotBegun /\ ending = ""
    BY DEF AnswersInit
  <2>2. provider \in ChatOnly \cup WithEmbeddings \cup {"replicate"} /\ mode \in {"chat", "stream", "embedding"}
    BY DEF AnswersInit
  <2>3. usage = NoUsage \/ usage = Tokens(0, 0)
    BY DEF AnswersInit
  <2>4. NoUsage \in UsageType /\ Tokens(0, 0) \in UsageType
    <3>1. 0 \in 0..(PromptTokens + MaxParts) /\ 0 \in 0..(MaxParts + 1)
      BY AnswersAssumption DEF PromptTokens
    <3> QED BY <3>1 DEF NoUsage, Tokens, UsageType
  <2>5. <<>> \in Seq(Int) /\ <<>> \in Seq(Part)
    OBVIOUS
  <2>6. 0 \in 0..MaxRead /\ 0 \in 0..MaxParts /\ {} \subseteq 1..0
    BY AnswersAssumption
  <2>7. AnswersTypeOK
    <3>1. usage \in [known: BOOLEAN, prompt: 0..(PromptTokens + MaxParts), completion: 0..(MaxParts + 1)]
      BY <2>3, <2>4 DEF UsageType
    <3> QED BY <2>1, <2>2, <2>5, <2>6, <3>1 DEF AnswersTypeOK
  <2>8. Len(heard) <= pieces /\ (~StreamMode => heard = <<>>)
    <3>1. heard = <<>> /\ pieces = 0
      BY <2>1
    <3> QED BY ONLY <3>1
  <2> QED BY <2>7, <2>8 DEF RangesKept
<1>2. AnswersInv /\ RangesKept /\ [AnswersNext]_answerVars => RangesKept'
  <2>1. RangesKept /\ UNCHANGED answerVars => RangesKept'
    BY DEF RangesKept, AnswersTypeOK, StreamMode, answerVars
  <2> QED BY <2>1, LineRanged, EndRanged, BodyRanged DEF AnswersNext
<1>3. RangesKept => AnswersTypeOK
  BY DEF RangesKept
<1> QED BY <1>1, <1>2, <1>3, AnswersInductive, PTL DEF AnswersSpec

-----------------------------------------------------------------------------
(* Conversations.  A turn has one or two parts, and its place and kind say *)
(* what can follow it.  The messages of a request are shown to be those of *)
(* its turns (Transcript), whatever their number; each adaptor is then shown  *)
(* to tell a part of those messages in their order.                        *)
ItemKind == {"text", "image", "use", "result"}
Kinds(t) == [k \in DOMAIN t.parts |-> t.parts[k].kind]

\* Which turns follow upon each other, how their parts are numbered, and which call a
\* result answers.
ConversationInv ==
  /\ ConversionTypeOK
  /\ \A i \in DOMAIN turns :
       /\ <<turns[i].role, Kinds(turns[i])>> \in Shapes
       /\ \A k \in DOMAIN turns[i].parts : turns[i].parts[k].n \in 1..Len(Parts(turns))
       /\ \A k, l \in DOMAIN turns[i].parts : k < l => turns[i].parts[k].n < turns[i].parts[l].n
       /\ \A p \in ToSet(turns[i].parts) : p.kind = "result" =>
            /\ turns[i].role = "tool" <=> entry = "chat"
            /\ i > 1 /\ \E q \in ToSet(turns[i - 1].parts) : q.kind = "use" /\ q.n = p.of
       /\ entry = "messages" /\ turns[i].role = "system" => i = 1
  /\ \A i, j \in DOMAIN turns : i < j =>
       \A p \in ToSet(turns[i].parts), q \in ToSet(turns[j].parts) : p.n < q.n

\* The parts of a turn have the kinds of one of the shapes.
LEMMA ShapeFacts ==
  ASSUME NEW shape \in Shapes
  PROVE  /\ shape = <<shape[1], shape[2]>> /\ shape[1] \in Speaker
         /\ shape[2] \in Seq(ItemKind) /\ Len(shape[2]) \in {1, 2} /\ DOMAIN shape[2] = 1..Len(shape[2])
         /\ shape[1] = "system" => Len(shape[2]) = 1 /\ shape[2][1] = "text"
         /\ shape[1] = "tool" => Len(shape[2]) = 1 /\ shape[2][1] = "result"
         /\ shape[1] = "assistant" =>
              /\ shape[2][1] \in {"text", "use"}
              /\ Len(shape[2]) = 2 => shape[2][1] = "text" /\ shape[2][2] = "use"
         /\ shape[1] = "user" =>
              /\ shape[2][1] \in {"text", "result"}
              /\ Len(shape[2]) = 2 => \/ shape[2][1] = "text" /\ shape[2][2] \in {"text", "image"}
                                      \/ shape[2][1] = "result" /\ shape[2][2] = "text"
<1> DEFINE Fits(r, a) ==
      /\ shape = <<r, a>> /\ shape[1] = r /\ shape[2] = a
<1>1. \/ Fits("system", <<"text">>) \/ Fits("user", <<"text">>) \/ Fits("user", <<"text", "text">>)
      \/ Fits("user", <<"text", "image">>) \/ Fits("user", <<"result">>) \/ Fits("user", <<"result", "text">>)
      \/ Fits("tool", <<"result">>) \/ Fits("assistant", <<"text">>) \/ Fits("assistant", <<"use">>)
      \/ Fits("assistant", <<"text", "use">>)
  BY DEF Shapes
<1>2. \A a \in ItemKind : <<a>> \in Seq(ItemKind) /\ Len(<<a>>) = 1 /\ <<a>>[1] = a /\ DOMAIN <<a>> = 1..1
  OBVIOUS
<1>3. \A a, b \in ItemKind : /\ <<a, b>> \in Seq(ItemKind) /\ Len(<<a, b>>) = 2
                             /\ <<a, b>>[1] = a /\ <<a, b>>[2] = b /\ DOMAIN <<a, b>> = 1..2
  OBVIOUS
<1>4. "text" \in ItemKind /\ "image" \in ItemKind /\ "use" \in ItemKind /\ "result" \in ItemKind
  BY DEF ItemKind
<1> HIDE DEF Fits
<1>5. CASE Fits("system", <<"text">>)
  BY <1>2, <1>4, <1>5 DEF Fits, Speaker
<1>6. CASE Fits("user", <<"text">>)
  BY <1>2, <1>4, <1>6 DEF Fits, Speaker
<1>7. CASE Fits("user", <<"text", "text">>)
  BY <1>3, <1>4, <1>7 DEF Fits, Speaker
<1>8. CASE Fits("user", <<"text", "image">>)
  BY <1>3, <1>4, <1>8 DEF Fits, Speaker
<1>9. CASE Fits("user", <<"result">>)
  BY <1>2, <1>4, <1>9 DEF Fits, Speaker
<1>10. CASE Fits("user", <<"result", "text">>)
  BY <1>3, <1>4, <1>10 DEF Fits, Speaker
<1>11. CASE Fits("tool", <<"result">>)
  BY <1>2, <1>4, <1>11 DEF Fits, Speaker
<1>12. CASE Fits("assistant", <<"text">>)
  BY <1>2, <1>4, <1>12 DEF Fits, Speaker
<1>13. CASE Fits("assistant", <<"use">>)
  BY <1>2, <1>4, <1>13 DEF Fits, Speaker
<1>14. CASE Fits("assistant", <<"text", "use">>)
  BY <1>3, <1>4, <1>14 DEF Fits, Speaker
<1> QED BY <1>1, <1>5, <1>6, <1>7, <1>8, <1>9, <1>10, <1>11, <1>12, <1>13, <1>14

\* What a turn can hold, and where in it.
TurnFacts(t) ==
  /\ t \in Turn /\ Len(t.parts) \in {1, 2} /\ DOMAIN t.parts = 1..Len(t.parts)
  /\ \A k \in DOMAIN t.parts : t.parts[k] \in Item /\ t.parts[k] \in ToSet(t.parts)
  /\ t.role = "system" => Len(t.parts) = 1 /\ t.parts[1].kind = "text"
  /\ t.role = "tool" => Len(t.parts) = 1 /\ t.parts[1].kind = "result"
  /\ t.role = "assistant" =>
       /\ t.parts[1].kind \in {"text", "use"}
       /\ Len(t.parts) = 2 => t.parts[1].kind = "text" /\ t.parts[2].kind = "use"
  /\ t.role = "user" =>
       /\ t.parts[1].kind \in {"text", "result"}
       /\ Len(t.parts) = 2 => \/ t.parts[1].kind = "text" /\ t.parts[2].kind \in {"text", "image"}
                              \/ t.parts[1].kind = "result" /\ t.parts[2].kind = "text"
  /\ Len(t.parts) = 2 => t.parts[1].n < t.parts[2].n

\* What the invariant says of a turn by itself.
LEMMA TurnsHave ==
  ASSUME ConversationInv, NEW i \in DOMAIN turns
  PROVE  TurnFacts(turns[i])
<1> DEFINE t == turns[i]
           shape == <<t.role, Kinds(t)>>
<1>1. t \in Turn /\ shape \in Shapes
  BY DEF ConversationInv, ConversionTypeOK
<1>2. \A k, l \in DOMAIN t.parts : k < l => t.parts[k].n < t.parts[l].n
  BY DEF ConversationInv
<1> HIDE DEF t
<1>3. /\ t.parts \in Seq(Item) /\ Len(t.parts) \in Nat /\ DOMAIN t.parts = 1..Len(t.parts)
      /\ \A k \in DOMAIN t.parts : t.parts[k] \in Item
  BY <1>1 DEF Turn
<1>4. shape[1] = t.role /\ shape[2] = Kinds(t)
  OBVIOUS
<1> HIDE DEF shape
<1>5. /\ Len(Kinds(t)) \in {1, 2} /\ DOMAIN Kinds(t) = 1..Len(Kinds(t))
      /\ t.role = "system" => Len(Kinds(t)) = 1 /\ Kinds(t)[1] = "text"
      /\ t.role = "tool" => Len(Kinds(t)) = 1 /\ Kinds(t)[1] = "result"
      /\ t.role = "assistant" =>
           /\ Kinds(t)[1] \in {"text", "use"}
           /\ Len(Kinds(t)) = 2 => Kinds(t)[1] = "text" /\ Kinds(t)[2] = "use"
      /\ t.role = "user" =>
           /\ Kinds(t)[1] \in {"text", "result"}
           /\ Len(Kinds(t)) = 2 => \/ Kinds(t)[1] = "text" /\ Kinds(t)[2] \in {"text", "image"}
                                   \/ Kinds(t)[1] = "result" /\ Kinds(t)[2] = "text"
  BY <1>1, <1>4, ShapeFacts
<1>6. DOMAIN Kinds(t) = DOMAIN t.parts /\ \A k \in DOMAIN t.parts : Kinds(t)[k] = t.parts[k].kind
  BY DEF Kinds
<1>7. Len(Kinds(t)) = Len(t.parts)
  BY <1>3, <1>5, <1>6
<1>8. 1 \in DOMAIN t.parts /\ (Len(t.parts) = 2 => 2 \in DOMAIN t.parts)
  <2>1. Len(t.parts) = 1 \/ Len(t.parts) = 2
    BY <1>5, <1>7
  <2>2. Len(t.parts) = 1 => 1 \in 1..Len(t.parts)
    OBVIOUS
  <2>3. Len(t.parts) = 2 => 1 \in 1..Len(t.parts) /\ 2 \in 1..Len(t.parts)
    OBVIOUS
  <2> QED BY <1>3, <2>1, <2>2, <2>3
<1>9. \A k \in DOMAIN t.parts : t.parts[k] \in ToSet(t.parts)
  BY DEF ToSet
<1>10. Len(t.parts) = 2 => t.parts[1].n < t.parts[2].n
  BY <1>2, <1>8
<1> HIDE DEF Kinds
<1>11. TurnFacts(t)
  BY <1>1, <1>3, <1>5, <1>6, <1>7, <1>8, <1>9, <1>10 DEF TurnFacts
<1> QED BY <1>11 DEF t

-----------------------------------------------------------------------------
(* What a filter keeps.                                                    *)
Chosen(s, I) == [i \in DOMAIN s |-> IF i \in I THEN <<s[i]>> ELSE <<>>]

LEMMA ChosenType ==
  ASSUME NEW S, NEW s \in Seq(S), NEW I
  PROVE  /\ Only(s, I) = FlattenSeq(Chosen(s, I)) /\ Chosen(s, I) \in Seq(Seq(S))
         /\ Len(Chosen(s, I)) = Len(s) /\ Len(s) \in Nat /\ DOMAIN s = 1..Len(s)
         /\ \A i \in DOMAIN s :
              /\ Chosen(s, I)[i] = IF i \in I THEN <<s[i]>> ELSE <<>>
              /\ i \in I => DOMAIN Chosen(s, I)[i] = {1} /\ Chosen(s, I)[i][1] = s[i]
              /\ i \notin I => DOMAIN Chosen(s, I)[i] = {}
<1>1. Len(s) \in Nat /\ DOMAIN s = 1..Len(s) /\ \A i \in 1..Len(s) : s[i] \in S
  BY LenProperties
<1>2. \A i \in 1..Len(s) : (IF i \in I THEN <<s[i]>> ELSE <<>>) \in Seq(S)
  BY <1>1
<1>3. Chosen(s, I) \in Seq(Seq(S)) /\ Len(Chosen(s, I)) = Len(s)
  BY <1>1, <1>2 DEF Chosen
<1>4. \A i \in DOMAIN s : Chosen(s, I)[i] = IF i \in I THEN <<s[i]>> ELSE <<>>
  BY DEF Chosen
<1>5. \A x : DOMAIN <<x>> = {1} /\ <<x>>[1] = x
  OBVIOUS
<1>6. DOMAIN <<>> = {}
  OBVIOUS
<1>7. \A i \in DOMAIN s : /\ i \in I => DOMAIN Chosen(s, I)[i] = {1} /\ Chosen(s, I)[i][1] = s[i]
                          /\ i \notin I => DOMAIN Chosen(s, I)[i] = {}
  BY <1>4, <1>5, <1>6
<1> QED BY <1>1, <1>3, <1>4, <1>7 DEF Only, All, Chosen

\* What is kept is what was at the places named, in the same order.
LEMMA OnlyIs ==
  ASSUME NEW S, NEW s \in Seq(S), NEW I
  PROVE  /\ Only(s, I) \in Seq(S)
         /\ Len(Only(s, I)) \in Nat /\ DOMAIN Only(s, I) = 1..Len(Only(s, I))
         /\ \A k \in DOMAIN Only(s, I) : \E a \in DOMAIN s : a \in I /\ Only(s, I)[k] = s[a]
         /\ \A a \in DOMAIN s : a \in I => \E k \in DOMAIN Only(s, I) : Only(s, I)[k] = s[a]
         /\ \A j, k \in DOMAIN Only(s, I) : j < k =>
              \E a, b \in DOMAIN s :
                a \in I /\ b \in I /\ a < b /\ Only(s, I)[j] = s[a] /\ Only(s, I)[k] = s[b]
<1>0. /\ Only(s, I) = FlattenSeq(Chosen(s, I)) /\ Chosen(s, I) \in Seq(Seq(S))
      /\ Len(Chosen(s, I)) = Len(s) /\ Len(s) \in Nat /\ DOMAIN s = 1..Len(s)
      /\ \A i \in DOMAIN s :
           /\ Chosen(s, I)[i] = IF i \in I THEN <<s[i]>> ELSE <<>>
           /\ i \in I => DOMAIN Chosen(s, I)[i] = {1} /\ Chosen(s, I)[i][1] = s[i]
           /\ i \notin I => DOMAIN Chosen(s, I)[i] = {}
  <2>1. s \in Seq(S)
    OBVIOUS
  <2> QED BY ONLY <2>1, ChosenType
<1> DEFINE ss == Chosen(s, I)
           o == Only(s, I)
<1>1. /\ ss \in Seq(Seq(S)) /\ Len(ss) = Len(s) /\ Len(s) \in Nat /\ DOMAIN s = 1..Len(s)
      /\ o = FlattenSeq(ss)
      /\ \A i \in DOMAIN s : /\ i \in I => DOMAIN ss[i] = {1} /\ ss[i][1] = s[i]
                             /\ i \notin I => DOMAIN ss[i] = {}
  BY ONLY <1>0
<1> HIDE DEF ss, o
<1>2. o \in Seq(S) /\ Placed(o, ss, Len(ss))
  BY <1>1, FlattenPlaced
<1>3. Len(o) \in Nat /\ DOMAIN o = 1..Len(o)
  BY <1>2, LenProperties
<1>4. \A i \in DOMAIN s : \A a \in DOMAIN ss[i] : i \in I /\ a = 1 /\ ss[i][a] = s[i]
  BY <1>1
<1>5. ASSUME NEW k \in DOMAIN o PROVE \E a \in DOMAIN s : a \in I /\ o[k] = s[a]
  <2>1. PICK i \in 1..Len(ss) : \E b \in DOMAIN ss[i] : o[k] = ss[i][b]
    BY <1>2 DEF Placed
  <2> QED BY <1>1, <1>4, <2>1
<1>6. ASSUME NEW a \in DOMAIN s, a \in I PROVE \E k \in DOMAIN o : o[k] = s[a]
  <2>1. 1 \in DOMAIN ss[a] /\ ss[a][1] = s[a]
    BY <1>1, <1>6
  <2> QED BY <1>1, <1>2, <2>1 DEF Placed
<1>7. ASSUME NEW j \in DOMAIN o, NEW k \in DOMAIN o, j < k
      PROVE  \E a, b \in DOMAIN s : a \in I /\ b \in I /\ a < b /\ o[j] = s[a] /\ o[k] = s[b]
  <2>1. PICK i \in 1..Len(ss), l \in 1..Len(ss) : \E a \in DOMAIN ss[i] : \E b \in DOMAIN ss[l] :
          o[j] = ss[i][a] /\ o[k] = ss[l][b] /\ (i < l \/ (i = l /\ a < b))
    <3>1. Precedes(o, ss, Len(ss), j, k)
      BY <1>2, <1>7, PlacedOrder
    <3> QED BY <3>1 DEF Precedes
  <2>2. PICK a \in DOMAIN ss[i], b \in DOMAIN ss[l] :
          o[j] = ss[i][a] /\ o[k] = ss[l][b] /\ (i < l \/ (i = l /\ a < b))
    BY <2>1
  <2>3. i \in DOMAIN s /\ l \in DOMAIN s
    BY <1>1
  <2>4. i \in I /\ l \in I /\ a = 1 /\ b = 1 /\ ss[i][a] = s[i] /\ ss[l][b] = s[l]
    BY <1>4, <2>3
  <2>5. i < l
    BY <2>2, <2>4
  <2> QED BY <2>2, <2>3, <2>4, <2>5
<1> QED BY <1>2, <1>3, <1>5, <1>6, <1>7 DEF o

LEMMA OnlyFrom ==
  ASSUME NEW S, NEW s \in Seq(S), NEW I, NEW k \in DOMAIN Only(s, I)
  PROVE  \E a \in DOMAIN s : a \in I /\ Only(s, I)[k] = s[a]
BY OnlyIs

LEMMA OnlyHas ==
  ASSUME NEW S, NEW s \in Seq(S), NEW I, NEW a \in DOMAIN s, a \in I
  PROVE  \E k \in DOMAIN Only(s, I) : Only(s, I)[k] = s[a]
BY OnlyIs

LEMMA OnlyInOrder ==
  ASSUME NEW S, NEW s \in Seq(S), NEW I, NEW j \in DOMAIN Only(s, I), NEW k \in DOMAIN Only(s, I), j < k
  PROVE  \E a, b \in DOMAIN s :
           a \in I /\ b \in I /\ a < b /\ Only(s, I)[j] = s[a] /\ Only(s, I)[k] = s[b]
BY OnlyIs

\* Nothing is kept from no place, and all from every place.
LEMMA OnlyNone ==
  ASSUME NEW S, NEW s \in Seq(S), NEW I, \A i \in DOMAIN s : i \notin I
  PROVE  Only(s, I) = <<>>
<1>1. /\ Only(s, I) \in Seq(S) /\ Len(Only(s, I)) \in Nat /\ DOMAIN Only(s, I) = 1..Len(Only(s, I))
      /\ \A k \in DOMAIN Only(s, I) : \E a \in DOMAIN s : a \in I
  BY OnlyIs
<1>2. 1 \notin DOMAIN Only(s, I)
  BY <1>1
<1>3. Len(Only(s, I)) = 0
  BY <1>1, <1>2
<1> QED BY <1>1, <1>3, EmptySeq

LEMMA OnlyAll ==
  ASSUME NEW S, NEW s \in Seq(S), NEW I, \A i \in DOMAIN s : i \in I
  PROVE  Only(s, I) = s
<1>1. Only(s, I) = FlattenSeq(Chosen(s, I))
  BY ChosenType
<1>2. Chosen(s, I) = [i \in DOMAIN s |-> <<s[i]>>]
  BY DEF Chosen
<1> QED BY <1>1, <1>2, FlattenSingles

\* Of two sequences, those of the one and then those of the other.
LEMMA FlattenOne ==
  ASSUME NEW S, NEW a \in Seq(S)
  PROVE  FlattenSeq(<<a>>) = a
<1>1. <<a>> = Append(<<>>, a) /\ <<>> \in Seq(Seq(S)) /\ <<>> \in Seq(S)
  OBVIOUS
<1>2. FlattenSeq(<<>>) = <<>>
  BY DEF FlattenSeq
<1>3. FlattenSeq(Append(<<>>, a)) = FlattenSeq(<<>>) \o a
  BY <1>1, FlattenAppend
<1> QED BY <1>1, <1>2, <1>3, ConcatEmptySeq

LEMMA FlattenTwo ==
  ASSUME NEW S, NEW a \in Seq(S), NEW b \in Seq(S)
  PROVE  FlattenSeq(<<a, b>>) = a \o b
<1>1. <<a, b>> = Append(<<a>>, b) /\ <<a>> \in Seq(Seq(S))
  OBVIOUS
<1>2. FlattenSeq(Append(<<a>>, b)) = FlattenSeq(<<a>>) \o b
  BY <1>1, FlattenAppend
<1> QED BY <1>1, <1>2, FlattenOne

\* What is kept of one or two elements.
LEMMA OnlyOne ==
  ASSUME NEW S, NEW s \in Seq(S), NEW I, Len(s) = 1
  PROVE  Only(s, I) = IF 1 \in I THEN <<s[1]>> ELSE <<>>
<1>1. CASE 1 \in I
  <2>1. \A i \in DOMAIN s : i \in I
    BY <1>1
  <2>2. s = <<s[1]>>
    OBVIOUS
  <2> QED BY <1>1, <2>1, <2>2, OnlyAll
<1>2. CASE 1 \notin I
  <2>1. \A i \in DOMAIN s : i \notin I
    BY <1>2
  <2> QED BY <1>2, <2>1, OnlyNone
<1> QED BY <1>1, <1>2

LEMMA OnlyTwo ==
  ASSUME NEW S, NEW s \in Seq(S), NEW I, Len(s) = 2
  PROVE  /\ 1 \in I /\ 2 \in I => Only(s, I) = s
         /\ 1 \in I /\ 2 \notin I => Only(s, I) = <<s[1]>>
         /\ 1 \notin I /\ 2 \in I => Only(s, I) = <<s[2]>>
         /\ 1 \notin I /\ 2 \notin I => Only(s, I) = <<>>
<1> DEFINE a == IF 1 \in I THEN <<s[1]>> ELSE <<>>
           b == IF 2 \in I THEN <<s[2]>> ELSE <<>>
<1>1. 1 \in DOMAIN s /\ 2 \in DOMAIN s /\ s[1] \in S /\ s[2] \in S
  <2>1. DOMAIN s = 1..2 /\ s \in [1..2 -> S]
    <3>1. DOMAIN s = 1..Len(s) /\ s \in [1..Len(s) -> S]
      BY LenProperties
    <3> QED BY <3>1
  <2>2. 1 \in 1..2 /\ 2 \in 1..2
    OBVIOUS
  <2> QED BY <2>1, <2>2
<1>2. a \in Seq(S) /\ b \in Seq(S)
  BY <1>1
<1>3. Chosen(s, I) \in Seq(Seq(S)) /\ Len(Chosen(s, I)) = 2 /\ Chosen(s, I)[1] = a /\ Chosen(s, I)[2] = b
  BY <1>1, ChosenType
<1>4. Only(s, I) = FlattenSeq(Chosen(s, I))
  BY ChosenType
<1> HIDE DEF a, b
<1>5. Chosen(s, I) = <<a, b>>
  BY <1>2, <1>3
<1>6. Only(s, I) = a \o b
  BY <1>2, <1>4, <1>5, FlattenTwo
<1>7. s = <<s[1], s[2]>>
  OBVIOUS
<1>8. <<s[1]>> \o <<s[2]>> = <<s[1], s[2]>>
  <2>1. \A x, y \in S : <<x>> \in Seq(S) /\ <<x, y>> = Append(<<x>>, y)
    OBVIOUS
  <2>2. \A x, y \in S : Append(<<x>>, y) = <<x>> \o <<y>>
    BY <2>1, AppendIsConcat
  <2> QED BY ONLY <1>1, <2>1, <2>2
<1>9. <<s[1]>> \o <<>> = <<s[1]>> /\ <<>> \o <<s[2]>> = <<s[2]>> /\ <<>> \o <<>> = <<>>
  <2>1. <<s[1]>> \in Seq(S) /\ <<s[2]>> \in Seq(S) /\ <<>> \in Seq(S)
    BY <1>1
  <2> QED BY <2>1, ConcatEmptySeq
<1> QED BY ONLY <1>6, <1>7, <1>8, <1>9 DEF a, b

-----------------------------------------------------------------------------
(* The conversation as it grows.                                           *)
LEMMA PartsAppend ==
  ASSUME NEW ts \in Seq(Turn), NEW t \in Turn
  PROVE  Parts(Append(ts, t)) = Parts(ts) \o t.parts /\ Parts(ts) \in Seq(Item)
<1> DEFINE ps(s) == [i \in DOMAIN s |-> s[i].parts]
<1>1. /\ Append(ts, t) \in Seq(Turn) /\ DOMAIN ts = 1..Len(ts) /\ Len(ts) \in Nat
      /\ DOMAIN Append(ts, t) = 1..(Len(ts) + 1) /\ Append(ts, t)[Len(ts) + 1] = t
      /\ \A i \in 1..Len(ts) : Append(ts, t)[i] = ts[i] /\ ts[i] \in Turn
  BY LenProperties, AppendProperties
<1>2. \A u \in Turn : u.parts \in Seq(Item)
  BY DEF Turn
<1>3. ps(ts) \in Seq(Seq(Item)) /\ Len(ps(ts)) = Len(ts)
  BY <1>1, <1>2
<1>4. ps(Append(ts, t)) = Append(ps(ts), t.parts)
  <2>1. ps(Append(ts, t)) = [i \in 1..(Len(ts) + 1) |-> IF i = Len(ts) + 1 THEN t.parts ELSE ts[i].parts]
    BY <1>1
  <2>2. Append(ps(ts), t.parts) = [i \in 1..(Len(ts) + 1) |-> IF i = Len(ts) + 1 THEN t.parts ELSE ps(ts)[i]]
    BY <1>3
  <2> QED BY <1>1, <2>1, <2>2
<1>5. FlattenSeq(Append(ps(ts), t.parts)) = FlattenSeq(ps(ts)) \o t.parts /\ FlattenSeq(ps(ts)) \in Seq(Item)
  <2> HIDE DEF ps
  <2> QED BY <1>2, <1>3, FlattenAppend, FlattenType
<1> QED BY <1>4, <1>5 DEF Parts, All

LEMMA ConversationStarts == ConversionInit => ConversationInv
<1> SUFFICES ASSUME ConversionInit PROVE ConversationInv
  OBVIOUS
<1>1. turns = <<>> /\ DOMAIN turns = {} /\ turns \in Seq(Turn) /\ Len(turns) = 0 /\ entry \in {"chat", "messages"}
  BY DEF ConversionInit
<1> QED BY <1>1, ConversionAssumption DEF ConversationInv, ConversionTypeOK

\* What the next turn is made of.
LEMMA NextTurn ==
  ASSUME ConversationInv, Say
  PROVE  \E t \in Turn :
           /\ turns' = Append(turns, t) /\ entry' = entry /\ Len(turns') <= MaxTurns
           /\ <<t.role, Kinds(t)>> \in Shapes
           /\ \A k \in DOMAIN t.parts : t.parts[k].n = Len(Parts(turns)) + k
           /\ \A k \in DOMAIN t.parts : t.parts[k].kind = "result" =>
                /\ t.role = "tool" <=> entry = "chat"
                /\ turns # <<>>
                /\ \E q \in ToSet(turns[Len(turns)].parts) : q.kind = "use" /\ q.n = t.parts[k].of
           /\ entry = "messages" /\ t.role = "system" => turns = <<>>
<1> DEFINE n == Len(Parts(turns))
           call == IF turns = <<>> THEN <<>> ELSE ToolCalls(turns[Len(turns)])
           of(kind) == IF kind = "result" THEN call[1].n ELSE 0
           item(kinds, i) == [kind |-> kinds[i], n |-> n + i, of |-> of(kinds[i])]
<1>1. PICK shape \in Shapes :
        /\ Len(turns) < MaxTurns
        /\ "result" \in ToSet(shape[2]) <=> call # <<>>
        /\ "result" \in ToSet(shape[2]) => (shape[1] = "tool" <=> entry = "chat")
        /\ shape[1] = "system" /\ entry = "messages" => turns = <<>>
        /\ turns' = Append(turns, [role |-> shape[1], parts |-> [i \in DOMAIN shape[2] |-> item(shape[2], i)]])
        /\ UNCHANGED entry
  BY DEF Say
<1> DEFINE role == shape[1]
           kinds == shape[2]
           parts == [i \in DOMAIN kinds |-> item(kinds, i)]
           t == [role |-> role, parts |-> parts]
<1>2. /\ turns \in Seq(Turn) /\ Len(turns) \in Nat /\ DOMAIN turns = 1..Len(turns)
      /\ \A i \in DOMAIN turns : turns[i] \in Turn
  BY LenProperties DEF ConversationInv, ConversionTypeOK
<1>3. n \in Nat
  <2>1. Parts(turns) \in Seq(Item)
    <3>1. \A u \in Turn : Parts(turns) \in Seq(Item)
      BY <1>2, PartsAppend
    <3>2. [role |-> "user", parts |-> <<>>] \in Turn
      BY DEF Turn, Speaker
    <3> QED BY <3>1, <3>2
  <2> QED BY <2>1, LenProperties
<1>4. shape = <<role, kinds>> /\ role \in Speaker /\ kinds \in Seq(ItemKind) /\ DOMAIN kinds = 1..Len(kinds)
      /\ Len(kinds) \in Nat /\ \A i \in DOMAIN kinds : kinds[i] \in ItemKind
  BY ShapeFacts
<1>5. call # <<>> =>
        /\ turns # <<>> /\ call[1] \in Item
        /\ \E q \in ToSet(turns[Len(turns)].parts) : q.kind = "use" /\ q = call[1]
  <2> SUFFICES ASSUME call # <<>> PROVE /\ turns # <<>> /\ call[1] \in Item
                      /\ \E q \in ToSet(turns[Len(turns)].parts) : q.kind = "use" /\ q = call[1]
    OBVIOUS
  <2> DEFINE ps == turns[Len(turns)].parts
             uses == {i \in DOMAIN ps : ps[i].kind = "use"}
  <2>1. turns # <<>> /\ Len(turns) \in DOMAIN turns
    BY <1>2, EmptySeq
  <2>2. ps \in Seq(Item) /\ call = Only(ps, uses)
    BY <1>2, <2>1 DEF Turn, ToolCalls, OfKind
  <2> HIDE DEF call, ps, uses
  <2>3. /\ call \in Seq(Item) /\ Len(call) \in Nat /\ DOMAIN call = 1..Len(call)
        /\ \A k \in DOMAIN call : \E a \in DOMAIN ps : a \in uses /\ call[k] = ps[a]
    BY <2>2, OnlyIs
  <2>4. 1 \in DOMAIN call
    BY <2>3, EmptySeq
  <2>5. PICK a \in DOMAIN ps : a \in uses /\ call[1] = ps[a]
    BY <2>3, <2>4
  <2>6. ps[a].kind = "use" /\ ps[a] \in ToSet(ps)
    BY <2>5 DEF uses, ToSet
  <2>7. call[1] \in Item
    BY <2>3, <2>4
  <2> QED BY <2>1, <2>5, <2>6, <2>7 DEF ps
<1>6. \A i \in DOMAIN kinds : kinds[i] = "result" => "result" \in ToSet(kinds)
  BY DEF ToSet
<1> HIDE DEF call
<1>7. \A i \in DOMAIN kinds : of(kinds[i]) \in Nat /\ item(kinds, i) \in Item
  <2> SUFFICES ASSUME NEW i \in DOMAIN kinds PROVE of(kinds[i]) \in Nat /\ item(kinds, i) \in Item
    OBVIOUS
  <2>1. of(kinds[i]) \in Nat
    BY <1>1, <1>5, <1>6 DEF Item
  <2>2. n + i \in Nat /\ kinds[i] \in {"text", "image", "use", "result"}
    BY <1>3, <1>4 DEF ItemKind
  <2> QED BY <2>1, <2>2 DEF Item
<1> HIDE DEF n, of
<1>8. t \in Turn /\ DOMAIN parts = DOMAIN kinds
  <2>1. parts \in Seq(Item)
    BY <1>4, <1>7
  <2> QED BY <1>4, <2>1 DEF Turn
<1>9. \A k \in DOMAIN kinds : parts[k].n = n + k /\ parts[k].kind = kinds[k] /\ parts[k].of = of(kinds[k])
  OBVIOUS
<1>10. t.role = role /\ t.parts = parts /\ turns' = Append(turns, t) /\ entry' = entry
  BY <1>1
<1> HIDE DEF parts
<1>11. Kinds(t) = kinds
  <2>1. Kinds(t) = [k \in DOMAIN kinds |-> kinds[k]]
    BY <1>8, <1>9, <1>10 DEF Kinds
  <2> QED BY <1>4, <2>1
<1>12. Len(turns') <= MaxTurns
  BY <1>1, <1>2, <1>8, <1>10, ConversionAssumption
<1>13. ASSUME NEW k \in DOMAIN parts, parts[k].kind = "result"
       PROVE  /\ role = "tool" <=> entry = "chat"
              /\ turns # <<>>
              /\ \E q \in ToSet(turns[Len(turns)].parts) : q.kind = "use" /\ q.n = parts[k].of
  <2>1. kinds[k] = "result" /\ parts[k].of = call[1].n
    BY <1>8, <1>9, <1>13 DEF of
  <2>2. "result" \in ToSet(kinds) /\ call # <<>>
    BY <1>1, <1>6, <1>8, <2>1
  <2> QED BY <1>1, <1>5, <2>1, <2>2
<1>14. /\ t \in Turn /\ turns' = Append(turns, t) /\ entry' = entry /\ Len(turns') <= MaxTurns
       /\ <<t.role, Kinds(t)>> \in Shapes
       /\ \A k \in DOMAIN t.parts : t.parts[k].n = Len(Parts(turns)) + k
       /\ entry = "messages" /\ t.role = "system" => turns = <<>>
       /\ \A k \in DOMAIN t.parts : t.parts[k].kind = "result" =>
                /\ t.role = "tool" <=> entry = "chat"
                /\ turns # <<>>
                /\ \E q \in ToSet(turns[Len(turns)].parts) : q.kind = "use" /\ q.n = t.parts[k].of
  <2> HIDE DEF t
  <2>1. <<t.role, Kinds(t)>> \in Shapes
    BY <1>4, <1>10, <1>11
  <2>2. \A k \in DOMAIN t.parts : t.parts[k].n = Len(Parts(turns)) + k
    BY <1>8, <1>9, <1>10 DEF n
  <2> QED BY <1>1, <1>8, <1>10, <1>12, <1>13, <2>1, <2>2
<1> HIDE DEF t
<1> QED BY <1>14

LEMMA ConversationStep == ConversationInv /\ [ConversionNext]_conversionVars => ConversationInv'
<1> SUFFICES ASSUME ConversationInv, [ConversionNext]_conversionVars PROVE ConversationInv'
  OBVIOUS
<1>1. CASE Say
  <2>1. PICK t \in Turn :
          /\ turns' = Append(turns, t) /\ entry' = entry /\ Len(turns') <= MaxTurns
          /\ <<t.role, Kinds(t)>> \in Shapes
          /\ \A k \in DOMAIN t.parts : t.parts[k].n = Len(Parts(turns)) + k
          /\ \A k \in DOMAIN t.parts : t.parts[k].kind = "result" =>
               /\ t.role = "tool" <=> entry = "chat"
               /\ turns # <<>>
               /\ \E q \in ToSet(turns[Len(turns)].parts) : q.kind = "use" /\ q.n = t.parts[k].of
          /\ entry = "messages" /\ t.role = "system" => turns = <<>>
    BY <1>1, NextTurn
  <2> DEFINE N == Len(turns)
             L == Len(Parts(turns))
  <2>2. /\ turns \in Seq(Turn) /\ N \in Nat /\ DOMAIN turns = 1..N
        /\ turns' \in Seq(Turn) /\ DOMAIN turns' = 1..(N + 1) /\ turns'[N + 1] = t
        /\ \A i \in 1..N : turns'[i] = turns[i] /\ turns[i] \in Turn
    BY <2>1, LenProperties, AppendProperties DEF ConversationInv, ConversionTypeOK
  <2>3. Parts(turns') = Parts(turns) \o t.parts /\ Parts(turns) \in Seq(Item) /\ t.parts \in Seq(Item)
    BY <2>1, <2>2, PartsAppend DEF Turn
  <2>4. L \in Nat /\ Len(t.parts) \in Nat /\ DOMAIN t.parts = 1..Len(t.parts) /\ Len(Parts(turns')) = L + Len(t.parts)
    BY <2>3, LenProperties, ConcatProperties
  <2>5. \A i \in DOMAIN turns' : (i \in DOMAIN turns /\ turns'[i] = turns[i]) \/ (i = N + 1 /\ turns'[i] = t)
    BY <2>2
  <2>6. ConversionTypeOK'
    BY <2>1, <2>2 DEF ConversationInv, ConversionTypeOK
  <2>7. ASSUME NEW i \in DOMAIN turns'
        PROVE  /\ <<turns'[i].role, Kinds(turns'[i])>> \in Shapes
               /\ \A k \in DOMAIN turns'[i].parts : turns'[i].parts[k].n \in 1..Len(Parts(turns'))
               /\ \A k, l \in DOMAIN turns'[i].parts : k < l => turns'[i].parts[k].n < turns'[i].parts[l].n
               /\ \A p \in ToSet(turns'[i].parts) : p.kind = "result" =>
                    /\ turns'[i].role = "tool" <=> entry' = "chat"
                    /\ i > 1 /\ \E q \in ToSet(turns'[i - 1].parts) : q.kind = "use" /\ q.n = p.of
               /\ entry' = "messages" /\ turns'[i].role = "system" => i = 1
    <3>1. CASE i \in DOMAIN turns /\ turns'[i] = turns[i]
      <4>1. /\ <<turns[i].role, Kinds(turns[i])>> \in Shapes
            /\ \A k \in DOMAIN turns[i].parts : turns[i].parts[k].n \in 1..L
            /\ \A k, l \in DOMAIN turns[i].parts : k < l => turns[i].parts[k].n < turns[i].parts[l].n
            /\ \A p \in ToSet(turns[i].parts) : p.kind = "result" =>
                 /\ turns[i].role = "tool" <=> entry = "chat"
                 /\ i > 1 /\ \E q \in ToSet(turns[i - 1].parts) : q.kind = "use" /\ q.n = p.of
            /\ entry = "messages" /\ turns[i].role = "system" => i = 1
        BY <3>1 DEF ConversationInv
      <4>2. i > 1 => turns'[i - 1] = turns[i - 1]
        BY <2>2, <3>1
      <4>3. \A k \in 1..L : k \in 1..Len(Parts(turns'))
        BY <2>4
      <4> QED BY <2>1, <3>1, <4>1, <4>2, <4>3
    <3>2. CASE i = N + 1 /\ turns'[i] = t
      <4>1. \A k \in DOMAIN t.parts : t.parts[k].n \in 1..Len(Parts(turns'))
        BY <2>1, <2>4
      <4>2. \A k, l \in DOMAIN t.parts : k < l => t.parts[k].n < t.parts[l].n
        BY <2>1, <2>4
      <4>3. turns # <<>> => i > 1 /\ turns'[i - 1] = turns[Len(turns)]
        BY <2>2, <3>2, EmptySeq
      <4>4. ASSUME NEW p \in ToSet(t.parts), p.kind = "result"
            PROVE  /\ t.role = "tool" <=> entry = "chat"
                   /\ i > 1 /\ \E q \in ToSet(turns'[i - 1].parts) : q.kind = "use" /\ q.n = p.of
        <5>1. PICK k \in DOMAIN t.parts : p = t.parts[k]
          BY DEF ToSet
        <5> QED BY <2>1, <4>3, <4>4, <5>1
      <4>5. turns = <<>> => i = 1
        BY <3>2
      <4> QED BY <2>1, <3>2, <4>1, <4>2, <4>4, <4>5
    <3> QED BY <2>5, <3>1, <3>2
  <2>8. ASSUME NEW i \in DOMAIN turns', NEW j \in DOMAIN turns', i < j,
               NEW p \in ToSet(turns'[i].parts), NEW q \in ToSet(turns'[j].parts)
        PROVE  p.n < q.n
    <3>1. i \in DOMAIN turns /\ turns'[i] = turns[i]
      BY <2>2, <2>8
    <3>2. CASE j \in DOMAIN turns /\ turns'[j] = turns[j]
      BY <2>8, <3>1, <3>2 DEF ConversationInv
    <3>3. CASE turns'[j] = t
      <4>1. PICK k \in DOMAIN turns[i].parts : p = turns[i].parts[k]
        BY <3>1 DEF ToSet
      <4>2. PICK l \in DOMAIN t.parts : q = t.parts[l]
        BY <3>3 DEF ToSet
      <4>3. p.n \in 1..L
        BY <3>1, <4>1 DEF ConversationInv
      <4> QED BY <2>1, <2>4, <4>2, <4>3
    <3> QED BY <2>5, <3>2, <3>3
  <2> QED BY <2>6, <2>7, <2>8 DEF ConversationInv
<1>2. CASE UNCHANGED conversionVars
  BY <1>2 DEF ConversationInv, conversionVars, ConversionTypeOK
<1> QED BY <1>1, <1>2 DEF ConversionNext

\* Whatever the client says, turn by turn: a result follows the turn with its call, only
\* its speaker depends on the API, and a system prompt of /v1/messages comes first.
THEOREM ConversationInvariant == ConversionSpec => []ConversationInv
<1> QED BY ConversationStarts, ConversationStep, PTL DEF ConversionSpec

-----------------------------------------------------------------------------
(* The messages of a turn.                                                 *)
MessageForm == {"string", "list", "typed", "none"}
Msg == [role: Speaker, form: MessageForm, parts: Seq(Item), calls: Seq(Item)]
Items(m) == ToSet(m.parts) \cup ToSet(m.calls)
Known == UNION {ToSet(turns[i].parts) : i \in DOMAIN turns}

LEMMA MessageType ==
  ASSUME NEW role \in Speaker, NEW form \in MessageForm, NEW parts \in Seq(Item), NEW calls \in Seq(Item)
  PROVE  Message(role, form, parts, calls) \in Msg
BY DEF Message, Msg

\* One or two parts, by their kind.
LEMMA OfKindIs ==
  ASSUME NEW parts \in Seq(Item), Len(parts) \in {1, 2}, NEW kind
  PROVE  /\ Len(parts) = 1 /\ parts[1].kind = kind => OfKind(parts, kind) = <<parts[1]>>
         /\ Len(parts) = 1 /\ parts[1].kind # kind => OfKind(parts, kind) = <<>>
         /\ Len(parts) = 2 /\ parts[1].kind = kind /\ parts[2].kind = kind => OfKind(parts, kind) = <<parts[1], parts[2]>>
         /\ Len(parts) = 2 /\ parts[1].kind = kind /\ parts[2].kind # kind => OfKind(parts, kind) = <<parts[1]>>
         /\ Len(parts) = 2 /\ parts[1].kind # kind /\ parts[2].kind = kind => OfKind(parts, kind) = <<parts[2]>>
         /\ Len(parts) = 2 /\ parts[1].kind # kind /\ parts[2].kind # kind => OfKind(parts, kind) = <<>>
<1> DEFINE I == {i \in DOMAIN parts : parts[i].kind = kind}
<1>1. OfKind(parts, kind) = Only(parts, I)
  BY DEF OfKind
<1>2. /\ Len(parts) = 1 => (1 \in I <=> parts[1].kind = kind)
      /\ Len(parts) = 2 => (1 \in I <=> parts[1].kind = kind) /\ (2 \in I <=> parts[2].kind = kind)
  <2>1. Len(parts) = 1 => 1 \in DOMAIN parts
    BY LenProperties
  <2>2. Len(parts) = 2 => 1 \in DOMAIN parts /\ 2 \in DOMAIN parts
    BY LenProperties
  <2> QED BY <2>1, <2>2
<1>3. Len(parts) = 2 => parts = <<parts[1], parts[2]>>
  OBVIOUS
<1> HIDE DEF I
<1>4. CASE Len(parts) = 1
  BY <1>1, <1>2, <1>4, OnlyOne
<1>5. CASE Len(parts) = 2
  <2>1. /\ 1 \in I /\ 2 \in I => Only(parts, I) = parts
        /\ 1 \in I /\ 2 \notin I => Only(parts, I) = <<parts[1]>>
        /\ 1 \notin I /\ 2 \in I => Only(parts, I) = <<parts[2]>>
        /\ 1 \notin I /\ 2 \notin I => Only(parts, I) = <<>>
    BY <1>5, OnlyTwo
  <2> QED BY <1>1, <1>2, <1>3, <1>5, <2>1
<1> QED BY <1>4, <1>5

LEMMA OfOtherIs ==
  ASSUME NEW parts \in Seq(Item), Len(parts) \in {1, 2}, NEW kind
  PROVE  /\ Len(parts) = 1 /\ parts[1].kind # kind => OfOther(parts, kind) = <<parts[1]>>
         /\ Len(parts) = 1 /\ parts[1].kind = kind => OfOther(parts, kind) = <<>>
         /\ Len(parts) = 2 /\ parts[1].kind # kind /\ parts[2].kind # kind => OfOther(parts, kind) = <<parts[1], parts[2]>>
         /\ Len(parts) = 2 /\ parts[1].kind # kind /\ parts[2].kind = kind => OfOther(parts, kind) = <<parts[1]>>
<1> DEFINE I == {i \in DOMAIN parts : parts[i].kind # kind}
<1>1. OfOther(parts, kind) = Only(parts, I)
  BY DEF OfOther
<1>2. /\ Len(parts) = 1 => (1 \in I <=> parts[1].kind # kind)
      /\ Len(parts) = 2 => (1 \in I <=> parts[1].kind # kind) /\ (2 \in I <=> parts[2].kind # kind)
  <2>1. Len(parts) = 1 => 1 \in DOMAIN parts
    BY LenProperties
  <2>2. Len(parts) = 2 => 1 \in DOMAIN parts /\ 2 \in DOMAIN parts
    BY LenProperties
  <2> QED BY <2>1, <2>2
<1>3. Len(parts) = 2 => parts = <<parts[1], parts[2]>>
  OBVIOUS
<1> HIDE DEF I
<1>4. CASE Len(parts) = 1
  BY <1>1, <1>2, <1>4, OnlyOne
<1>5. CASE Len(parts) = 2
  <2>1. /\ 1 \in I /\ 2 \in I => Only(parts, I) = parts
        /\ 1 \in I /\ 2 \notin I => Only(parts, I) = <<parts[1]>>
    BY <1>5, OnlyTwo
  <2> QED BY <1>1, <1>2, <1>3, <1>5, <2>1
<1> QED BY <1>4, <1>5

\* What a turn becomes: one message, or two of a user who answers a call and says more.
Renders(t, ms, list) ==
  LET a == t.parts[1]  b == t.parts[2] IN
  \/ /\ Len(t.parts) = 1 /\ a.kind = "text"
     /\ ms = <<Message(t.role, "string", <<a>>, <<>>)>>
  \/ /\ Len(t.parts) = 1 /\ a.kind = "use" /\ t.role = "assistant"
     /\ ms = <<Message(t.role, "none", <<>>, <<a>>)>>
  \/ /\ Len(t.parts) = 1 /\ a.kind = "result" /\ t.role \in {"user", "tool"}
     /\ ms = <<Message("tool", "string", <<a>>, <<>>)>>
  \/ /\ Len(t.parts) = 2 /\ a.kind = "text" /\ b.kind = "use" /\ t.role = "assistant"
     /\ ms = <<Message(t.role, "string", <<a>>, <<b>>)>>
  \/ /\ Len(t.parts) = 2 /\ a.kind = "text" /\ b.kind \in {"text", "image"} /\ t.role = "user"
     /\ ms = <<Message(t.role, list, <<a, b>>, <<>>)>>
  \/ /\ Len(t.parts) = 2 /\ a.kind = "result" /\ b.kind = "text" /\ t.role = "user"
     /\ ms = <<Message("user", "string", <<b>>, <<>>), Message("tool", "string", <<a>>, <<>>)>>

\* The shapes of a turn, one by one.
LEMMA TurnCases ==
  ASSUME NEW t, TurnFacts(t)
  PROVE  LET a == t.parts[1]  b == t.parts[2] IN
         /\ t.parts \in Seq(Item) /\ t.role \in Speaker /\ Len(t.parts) \in {1, 2}
         /\ a \in Item /\ (Len(t.parts) = 2 => b \in Item)
         /\ \/ Len(t.parts) = 1 /\ a.kind = "text" /\ t.role \in {"system", "user", "assistant"}
            \/ Len(t.parts) = 1 /\ a.kind = "use" /\ t.role = "assistant"
            \/ Len(t.parts) = 1 /\ a.kind = "result" /\ t.role \in {"user", "tool"}
            \/ Len(t.parts) = 2 /\ a.kind = "text" /\ b.kind = "use" /\ t.role = "assistant"
            \/ Len(t.parts) = 2 /\ a.kind = "text" /\ b.kind = "text" /\ t.role = "user"
            \/ Len(t.parts) = 2 /\ a.kind = "text" /\ b.kind = "image" /\ t.role = "user"
            \/ Len(t.parts) = 2 /\ a.kind = "result" /\ b.kind = "text" /\ t.role = "user"
<1>1. t.parts \in Seq(Item) /\ t.role \in Speaker
  BY DEF TurnFacts, Turn
<1>2. Len(t.parts) = 1 \/ Len(t.parts) = 2
  BY DEF TurnFacts
<1>3. Len(t.parts) = 1 => 1 \in DOMAIN t.parts
  BY DEF TurnFacts
<1>4. Len(t.parts) = 2 => 1 \in DOMAIN t.parts /\ 2 \in DOMAIN t.parts
  BY DEF TurnFacts
<1>5. \A k \in DOMAIN t.parts : t.parts[k] \in Item
  BY DEF TurnFacts
<1>6. t.role \in {"system", "user", "assistant", "tool"}
  BY <1>1 DEF Speaker
<1> QED BY <1>1, <1>2, <1>3, <1>4, <1>5, <1>6 DEF TurnFacts

\* A chat message as it is sent, ...
LEMMA SentRenders ==
  ASSUME NEW t, TurnFacts(t), Len(t.parts) = 2 => t.parts[1].kind # "result",
         t.parts[1].kind = "result" => t.role = "tool"
  PROVE  Renders(t, <<Sent(t)>>, "list")
<1> DEFINE a == t.parts[1]
           b == t.parts[2]
           content == OfOther(t.parts, "use")
           uses == OfKind(t.parts, "use")
<1>1. t.parts \in Seq(Item) /\ Len(t.parts) \in {1, 2}
  BY TurnCases
<1>2. Sent(t) = Message(t.role, IF content = <<>> THEN "none" ELSE Form(content, "list"), content, uses)
  BY DEF Sent, ToolCalls
<1>3. \A x : <<x>> # <<>> /\ Len(<<x>>) = 1 /\ <<x>>[1] = x
  OBVIOUS
<1>4. \A x, y : <<x, y>> # <<>> /\ Len(<<x, y>>) = 2
  OBVIOUS
<1>5. \A x : x.kind # "image" => Form(<<x>>, "list") = "string"
  BY <1>3 DEF Form
<1>6. \A x, y : Form(<<x, y>>, "list") = "list"
  BY <1>4 DEF Form
<1>7. CASE Len(t.parts) = 1 /\ a.kind = "text"
  <2>1. content = <<a>> /\ uses = <<>>
    BY <1>1, <1>7, OfKindIs, OfOtherIs
  <2>2. Sent(t) = Message(t.role, "string", <<a>>, <<>>)
    <3> HIDE DEF content, uses, a
    <3> QED BY <1>2, <1>3, <1>5, <1>7, <2>1
  <2> QED BY <1>7, <2>2 DEF Renders
<1>8. CASE Len(t.parts) = 1 /\ a.kind = "use" /\ t.role = "assistant"
  <2>1. content = <<>> /\ uses = <<a>>
    BY <1>1, <1>8, OfKindIs, OfOtherIs
  <2>2. Sent(t) = Message(t.role, "none", <<>>, <<a>>)
    <3> HIDE DEF content, uses, a
    <3> QED BY <1>2, <2>1
  <2> QED BY <1>8, <2>2 DEF Renders
<1>9. CASE Len(t.parts) = 1 /\ a.kind = "result"
  <2>1. content = <<a>> /\ uses = <<>> /\ t.role = "tool"
    BY <1>1, <1>9, OfKindIs, OfOtherIs
  <2>2. Sent(t) = Message("tool", "string", <<a>>, <<>>)
    <3> HIDE DEF content, uses, a
    <3> QED BY <1>2, <1>3, <1>5, <1>9, <2>1
  <2> QED BY <1>9, <2>1, <2>2 DEF Renders
<1>10. CASE Len(t.parts) = 2 /\ a.kind = "text" /\ b.kind = "use" /\ t.role = "assistant"
  <2>1. content = <<a>> /\ uses = <<b>>
    BY <1>1, <1>10, OfKindIs, OfOtherIs
  <2>2. Sent(t) = Message(t.role, "string", <<a>>, <<b>>)
    <3> HIDE DEF content, uses, a, b
    <3> QED BY <1>2, <1>3, <1>5, <1>10, <2>1
  <2> QED BY <1>10, <2>2 DEF Renders
<1>11. CASE Len(t.parts) = 2 /\ a.kind = "text" /\ b.kind \in {"text", "image"} /\ t.role = "user"
  <2>1. content = <<a, b>> /\ uses = <<>>
    BY <1>1, <1>11, OfKindIs, OfOtherIs
  <2>2. Sent(t) = Message(t.role, "list", <<a, b>>, <<>>)
    <3> HIDE DEF content, uses, a, b
    <3> QED BY <1>2, <1>4, <1>6, <1>11, <2>1
  <2> QED BY <1>11, <2>2 DEF Renders
<1> QED BY <1>7, <1>8, <1>9, <1>10, <1>11, TurnCases

\* ... and one that convertMessage makes, are among these.
LEMMA ConvertedRenders ==
  ASSUME NEW t, TurnFacts(t), t.role # "tool"
  PROVE  /\ t.role = "system" => Renders(t, convertSystem(t), "typed")
         /\ t.role # "system" => Renders(t, convertMessage(t), "typed")
<1> DEFINE a == t.parts[1]
           b == t.parts[2]
           texts == OfKind(t.parts, "text")
           images == OfKind(t.parts, "image")
           results == OfKind(t.parts, "result")
           uses == OfKind(t.parts, "use")
           content == texts \o images
           said == IF content = <<>> THEN <<>> ELSE <<Message(t.role, Form(content, "typed"), content, <<>>)>>
           answers == [i \in DOMAIN results |-> Message("tool", "string", <<results[i]>>, <<>>)]
<1>1. t.parts \in Seq(Item) /\ Len(t.parts) \in {1, 2} /\ a \in Item /\ (Len(t.parts) = 2 => b \in Item)
  BY TurnCases
<1>2. /\ t.role = "assistant" =>
           convertMessage(t) = <<Message("assistant", IF texts = <<>> THEN "none" ELSE Form(texts, "typed"), texts, uses)>>
      /\ t.role # "assistant" => convertMessage(t) = said \o answers
      /\ convertSystem(t) = <<Message("system", "string", texts, <<>>)>>
  BY DEF convertMessage, convertSystem, ToolCalls
<1>3. \A x : <<x>> # <<>> /\ Len(<<x>>) = 1 /\ <<x>>[1] = x /\ DOMAIN <<x>> = 1..1
  OBVIOUS
<1>4. \A x, y : <<x, y>> # <<>> /\ Len(<<x, y>>) = 2
  OBVIOUS
<1>5. \A x : x.kind # "image" => Form(<<x>>, "typed") = "string"
  BY <1>3 DEF Form
<1>6. \A x, y : Form(<<x, y>>, "typed") = "typed"
  BY <1>4 DEF Form
<1>7. \A x : <<x>> \o <<>> = <<x>> /\ <<>> \o <<x>> = <<x>>
  OBVIOUS
<1>8. <<>> \o <<>> = <<>>
  OBVIOUS
<1>9. \A x, y : <<x, y>> \o <<>> = <<x, y>> /\ <<x>> \o <<y>> = <<x, y>>
  <2> SUFFICES ASSUME NEW x, NEW y PROVE <<x, y>> \o <<>> = <<x, y>> /\ <<x>> \o <<y>> = <<x, y>>
    OBVIOUS
  <2> DEFINE S == {x, y}
  <2>1. x \in S /\ y \in S
    OBVIOUS
  <2> HIDE DEF S
  <2>2. <<x>> \in Seq(S) /\ <<x, y>> \in Seq(S) /\ <<x, y>> = Append(<<x>>, y)
    BY <2>1
  <2>3. Append(<<x>>, y) = <<x>> \o <<y>>
    BY <2>1, <2>2, AppendIsConcat
  <2>4. <<x, y>> \o <<>> = <<x, y>>
    BY <2>2, ConcatEmptySeq
  <2> QED BY ONLY <2>2, <2>3, <2>4
<1>10. results = <<>> => answers = <<>>
  BY DEF answers
<1>11. \A x : results = <<x>> => answers = <<Message("tool", "string", <<x>>, <<>>)>>
  BY <1>3 DEF answers
<1>12. CASE Len(t.parts) = 1 /\ a.kind = "text" /\ t.role \in {"system", "user", "assistant"}
  <2>1. texts = <<a>> /\ images = <<>> /\ results = <<>> /\ uses = <<>>
    BY <1>1, <1>12, OfKindIs
  <2>2. content = <<a>>
    <3> HIDE DEF texts, images, a
    <3> QED BY <1>7, <2>1
  <2>3. said = <<Message(t.role, "string", <<a>>, <<>>)>> /\ answers = <<>>
    <3> HIDE DEF content, answers, results, a
    <3> QED BY <1>3, <1>5, <1>10, <1>12, <2>1, <2>2
  <2>4. /\ t.role = "system" => convertSystem(t) = <<Message(t.role, "string", <<a>>, <<>>)>>
        /\ t.role # "system" => convertMessage(t) = <<Message(t.role, "string", <<a>>, <<>>)>>
    <3> HIDE DEF texts, images, results, uses, content, said, answers, a
    <3> QED BY <1>2, <1>3, <1>5, <1>7, <1>12, <2>1, <2>3
  <2> QED BY <1>12, <2>4 DEF Renders
<1>13. CASE Len(t.parts) = 1 /\ a.kind = "use" /\ t.role = "assistant"
  <2>1. texts = <<>> /\ uses = <<a>>
    BY <1>1, <1>13, OfKindIs
  <2>2. convertMessage(t) = <<Message(t.role, "none", <<>>, <<a>>)>>
    <3> HIDE DEF texts, uses, said, answers, a
    <3> QED BY <1>2, <1>13, <2>1
  <2> QED BY <1>13, <2>2 DEF Renders
<1>14. CASE Len(t.parts) = 1 /\ a.kind = "result" /\ t.role \in {"user", "tool"}
  <2>1. texts = <<>> /\ images = <<>> /\ results = <<a>>
    BY <1>1, <1>14, OfKindIs
  <2>2. said = <<>>
    <3> HIDE DEF texts, images
    <3> QED BY <1>8, <2>1
  <2>3. answers = <<Message("tool", "string", <<a>>, <<>>)>>
    <3> HIDE DEF results, answers, a
    <3> QED BY <1>11, <2>1
  <2>4. convertMessage(t) = <<Message("tool", "string", <<a>>, <<>>)>>
    <3> HIDE DEF texts, uses, said, answers, a
    <3> QED BY <1>2, <1>7, <1>14, <2>2, <2>3
  <2> QED BY <1>14, <2>4 DEF Renders
<1>15. CASE Len(t.parts) = 2 /\ a.kind = "text" /\ b.kind = "use" /\ t.role = "assistant"
  <2>1. texts = <<a>> /\ uses = <<b>>
    BY <1>1, <1>15, OfKindIs
  <2>2. convertMessage(t) = <<Message(t.role, "string", <<a>>, <<b>>)>>
    <3> HIDE DEF texts, uses, said, answers, a, b
    <3> QED BY <1>2, <1>3, <1>5, <1>15, <2>1
  <2> QED BY <1>15, <2>2 DEF Renders
<1>16. CASE Len(t.parts) = 2 /\ a.kind = "text" /\ b.kind \in {"text", "image"} /\ t.role = "user"
  <2>1. /\ results = <<>>
        /\ b.kind = "text" => texts = <<a, b>> /\ images = <<>>
        /\ b.kind = "image" => texts = <<a>> /\ images = <<b>>
    BY <1>1, <1>16, OfKindIs
  <2>2. content = <<a, b>>
    <3> HIDE DEF texts, images, a, b
    <3> QED BY <1>9, <1>16, <2>1
  <2>3. said = <<Message(t.role, "typed", <<a, b>>, <<>>)>> /\ answers = <<>>
    <3> HIDE DEF content, answers, results, a, b
    <3> QED BY <1>4, <1>6, <1>10, <2>1, <2>2
  <2>4. convertMessage(t) = <<Message(t.role, "typed", <<a, b>>, <<>>)>>
    <3> HIDE DEF texts, uses, said, answers, a, b
    <3> QED BY <1>2, <1>7, <1>16, <2>3
  <2> QED BY <1>16, <2>4 DEF Renders
<1>17. CASE Len(t.parts) = 2 /\ a.kind = "result" /\ b.kind = "text" /\ t.role = "user"
  <2>1. texts = <<b>> /\ images = <<>> /\ results = <<a>>
    BY <1>1, <1>17, OfKindIs
  <2>2. content = <<b>>
    <3> HIDE DEF texts, images, b
    <3> QED BY <1>7, <2>1
  <2>3. said = <<Message("user", "string", <<b>>, <<>>)>> /\ answers = <<Message("tool", "string", <<a>>, <<>>)>>
    <3> HIDE DEF content, answers, results, a, b
    <3> QED BY <1>3, <1>5, <1>11, <1>17, <2>1, <2>2
  <2>4. convertMessage(t) = <<Message("user", "string", <<b>>, <<>>), Message("tool", "string", <<a>>, <<>>)>>
    <3> HIDE DEF texts, uses, said, answers, a, b
    <3> QED BY <1>2, <1>9, <1>17, <2>3
  <2> QED BY <1>17, <2>4 DEF Renders
<1> QED BY <1>12, <1>13, <1>14, <1>15, <1>16, <1>17, TurnCases DEF TurnFacts

-----------------------------------------------------------------------------
(* The chat request made of a conversation.                                *)
Rendered ==
  [i \in DOMAIN turns |->
     IF entry = "chat" THEN <<Sent(turns[i])>>
     ELSE IF turns[i].role = "system" THEN convertSystem(turns[i]) ELSE convertMessage(turns[i])]

Listing == IF entry = "chat" THEN "list" ELSE "typed"

LEMMA RendersType ==
  ASSUME NEW t, TurnFacts(t), NEW ms, NEW list \in MessageForm, Renders(t, ms, list)
  PROVE  ms \in Seq(Msg) /\ Len(ms) \in {1, 2} /\ 1 \in DOMAIN ms
<1> DEFINE a == t.parts[1]
           b == t.parts[2]
<1>1. t.role \in Speaker /\ a \in Item /\ (Len(t.parts) = 2 => b \in Item)
  BY TurnCases
<1>2. /\ "user" \in Speaker /\ "tool" \in Speaker /\ "string" \in MessageForm /\ "none" \in MessageForm
      /\ <<>> \in Seq(Item) /\ <<a>> \in Seq(Item)
      /\ Len(t.parts) = 2 => <<b>> \in Seq(Item) /\ <<a, b>> \in Seq(Item)
  BY <1>1 DEF Speaker, MessageForm
<1>3. \A m \in Msg : <<m>> \in Seq(Msg) /\ Len(<<m>>) = 1 /\ 1 \in DOMAIN <<m>>
  OBVIOUS
<1>4. \A m, n \in Msg : <<m, n>> \in Seq(Msg) /\ Len(<<m, n>>) = 2 /\ 1 \in DOMAIN <<m, n>>
  OBVIOUS
<1>5. \A role \in Speaker, form \in MessageForm, parts \in Seq(Item), calls \in Seq(Item) :
        Message(role, form, parts, calls) \in Msg
  BY MessageType
<1> HIDE DEF a, b
<1>6. CASE Len(t.parts) = 1
  <2>1. /\ Message(t.role, "string", <<a>>, <<>>) \in Msg /\ Message(t.role, "none", <<>>, <<a>>) \in Msg
        /\ Message("tool", "string", <<a>>, <<>>) \in Msg
    BY <1>1, <1>2, <1>5
  <2>2. \/ ms = <<Message(t.role, "string", <<a>>, <<>>)>>
        \/ ms = <<Message(t.role, "none", <<>>, <<a>>)>>
        \/ ms = <<Message("tool", "string", <<a>>, <<>>)>>
    BY <1>6 DEF Renders, a
  <2>3. \E m \in Msg : ms = <<m>>
    BY <2>1, <2>2
  <2> QED BY <1>3, <2>3
<1>7. CASE Len(t.parts) = 2
  <2>1. /\ Message(t.role, "string", <<a>>, <<b>>) \in Msg /\ Message(t.role, list, <<a, b>>, <<>>) \in Msg
        /\ Message("user", "string", <<b>>, <<>>) \in Msg /\ Message("tool", "string", <<a>>, <<>>) \in Msg
    BY <1>1, <1>2, <1>5, <1>7
  <2>2. \/ ms = <<Message(t.role, "string", <<a>>, <<b>>)>>
        \/ ms = <<Message(t.role, list, <<a, b>>, <<>>)>>
        \/ ms = <<Message("user", "string", <<b>>, <<>>), Message("tool", "string", <<a>>, <<>>)>>
    BY <1>7 DEF Renders, a, b
  <2>3. (\E m \in Msg : ms = <<m>>) \/ (\E m, n \in Msg : ms = <<m, n>>)
    BY <2>1, <2>2
  <2> QED BY <1>3, <1>4, <2>3
<1>8. Len(t.parts) \in {1, 2}
  BY DEF TurnFacts
<1> QED BY <1>6, <1>7, <1>8

\* Every turn of a conversation is rendered so.
LEMMA RenderedIs ==
  ASSUME ConversationInv
  PROVE  /\ turns \in Seq(Turn) /\ Len(turns) \in Nat /\ DOMAIN turns = 1..Len(turns)
         /\ Rendered \in Seq(Seq(Msg)) /\ Len(Rendered) = Len(turns) /\ DOMAIN Rendered = DOMAIN turns
         /\ \A i \in DOMAIN turns : Renders(turns[i], Rendered[i], Listing)
<1>1. turns \in Seq(Turn) /\ Len(turns) \in Nat /\ DOMAIN turns = 1..Len(turns)
  BY LenProperties DEF ConversationInv, ConversionTypeOK
<1>2. ASSUME NEW i \in DOMAIN turns
      PROVE  Renders(turns[i], Rendered[i], Listing) /\ Rendered[i] \in Seq(Msg)
  <2>1. TurnFacts(turns[i])
    BY TurnsHave
  <2>2. turns[i].parts[1].kind = "result" => (turns[i].role = "tool" <=> entry = "chat")
    <3>1. turns[i].parts[1] \in ToSet(turns[i].parts)
      <4>1. 1 \in DOMAIN turns[i].parts
        BY <2>1 DEF TurnFacts
      <4> QED BY <4>1 DEF ToSet
    <3> QED BY <3>1 DEF ConversationInv
  <2>3. turns[i].role = "tool" => Len(turns[i].parts) = 1 /\ turns[i].parts[1].kind = "result"
    BY <2>1 DEF TurnFacts
  <2>4. Renders(turns[i], Rendered[i], Listing)
    <3>1. CASE entry = "chat"
      <4>1. Renders(turns[i], <<Sent(turns[i])>>, "list")
        BY <2>1, <2>2, <2>3, <3>1, SentRenders
      <4> QED BY <3>1, <4>1 DEF Rendered, Listing
    <3>2. CASE entry # "chat"
      <4>1. turns[i].role # "tool"
        BY <2>2, <2>3, <3>2
      <4> QED BY <2>1, <3>2, <4>1, ConvertedRenders DEF Rendered, Listing
    <3> QED BY <3>1, <3>2
  <2>5. Listing \in MessageForm
    BY DEF Listing, MessageForm
  <2> QED BY <2>1, <2>4, <2>5, RendersType
<1>3. DOMAIN Rendered = DOMAIN turns
  BY DEF Rendered
<1>4. Rendered \in Seq(Seq(Msg)) /\ Len(Rendered) = Len(turns)
  <2>1. Rendered = [i \in 1..Len(turns) |-> Rendered[i]]
    BY <1>1 DEF Rendered
  <2> QED BY <1>1, <1>2, <2>1
<1> QED BY <1>1, <1>2, <1>3, <1>4

\* The first N of ss are the first n of aa and then the first m of bb, in their order.
Halves(ss, N, aa, n, bb, m) ==
  /\ \A x \in 1..n : \E i \in 1..N : ss[i] = aa[x]
  /\ \A y \in 1..m : \E i \in 1..N : ss[i] = bb[y]
  /\ \A i \in 1..N : (\E x \in 1..n : ss[i] = aa[x]) \/ (\E y \in 1..m : ss[i] = bb[y])
  /\ \A x, y \in 1..n : x < y => \E i, l \in 1..N : i < l /\ ss[i] = aa[x] /\ ss[l] = aa[y]
  /\ \A x, y \in 1..m : x < y => \E i, l \in 1..N : i < l /\ ss[i] = bb[x] /\ ss[l] = bb[y]
  /\ \A x \in 1..n, y \in 1..m : \E i, l \in 1..N : i < l /\ ss[i] = aa[x] /\ ss[l] = bb[y]

\* Two sequences, one of the first places and one of the others, make one of all.
LEMMA PlacedConcat ==
  ASSUME NEW S, NEW aa, NEW bb, NEW ss, NEW N, NEW n, NEW m,
         NEW f \in Seq(S), NEW g \in Seq(S), Placed(f, aa, n), Placed(g, bb, m), Halves(ss, N, aa, n, bb, m)
  PROVE  Placed(f \o g, ss, N)
<1> DEFINE h == f \o g
           F == Len(f)
<1>1. /\ F \in Nat /\ Len(g) \in Nat /\ DOMAIN f = 1..F /\ DOMAIN g = 1..Len(g)
      /\ DOMAIN h = 1..(F + Len(g))
      /\ \A k \in 1..(F + Len(g)) : h[k] = IF k <= F THEN f[k] ELSE g[k - F]
  BY LenProperties, ConcatProperties
<1> HIDE DEF h, F
<1>2. ASSUME NEW k \in DOMAIN h
      PROVE  (k \in DOMAIN f /\ h[k] = f[k]) \/ (k > F /\ k - F \in DOMAIN g /\ h[k] = g[k - F])
  <2>1. CASE k <= F
    BY <1>1, <2>1
  <2>2. CASE ~(k <= F)
    <3>1. k > F /\ k - F \in 1..Len(g)
      BY <1>1, <2>2
    <3> QED BY <1>1, <2>2, <3>1
  <2> QED BY <2>1, <2>2
<1>3. \A k \in DOMAIN f : k \in DOMAIN h /\ h[k] = f[k]
  BY <1>1
<1>4. ASSUME NEW a \in DOMAIN g PROVE a + F \in DOMAIN h /\ h[a + F] = g[a]
  <2>1. a \in 1..Len(g) /\ a + F \in 1..(F + Len(g)) /\ ~(a + F <= F) /\ (a + F) - F = a
    BY <1>1
  <2> QED BY <1>1, <2>1
<1>5. ASSUME NEW k \in DOMAIN h PROVE \E i \in 1..N : \E a \in DOMAIN ss[i] : h[k] = ss[i][a]
  <2>1. CASE k \in DOMAIN f /\ h[k] = f[k]
    <3>1. PICK x \in 1..n : \E a \in DOMAIN aa[x] : f[k] = aa[x][a]
      BY <2>1 DEF Placed
    <3>2. PICK i \in 1..N : ss[i] = aa[x]
      BY DEF Halves
    <3> QED BY <2>1, <3>1, <3>2
  <2>2. CASE k - F \in DOMAIN g /\ h[k] = g[k - F]
    <3>1. PICK y \in 1..m : \E a \in DOMAIN bb[y] : g[k - F] = bb[y][a]
      BY <2>2 DEF Placed
    <3>2. PICK i \in 1..N : ss[i] = bb[y]
      BY DEF Halves
    <3> QED BY <2>2, <3>1, <3>2
  <2> QED BY <1>2, <2>1, <2>2
<1>6. ASSUME NEW i \in 1..N, NEW a \in DOMAIN ss[i] PROVE \E k \in DOMAIN h : h[k] = ss[i][a]
  <2>1. CASE \E x \in 1..n : ss[i] = aa[x]
    <3>1. PICK x \in 1..n : ss[i] = aa[x]
      BY <2>1
    <3>2. PICK k \in DOMAIN f : f[k] = aa[x][a]
      BY <3>1 DEF Placed
    <3>3. k \in DOMAIN h /\ h[k] = f[k]
      BY <1>3
    <3> QED BY <3>1, <3>2, <3>3
  <2>2. CASE \E y \in 1..m : ss[i] = bb[y]
    <3>1. PICK y \in 1..m : ss[i] = bb[y]
      BY <2>2
    <3>2. PICK k \in DOMAIN g : g[k] = bb[y][a]
      BY <3>1 DEF Placed
    <3>3. k + F \in DOMAIN h /\ h[k + F] = g[k]
      BY <1>4
    <3> QED BY <3>1, <3>2, <3>3
  <2> QED BY <2>1, <2>2 DEF Halves
<1>7. ASSUME NEW j \in DOMAIN h, NEW k \in DOMAIN h, j < k
      PROVE  \E i, l \in 1..N : \E a \in DOMAIN ss[i] : \E b \in DOMAIN ss[l] :
               h[j] = ss[i][a] /\ h[k] = ss[l][b] /\ (i < l \/ (i = l /\ a < b))
  <2>1. CASE k \in DOMAIN f /\ h[k] = f[k]
    <3>1. j \in DOMAIN f /\ h[j] = f[j]
      BY <1>1, <1>3, <1>7, <2>1
    <3>2. PICK x, y \in 1..n : \E a \in DOMAIN aa[x] : \E b \in DOMAIN aa[y] :
            f[j] = aa[x][a] /\ f[k] = aa[y][b] /\ (x < y \/ (x = y /\ a < b))
      <4>1. Precedes(f, aa, n, j, k)
        BY <1>7, <2>1, <3>1, PlacedOrder
      <4> QED BY <4>1 DEF Precedes
    <3>3. CASE x < y
      <4>1. PICK i, l \in 1..N : i < l /\ ss[i] = aa[x] /\ ss[l] = aa[y]
        BY <3>3 DEF Halves
      <4> QED BY <2>1, <3>1, <3>2, <4>1
    <3>4. CASE x = y
      <4>1. PICK i \in 1..N : ss[i] = aa[x]
        BY DEF Halves
      <4>2. PICK a, b \in DOMAIN ss[i] : f[j] = ss[i][a] /\ f[k] = ss[i][b] /\ a < b
        BY <3>2, <3>4, <4>1
      <4> QED BY <2>1, <3>1, <4>2
    <3> QED BY <3>2, <3>3, <3>4
  <2>2. CASE k > F /\ k - F \in DOMAIN g /\ h[k] = g[k - F]
    <3>1. CASE j \in DOMAIN f /\ h[j] = f[j]
      <4>1. PICK x \in 1..n : \E a \in DOMAIN aa[x] : f[j] = aa[x][a]
        BY <3>1 DEF Placed
      <4>2. PICK y \in 1..m : \E b \in DOMAIN bb[y] : g[k - F] = bb[y][b]
        BY <2>2 DEF Placed
      <4>3. PICK i, l \in 1..N : i < l /\ ss[i] = aa[x] /\ ss[l] = bb[y]
        BY DEF Halves
      <4> QED BY <2>2, <3>1, <4>1, <4>2, <4>3
    <3>2. CASE j > F /\ j - F \in DOMAIN g /\ h[j] = g[j - F]
      <4>1. j - F < k - F
        BY <1>1, <1>7
      <4>2. PICK x, y \in 1..m : \E a \in DOMAIN bb[x] : \E b \in DOMAIN bb[y] :
              g[j - F] = bb[x][a] /\ g[k - F] = bb[y][b] /\ (x < y \/ (x = y /\ a < b))
        <5> DEFINE c == j - F
                   d == k - F
        <5>1. c \in DOMAIN g /\ d \in DOMAIN g /\ c < d
          BY <2>2, <3>2, <4>1
        <5> HIDE DEF c, d
        <5>2. \E x, y \in 1..m : \E a \in DOMAIN bb[x] : \E b \in DOMAIN bb[y] :
                g[c] = bb[x][a] /\ g[d] = bb[y][b] /\ (x < y \/ (x = y /\ a < b))
          <6>1. Precedes(g, bb, m, c, d)
            BY <5>1, PlacedOrder
          <6> QED BY <6>1 DEF Precedes
        <5> QED BY <5>2 DEF c, d
      <4>3. CASE x < y
        <5>1. PICK i, l \in 1..N : i < l /\ ss[i] = bb[x] /\ ss[l] = bb[y]
          BY <4>3 DEF Halves
        <5> QED BY <2>2, <3>2, <4>2, <5>1
      <4>4. CASE x = y
        <5>1. PICK i \in 1..N : ss[i] = bb[x]
          BY DEF Halves
        <5>2. PICK a, b \in DOMAIN ss[i] : g[j - F] = ss[i][a] /\ g[k - F] = ss[i][b] /\ a < b
          BY <4>2, <4>4, <5>1
        <5> QED BY <2>2, <3>2, <5>2
      <4> QED BY <4>2, <4>3, <4>4
    <3> QED BY <1>2, <3>1, <3>2
  <2> QED BY <1>2, <2>1, <2>2
<1>8. Placed(h, ss, N)
  BY <1>5, <1>6, <1>7 DEF Placed
<1> QED BY <1>8 DEF h

\* The request has the messages of the turns, turn after turn; only a conversation of
\* system prompts makes none.
LEMMA ChatRequest ==
  ASSUME ConversationInv, entry = "chat"
  PROVE  FirstTry \in Seq(Msg) /\ Placed(FirstTry, Rendered, Len(turns)) /\ (FirstTry = Invalid => turns = <<>>)
<1>1. /\ turns \in Seq(Turn) /\ Len(turns) \in Nat /\ DOMAIN turns = 1..Len(turns)
      /\ Rendered \in Seq(Seq(Msg)) /\ Len(Rendered) = Len(turns)
  BY RenderedIs
<1>2. FirstTry = [i \in DOMAIN turns |-> Sent(turns[i])] /\ Rendered = [i \in DOMAIN turns |-> <<Sent(turns[i])>>]
  BY DEF FirstTry, Rendered
<1>3. \A i \in DOMAIN turns : Sent(turns[i]) \in Msg
  <2>1. ASSUME NEW i \in DOMAIN turns PROVE Sent(turns[i]) \in Msg
    <3>1. Rendered[i] = <<Sent(turns[i])>> /\ Rendered[i] \in Seq(Msg)
      BY <1>1, <1>2
    <3> QED BY <3>1
  <2> QED BY <2>1
<1>4. FirstTry \in Seq(Msg) /\ DOMAIN FirstTry = DOMAIN turns /\ Len(FirstTry) = Len(turns)
  BY <1>1, <1>2, <1>3
<1>5. Rendered = [i \in DOMAIN FirstTry |-> <<FirstTry[i]>>]
  BY <1>2
<1>6. FlattenSeq(Rendered) = FirstTry
  BY <1>4, <1>5, FlattenSingles
<1>7. Placed(FirstTry, Rendered, Len(turns))
  BY <1>1, <1>6, FlattenPlaced
<1>8. FirstTry = Invalid => turns = <<>>
  <2>1. FirstTry = <<>> => Len(turns) = 0
    BY <1>4
  <2> QED BY <1>1, <2>1, EmptySeq DEF Invalid
<1> QED BY <1>4, <1>7, <1>8

LEMMA MessagesRequest ==
  ASSUME ConversationInv, entry = "messages"
  PROVE  /\ FirstTry \in Seq(Msg)
         /\ FirstTry # Invalid => Placed(FirstTry, Rendered, Len(turns))
         /\ FirstTry = Invalid => turns = From(turns, "system")
<1> DEFINE N == Len(turns)
           I == {i \in DOMAIN turns : turns[i].role = "system"}
           J == {i \in DOMAIN turns : turns[i].role # "system"}
           sys == From(turns, "system")
           rest == Without(turns, "system")
           aa == [x \in DOMAIN sys |-> convertSystem(sys[x])]
           bb == [y \in DOMAIN rest |-> convertMessage(rest[y])]
<1>1. /\ turns \in Seq(Turn) /\ N \in Nat /\ DOMAIN turns = 1..N
      /\ Rendered \in Seq(Seq(Msg)) /\ \A i \in 1..N : Rendered[i] \in Seq(Msg)
  BY RenderedIs
<1>2. sys = Only(turns, I) /\ rest = Only(turns, J)
  BY DEF From, Without
<1>3. \A i \in 1..N : (i \in I <=> turns[i].role = "system") /\ (i \in J <=> turns[i].role # "system")
  BY <1>1
<1>4. \A i \in I : i = 1
  BY <1>1, <1>3 DEF ConversationInv
<1>5. \A i \in 1..N : /\ i \in I => Rendered[i] = convertSystem(turns[i])
                      /\ i \in J => Rendered[i] = convertMessage(turns[i])
  BY <1>1, <1>3 DEF Rendered
<1>6. I \subseteq 1..N /\ J \subseteq 1..N /\ \A i \in 1..N : i \in I \/ i \in J
  BY <1>1
<1> HIDE DEF sys, rest, I, J
<1>7. /\ sys \in Seq(Turn) /\ Len(sys) \in Nat /\ DOMAIN sys = 1..Len(sys)
      /\ \A x \in DOMAIN sys : \E i \in 1..N : i \in I /\ sys[x] = turns[i]
      /\ \A i \in 1..N : i \in I => \E x \in DOMAIN sys : sys[x] = turns[i]
      /\ \A x, y \in DOMAIN sys : x < y =>
           \E i, l \in 1..N : i \in I /\ l \in I /\ i < l /\ sys[x] = turns[i] /\ sys[y] = turns[l]
  <2>1. /\ Only(turns, I) \in Seq(Turn)
        /\ Len(Only(turns, I)) \in Nat /\ DOMAIN Only(turns, I) = 1..Len(Only(turns, I))
        /\ \A k \in DOMAIN Only(turns, I) : \E a \in DOMAIN turns : a \in I /\ Only(turns, I)[k] = turns[a]
        /\ \A a \in DOMAIN turns : a \in I => \E k \in DOMAIN Only(turns, I) : Only(turns, I)[k] = turns[a]
        /\ \A j, k \in DOMAIN Only(turns, I) : j < k =>
             \E a, b \in DOMAIN turns :
               a \in I /\ b \in I /\ a < b /\ Only(turns, I)[j] = turns[a] /\ Only(turns, I)[k] = turns[b]
    <3>1. turns \in Seq(Turn)
      BY <1>1
    <3> QED BY ONLY <3>1, OnlyIs
  <2>2. sys = Only(turns, I) /\ DOMAIN turns = 1..N
    BY <1>1, <1>2
  <2>3. sys \in Seq(Turn) /\ Len(sys) \in Nat /\ DOMAIN sys = 1..Len(sys)
    BY ONLY <2>1, <2>2
  <2>4. \A x \in DOMAIN sys : \E i \in 1..N : i \in I /\ sys[x] = turns[i]
    BY ONLY <2>1, <2>2
  <2>5. \A i \in 1..N : i \in I => \E x \in DOMAIN sys : sys[x] = turns[i]
    BY ONLY <2>1, <2>2
  <2>6. \A x, y \in DOMAIN sys : x < y =>
          \E i, l \in 1..N : i \in I /\ l \in I /\ i < l /\ sys[x] = turns[i] /\ sys[y] = turns[l]
    BY ONLY <2>1, <2>2, SMTT(30)
  <2> QED BY <2>3, <2>4, <2>5, <2>6
<1>8. /\ rest \in Seq(Turn) /\ Len(rest) \in Nat /\ DOMAIN rest = 1..Len(rest)
      /\ \A x \in DOMAIN rest : \E i \in 1..N : i \in J /\ rest[x] = turns[i]
      /\ \A i \in 1..N : i \in J => \E x \in DOMAIN rest : rest[x] = turns[i]
      /\ \A x, y \in DOMAIN rest : x < y =>
           \E i, l \in 1..N : i \in J /\ l \in J /\ i < l /\ rest[x] = turns[i] /\ rest[y] = turns[l]
  <2>1. /\ Only(turns, J) \in Seq(Turn)
        /\ Len(Only(turns, J)) \in Nat /\ DOMAIN Only(turns, J) = 1..Len(Only(turns, J))
        /\ \A k \in DOMAIN Only(turns, J) : \E a \in DOMAIN turns : a \in J /\ Only(turns, J)[k] = turns[a]
        /\ \A a \in DOMAIN turns : a \in J => \E k \in DOMAIN Only(turns, J) : Only(turns, J)[k] = turns[a]
        /\ \A j, k \in DOMAIN Only(turns, J) : j < k =>
             \E a, b \in DOMAIN turns :
               a \in J /\ b \in J /\ a < b /\ Only(turns, J)[j] = turns[a] /\ Only(turns, J)[k] = turns[b]
    <3>1. turns \in Seq(Turn)
      BY <1>1
    <3> QED BY ONLY <3>1, OnlyIs
  <2>2. rest = Only(turns, J) /\ DOMAIN turns = 1..N
    BY <1>1, <1>2
  <2>3. rest \in Seq(Turn) /\ Len(rest) \in Nat /\ DOMAIN rest = 1..Len(rest)
    BY ONLY <2>1, <2>2
  <2>4. \A x \in DOMAIN rest : \E i \in 1..N : i \in J /\ rest[x] = turns[i]
    BY ONLY <2>1, <2>2
  <2>5. \A i \in 1..N : i \in J => \E x \in DOMAIN rest : rest[x] = turns[i]
    BY ONLY <2>1, <2>2
  <2>6. \A x, y \in DOMAIN rest : x < y =>
          \E i, l \in 1..N : i \in J /\ l \in J /\ i < l /\ rest[x] = turns[i] /\ rest[y] = turns[l]
    BY ONLY <2>1, <2>2, SMTT(30)
  <2> QED BY <2>3, <2>4, <2>5, <2>6
<1>9. aa \in Seq(Seq(Msg)) /\ Len(aa) = Len(sys) /\ \A x \in 1..Len(sys) : aa[x] = convertSystem(sys[x])
  <2>1. ASSUME NEW x \in DOMAIN sys PROVE convertSystem(sys[x]) \in Seq(Msg)
    <3>1. PICK i \in 1..N : i \in I /\ sys[x] = turns[i]
      BY <1>7
    <3> QED BY <1>1, <1>5, <3>1
  <2> QED BY <1>7, <2>1
<1>10. bb \in Seq(Seq(Msg)) /\ Len(bb) = Len(rest) /\ \A y \in 1..Len(rest) : bb[y] = convertMessage(rest[y])
  <2>1. ASSUME NEW y \in DOMAIN rest PROVE convertMessage(rest[y]) \in Seq(Msg)
    <3>1. PICK i \in 1..N : i \in J /\ rest[y] = turns[i]
      BY <1>8
    <3> QED BY <1>1, <1>5, <3>1
  <2> QED BY <1>8, <2>1
<1>11. FirstTry = IF rest = <<>> \/ \E i \in DOMAIN rest : ~ValidRole(rest[i].role) THEN Invalid
                  ELSE FlattenSeq(aa) \o FlattenSeq(bb)
  BY DEF FirstTry, ToOpenAIRequest, All, sys, rest
<1> HIDE DEF aa, bb
<1>12. /\ FlattenSeq(aa) \in Seq(Msg) /\ Placed(FlattenSeq(aa), aa, Len(aa))
       /\ FlattenSeq(bb) \in Seq(Msg) /\ Placed(FlattenSeq(bb), bb, Len(bb))
  BY <1>9, <1>10, FlattenPlaced
<1>13. Halves(Rendered, N, aa, Len(aa), bb, Len(bb))
  <2>1. ASSUME NEW x \in 1..Len(aa)
        PROVE  \E i \in 1..N : i \in I /\ sys[x] = turns[i] /\ Rendered[i] = aa[x]
    <3>1. x \in DOMAIN sys /\ aa[x] = convertSystem(sys[x])
      BY <1>7, <1>9
    <3>2. PICK i \in 1..N : i \in I /\ sys[x] = turns[i]
      BY <1>7, <3>1
    <3> QED BY <1>5, <3>1, <3>2
  <2>2. ASSUME NEW y \in 1..Len(bb)
        PROVE  \E i \in 1..N : i \in J /\ rest[y] = turns[i] /\ Rendered[i] = bb[y]
    <3>1. y \in DOMAIN rest /\ bb[y] = convertMessage(rest[y])
      BY <1>8, <1>10
    <3>2. PICK i \in 1..N : i \in J /\ rest[y] = turns[i]
      BY <1>8, <3>1
    <3> QED BY <1>5, <3>1, <3>2
  <2>3. ASSUME NEW i \in 1..N
        PROVE  (\E x \in 1..Len(aa) : Rendered[i] = aa[x]) \/ (\E y \in 1..Len(bb) : Rendered[i] = bb[y])
    <3>1. CASE i \in I
      <4>1. PICK x \in DOMAIN sys : sys[x] = turns[i]
        BY <1>7, <3>1
      <4>2. x \in 1..Len(aa) /\ aa[x] = convertSystem(turns[i]) /\ Rendered[i] = convertSystem(turns[i])
        BY <1>5, <1>7, <1>9, <3>1, <4>1
      <4> QED BY <4>2
    <3>2. CASE i \in J
      <4>1. PICK y \in DOMAIN rest : rest[y] = turns[i]
        BY <1>8, <3>2
      <4>2. y \in 1..Len(bb) /\ bb[y] = convertMessage(turns[i]) /\ Rendered[i] = convertMessage(turns[i])
        BY <1>5, <1>8, <1>10, <3>2, <4>1
      <4> QED BY <4>2
    <3> QED BY <1>6, <3>1, <3>2
  <2>4. ASSUME NEW x \in 1..Len(aa), NEW y \in 1..Len(aa), x < y
        PROVE  \E i, l \in 1..N : i < l /\ Rendered[i] = aa[x] /\ Rendered[l] = aa[y]
    <3>0. x \in DOMAIN sys /\ y \in DOMAIN sys
      BY <1>7, <1>9
    <3>1. PICK i, l \in 1..N : i \in I /\ l \in I /\ i < l /\ sys[x] = turns[i] /\ sys[y] = turns[l]
      BY <1>7, <2>4, <3>0
    <3> QED BY <1>5, <1>9, <3>1
  <2>5. ASSUME NEW x \in 1..Len(bb), NEW y \in 1..Len(bb), x < y
        PROVE  \E i, l \in 1..N : i < l /\ Rendered[i] = bb[x] /\ Rendered[l] = bb[y]
    <3>0. x \in DOMAIN rest /\ y \in DOMAIN rest
      BY <1>8, <1>10
    <3>1. PICK i, l \in 1..N : i \in J /\ l \in J /\ i < l /\ rest[x] = turns[i] /\ rest[y] = turns[l]
      BY <1>8, <2>5, <3>0
    <3> QED BY <1>5, <1>10, <3>1
  <2>6. ASSUME NEW x \in 1..Len(aa), NEW y \in 1..Len(bb)
        PROVE  \E i, l \in 1..N : i < l /\ Rendered[i] = aa[x] /\ Rendered[l] = bb[y]
    <3>1. PICK i \in 1..N : i \in I /\ Rendered[i] = aa[x]
      BY <2>1
    <3>2. PICK l \in 1..N : l \in J /\ Rendered[l] = bb[y]
      BY <2>2
    <3>3. i = 1 /\ l # 1
      <4>1. turns[i].role = "system" /\ turns[l].role # "system"
        BY <1>3, <3>1, <3>2
      <4> QED BY <1>4, <3>1, <4>1
    <3>4. i < l
      BY <1>1, <3>3
    <3> QED BY <3>1, <3>2, <3>4
  <2> QED BY <2>1, <2>2, <2>3, <2>4, <2>5, <2>6 DEF Halves
<1>14. Placed(FlattenSeq(aa) \o FlattenSeq(bb), Rendered, N)
  BY <1>12, <1>13, PlacedConcat
<1>15. \A i \in DOMAIN rest : ValidRole(rest[i].role)
  <2>1. ASSUME NEW i \in DOMAIN rest PROVE ValidRole(rest[i].role)
    <3>1. PICK k \in 1..N : k \in J /\ rest[i] = turns[k]
      BY <1>8
    <3>2. TurnFacts(turns[k])
      BY <1>1, TurnsHave
    <3>3. turns[k].role # "tool"
      <4>1. turns[k].role = "tool" => turns[k].parts[1] \in ToSet(turns[k].parts) /\ turns[k].parts[1].kind = "result"
        <5>1. 1 \in DOMAIN turns[k].parts
          BY <3>2 DEF TurnFacts
        <5> QED BY <3>2, <5>1 DEF TurnFacts, ToSet
      <4> QED BY <1>1, <4>1 DEF ConversationInv
    <3>4. turns[k].role \in {"system", "user", "assistant", "tool"}
      BY <3>2 DEF TurnFacts, Turn, Speaker
    <3> QED BY <3>1, <3>3, <3>4 DEF ValidRole
  <2> QED BY <2>1
<1>16. CASE rest = <<>>
  <2>1. \A i \in 1..N : i \in I
    <3>1. DOMAIN rest = {}
      BY <1>16
    <3> QED BY <1>6, <1>8, <3>1
  <2>2. \A i \in DOMAIN turns : i \in I
    BY <1>1, <2>1
  <2>3. sys = turns
    BY <1>1, <1>2, <2>2, OnlyAll
  <2>4. FirstTry = Invalid
    BY <1>11, <1>16
  <2> QED BY <2>3, <2>4 DEF sys, Invalid
<1>17. CASE rest # <<>>
  <2>1. FirstTry = FlattenSeq(aa) \o FlattenSeq(bb)
    BY <1>11, <1>15, <1>17
  <2>2. FirstTry # <<>>
    <3>1. 1 \in DOMAIN rest
      BY <1>8, <1>17, EmptySeq
    <3>2. PICK i \in 1..N : i \in J /\ rest[1] = turns[i]
      BY <1>8, <3>1
    <3>3. Renders(turns[i], Rendered[i], Listing) /\ TurnFacts(turns[i]) /\ Listing \in MessageForm
      BY <1>1, RenderedIs, TurnsHave DEF Listing, MessageForm
    <3>4. 1 \in DOMAIN Rendered[i]
      BY <3>3, RendersType
    <3>5. \E k \in DOMAIN FirstTry : FirstTry[k] = Rendered[i][1]
      BY <1>14, <2>1, <3>4 DEF Placed
    <3> QED BY <3>5
  <2>3. FirstTry \in Seq(Msg)
    BY <1>12, <2>1, ConcatProperties
  <2> QED BY <1>14, <2>1, <2>2, <2>3 DEF Invalid
<1> QED BY <1>16, <1>17

\* A request has the messages of one turn after another.  It is refused when there is
\* nothing but system prompts.
LEMMA FirstTryIs ==
  ASSUME ConversationInv
  PROVE  /\ FirstTry \in Seq(Msg)
         /\ FirstTry # Invalid => Placed(FirstTry, Rendered, Len(turns))
         /\ FirstTry = Invalid => turns = From(turns, "system")
<1>1. CASE entry = "chat"
  <2>1. turns = <<>> => turns = From(turns, "system")
    <3> SUFFICES ASSUME turns = <<>> PROVE turns = From(turns, "system")
      OBVIOUS
    <3>1. \A i \in DOMAIN turns : i \in {k \in DOMAIN turns : turns[k].role = "system"}
      OBVIOUS
    <3>2. turns \in Seq(Turn)
      BY RenderedIs
    <3> QED BY <3>1, <3>2, OnlyAll DEF From
  <2> QED BY <1>1, <2>1, ChatRequest
<1>2. CASE entry = "messages"
  BY <1>2, MessagesRequest
<1> QED BY <1>1, <1>2 DEF ConversationInv, ConversionTypeOK

-----------------------------------------------------------------------------
(* What is known of the messages of a request.                             *)

\* A part is of one turn.
LEMMA TurnOfPart ==
  ASSUME ConversationInv, NEW i \in DOMAIN turns, NEW p \in ToSet(turns[i].parts)
  PROVE  TurnOf(p) = i /\ p \in Item
<1>1. \A k \in DOMAIN turns : \A q \in ToSet(turns[k].parts) : q \in Item
  <2>1. ASSUME NEW k \in DOMAIN turns, NEW q \in ToSet(turns[k].parts) PROVE q \in Item
    <3>1. TurnFacts(turns[k])
      BY TurnsHave
    <3>2. PICK a \in DOMAIN turns[k].parts : q = turns[k].parts[a]
      BY DEF ToSet
    <3> QED BY <3>1, <3>2 DEF TurnFacts
  <2> QED BY <2>1
<1>2. p.n \in Nat
  BY <1>1 DEF Item
<1>3. DOMAIN turns = 1..Len(turns) /\ Len(turns) \in Nat
  BY RenderedIs
<1>4. ASSUME NEW j \in DOMAIN turns, p \in ToSet(turns[j].parts) PROVE j = i
  <2>1. ~(i < j) /\ ~(j < i)
    <3>1. i < j => p.n < p.n
      BY <1>4 DEF ConversationInv
    <3>2. j < i => p.n < p.n
      BY <1>4 DEF ConversationInv
    <3> QED BY <1>2, <3>1, <3>2
  <2> QED BY <1>3, <2>1
<1>5. TurnOf(p) = i
  BY <1>4 DEF TurnOf
<1> QED BY <1>1, <1>5

\* A message of the turn i.
OfTurn(m, i) ==
  /\ m \in Msg /\ Items(m) # {}
  /\ \A k \in DOMAIN m.parts : m.parts[k] \in ToSet(turns[i].parts) /\ m.parts[k].kind # "use"
  /\ \A k \in DOMAIN m.calls : m.calls[k] \in ToSet(turns[i].parts) /\ m.calls[k].kind = "use"
  /\ \A k, l \in DOMAIN m.parts : k < l =>
       m.parts[k].n < m.parts[l].n /\ m.parts[l].kind \in {"text", "image"} /\ turns[i].role = "user"
  /\ \A k, l \in DOMAIN m.calls : k = l
  /\ m.role = "system" <=> turns[i].role = "system"
  /\ m.role = "user" => turns[i].role = "user"

\* The second message of a turn is a result, the first a text.
SecondIsResult(ms) ==
  \A x, y \in DOMAIN ms : x < y =>
    /\ \A p \in Items(ms[x]) : p.kind = "text"
    /\ \A q \in Items(ms[y]) : q.kind = "result"
    /\ ms[y].role = "tool"

\* Every text, image and result of a turn is in a message of the form due; every call too.
Lists(t) == \E q, r \in ToSet(t.parts) : q.n # r.n /\ {q.kind, r.kind} \subseteq {"text", "image"}
Tells(t, ms) ==
  \A p \in ToSet(t.parts) :
    \E x \in DOMAIN ms :
      /\ p.kind # "use" => p \in ToSet(ms[x].parts) /\ ms[x].form = IF Lists(t) THEN Listing ELSE "string"
      /\ p.kind = "use" => p \in ToSet(ms[x].calls) /\
                           (ms[x].form = "string" \/ \A q \in ToSet(t.parts) : q.kind # "text")

LEMMA OneElement ==
  ASSUME NEW x
  PROVE  DOMAIN <<x>> = {1} /\ <<x>>[1] = x /\ ToSet(<<x>>) = {x} /\ Len(<<x>>) = 1
BY DEF ToSet

LEMMA TwoElements ==
  ASSUME NEW x, NEW y
  PROVE  DOMAIN <<x, y>> = {1, 2} /\ <<x, y>>[1] = x /\ <<x, y>>[2] = y /\ ToSet(<<x, y>>) = {x, y}
<1>1. DOMAIN <<x, y>> = {1, 2} /\ <<x, y>>[1] = x /\ <<x, y>>[2] = y
  OBVIOUS
<1> QED BY <1>1 DEF ToSet

LEMMA OneOfTurn ==
  ASSUME ConversationInv, NEW i \in DOMAIN turns, NEW role \in Speaker, NEW form \in MessageForm,
         NEW a \in ToSet(turns[i].parts), a \in Item, a.kind # "use",
         role = "system" <=> turns[i].role = "system", role = "user" => turns[i].role = "user"
  PROVE  /\ OfTurn(Message(role, form, <<a>>, <<>>), i)
         /\ \A b \in ToSet(turns[i].parts) : b \in Item /\ b.kind = "use" =>
              OfTurn(Message(role, form, <<a>>, <<b>>), i)
<1>1. /\ <<a>> \in Seq(Item) /\ <<>> \in Seq(Item) /\ \A b \in Item : <<b>> \in Seq(Item)
      /\ DOMAIN <<>> = {} /\ ToSet(<<>>) = {}
  BY DEF ToSet
<1>2. \A x : DOMAIN <<x>> = {1} /\ <<x>>[1] = x /\ ToSet(<<x>>) = {x}
  BY OneElement
<1>3. OfTurn(Message(role, form, <<a>>, <<>>), i)
  <2> DEFINE m == Message(role, form, <<a>>, <<>>)
  <2>1. m \in Msg
    BY <1>1, MessageType
  <2>2. m.role = role /\ m.parts = <<a>> /\ m.calls = <<>>
    BY DEF Message
  <2> HIDE DEF m
  <2>3. Items(m) = {a}
    BY <1>1, <1>2, <2>2 DEF Items
  <2>4. OfTurn(m, i)
    BY <1>1, <1>2, <2>1, <2>2, <2>3 DEF OfTurn
  <2> QED BY <2>4 DEF m
<1>4. ASSUME NEW b \in ToSet(turns[i].parts), b \in Item, b.kind = "use"
      PROVE  OfTurn(Message(role, form, <<a>>, <<b>>), i)
  <2> DEFINE m == Message(role, form, <<a>>, <<b>>)
  <2>1. m \in Msg
    BY <1>1, <1>4, MessageType
  <2>2. m.role = role /\ m.parts = <<a>> /\ m.calls = <<b>>
    BY DEF Message
  <2> HIDE DEF m
  <2>3. Items(m) = {a, b}
    BY <1>1, <1>2, <2>2 DEF Items
  <2>4. OfTurn(m, i)
    BY <1>1, <1>2, <1>4, <2>1, <2>2, <2>3 DEF OfTurn
  <2> QED BY <2>4 DEF m
<1> QED BY <1>3, <1>4

LEMMA CallOfTurn ==
  ASSUME ConversationInv, NEW i \in DOMAIN turns, NEW role \in Speaker,
         NEW b \in ToSet(turns[i].parts), b \in Item, b.kind = "use",
         role = "system" <=> turns[i].role = "system", role = "user" => turns[i].role = "user"
  PROVE  OfTurn(Message(role, "none", <<>>, <<b>>), i)
<1> DEFINE m == Message(role, "none", <<>>, <<b>>)
<1>1. <<b>> \in Seq(Item) /\ <<>> \in Seq(Item) /\ DOMAIN <<>> = {} /\ ToSet(<<>>) = {} /\ "none" \in MessageForm
  BY DEF ToSet, MessageForm
<1>2. DOMAIN <<b>> = {1} /\ <<b>>[1] = b /\ ToSet(<<b>>) = {b}
  BY OneElement
<1>7. m \in Msg
  BY <1>1, MessageType
<1>3. m.role = role /\ m.parts = <<>> /\ m.calls = <<b>>
  BY DEF Message
<1> HIDE DEF m
<1>4. Items(m) = {b}
  BY <1>1, <1>2, <1>3 DEF Items
<1>5. OfTurn(m, i)
  BY <1>1, <1>2, <1>3, <1>4, <1>7 DEF OfTurn
<1> QED BY <1>5 DEF m

LEMMA TwoOfTurn ==
  ASSUME ConversationInv, NEW i \in DOMAIN turns, NEW role \in Speaker, NEW form \in MessageForm,
         NEW a \in ToSet(turns[i].parts), NEW b \in ToSet(turns[i].parts), a \in Item, b \in Item,
         a.kind # "use", b.kind \in {"text", "image"}, a.n < b.n, turns[i].role = "user",
         role = "system" <=> turns[i].role = "system", role = "user" => turns[i].role = "user"
  PROVE  OfTurn(Message(role, form, <<a, b>>, <<>>), i)
<1> DEFINE m == Message(role, form, <<a, b>>, <<>>)
<1>1. <<a, b>> \in Seq(Item) /\ <<>> \in Seq(Item) /\ DOMAIN <<>> = {} /\ ToSet(<<>>) = {}
  BY DEF ToSet
<1>2. DOMAIN <<a, b>> = {1, 2} /\ <<a, b>>[1] = a /\ <<a, b>>[2] = b /\ ToSet(<<a, b>>) = {a, b}
  BY TwoElements
<1>7. m \in Msg
  BY <1>1, MessageType
<1>3. m.role = role /\ m.parts = <<a, b>> /\ m.calls = <<>>
  BY DEF Message
<1> HIDE DEF m
<1>4. Items(m) = {a, b}
  BY <1>1, <1>2, <1>3 DEF Items
<1>5. \A k, l \in DOMAIN m.parts : k < l => m.parts[k] = a /\ m.parts[l] = b
  BY <1>2, <1>3
<1>6. OfTurn(m, i)
  BY <1>1, <1>2, <1>3, <1>4, <1>5, <1>7 DEF OfTurn
<1> QED BY <1>6 DEF m

\* Two messages: a text, then the result.
LEMMA RenderedTurn ==
  ASSUME ConversationInv, NEW i \in DOMAIN turns
  PROVE  /\ \A x \in DOMAIN Rendered[i] : OfTurn(Rendered[i][x], i)
         /\ SecondIsResult(Rendered[i]) /\ Tells(turns[i], Rendered[i])
<1> DEFINE t == turns[i]
           ms == Rendered[i]
           a == t.parts[1]
           b == t.parts[2]
<1>1. TurnFacts(t) /\ Renders(t, ms, Listing)
  BY TurnsHave, RenderedIs
<1>2. /\ t.parts \in Seq(Item) /\ Len(t.parts) \in {1, 2} /\ DOMAIN t.parts = 1..Len(t.parts)
      /\ t.role \in Speaker /\ a \in Item /\ (Len(t.parts) = 2 => b \in Item /\ a.n < b.n)
      /\ a \in ToSet(t.parts) /\ (Len(t.parts) = 2 => b \in ToSet(t.parts))
  <2>1. 1 \in DOMAIN t.parts /\ (Len(t.parts) = 2 => 2 \in DOMAIN t.parts)
    <3>1. Len(t.parts) = 1 \/ Len(t.parts) = 2
      BY <1>1 DEF TurnFacts
    <3>2. Len(t.parts) = 1 => DOMAIN t.parts = 1..1
      BY <1>1 DEF TurnFacts
    <3>3. Len(t.parts) = 2 => DOMAIN t.parts = 1..2
      BY <1>1 DEF TurnFacts
    <3>4. 1 \in 1..1 /\ 1 \in 1..2 /\ 2 \in 1..2
      OBVIOUS
    <3> QED BY <3>1, <3>2, <3>3, <3>4
  <2>2. a \in ToSet(t.parts) /\ (Len(t.parts) = 2 => b \in ToSet(t.parts))
    BY <1>1, <2>1 DEF TurnFacts
  <2> QED BY <1>1, <2>2, TurnCases DEF TurnFacts
<1>3. /\ Len(t.parts) = 1 => ToSet(t.parts) = {a}
      /\ Len(t.parts) = 2 => ToSet(t.parts) = {a, b}
  <2>1. Len(t.parts) = 1 => t.parts = <<a>>
    BY <1>2
  <2>2. Len(t.parts) = 2 => t.parts = <<a, b>>
    BY <1>2
  <2>3. ToSet(<<a>>) = {a} /\ ToSet(<<a, b>>) = {a, b}
    BY OneElement, TwoElements
  <2> HIDE DEF a, b
  <2> QED BY <2>1, <2>2, <2>3
<1>4. a.n \in Nat /\ (Len(t.parts) = 2 => b.n \in Nat)
  BY <1>2 DEF Item
<1> DEFINE Goal == (\A x \in DOMAIN ms : OfTurn(ms[x], i)) /\ SecondIsResult(ms) /\ Tells(t, ms)
<1> HIDE DEF t, ms, a, b
<1>5. /\ Len(t.parts) = 1 => ~Lists(t)
      /\ Len(t.parts) = 2 /\ a.kind = "text" /\ b.kind \in {"text", "image"} => Lists(t)
      /\ Len(t.parts) = 2 /\ (a.kind \notin {"text", "image"} \/ b.kind \notin {"text", "image"}) => ~Lists(t)
  BY <1>2, <1>3, <1>4 DEF Lists
<1>6. "string" \in MessageForm /\ Listing \in MessageForm /\ "tool" \in Speaker /\ "user" \in Speaker
  BY DEF MessageForm, Listing, Speaker
<1>7. \A x : DOMAIN <<x>> = {1} /\ <<x>>[1] = x /\ ToSet(<<x>>) = {x}
  BY OneElement
<1>8. ASSUME NEW m, ms = <<m>>, OfTurn(m, i),
             \A p \in ToSet(t.parts) :
               /\ p.kind # "use" => p \in ToSet(m.parts) /\ m.form = IF Lists(t) THEN Listing ELSE "string"
               /\ p.kind = "use" => p \in ToSet(m.calls) /\
                                    (m.form = "string" \/ \A q \in ToSet(t.parts) : q.kind # "text")
      PROVE  Goal
  <2>1. DOMAIN ms = {1} /\ ms[1] = m
    BY <1>7, <1>8
  <2>2. \A x \in DOMAIN ms : OfTurn(ms[x], i)
    BY <1>8, <2>1
  <2>3. SecondIsResult(ms)
    BY <2>1 DEF SecondIsResult
  <2>4. Tells(t, ms)
    BY <1>8, <2>1 DEF Tells
  <2> QED BY <2>2, <2>3, <2>4
<1>9. ASSUME Len(t.parts) = 1 /\ a.kind = "text" /\ ms = <<Message(t.role, "string", <<a>>, <<>>)>>
      PROVE  Goal
  <2> DEFINE m == Message(t.role, "string", <<a>>, <<>>)
  <2>1. OfTurn(m, i)
    BY <1>2, <1>6, <1>9, OneOfTurn DEF t
  <2>2. m.parts = <<a>> /\ m.form = "string"
    BY DEF Message
  <2> HIDE DEF m
  <2>3. ms = <<m>>
    BY <1>9 DEF m
  <2>4. \A p \in ToSet(t.parts) : p = a
    BY <1>3, <1>9
  <2> QED BY <1>5, <1>7, <1>8, <1>9, <2>1, <2>2, <2>3, <2>4
<1>10. ASSUME Len(t.parts) = 1 /\ a.kind = "use" /\ t.role = "assistant" /\ ms = <<Message(t.role, "none", <<>>, <<a>>)>>
      PROVE  Goal
  <2> DEFINE m == Message(t.role, "none", <<>>, <<a>>)
  <2>1. OfTurn(m, i)
    BY <1>2, <1>10, CallOfTurn DEF t
  <2>2. m.calls = <<a>>
    BY DEF Message
  <2> HIDE DEF m
  <2>3. ms = <<m>>
    BY <1>10 DEF m
  <2>4. \A p \in ToSet(t.parts) : p = a
    BY <1>3, <1>10
  <2> QED BY <1>7, <1>8, <1>10, <2>1, <2>2, <2>3, <2>4
<1>11. ASSUME Len(t.parts) = 1 /\ a.kind = "result" /\ t.role \in {"user", "tool"}
            /\ ms = <<Message("tool", "string", <<a>>, <<>>)>>
      PROVE  Goal
  <2> DEFINE m == Message("tool", "string", <<a>>, <<>>)
  <2>1. OfTurn(m, i)
    BY <1>2, <1>6, <1>11, OneOfTurn DEF t
  <2>2. m.parts = <<a>> /\ m.form = "string"
    BY DEF Message
  <2> HIDE DEF m
  <2>3. ms = <<m>>
    BY <1>11 DEF m
  <2>4. \A p \in ToSet(t.parts) : p = a
    BY <1>3, <1>11
  <2> QED BY <1>5, <1>7, <1>8, <1>11, <2>1, <2>2, <2>3, <2>4
<1>12. ASSUME Len(t.parts) = 2 /\ a.kind = "text" /\ b.kind = "use" /\ t.role = "assistant"
            /\ ms = <<Message(t.role, "string", <<a>>, <<b>>)>>
      PROVE  Goal
  <2> DEFINE m == Message(t.role, "string", <<a>>, <<b>>)
  <2>1. OfTurn(m, i)
    BY <1>2, <1>6, <1>12, OneOfTurn DEF t
  <2>2. m.parts = <<a>> /\ m.calls = <<b>> /\ m.form = "string"
    BY DEF Message
  <2> HIDE DEF m
  <2>3. ms = <<m>>
    BY <1>12 DEF m
  <2>4. \A p \in ToSet(t.parts) : p = a \/ p = b
    BY <1>3, <1>12
  <2>5. a.kind # "use" /\ b.kind = "use" /\ b.kind \notin {"text", "image"} /\ Len(t.parts) = 2
    BY <1>12
  <2> QED BY <1>5, <1>7, <1>8, <2>1, <2>2, <2>3, <2>4, <2>5
<1>13. ASSUME Len(t.parts) = 2 /\ a.kind = "text" /\ b.kind \in {"text", "image"} /\ t.role = "user"
            /\ ms = <<Message(t.role, Listing, <<a, b>>, <<>>)>>
      PROVE  Goal
  <2> DEFINE m == Message(t.role, Listing, <<a, b>>, <<>>)
  <2>1. OfTurn(m, i)
    BY <1>2, <1>6, <1>13, TwoOfTurn DEF t
  <2>2. m.parts = <<a, b>> /\ m.form = Listing
    BY DEF Message
  <2> HIDE DEF m
  <2>3. ms = <<m>>
    BY <1>13 DEF m
  <2>4. \A p \in ToSet(t.parts) : p = a \/ p = b
    BY <1>3, <1>13
  <2>5. ToSet(<<a, b>>) = {a, b} /\ a.kind # "use" /\ b.kind # "use" /\ Lists(t)
    BY <1>5, <1>13, TwoElements
  <2> QED BY <1>8, <2>1, <2>2, <2>3, <2>4, <2>5
<1>14. ASSUME Len(t.parts) = 2 /\ a.kind = "result" /\ b.kind = "text" /\ t.role = "user"
            /\ ms = <<Message("user", "string", <<b>>, <<>>), Message("tool", "string", <<a>>, <<>>)>>
      PROVE  Goal
  <2> DEFINE m == Message("user", "string", <<b>>, <<>>)
             r == Message("tool", "string", <<a>>, <<>>)
  <2>1. OfTurn(m, i) /\ OfTurn(r, i)
    BY <1>2, <1>6, <1>14, OneOfTurn DEF t
  <2>2. /\ m.parts = <<b>> /\ m.calls = <<>> /\ m.form = "string" /\ m.role = "user"
        /\ r.parts = <<a>> /\ r.calls = <<>> /\ r.form = "string" /\ r.role = "tool"
    BY DEF Message
  <2> HIDE DEF m, r
  <2>3. DOMAIN ms = {1, 2} /\ ms[1] = m /\ ms[2] = r
    BY <1>14, TwoElements DEF m, r
  <2>4. \A p \in ToSet(t.parts) : p = a \/ p = b
    BY <1>3, <1>14
  <2>5. ~Lists(t) /\ a.kind = "result" /\ b.kind = "text"
    BY <1>5, <1>14
  <2>6. Items(m) = {b} /\ Items(r) = {a}
    <3>1. ToSet(<<>>) = {}
      BY DEF ToSet
    <3> QED BY <1>7, <2>2, <3>1 DEF Items
  <2>7. \A x \in DOMAIN ms : OfTurn(ms[x], i)
    BY <2>1, <2>3
  <2>8. SecondIsResult(ms)
    <3>1. \A x, y \in DOMAIN ms : x < y => x = 1 /\ y = 2
      BY <2>3
    <3> QED BY <2>2, <2>3, <2>5, <2>6, <3>1 DEF SecondIsResult
  <2>9. Tells(t, ms)
    <3>1. 1 \in DOMAIN ms /\ b \in ToSet(ms[1].parts) /\ ms[1].form = "string"
      BY <1>7, <2>2, <2>3
    <3>2. 2 \in DOMAIN ms /\ a \in ToSet(ms[2].parts) /\ ms[2].form = "string"
      BY <1>7, <2>2, <2>3
    <3> QED BY <2>4, <2>5, <3>1, <3>2 DEF Tells
  <2> QED BY <2>7, <2>8, <2>9
<1> HIDE DEF Goal
<1>15. Goal
  BY <1>1, <1>9, <1>10, <1>11, <1>12, <1>13, <1>14 DEF Renders, a, b
<1> QED BY <1>15 DEF Goal, t, ms


\* A part p of a turn is in the message m, which has the form due.
Holds(t, p, m) ==
  /\ p.kind # "use" => p \in ToSet(m.parts) /\ m.form = IF Lists(t) THEN Listing ELSE "string"
  /\ p.kind = "use" => p \in ToSet(m.calls) /\ (m.form = "string" \/ \A q \in ToSet(t.parts) : q.kind # "text")

\* The text beside a result comes before it.
TextThenResult(m, r) ==
  /\ \A p \in Items(m) : p.kind = "text"
  /\ \A q \in Items(r) : q.kind = "result"
  /\ r.role = "tool"

\* The messages of a request are those of its turns, in order, and hold every part.
Transcript(msgs) ==
  /\ msgs \in Seq(Msg) /\ Len(msgs) \in Nat /\ DOMAIN msgs = 1..Len(msgs)
  /\ \A x \in DOMAIN msgs : \E i \in DOMAIN turns : OfTurn(msgs[x], i)
  /\ \A x, y \in DOMAIN msgs : x < y =>
       \E i, l \in DOMAIN turns : /\ OfTurn(msgs[x], i) /\ OfTurn(msgs[y], l)
                                  /\ i < l \/ (i = l /\ TextThenResult(msgs[x], msgs[y]))
  /\ \A i \in DOMAIN turns : \A p \in ToSet(turns[i].parts) :
       \E x \in DOMAIN msgs : OfTurn(msgs[x], i) /\ Holds(turns[i], p, msgs[x])

\* What the adaptors may rely on: a chat request has, for every part of the conversation,
\* a message of its turn that holds it.
LEMMA RequestIs ==
  ASSUME ConversationInv, FirstTry # Invalid
  PROVE  Transcript(FirstTry)
<1> DEFINE msgs == FirstTry
           ss == Rendered
<1>1. /\ DOMAIN turns = 1..Len(turns) /\ Len(turns) \in Nat
      /\ msgs \in Seq(Msg) /\ Placed(msgs, ss, Len(turns))
  BY RenderedIs, FirstTryIs
<1>2. Len(msgs) \in Nat /\ DOMAIN msgs = 1..Len(msgs)
  BY <1>1, LenProperties
<1>3. \A i \in DOMAIN turns : /\ \A x \in DOMAIN ss[i] : OfTurn(ss[i][x], i)
                              /\ SecondIsResult(ss[i]) /\ Tells(turns[i], ss[i])
  BY RenderedTurn
<1> HIDE DEF msgs, ss
<1>4. ASSUME NEW x \in DOMAIN msgs PROVE \E i \in DOMAIN turns : OfTurn(msgs[x], i)
  <2>1. PICK i \in 1..Len(turns) : \E a \in DOMAIN ss[i] : msgs[x] = ss[i][a]
    BY <1>1 DEF Placed
  <2> QED BY <1>1, <1>3, <2>1
<1>5. ASSUME NEW x \in DOMAIN msgs, NEW y \in DOMAIN msgs, x < y
      PROVE  \E i, l \in DOMAIN turns : /\ OfTurn(msgs[x], i) /\ OfTurn(msgs[y], l)
                                        /\ i < l \/ (i = l /\ TextThenResult(msgs[x], msgs[y]))
  <2>1. PICK i, l \in 1..Len(turns) : \E a \in DOMAIN ss[i] : \E b \in DOMAIN ss[l] :
          msgs[x] = ss[i][a] /\ msgs[y] = ss[l][b] /\ (i < l \/ (i = l /\ a < b))
    <3>1. Precedes(msgs, ss, Len(turns), x, y)
      BY <1>1, <1>5, PlacedOrder
    <3> QED BY <3>1 DEF Precedes
  <2>2. PICK a \in DOMAIN ss[i], b \in DOMAIN ss[l] :
          msgs[x] = ss[i][a] /\ msgs[y] = ss[l][b] /\ (i < l \/ (i = l /\ a < b))
    BY <2>1
  <2>3. i \in DOMAIN turns /\ l \in DOMAIN turns
    BY <1>1
  <2>4. OfTurn(msgs[x], i) /\ OfTurn(msgs[y], l)
    BY <1>3, <2>2, <2>3
  <2>5. i = l /\ a < b => TextThenResult(msgs[x], msgs[y])
    BY <1>3, <2>2, <2>3 DEF SecondIsResult, TextThenResult
  <2> QED BY <2>2, <2>3, <2>4, <2>5
<1>6. ASSUME NEW i \in DOMAIN turns, NEW p \in ToSet(turns[i].parts)
      PROVE  \E x \in DOMAIN msgs : OfTurn(msgs[x], i) /\ Holds(turns[i], p, msgs[x])
  <2>1. PICK a \in DOMAIN ss[i] : Holds(turns[i], p, ss[i][a])
    BY <1>3 DEF Tells, Holds
  <2>2. PICK x \in DOMAIN msgs : msgs[x] = ss[i][a]
    BY <1>1 DEF Placed
  <2> QED BY <1>3, <2>1, <2>2
<1>7. Transcript(msgs)
  BY <1>1, <1>2, <1>4, <1>5, <1>6 DEF Transcript
<1> QED BY <1>7 DEF msgs

\* A message is of one turn, and its parts are of that turn.
LEMMA OneTurn ==
  ASSUME ConversationInv, NEW i \in DOMAIN turns, NEW m, OfTurn(m, i)
  PROVE  /\ \A p \in Items(m) : p \in ToSet(turns[i].parts) /\ TurnOf(p) = i /\ p \in Item
         /\ \A l \in DOMAIN turns : OfTurn(m, l) => l = i
<1>1. ASSUME NEW l \in DOMAIN turns, OfTurn(m, l), NEW p \in Items(m)
      PROVE  p \in ToSet(turns[l].parts)
  <2>1. p \in ToSet(m.parts) \/ p \in ToSet(m.calls)
    BY DEF Items
  <2>2. (\E k \in DOMAIN m.parts : p = m.parts[k]) \/ (\E k \in DOMAIN m.calls : p = m.calls[k])
    BY <2>1 DEF ToSet
  <2> QED BY <1>1, <2>2 DEF OfTurn
<1>2. ASSUME NEW l \in DOMAIN turns, OfTurn(m, l), NEW p \in Items(m)
      PROVE  p \in ToSet(turns[l].parts) /\ TurnOf(p) = l /\ p \in Item
  BY <1>1, <1>2, TurnOfPart
<1>3. \E p : p \in Items(m)
  BY DEF OfTurn
<1>4. \A l \in DOMAIN turns : OfTurn(m, l) => l = i
  BY <1>2, <1>3
<1> QED BY <1>2, <1>4

\* Of two parts of a turn, the numbers differ.
LEMMA OtherNumber ==
  ASSUME ConversationInv, NEW i \in DOMAIN turns, NEW p \in ToSet(turns[i].parts), NEW q \in ToSet(turns[i].parts),
         p # q
  PROVE  p.n # q.n
<1>1. PICK k \in DOMAIN turns[i].parts : p = turns[i].parts[k]
  BY DEF ToSet
<1>2. PICK l \in DOMAIN turns[i].parts : q = turns[i].parts[l]
  BY DEF ToSet
<1>3. p.n \in Nat /\ q.n \in Nat
  BY TurnOfPart DEF Item
<1>4. k \in Nat /\ l \in Nat
  <2>1. DOMAIN turns[i].parts = 1..Len(turns[i].parts) /\ Len(turns[i].parts) \in Nat
    <3>1. TurnFacts(turns[i])
      BY TurnsHave
    <3> QED BY <3>1 DEF TurnFacts
  <2> QED BY <2>1
<1>5. k < l \/ l < k
  BY <1>1, <1>2, <1>4
<1>6. k < l => p.n < q.n
  BY <1>1, <1>2 DEF ConversationInv
<1>7. l < k => q.n < p.n
  BY <1>1, <1>2 DEF ConversationInv
<1> QED BY <1>3, <1>5, <1>6, <1>7

-----------------------------------------------------------------------------
(* The order of what is told.                                              *)
Before(p, q) == TurnOf(p) < TurnOf(q) \/ (TurnOf(p) = TurnOf(q) /\ p.n # q.n /\ p.kind # "use")

\* Some may be told first: the system prompt that is set apart.
After(first, p, q) == p \in first \/ (Before(p, q) /\ q \notin first)

\* What is told of a message: some of its parts, once, a call last.
Picks(s, m) ==
  /\ s \in Seq(Item) /\ Len(s) \in Nat /\ DOMAIN s = 1..Len(s)
  /\ \A a \in DOMAIN s : s[a] \in Items(m)
  /\ \A a, b \in DOMAIN s : a < b => s[a] # s[b] /\ s[a].kind # "use"

LEMMA PicksBefore ==
  ASSUME ConversationInv, NEW i \in DOMAIN turns, NEW m, OfTurn(m, i), NEW s, Picks(s, m),
         NEW a \in DOMAIN s, NEW b \in DOMAIN s, a < b
  PROVE  Before(s[a], s[b])
<1>1. s[a] \in Items(m) /\ s[b] \in Items(m) /\ s[a] # s[b] /\ s[a].kind # "use"
  BY DEF Picks
<1>2. /\ s[a] \in ToSet(turns[i].parts) /\ TurnOf(s[a]) = i
      /\ s[b] \in ToSet(turns[i].parts) /\ TurnOf(s[b]) = i
  BY <1>1, OneTurn
<1>3. s[a].n # s[b].n
  BY <1>1, <1>2, OtherNumber
<1> QED BY <1>1, <1>2, <1>3 DEF Before

LEMMA MessagesBefore ==
  ASSUME ConversationInv, NEW msgs, Transcript(msgs), NEW x \in DOMAIN msgs, NEW y \in DOMAIN msgs, x < y,
         NEW p \in Items(msgs[x]), NEW q \in Items(msgs[y])
  PROVE  Before(p, q)
<1>1. PICK i, l \in DOMAIN turns : /\ OfTurn(msgs[x], i) /\ OfTurn(msgs[y], l)
                                   /\ i < l \/ (i = l /\ TextThenResult(msgs[x], msgs[y]))
  BY DEF Transcript
<1>2. /\ p \in ToSet(turns[i].parts) /\ TurnOf(p) = i
      /\ q \in ToSet(turns[l].parts) /\ TurnOf(q) = l
  BY <1>1, OneTurn
<1>3. CASE i < l
  BY <1>2, <1>3 DEF Before
<1>4. CASE i = l /\ TextThenResult(msgs[x], msgs[y])
  <2>1. p.kind = "text" /\ q.kind = "result"
    BY <1>4 DEF TextThenResult
  <2>2. p # q
    BY <2>1
  <2>3. p.n # q.n
    BY <1>2, <1>4, <2>2, OtherNumber
  <2> QED BY <1>2, <1>4, <2>1, <2>3 DEF Before
<1> QED BY <1>1, <1>3, <1>4

\* No part is before itself, nor in two messages.
LEMMA OneMessage ==
  ASSUME ConversationInv, NEW msgs, Transcript(msgs), NEW x \in DOMAIN msgs, NEW y \in DOMAIN msgs,
         NEW p \in Items(msgs[x]), p \in Items(msgs[y])
  PROVE  x = y
<1>1. ~Before(p, p)
  <2>1. PICK i \in DOMAIN turns : OfTurn(msgs[x], i)
    BY DEF Transcript
  <2>2. TurnOf(p) = i
    BY <2>1, OneTurn
  <2>3. i \in Nat
    BY RenderedIs
  <2>4. ~(i < i)
    BY <2>3
  <2> QED BY <2>2, <2>4 DEF Before
<1>2. ~(x < y) /\ ~(y < x)
  BY <1>1, MessagesBefore
<1>3. x \in Nat /\ y \in Nat
  BY DEF Transcript
<1> QED BY <1>2, <1>3

-----------------------------------------------------------------------------
(* What is told, message after message.                                    *)
Saying == [role: Speaker \cup {"model"}, parts: Seq(Item)]
Ordered(g, first) ==
  /\ \A y \in DOMAIN g : \A a, b \in DOMAIN g[y].parts : a < b => After(first, g[y].parts[a], g[y].parts[b])
  /\ \A y, z \in DOMAIN g : y < z =>
       \A p \in ToSet(g[y].parts), q \in ToSet(g[z].parts) : After(first, p, q)

LEMMA PartsPlaced ==
  ASSUME NEW g \in Seq(Saying)
  PROVE  /\ Parts(g) \in Seq(Item) /\ Len(g) \in Nat /\ DOMAIN g = 1..Len(g)
         /\ Placed(Parts(g), [i \in DOMAIN g |-> g[i].parts], Len(g))
<1> DEFINE ss == [i \in DOMAIN g |-> g[i].parts]
<1>1. Len(g) \in Nat /\ DOMAIN g = 1..Len(g) /\ \A i \in 1..Len(g) : g[i] \in Saying
  BY LenProperties
<1>2. \A i \in 1..Len(g) : g[i].parts \in Seq(Item)
  BY <1>1 DEF Saying
<1>3. ss \in Seq(Seq(Item)) /\ Len(ss) = Len(g)
  BY <1>1, <1>2
<1>4. Parts(g) = FlattenSeq(ss)
  BY DEF Parts, All
<1> HIDE DEF ss
<1>5. Parts(g) \in Seq(Item) /\ Placed(Parts(g), ss, Len(g))
  BY <1>3, <1>4, FlattenPlaced
<1> QED BY <1>1, <1>5 DEF ss

\* Parts of what is told, message after message, are in the order the messages are.
LEMMA ToldParts ==
  ASSUME NEW g \in Seq(Saying)
  PROVE  /\ \A p \in ToSet(Parts(g)) : \E y \in DOMAIN g : p \in ToSet(g[y].parts)
         /\ \A y \in DOMAIN g : \A p \in ToSet(g[y].parts) : p \in ToSet(Parts(g))
         /\ \A first : Ordered(g, first) =>
              \A j, k \in DOMAIN Parts(g) : j < k => After(first, Parts(g)[j], Parts(g)[k])
<1> DEFINE ss == [i \in DOMAIN g |-> g[i].parts]
           f == Parts(g)
           n == Len(g)
<1>1. n \in Nat /\ DOMAIN g = 1..n /\ Placed(f, ss, n)
  BY PartsPlaced
<1>2. \A i \in DOMAIN g : ss[i] = g[i].parts
  OBVIOUS
<1> HIDE DEF ss, f, n
<1>3. ASSUME NEW p \in ToSet(f) PROVE \E y \in DOMAIN g : p \in ToSet(g[y].parts)
  <2>1. PICK k \in DOMAIN f : p = f[k]
    BY DEF ToSet
  <2>2. PICK i \in 1..n : \E a \in DOMAIN ss[i] : f[k] = ss[i][a]
    BY <1>1 DEF Placed
  <2>3. i \in DOMAIN g /\ \E a \in DOMAIN g[i].parts : p = g[i].parts[a]
    BY <1>1, <1>2, <2>1, <2>2
  <2> QED BY <2>3 DEF ToSet
<1>4. ASSUME NEW y \in DOMAIN g, NEW p \in ToSet(g[y].parts) PROVE p \in ToSet(f)
  <2>1. PICK a \in DOMAIN g[y].parts : p = g[y].parts[a]
    BY DEF ToSet
  <2>2. PICK k \in DOMAIN f : f[k] = ss[y][a]
    BY <1>1, <1>2 DEF Placed
  <2>3. p = f[k]
    BY <1>2, <2>1, <2>2
  <2> QED BY <2>3 DEF ToSet
<1>5. ASSUME NEW first, Ordered(g, first), NEW j \in DOMAIN f, NEW k \in DOMAIN f, j < k
      PROVE  After(first, f[j], f[k])
  <2>1. PICK i, l \in 1..n : \E a \in DOMAIN ss[i] : \E b \in DOMAIN ss[l] :
          f[j] = ss[i][a] /\ f[k] = ss[l][b] /\ (i < l \/ (i = l /\ a < b))
    <3>1. Precedes(f, ss, n, j, k)
      BY <1>1, <1>5, PlacedOrder
    <3> QED BY <3>1 DEF Precedes
  <2>2. PICK a \in DOMAIN ss[i], b \in DOMAIN ss[l] :
          f[j] = ss[i][a] /\ f[k] = ss[l][b] /\ (i < l \/ (i = l /\ a < b))
    BY <2>1
  <2>3. /\ i \in DOMAIN g /\ l \in DOMAIN g /\ a \in DOMAIN g[i].parts /\ b \in DOMAIN g[l].parts
        /\ f[j] = g[i].parts[a] /\ f[k] = g[l].parts[b]
    BY <1>1, <1>2, <2>2
  <2>4. f[j] \in ToSet(g[i].parts) /\ f[k] \in ToSet(g[l].parts)
    BY <2>3 DEF ToSet
  <2>5. CASE i < l
    BY <1>5, <2>3, <2>4, <2>5 DEF Ordered
  <2>6. CASE i = l /\ a < b
    BY <1>5, <2>3, <2>6 DEF Ordered
  <2> QED BY <2>2, <2>5, <2>6
<1>6. /\ \A p \in ToSet(f) : \E y \in DOMAIN g : p \in ToSet(g[y].parts)
      /\ \A y \in DOMAIN g : \A p \in ToSet(g[y].parts) : p \in ToSet(f)
      /\ \A first : Ordered(g, first) => \A j, k \in DOMAIN f : j < k => After(first, f[j], f[k])
  BY <1>3, <1>4, <1>5
<1> QED BY <1>6 DEF f

\* What of a message a provider is told.
LEMMA PicksSome ==
  ASSUME NEW i \in DOMAIN turns, NEW m, OfTurn(m, i)
  PROVE  /\ Picks(<<>>, m) /\ Picks(m.parts, m) /\ Picks(m.parts \o m.calls, m)
         /\ \A I : Picks(Only(m.parts, I), m)
<1>1. /\ m.parts \in Seq(Item) /\ Len(m.parts) \in Nat /\ DOMAIN m.parts = 1..Len(m.parts)
      /\ m.calls \in Seq(Item) /\ Len(m.calls) \in Nat /\ DOMAIN m.calls = 1..Len(m.calls)
  <2>1. m.parts \in Seq(Item) /\ m.calls \in Seq(Item)
    BY DEF OfTurn, Msg
  <2> QED BY <2>1, LenProperties
<1>2. /\ \A k \in DOMAIN m.parts : m.parts[k] \in Items(m) /\ m.parts[k].kind # "use"
      /\ \A k \in DOMAIN m.calls : m.calls[k] \in Items(m) /\ m.calls[k].kind = "use"
  <2>1. /\ \A k \in DOMAIN m.parts : m.parts[k] \in ToSet(m.parts)
        /\ \A k \in DOMAIN m.calls : m.calls[k] \in ToSet(m.calls)
    BY DEF ToSet
  <2> QED BY <2>1 DEF OfTurn, Items
<1>3. \A k, l \in DOMAIN m.parts : k < l => m.parts[k] # m.parts[l]
  <2> SUFFICES ASSUME NEW k \in DOMAIN m.parts, NEW l \in DOMAIN m.parts, k < l, m.parts[k] = m.parts[l]
               PROVE  FALSE
    OBVIOUS
  <2>1. m.parts[k].n < m.parts[l].n
    BY DEF OfTurn
  <2>2. m.parts[k] \in Item
    BY <1>1
  <2>3. m.parts[k].n \in Nat
    BY <2>2 DEF Item
  <2> QED BY <2>1, <2>3
<1>4. Picks(<<>>, m)
  BY DEF Picks
<1>5. Picks(m.parts, m)
  BY <1>1, <1>2, <1>3 DEF Picks
<1>6. Picks(m.parts \o m.calls, m)
  <2> DEFINE s == m.parts \o m.calls
             P == Len(m.parts)
             C == Len(m.calls)
  <2>1. /\ s \in Seq(Item) /\ Len(s) = P + C
        /\ \A k \in 1..(P + C) : s[k] = IF k <= P THEN m.parts[k] ELSE m.calls[k - P]
    BY <1>1, ConcatProperties
  <2>2. P \in Nat /\ C \in Nat /\ DOMAIN m.parts = 1..P /\ DOMAIN m.calls = 1..C
    BY <1>1
  <2> HIDE DEF s, P, C
  <2>3. Len(s) \in Nat /\ DOMAIN s = 1..(P + C)
    BY <2>1, <2>2
  <2>4. \A k \in DOMAIN s : \/ k <= P /\ k \in DOMAIN m.parts /\ s[k] = m.parts[k]
                            \/ k > P /\ k - P \in DOMAIN m.calls /\ s[k] = m.calls[k - P]
    BY <2>1, <2>2, <2>3
  <2>5. \A k \in DOMAIN s : s[k] \in Items(m)
    BY <1>2, <2>4
  <2>6. ASSUME NEW a \in DOMAIN s, NEW b \in DOMAIN s, a < b PROVE s[a] # s[b] /\ s[a].kind # "use"
    <3>1. CASE b <= P
      <4>1. a \in DOMAIN m.parts /\ s[a] = m.parts[a] /\ b \in DOMAIN m.parts /\ s[b] = m.parts[b]
        BY <2>2, <2>3, <2>4, <2>6, <3>1
      <4> QED BY <1>2, <1>3, <2>6, <4>1
    <3>2. CASE b > P /\ a <= P
      <4>1. a \in DOMAIN m.parts /\ s[a] = m.parts[a] /\ b - P \in DOMAIN m.calls /\ s[b] = m.calls[b - P]
        BY <2>2, <2>3, <2>4, <3>2
      <4>2. s[a].kind # "use" /\ s[b].kind = "use"
        BY <1>2, <4>1
      <4> QED BY <4>2
    <3>3. CASE b > P /\ a > P
      <4>1. a - P \in DOMAIN m.calls /\ b - P \in DOMAIN m.calls
        BY <2>2, <2>3, <2>4, <3>3
      <4>2. a - P = b - P
        BY <4>1 DEF OfTurn
      <4> QED BY <2>2, <2>3, <2>6, <4>2
    <3> QED BY <2>2, <2>3, <3>1, <3>2, <3>3
  <2>7. Picks(s, m)
    BY <2>1, <2>3, <2>5, <2>6, <2>2 DEF Picks
  <2> QED BY <2>7 DEF s
<1>7. ASSUME NEW I PROVE Picks(Only(m.parts, I), m)
  <2> DEFINE s == m.parts
             o == Only(s, I)
  <2>1. s \in Seq(Item)
    BY <1>1
  <2>2. /\ \A k \in DOMAIN s : s[k] \in Items(m) /\ s[k].kind # "use"
        /\ \A k, l \in DOMAIN s : k < l => s[k] # s[l]
    BY <1>2, <1>3
  <2> HIDE DEF s
  <2>3. /\ o \in Seq(Item) /\ Len(o) \in Nat /\ DOMAIN o = 1..Len(o)
        /\ \A k \in DOMAIN o : \E a \in DOMAIN s : a \in I /\ o[k] = s[a]
        /\ \A j, k \in DOMAIN o : j < k =>
             \E a, b \in DOMAIN s : a \in I /\ b \in I /\ a < b /\ o[j] = s[a] /\ o[k] = s[b]
    BY <2>1, OnlyIs
  <2> HIDE DEF o
  <2>4. Picks(o, m)
    BY <2>2, <2>3 DEF Picks
  <2> QED BY <2>4 DEF o, s
<1> QED BY <1>4, <1>5, <1>6, <1>7

LEMMA PicksJoin ==
  ASSUME NEW m, NEW s, NEW r, Picks(s, m), Picks(r, m),
         \A p \in ToSet(s) : p.kind # "use" /\ \A q \in ToSet(r) : p # q
  PROVE  Picks(s \o r, m)
<1> DEFINE h == s \o r
           F == Len(s)
<1>1. /\ s \in Seq(Item) /\ r \in Seq(Item)
      /\ DOMAIN s = 1..F /\ F \in Nat /\ Len(r) \in Nat /\ DOMAIN r = 1..Len(r)
  BY DEF Picks
<1>2. /\ h \in Seq(Item) /\ Len(h) = F + Len(r)
      /\ \A k \in 1..(F + Len(r)) : h[k] = IF k <= F THEN s[k] ELSE r[k - F]
  BY <1>1, ConcatProperties
<1> HIDE DEF h, F
<1>3. Len(h) \in Nat /\ DOMAIN h = 1..(F + Len(r))
  BY <1>1, <1>2
<1>4. \A k \in DOMAIN h : \/ k <= F /\ k \in DOMAIN s /\ h[k] = s[k]
                          \/ k > F /\ k - F \in DOMAIN r /\ h[k] = r[k - F]
  BY <1>1, <1>2, <1>3
<1>5. /\ \A k \in DOMAIN s : s[k] \in Items(m) /\ s[k] \in ToSet(s)
      /\ \A k \in DOMAIN r : r[k] \in Items(m) /\ r[k] \in ToSet(r)
  BY DEF Picks, ToSet
<1>6. \A k \in DOMAIN h : h[k] \in Items(m)
  BY <1>4, <1>5
<1>7. ASSUME NEW a \in DOMAIN h, NEW b \in DOMAIN h, a < b PROVE h[a] # h[b] /\ h[a].kind # "use"
  <2>1. CASE b <= F
    <3>1. a \in DOMAIN s /\ h[a] = s[a] /\ b \in DOMAIN s /\ h[b] = s[b]
      BY <1>1, <1>3, <1>4, <1>7, <2>1
    <3> QED BY <1>7, <3>1 DEF Picks
  <2>2. CASE b > F /\ a <= F
    <3>1. a \in DOMAIN s /\ h[a] = s[a] /\ b - F \in DOMAIN r /\ h[b] = r[b - F]
      BY <1>1, <1>3, <1>4, <2>2
    <3> QED BY <1>5, <3>1
  <2>3. CASE b > F /\ a > F
    <3>1. a - F \in DOMAIN r /\ h[a] = r[a - F] /\ b - F \in DOMAIN r /\ h[b] = r[b - F] /\ a - F < b - F
      BY <1>1, <1>3, <1>4, <1>7, <2>3
    <3> QED BY <3>1 DEF Picks
  <2> QED BY <1>1, <1>3, <2>1, <2>2, <2>3
<1>8. Picks(h, m)
  BY <1>1, <1>2, <1>3, <1>6, <1>7 DEF Picks
<1> QED BY <1>8 DEF h

\* What is told is of the messages, and in their order but for what comes first.
Tidy(g, msgs, first) ==
  /\ g \in Seq(Saying) /\ Len(g) \in Nat /\ DOMAIN g = 1..Len(g)
  /\ \A y \in DOMAIN g : \E x \in DOMAIN msgs : Picks(g[y].parts, msgs[x])
  /\ Ordered(g, first)

\* It is in order when it is of one message after another.
FromOneAfterAnother(g, msgs, first) ==
  \A y, z \in DOMAIN g : y < z =>
    \/ g[z].parts = <<>>
    \/ \E x, w \in DOMAIN msgs :
         /\ Picks(g[y].parts, msgs[x]) /\ Picks(g[z].parts, msgs[w]) /\ x < w
         /\ Items(msgs[w]) \cap first = {}
FromOthers(g, msgs, first) ==
  \A y \in DOMAIN g : \E x \in DOMAIN msgs : Picks(g[y].parts, msgs[x]) /\ Items(msgs[x]) \cap first = {}

\* What tells of one message after another, each at most once, is in order.
LEMMA TidyIf ==
  ASSUME ConversationInv, NEW msgs, Transcript(msgs), NEW first, NEW g \in Seq(Saying),
         FromOthers(g, msgs, first), FromOneAfterAnother(g, msgs, first)
  PROVE  Tidy(g, msgs, first)
<1>1. Len(g) \in Nat /\ DOMAIN g = 1..Len(g)
  BY LenProperties
<1>2. \A y \in DOMAIN g : \E x \in DOMAIN msgs : Picks(g[y].parts, msgs[x])
  BY DEF FromOthers
<1>3. ASSUME NEW y \in DOMAIN g, NEW a \in DOMAIN g[y].parts, NEW b \in DOMAIN g[y].parts, a < b
      PROVE  After(first, g[y].parts[a], g[y].parts[b])
  <2>1. PICK x \in DOMAIN msgs : Picks(g[y].parts, msgs[x]) /\ Items(msgs[x]) \cap first = {}
    BY DEF FromOthers
  <2>2. PICK i \in DOMAIN turns : OfTurn(msgs[x], i)
    BY DEF Transcript
  <2>3. Before(g[y].parts[a], g[y].parts[b])
    BY <1>3, <2>1, <2>2, PicksBefore
  <2>4. g[y].parts[b] \in Items(msgs[x])
    BY <2>1 DEF Picks
  <2> QED BY <2>1, <2>3, <2>4 DEF After
<1>4. ASSUME NEW y \in DOMAIN g, NEW z \in DOMAIN g, y < z, NEW p \in ToSet(g[y].parts), NEW q \in ToSet(g[z].parts)
      PROVE  After(first, p, q)
  <2>1. PICK a \in DOMAIN g[y].parts : p = g[y].parts[a]
    BY DEF ToSet
  <2>2. PICK b \in DOMAIN g[z].parts : q = g[z].parts[b]
    BY DEF ToSet
  <2>3. g[z].parts # <<>>
    BY <2>2
  <2>4. PICK x, w \in DOMAIN msgs :
          /\ Picks(g[y].parts, msgs[x]) /\ Picks(g[z].parts, msgs[w]) /\ x < w
          /\ Items(msgs[w]) \cap first = {}
    BY <1>4, <2>3 DEF FromOneAfterAnother
  <2>5. p \in Items(msgs[x]) /\ q \in Items(msgs[w])
    BY <2>1, <2>2, <2>4 DEF Picks
  <2>6. Before(p, q)
    BY <2>4, <2>5, MessagesBefore
  <2> QED BY <2>4, <2>5, <2>6 DEF After
<1> QED BY <1>1, <1>2, <1>3, <1>4 DEF Tidy, Ordered

\* What each message is told as, one after another.
ToldAs(ss, msgs, first) ==
  \A i \in DOMAIN msgs :
    /\ \A a \in DOMAIN ss[i] : Picks(ss[i][a].parts, msgs[i])
    /\ \A a, b \in DOMAIN ss[i] : a < b => ss[i][b].parts = <<>>
    /\ DOMAIN ss[i] # {} => Items(msgs[i]) \cap first = {}

MadeOf(g, ss, msgs) ==
  /\ \A i \in DOMAIN msgs : \A a \in DOMAIN ss[i] : \E y \in DOMAIN g : g[y] = ss[i][a]
  /\ \A y \in DOMAIN g : \E i \in DOMAIN msgs : \E a \in DOMAIN ss[i] : g[y] = ss[i][a]

\* So it is when each message becomes a list of its own.
LEMMA FlattenTidy ==
  ASSUME ConversationInv, NEW msgs, Transcript(msgs), NEW first, NEW ss \in Seq(Seq(Saying)), Len(ss) = Len(msgs),
         ToldAs(ss, msgs, first)
  PROVE  Tidy(FlattenSeq(ss), msgs, first) /\ MadeOf(FlattenSeq(ss), ss, msgs)
<1> DEFINE g == FlattenSeq(ss)
           n == Len(ss)
<1>1. g \in Seq(Saying) /\ Placed(g, ss, n) /\ DOMAIN msgs = 1..n
  BY FlattenPlaced DEF Transcript
<1> HIDE DEF g, n
<1>2. \A y \in DOMAIN g : \E i \in DOMAIN msgs : \E a \in DOMAIN ss[i] : g[y] = ss[i][a]
  BY <1>1 DEF Placed
<1>3. FromOthers(g, msgs, first)
  <2> SUFFICES ASSUME NEW y \in DOMAIN g
               PROVE  \E x \in DOMAIN msgs : Picks(g[y].parts, msgs[x]) /\ Items(msgs[x]) \cap first = {}
    BY DEF FromOthers
  <2>1. PICK i \in DOMAIN msgs : \E a \in DOMAIN ss[i] : g[y] = ss[i][a]
    BY <1>2
  <2>2. PICK a \in DOMAIN ss[i] : g[y] = ss[i][a]
    BY <2>1
  <2>3. Picks(ss[i][a].parts, msgs[i]) /\ Items(msgs[i]) \cap first = {}
    BY <2>2 DEF ToldAs
  <2> QED BY <2>2, <2>3
<1>4. FromOneAfterAnother(g, msgs, first)
  <2> SUFFICES ASSUME NEW y \in DOMAIN g, NEW z \in DOMAIN g, y < z
               PROVE  \/ g[z].parts = <<>>
                      \/ \E x, w \in DOMAIN msgs :
                           /\ Picks(g[y].parts, msgs[x]) /\ Picks(g[z].parts, msgs[w]) /\ x < w
                           /\ Items(msgs[w]) \cap first = {}
    BY DEF FromOneAfterAnother
  <2>1. PICK i, l \in 1..n : \E a \in DOMAIN ss[i] : \E b \in DOMAIN ss[l] :
          g[y] = ss[i][a] /\ g[z] = ss[l][b] /\ (i < l \/ (i = l /\ a < b))
    <3>1. Precedes(g, ss, n, y, z)
      BY <1>1, PlacedOrder
    <3> QED BY <3>1 DEF Precedes
  <2>2. PICK a \in DOMAIN ss[i], b \in DOMAIN ss[l] :
          g[y] = ss[i][a] /\ g[z] = ss[l][b] /\ (i < l \/ (i = l /\ a < b))
    BY <2>1
  <2>3. i \in DOMAIN msgs /\ l \in DOMAIN msgs
    BY <1>1
  <2>4. CASE i = l /\ a < b
    <3>1. ss[l][b].parts = <<>>
      BY <2>2, <2>3, <2>4 DEF ToldAs
    <3> QED BY <2>2, <3>1
  <2>5. CASE i < l
    <3>1. Picks(ss[i][a].parts, msgs[i]) /\ Picks(ss[l][b].parts, msgs[l]) /\ Items(msgs[l]) \cap first = {}
      BY <2>2, <2>3 DEF ToldAs
    <3> QED BY <2>2, <2>3, <2>5, <3>1
  <2> QED BY <2>2, <2>4, <2>5
<1>5. Tidy(g, msgs, first)
  BY <1>1, <1>3, <1>4, TidyIf
<1>6. \A i \in DOMAIN msgs : \A a \in DOMAIN ss[i] : \E y \in DOMAIN g : g[y] = ss[i][a]
  BY <1>1 DEF Placed
<1>7. MadeOf(g, ss, msgs)
  BY <1>2, <1>6 DEF MadeOf
<1> QED BY <1>5, <1>7 DEF g

\* One thing told of each message.
LEMMA EachTidy ==
  ASSUME ConversationInv, NEW msgs, Transcript(msgs), NEW g, DOMAIN g = DOMAIN msgs,
         \A i \in DOMAIN msgs : g[i] \in Saying /\ Picks(g[i].parts, msgs[i]), g = [i \in DOMAIN g |-> g[i]]
  PROVE  Tidy(g, msgs, {})
<1>1. DOMAIN msgs = 1..Len(msgs) /\ Len(msgs) \in Nat
  BY DEF Transcript
<1>2. g \in Seq(Saying) /\ Len(g) \in Nat
  BY <1>1
<1>3. FromOthers(g, msgs, {}) /\ FromOneAfterAnother(g, msgs, {})
  BY DEF FromOthers, FromOneAfterAnother
<1> QED BY <1>2, <1>3, TidyIf

\* What is set apart, and then the rest.
Joins(f, h, g) ==
  /\ \A y \in DOMAIN h : \E z \in DOMAIN f : f[z] = h[y]
  /\ \A y \in DOMAIN g : \E z \in DOMAIN f : f[z] = g[y]
FirstIs(h, first) == \A y \in DOMAIN h : \A p \in ToSet(h[y].parts) : p \in first

\* A system prompt apart comes first; the others follow in their order.
LEMMA ApartTidy ==
  ASSUME NEW msgs, NEW first, NEW h, NEW g, Tidy(h, msgs, {}), Tidy(g, msgs, first),
         FirstIs(h, first)
  PROVE  Tidy(h \o g, msgs, first) /\ Joins(h \o g, h, g)
<1> DEFINE f == h \o g
           F == Len(h)
<1>1. /\ h \in Seq(Saying) /\ g \in Seq(Saying)
      /\ DOMAIN h = 1..F /\ F \in Nat /\ Len(g) \in Nat /\ DOMAIN g = 1..Len(g)
  BY DEF Tidy
<1>2. /\ f \in Seq(Saying) /\ Len(f) = F + Len(g)
      /\ \A k \in 1..(F + Len(g)) : f[k] = IF k <= F THEN h[k] ELSE g[k - F]
  BY <1>1, ConcatProperties
<1> HIDE DEF f, F
<1>3. Len(f) \in Nat /\ DOMAIN f = 1..(F + Len(g))
  BY <1>1, <1>2
<1>4. \A k \in DOMAIN f : \/ k <= F /\ k \in DOMAIN h /\ f[k] = h[k]
                          \/ k > F /\ k - F \in DOMAIN g /\ f[k] = g[k - F]
  BY <1>1, <1>2, <1>3
<1>5. \A y \in DOMAIN h : y \in DOMAIN f /\ f[y] = h[y]
  BY <1>1, <1>2, <1>3
<1>6. ASSUME NEW y \in DOMAIN g PROVE y + F \in DOMAIN f /\ f[y + F] = g[y]
  <2>1. y + F \in 1..(F + Len(g)) /\ ~(y + F <= F) /\ (y + F) - F = y
    BY <1>1
  <2> QED BY <1>2, <1>3, <2>1
<1>7. ASSUME NEW y \in DOMAIN f PROVE \E x \in DOMAIN msgs : Picks(f[y].parts, msgs[x])
  <2>1. CASE y \in DOMAIN h /\ f[y] = h[y]
    BY <2>1 DEF Tidy
  <2>2. CASE y - F \in DOMAIN g /\ f[y] = g[y - F]
    BY <2>2 DEF Tidy
  <2> QED BY <1>4, <2>1, <2>2
<1>8. ASSUME NEW y \in DOMAIN f, NEW a \in DOMAIN f[y].parts, NEW b \in DOMAIN f[y].parts, a < b
      PROVE  After(first, f[y].parts[a], f[y].parts[b])
  <2>1. CASE y \in DOMAIN h /\ f[y] = h[y]
    <3>1. f[y].parts[a] \in ToSet(h[y].parts)
      BY <1>8, <2>1 DEF ToSet
    <3> QED BY <2>1, <3>1 DEF After, FirstIs
  <2>2. CASE y - F \in DOMAIN g /\ f[y] = g[y - F]
    BY <1>8, <2>2 DEF Tidy, Ordered
  <2> QED BY <1>4, <2>1, <2>2
<1>9. ASSUME NEW y \in DOMAIN f, NEW z \in DOMAIN f, y < z, NEW p \in ToSet(f[y].parts), NEW q \in ToSet(f[z].parts)
      PROVE  After(first, p, q)
  <2>1. CASE y \in DOMAIN h /\ f[y] = h[y]
    BY <1>9, <2>1 DEF After, FirstIs
  <2>2. CASE y > F /\ y - F \in DOMAIN g /\ f[y] = g[y - F]
    <3>1. z - F \in DOMAIN g /\ f[z] = g[z - F] /\ y - F < z - F
      BY <1>1, <1>3, <1>4, <1>9, <2>2
    <3> DEFINE c == y - F
               d == z - F
    <3>2. c \in DOMAIN g /\ d \in DOMAIN g /\ c < d /\ p \in ToSet(g[c].parts) /\ q \in ToSet(g[d].parts)
      BY <1>9, <2>2, <3>1
    <3> HIDE DEF c, d
    <3> QED BY <3>2 DEF Tidy, Ordered
  <2> QED BY <1>4, <2>1, <2>2
<1>10. DOMAIN f = 1..Len(f)
  BY <1>2, <1>3
<1>11. Tidy(f, msgs, first)
  BY <1>2, <1>3, <1>7, <1>8, <1>9, <1>10 DEF Tidy, Ordered
<1>12. Joins(f, h, g)
  BY <1>5, <1>6 DEF Joins
<1> QED BY <1>11, <1>12 DEF f

-----------------------------------------------------------------------------
(* What each adaptor takes of a message, and of which messages.            *)
LEMMA Contents ==
  ASSUME NEW i \in DOMAIN turns, NEW m, OfTurn(m, i)
  PROVE  /\ Picks(StringContent(m), m) /\ Picks(ParseContent(m), m)
         /\ m.form \in {"string", "list"} => ParseContent(m) = m.parts
         /\ \A p \in ToSet(m.parts) : m.form \in {"string", "list"} /\ p.kind # "image" => p \in ToSet(StringContent(m))
<1> DEFINE I == {k \in DOMAIN m.parts : m.parts[k].kind # "image"}
<1>1. /\ StringContent(m) = IF m.form \in {"string", "list"} THEN Only(m.parts, I) ELSE <<>>
      /\ ParseContent(m) = IF m.form \in {"string", "list"} THEN m.parts ELSE <<>>
  BY DEF StringContent, ParseContent, OfOther
<1>2. m.parts \in Seq(Item)
  BY DEF OfTurn, Msg
<1>3. ASSUME NEW p \in ToSet(m.parts), p.kind # "image" PROVE p \in ToSet(Only(m.parts, I))
  <2>1. PICK k \in DOMAIN m.parts : p = m.parts[k]
    BY DEF ToSet
  <2>2. k \in I
    BY <1>3, <2>1
  <2>3. \E l \in DOMAIN Only(m.parts, I) : Only(m.parts, I)[l] = m.parts[k]
    <3> HIDE DEF I
    <3> QED BY <1>2, <2>1, <2>2, OnlyIs
  <2> QED BY <2>1, <2>3 DEF ToSet
<1>4. Picks(<<>>, m) /\ Picks(m.parts, m) /\ Picks(Only(m.parts, I), m)
  BY PicksSome
<1> HIDE DEF I
<1> QED BY <1>1, <1>3, <1>4

LEMMA MessageSays ==
  ASSUME NEW msgs, Transcript(msgs), NEW x \in DOMAIN msgs
  PROVE  /\ msgs[x] \in Msg /\ msgs[x].role \in Speaker
         /\ Picks(StringContent(msgs[x]), msgs[x]) /\ Picks(ParseContent(msgs[x]), msgs[x])
         /\ Picks(<<>>, msgs[x]) /\ Picks(msgs[x].parts, msgs[x]) /\ Picks(msgs[x].parts \o msgs[x].calls, msgs[x])
<1>1. PICK i \in DOMAIN turns : OfTurn(msgs[x], i)
  BY DEF Transcript
<1>2. msgs[x] \in Msg /\ msgs[x].role \in Speaker
  BY <1>1 DEF OfTurn, Msg
<1> QED BY <1>1, <1>2, Contents, PicksSome

LEMMA SaysType ==
  ASSUME NEW role \in Speaker \cup {"model"}, NEW m, NEW s, Picks(s, m)
  PROVE  Says(role, s) \in Saying /\ Says(role, s).parts = s /\ Says(role, s).role = role
BY DEF Says, Saying, Picks

LEMMA TextsAre ==
  ASSUME NEW s
  PROVE  /\ DOMAIN Texts(s) = DOMAIN s
         /\ \A y \in DOMAIN s : Texts(s)[y] = Says(s[y].role, StringContent(s[y]))
         /\ Texts(s) = [y \in DOMAIN Texts(s) |-> Texts(s)[y]]
BY DEF Texts

\* The texts of some messages.
LEMMA TextsOnly ==
  ASSUME ConversationInv, NEW msgs, Transcript(msgs), NEW I, NEW first,
         \A x \in DOMAIN msgs : x \in I => Items(msgs[x]) \cap first = {}
  PROVE  /\ Tidy(Texts(Only(msgs, I)), msgs, first)
         /\ \A x \in DOMAIN msgs : x \in I =>
              \E y \in DOMAIN Texts(Only(msgs, I)) : Texts(Only(msgs, I))[y].parts = StringContent(msgs[x])
<1> DEFINE o == Only(msgs, I)
           g == Texts(o)
<1>1. msgs \in Seq(Msg)
  BY DEF Transcript
<1>2. /\ o \in Seq(Msg) /\ Len(o) \in Nat /\ DOMAIN o = 1..Len(o)
      /\ \A k \in DOMAIN o : \E a \in DOMAIN msgs : a \in I /\ o[k] = msgs[a]
      /\ \A a \in DOMAIN msgs : a \in I => \E k \in DOMAIN o : o[k] = msgs[a]
      /\ \A j, k \in DOMAIN o : j < k =>
           \E a, b \in DOMAIN msgs : a \in I /\ b \in I /\ a < b /\ o[j] = msgs[a] /\ o[k] = msgs[b]
  BY <1>1, OnlyIs
<1>3. DOMAIN g = DOMAIN o /\ (\A y \in DOMAIN o : g[y] = Says(o[y].role, StringContent(o[y])))
      /\ g = [y \in DOMAIN g |-> g[y]]
  BY TextsAre
<1> HIDE DEF o, g
<1>4. ASSUME NEW y \in DOMAIN o, NEW a \in DOMAIN msgs, o[y] = msgs[a]
      PROVE  g[y] \in Saying /\ g[y].parts = StringContent(msgs[a]) /\ Picks(g[y].parts, msgs[a])
  <2>1. msgs[a].role \in Speaker /\ Picks(StringContent(msgs[a]), msgs[a])
    BY MessageSays
  <2>2. g[y] = Says(msgs[a].role, StringContent(msgs[a]))
    BY <1>3, <1>4
  <2> QED BY <2>1, <2>2, SaysType
<1>5. \A y \in DOMAIN g : \E a \in DOMAIN msgs : a \in I /\ g[y] \in Saying /\ Picks(g[y].parts, msgs[a])
  BY <1>2, <1>3, <1>4
<1>6. g \in Seq(Saying)
  <2>1. \A y \in DOMAIN g : g[y] \in Saying
    BY <1>5
  <2>2. Len(o) \in Nat /\ DOMAIN g = 1..Len(o) /\ g = [y \in DOMAIN g |-> g[y]]
    BY <1>2, <1>3
  <2> QED BY ONLY <2>1, <2>2
<1>7. FromOthers(g, msgs, first)
  BY <1>5 DEF FromOthers
<1>8. FromOneAfterAnother(g, msgs, first)
  <2> SUFFICES ASSUME NEW y \in DOMAIN g, NEW z \in DOMAIN g, y < z
               PROVE  \E x, w \in DOMAIN msgs :
                        /\ Picks(g[y].parts, msgs[x]) /\ Picks(g[z].parts, msgs[w]) /\ x < w
                        /\ Items(msgs[w]) \cap first = {}
    BY DEF FromOneAfterAnother
  <2>1. PICK a, b \in DOMAIN msgs : a \in I /\ b \in I /\ a < b /\ o[y] = msgs[a] /\ o[z] = msgs[b]
    BY <1>2, <1>3
  <2> QED BY <1>3, <1>4, <2>1
<1>9. Tidy(g, msgs, first)
  BY <1>6, <1>7, <1>8, TidyIf
<1>10. \A x \in DOMAIN msgs : x \in I => \E y \in DOMAIN g : g[y].parts = StringContent(msgs[x])
  BY <1>2, <1>3, <1>4
<1> QED BY <1>9, <1>10 DEF g, o

\* The text of the last of some messages.
LEMMA LastAlone ==
  ASSUME ConversationInv, NEW msgs, Transcript(msgs), NEW I
  PROVE  LET g == Texts(LastOf(Only(msgs, I))) IN
         /\ Tidy(g, msgs, {}) /\ Len(g) \in {0, 1}
         /\ (\A x \in DOMAIN msgs : x \notin I) => g = <<>>
         /\ \A x \in DOMAIN msgs : x \in I =>
              \E w \in DOMAIN msgs : /\ w \in I /\ DOMAIN g = {1} /\ Picks(g[1].parts, msgs[w])
                                     /\ g[1].parts = StringContent(msgs[w]) /\ (w = x \/ w > x)
<1> DEFINE o == Only(msgs, I)
<1>1. msgs \in Seq(Msg) /\ DOMAIN msgs = 1..Len(msgs) /\ Len(msgs) \in Nat
  BY DEF Transcript
<1>2. /\ o \in Seq(Msg) /\ Len(o) \in Nat /\ DOMAIN o = 1..Len(o)
      /\ \A k \in DOMAIN o : \E a \in DOMAIN msgs : a \in I /\ o[k] = msgs[a]
      /\ \A a \in DOMAIN msgs : a \in I => \E k \in DOMAIN o : o[k] = msgs[a]
      /\ \A j, k \in DOMAIN o : j < k =>
           \E a, b \in DOMAIN msgs : a \in I /\ b \in I /\ a < b /\ o[j] = msgs[a] /\ o[k] = msgs[b]
  <2>1. msgs \in Seq(Msg)
    BY <1>1
  <2>2. /\ Only(msgs, I) \in Seq(Msg) /\ Len(Only(msgs, I)) \in Nat /\ DOMAIN Only(msgs, I) = 1..Len(Only(msgs, I))
        /\ \A k \in DOMAIN Only(msgs, I) : \E a \in DOMAIN msgs : a \in I /\ Only(msgs, I)[k] = msgs[a]
        /\ \A a \in DOMAIN msgs : a \in I => \E k \in DOMAIN Only(msgs, I) : Only(msgs, I)[k] = msgs[a]
        /\ \A j, k \in DOMAIN Only(msgs, I) : j < k =>
             \E a, b \in DOMAIN msgs :
               a \in I /\ b \in I /\ a < b /\ Only(msgs, I)[j] = msgs[a] /\ Only(msgs, I)[k] = msgs[b]
    BY ONLY <2>1, OnlyIs
  <2> QED BY <2>2
<1> HIDE DEF o
<1> DEFINE l == LastOf(o)
           g == Texts(l)
<1>3. DOMAIN g = DOMAIN l /\ (\A y \in DOMAIN l : g[y] = Says(l[y].role, StringContent(l[y])))
  BY TextsAre
<1>4. g = [y \in DOMAIN g |-> g[y]]
  BY TextsAre
<1>5. l = IF o = <<>> THEN <<>> ELSE <<o[Len(o)]>>
  BY DEF LastOf, Last
<1> HIDE DEF l, g
<1>6. CASE o = <<>>
  <2>1. DOMAIN l = {}
    BY <1>5, <1>6
  <2>2. g = <<>>
    <3>1. DOMAIN g = 1..0
      BY <1>3, <2>1
    <3>2. g \in Seq(Saying) /\ Len(g) = 0
      BY <1>4, <3>1
    <3> QED BY <3>2, EmptySeq
  <2>3. \A x \in DOMAIN msgs : x \notin I
    BY <1>2, <1>6
  <2>4. FromOthers(<<>>, msgs, {}) /\ FromOneAfterAnother(<<>>, msgs, {})
    BY DEF FromOthers, FromOneAfterAnother
  <2>5. <<>> \in Seq(Saying) /\ Len(<<>>) = 0
    OBVIOUS
  <2>6. Tidy(g, msgs, {}) /\ Len(g) \in {0, 1}
    BY <2>2, <2>4, <2>5, TidyIf
  <2> QED BY <2>2, <2>3, <2>6 DEF g, l, o
<1>7. CASE o # <<>>
  <2>1. Len(o) \in DOMAIN o
    BY <1>2, <1>7, EmptySeq
  <2>2. PICK w \in DOMAIN msgs : w \in I /\ o[Len(o)] = msgs[w]
    BY <1>2, <2>1
  <2>3. l = <<msgs[w]>>
    BY <1>5, <1>7, <2>2
  <2>4. DOMAIN l = {1} /\ l[1] = msgs[w]
    BY <2>3, OneElement
  <2>5. g[1] \in Saying /\ g[1].parts = StringContent(msgs[w]) /\ Picks(g[1].parts, msgs[w]) /\ DOMAIN g = {1}
    <3>1. msgs[w].role \in Speaker /\ Picks(StringContent(msgs[w]), msgs[w])
      BY MessageSays
    <3>2. g[1] = Says(msgs[w].role, StringContent(msgs[w]))
      BY <1>3, <2>4
    <3> QED BY <1>3, <2>4, <3>1, <3>2, SaysType
  <2>6. g \in Seq(Saying) /\ Len(g) = 1
    <3>1. DOMAIN g = 1..1 /\ \A y \in 1..1 : g[y] \in Saying
      BY <2>5
    <3> DEFINE h == [y \in 1..1 |-> g[y]]
    <3>2. h \in Seq(Saying) /\ Len(h) = 1
      BY <3>1
    <3>3. g = h
      BY <1>4, <3>1
    <3> QED BY ONLY <3>2, <3>3
  <2>7. FromOthers(g, msgs, {}) /\ FromOneAfterAnother(g, msgs, {})
    BY <2>5 DEF FromOthers, FromOneAfterAnother
  <2>8. Tidy(g, msgs, {})
    BY <2>6, <2>7, TidyIf
  <2>9. ASSUME NEW x \in DOMAIN msgs, x \in I PROVE w = x \/ w > x
    <3>1. PICK k \in DOMAIN o : o[k] = msgs[x]
      BY <1>2, <2>9
    <3>2. PICK p : p \in Items(msgs[x])
      BY DEF Transcript, OfTurn
    <3>3. CASE k = Len(o)
      <4>1. msgs[w] = msgs[x]
        BY <2>2, <3>1, <3>3
      <4>2. p \in Items(msgs[w])
        BY <3>2, <4>1
      <4> QED BY <3>2, <4>2, OneMessage
    <3>4. CASE k < Len(o)
      <4>1. PICK a, b \in DOMAIN msgs : a < b /\ o[k] = msgs[a] /\ o[Len(o)] = msgs[b]
        BY <1>2, <2>1, <3>4
      <4>2. p \in Items(msgs[a])
        BY <3>1, <3>2, <4>1
      <4>3. a = x
        BY <3>2, <4>2, OneMessage
      <4>4. PICK q : q \in Items(msgs[w])
        BY DEF Transcript, OfTurn
      <4>5. q \in Items(msgs[b])
        BY <2>2, <4>1, <4>4
      <4>6. b = w
        BY <4>4, <4>5, OneMessage
      <4> QED BY <4>1, <4>3, <4>6, <1>1
    <3> QED BY <1>2, <3>3, <3>4
  <2>10. \E x \in DOMAIN msgs : x \in I
    BY <2>2
  <2> QED BY <2>2, <2>5, <2>6, <2>8, <2>9, <2>10 DEF g, l, o
<1> QED BY <1>6, <1>7

-----------------------------------------------------------------------------
(* What the parts of a conversation are.                                   *)
LEMMA ConversationParts ==
  ASSUME ConversationInv
  PROVE  /\ \A i \in DOMAIN turns : \A p \in ToSet(turns[i].parts) : p \in ToSet(Parts(turns))
         /\ \A p \in ToSet(Parts(turns)) : \E i \in DOMAIN turns : p \in ToSet(turns[i].parts)
<1>1. turns \in Seq(Saying)
  <2>1. turns \in Seq(Turn)
    BY RenderedIs
  <2>2. \A t \in Turn : t \in Saying
    BY DEF Turn, Saying
  <2> QED BY <2>1, <2>2
<1> QED BY <1>1, ToldParts

\* What is told is of the conversation, in its order.
LEMMA ToldKnown ==
  ASSUME ConversationInv, NEW msgs, Transcript(msgs), NEW g \in Seq(Saying),
         \A y \in DOMAIN g : \E x \in DOMAIN msgs : Picks(g[y].parts, msgs[x])
  PROVE  \A p \in ToSet(Parts(g)) :
           p \in ToSet(Parts(turns)) /\ \E i \in DOMAIN turns : p \in ToSet(turns[i].parts) /\ TurnOf(p) = i
<1> SUFFICES ASSUME NEW p \in ToSet(Parts(g))
             PROVE  p \in ToSet(Parts(turns)) /\ \E i \in DOMAIN turns : p \in ToSet(turns[i].parts) /\ TurnOf(p) = i
  OBVIOUS
<1>1. PICK y \in DOMAIN g : p \in ToSet(g[y].parts)
  BY ToldParts
<1>2. PICK x \in DOMAIN msgs : Picks(g[y].parts, msgs[x])
  OBVIOUS
<1>3. PICK a \in DOMAIN g[y].parts : p = g[y].parts[a]
  BY <1>1 DEF ToSet
<1>4. p \in Items(msgs[x])
  BY <1>2, <1>3 DEF Picks
<1>5. PICK i \in DOMAIN turns : OfTurn(msgs[x], i)
  BY DEF Transcript
<1>6. p \in ToSet(turns[i].parts) /\ TurnOf(p) = i
  BY <1>4, <1>5, OneTurn
<1> QED BY <1>6, ConversationParts

LEMMA ToldInOrder ==
  ASSUME ConversationInv, NEW msgs, Transcript(msgs), NEW first, NEW g, Tidy(g, msgs, first),
         \A p \in first : turns[TurnOf(p)].role = "system",
         NEW j \in DOMAIN Parts(g), NEW k \in DOMAIN Parts(g), j < k
  PROVE  \/ TurnOf(Parts(g)[j]) < TurnOf(Parts(g)[k])
         \/ TurnOf(Parts(g)[j]) = TurnOf(Parts(g)[k]) /\ Parts(g)[j].n # Parts(g)[k].n
         \/ turns[TurnOf(Parts(g)[j])].role = "system"
<1>1. After(first, Parts(g)[j], Parts(g)[k])
  BY ToldParts DEF Tidy
<1> QED BY <1>1 DEF After, Before

\* The part p of turn i is in a message that adaptors can read, and no later message
\* has the same speaker unless a later turn has.
LEMMA Readable ==
  ASSUME ConversationInv, NEW msgs, Transcript(msgs), NEW i \in DOMAIN turns, NEW p \in ToSet(turns[i].parts),
         p.kind \in {"text", "result"}, Lists(turns[i]) => Listing = "list"
  PROVE  \E x \in DOMAIN msgs :
           /\ OfTurn(msgs[x], i) /\ Holds(turns[i], p, msgs[x])
           /\ p \in ToSet(msgs[x].parts) /\ p \in ToSet(ParseContent(msgs[x])) /\ p \in ToSet(StringContent(msgs[x]))
           /\ msgs[x].form \in {"string", "list"}
<1>1. PICK x \in DOMAIN msgs : OfTurn(msgs[x], i) /\ Holds(turns[i], p, msgs[x])
  BY DEF Transcript
<1>2. p \in ToSet(msgs[x].parts) /\ msgs[x].form \in {"string", "list"}
  BY <1>1 DEF Holds
<1>3. p.kind # "image"
  OBVIOUS
<1>4. p \in ToSet(ParseContent(msgs[x])) /\ p \in ToSet(StringContent(msgs[x]))
  BY <1>1, <1>2, <1>3, Contents
<1> QED BY <1>1, <1>2, <1>4

\* A list has texts and images only.
LEMMA ListsTexts ==
  ASSUME ConversationInv, NEW i \in DOMAIN turns, Lists(turns[i]), NEW p \in ToSet(turns[i].parts)
  PROVE  p.kind \in {"text", "image"}
<1> DEFINE t == turns[i]
<1>1. TurnFacts(t)
  BY TurnsHave
<1>2. PICK q, r \in ToSet(t.parts) : q.n # r.n /\ {q.kind, r.kind} \subseteq {"text", "image"}
  BY DEF Lists
<1> HIDE DEF t
<1>3. PICK k \in DOMAIN t.parts : q = t.parts[k]
  BY DEF ToSet
<1>4. PICK l \in DOMAIN t.parts : r = t.parts[l]
  BY DEF ToSet
<1>5. PICK a \in DOMAIN t.parts : p = t.parts[a]
  BY DEF ToSet, t
<1>6. k # l
  BY <1>2, <1>3, <1>4
<1>7. DOMAIN t.parts = 1..Len(t.parts) /\ (Len(t.parts) = 1 \/ Len(t.parts) = 2)
  BY <1>1 DEF TurnFacts
<1>8. a = k \/ a = l
  <2>1. CASE Len(t.parts) = 1
    BY <1>6, <1>7, <2>1
  <2>2. CASE Len(t.parts) = 2
    <3>1. DOMAIN t.parts = 1..2
      BY <1>7, <2>2
    <3> QED BY <1>6, <3>1
  <2> QED BY <1>7, <2>1, <2>2
<1>9. q.kind \in {"text", "image"} /\ r.kind \in {"text", "image"}
  BY <1>2
<1> QED BY <1>3, <1>4, <1>5, <1>8, <1>9

LEMMA NotMissed ==
  ASSUME ConversationInv, NEW a, a # "openai", NEW i \in DOMAIN turns, NEW p \in ToSet(turns[i].parts),
         p.kind \in {"text", "result"}, ~Missed(a, i, p)
  PROVE  Lists(turns[i]) => Listing = "list"
<1> SUFFICES ASSUME Lists(turns[i]), entry # "chat" PROVE FALSE
  BY DEF Listing
<1>1. entry = "messages"
  BY DEF ConversationInv, ConversionTypeOK
<1>2. p.kind = "text"
  BY ListsTexts
<1> QED BY <1>1, <1>2 DEF Missed, Lists

\* A later message of a turn is of a tool.
LEMMA LaterMessage ==
  ASSUME ConversationInv, NEW msgs, Transcript(msgs), NEW i \in DOMAIN turns,
         NEW x \in DOMAIN msgs, OfTurn(msgs[x], i), NEW y \in DOMAIN msgs, x < y
  PROVE  \E l \in DOMAIN turns : /\ OfTurn(msgs[y], l)
                                 /\ l > i \/ (l = i /\ TextThenResult(msgs[x], msgs[y]))
<1>1. PICK k, l \in DOMAIN turns : /\ OfTurn(msgs[x], k) /\ OfTurn(msgs[y], l)
                                   /\ k < l \/ (k = l /\ TextThenResult(msgs[x], msgs[y]))
  BY DEF Transcript
<1>2. k = i
  BY <1>1, OneTurn
<1>3. k < l => l > k
  BY RenderedIs
<1> QED BY <1>1, <1>2, <1>3

\* So the last message of a speaker is of his last turn.
LEMMA LastOfSpeaker ==
  ASSUME ConversationInv, NEW msgs, Transcript(msgs), NEW i \in DOMAIN turns, NEW role \in {"system", "user"},
         \A k \in (i + 1)..Len(turns) : turns[k].role # role,
         NEW x \in DOMAIN msgs, OfTurn(msgs[x], i), NEW y \in DOMAIN msgs, msgs[y].role = role, x < y
  PROVE  FALSE
<1>1. PICK l \in DOMAIN turns : /\ OfTurn(msgs[y], l)
                                /\ l > i \/ (l = i /\ TextThenResult(msgs[x], msgs[y]))
  BY LaterMessage
<1>2. turns[l].role = role
  BY <1>1 DEF OfTurn
<1>3. l > i => l \in (i + 1)..Len(turns)
  BY RenderedIs
<1>4. ~TextThenResult(msgs[x], msgs[y])
  BY DEF TextThenResult
<1> QED BY <1>1, <1>2, <1>3, <1>4

-----------------------------------------------------------------------------
(* The adaptors.  Those that tell each message by itself:                  *)
LEMMA TextsTidy ==
  ASSUME ConversationInv, NEW msgs, Transcript(msgs)
  PROVE  /\ Tidy(Texts(msgs), msgs, {})
         /\ \A x \in DOMAIN msgs : x \in DOMAIN Texts(msgs) /\ Texts(msgs)[x].parts = StringContent(msgs[x])
<1> DEFINE g == Texts(msgs)
<1>1. DOMAIN g = DOMAIN msgs /\ (\A y \in DOMAIN msgs : g[y] = Says(msgs[y].role, StringContent(msgs[y])))
      /\ g = [y \in DOMAIN g |-> g[y]]
  BY TextsAre
<1> HIDE DEF g
<1>2. \A x \in DOMAIN msgs : g[x] \in Saying /\ g[x].parts = StringContent(msgs[x]) /\ Picks(g[x].parts, msgs[x])
  <2> SUFFICES ASSUME NEW x \in DOMAIN msgs
               PROVE  g[x] \in Saying /\ g[x].parts = StringContent(msgs[x]) /\ Picks(g[x].parts, msgs[x])
    OBVIOUS
  <2>1. msgs[x].role \in Speaker /\ Picks(StringContent(msgs[x]), msgs[x])
    BY MessageSays
  <2> QED BY <1>1, <2>1, SaysType
<1>3. Tidy(g, msgs, {})
  BY <1>1, <1>2, EachTidy
<1> QED BY <1>1, <1>2, <1>3 DEF g

LEMMA OpenaiTidy ==
  ASSUME ConversationInv, NEW msgs, Transcript(msgs)
  PROVE  /\ Tidy(openaiRequest(msgs), msgs, {})
         /\ \A x \in DOMAIN msgs :
              x \in DOMAIN openaiRequest(msgs) /\ openaiRequest(msgs)[x].parts = msgs[x].parts \o msgs[x].calls
<1> DEFINE g == openaiRequest(msgs)
<1>1. DOMAIN g = DOMAIN msgs /\ (\A y \in DOMAIN msgs : g[y] = Says(msgs[y].role, msgs[y].parts \o msgs[y].calls))
      /\ g = [y \in DOMAIN g |-> g[y]]
  BY DEF openaiRequest
<1> HIDE DEF g
<1>2. \A x \in DOMAIN msgs : /\ g[x] \in Saying /\ g[x].parts = msgs[x].parts \o msgs[x].calls
                             /\ Picks(g[x].parts, msgs[x])
  <2> SUFFICES ASSUME NEW x \in DOMAIN msgs
               PROVE  g[x] \in Saying /\ g[x].parts = msgs[x].parts \o msgs[x].calls /\ Picks(g[x].parts, msgs[x])
    OBVIOUS
  <2>1. msgs[x].role \in Speaker /\ Picks(msgs[x].parts \o msgs[x].calls, msgs[x])
    BY MessageSays
  <2> DEFINE s == msgs[x].parts \o msgs[x].calls
  <2>2. g[x] = Says(msgs[x].role, s) /\ Picks(s, msgs[x])
    BY <1>1, <2>1
  <2> HIDE DEF s
  <2>3. g[x] \in Saying /\ g[x].parts = s /\ Picks(g[x].parts, msgs[x])
    BY <2>1, <2>2, SaysType
  <2> QED BY <2>3 DEF s
<1>3. Tidy(g, msgs, {})
  BY <1>1, <1>2, EachTidy
<1> QED BY <1>1, <1>2, <1>3 DEF g

\* What Ollama is told of a message.
LEMMA OllamaPicks ==
  ASSUME ConversationInv, NEW msgs, Transcript(msgs), NEW x \in DOMAIN msgs
  PROVE  LET u == StringContent(msgs[x])
             s == LastOf(u) \o OfKind(ParseContent(msgs[x]), "image") IN
         /\ Picks(s, msgs[x])
         /\ \A p \in ToSet(u) : (\A k, l \in DOMAIN u : p = u[k] => ~(k < l)) => p \in ToSet(s)
<1> DEFINE m == msgs[x]
           u == StringContent(m)
           c == ParseContent(m)
           J == {k \in DOMAIN c : c[k].kind = "image"}
           v == Only(c, J)
           l == LastOf(u)
           I == {k \in DOMAIN m.parts : m.parts[k].kind # "image"}
<1>1. PICK i \in DOMAIN turns : OfTurn(m, i)
  BY DEF Transcript
<1>2. m.parts \in Seq(Item)
  BY <1>1 DEF OfTurn, Msg
<1>3. Picks(u, m) /\ Picks(c, m) /\ Picks(<<>>, m)
  BY MessageSays
<1>4. v = OfKind(ParseContent(m), "image")
  BY DEF OfKind
<1>5. /\ u \in Seq(Item) /\ Len(u) \in Nat /\ DOMAIN u = 1..Len(u)
      /\ c \in Seq(Item) /\ (c = m.parts \/ c = <<>>)
  BY <1>3 DEF Picks, ParseContent
<1>6. \A p \in ToSet(u) : p.kind # "image" /\ p.kind # "use"
  <2> SUFFICES ASSUME NEW p \in ToSet(u) PROVE p.kind # "image" /\ p.kind # "use"
    OBVIOUS
  <2>1. PICK k \in DOMAIN u : p = u[k]
    BY DEF ToSet
  <2>2. u = Only(m.parts, I)
    BY <2>1 DEF StringContent, OfOther
  <2>3. \E a \in DOMAIN m.parts : a \in I /\ Only(m.parts, I)[k] = m.parts[a]
    <3> HIDE DEF I, m, u
    <3>1. k \in DOMAIN Only(m.parts, I)
      BY <2>1, <2>2
    <3> QED BY <1>2, <3>1, OnlyIs
  <2>4. PICK a \in DOMAIN m.parts : a \in I /\ p = m.parts[a]
    BY <2>1, <2>2, <2>3
  <2> QED BY <1>1, <2>4 DEF OfTurn
<1>7. Picks(v, m) /\ \A q \in ToSet(v) : q.kind = "image"
  <2>1. Picks(v, m)
    <3>1. CASE c = m.parts
      <4>1. Picks(Only(m.parts, J), m)
        <5> HIDE DEF J
        <5> QED BY <1>1, PicksSome
      <4> QED BY <3>1, <4>1
    <3>2. CASE c = <<>>
      <4>1. v = <<>>
        <5>1. \A k \in DOMAIN c : k \notin J
          BY <3>2
        <5> HIDE DEF J
        <5> QED BY <1>5, <5>1, OnlyNone
      <4> QED BY <1>3, <4>1
    <3> QED BY <1>5, <3>1, <3>2
  <2>2. ASSUME NEW q \in ToSet(v) PROVE q.kind = "image"
    <3>1. PICK k \in DOMAIN v : q = v[k]
      BY DEF ToSet
    <3>2. \E a \in DOMAIN c : a \in J /\ v[k] = c[a]
      <4> HIDE DEF J
      <4> QED BY <1>5, <3>1, OnlyIs
    <3> QED BY <3>1, <3>2
  <2> QED BY <2>1, <2>2
<1> HIDE DEF m, u, c, J, v
<1>8. l = IF u = <<>> THEN <<>> ELSE <<u[Len(u)]>>
  BY DEF LastOf, Last
<1>9. u # <<>> => Len(u) \in DOMAIN u /\ u[Len(u)] \in Item
  BY <1>5, EmptySeq
<1> HIDE DEF l
<1>10. Picks(l, m) /\ \A p \in ToSet(l) : p \in ToSet(u)
  <2>1. CASE u = <<>>
    <3>1. ToSet(l) = {}
      BY <1>8, <2>1 DEF ToSet
    <3> QED BY <1>3, <1>8, <2>1, <3>1
  <2>2. CASE u # <<>>
    <3>1. DOMAIN l = {1} /\ l[1] = u[Len(u)] /\ ToSet(l) = {u[Len(u)]} /\ Len(l) = 1
      BY <1>8, <2>2, OneElement
    <3>2. l \in Seq(Item)
      BY <1>8, <1>9, <2>2
    <3>3. u[Len(u)] \in Items(m) /\ u[Len(u)] \in ToSet(u)
      BY <1>3, <1>9, <2>2 DEF Picks, ToSet
    <3>4. Picks(l, m)
      BY <3>1, <3>2, <3>3 DEF Picks
    <3> QED BY <3>1, <3>3, <3>4
  <2> QED BY <2>1, <2>2
<1>11. \A p \in ToSet(l) : p.kind # "use" /\ \A q \in ToSet(v) : p # q
  BY <1>6, <1>7, <1>10
<1>12. Picks(l \o v, m)
  BY <1>7, <1>10, <1>11, PicksJoin
<1>13. ASSUME NEW p \in ToSet(u), \A k, h \in DOMAIN u : p = u[k] => ~(k < h) PROVE p \in ToSet(l \o v)
  <2>1. PICK k \in DOMAIN u : p = u[k]
    BY DEF ToSet
  <2>2. u # <<>>
    BY <2>1
  <2>3. k = Len(u)
    BY <1>5, <1>9, <1>13, <2>1, <2>2
  <2>4. DOMAIN l = {1} /\ l[1] = p /\ Len(l) = 1
    BY <1>8, <2>1, <2>2, <2>3, OneElement
  <2>5. l \in Seq(Item) /\ v \in Seq(Item) /\ Len(v) \in Nat
    BY <1>7, <1>10 DEF Picks
  <2>6. 1 \in DOMAIN (l \o v) /\ (l \o v)[1] = p
    BY <2>4, <2>5, ConcatProperties
  <2> QED BY <2>6 DEF ToSet
<1> QED BY <1>4, <1>12, <1>13 DEF m, u, c, l

-----------------------------------------------------------------------------
(* Those that set a system prompt apart.                                   *)
TidyBut(g, msgs) == \E first : Tidy(g, msgs, first) /\ \A p \in first : turns[TurnOf(p)].role = "system"

SystemItems(msgs, I) == UNION {Items(msgs[x]) : x \in {w \in DOMAIN msgs : w \in I}}

LEMMA SystemItemsAre ==
  ASSUME ConversationInv, NEW msgs, Transcript(msgs), NEW I, \A x \in I : x \in DOMAIN msgs /\ msgs[x].role = "system"
  PROVE  /\ \A p \in SystemItems(msgs, I) : turns[TurnOf(p)].role = "system"
         /\ \A x \in DOMAIN msgs : x \notin I => Items(msgs[x]) \cap SystemItems(msgs, I) = {}
         /\ \A x \in I : \A s : Picks(s, msgs[x]) => \A p \in ToSet(s) : p \in SystemItems(msgs, I)
<1>1. ASSUME NEW p \in SystemItems(msgs, I) PROVE \E x \in I : x \in DOMAIN msgs /\ p \in Items(msgs[x])
  BY DEF SystemItems
<1>2. ASSUME NEW p \in SystemItems(msgs, I) PROVE turns[TurnOf(p)].role = "system"
  <2>1. PICK x \in I : x \in DOMAIN msgs /\ p \in Items(msgs[x])
    BY <1>1
  <2>2. PICK i \in DOMAIN turns : OfTurn(msgs[x], i)
    BY <2>1 DEF Transcript
  <2>3. TurnOf(p) = i
    BY <2>1, <2>2, OneTurn
  <2>4. turns[i].role = "system"
    BY <2>1, <2>2 DEF OfTurn
  <2> QED BY <2>3, <2>4
<1>3. ASSUME NEW x \in DOMAIN msgs, x \notin I PROVE Items(msgs[x]) \cap SystemItems(msgs, I) = {}
  <2> SUFFICES ASSUME NEW p \in Items(msgs[x]), p \in SystemItems(msgs, I) PROVE FALSE
    OBVIOUS
  <2>1. PICK w \in I : w \in DOMAIN msgs /\ p \in Items(msgs[w])
    BY <1>1
  <2> QED BY <1>3, <2>1, OneMessage
<1>4. ASSUME NEW x \in I, NEW s, Picks(s, msgs[x]), NEW p \in ToSet(s) PROVE p \in SystemItems(msgs, I)
  <2>1. PICK a \in DOMAIN s : p = s[a]
    BY DEF ToSet
  <2>2. p \in Items(msgs[x])
    BY <1>4, <2>1 DEF Picks
  <2> QED BY <2>2 DEF SystemItems
<1> QED BY <1>2, <1>3, <1>4

\* The last system prompt apart, and what is told of the others.
LEMMA LastSystemTidy ==
  ASSUME ConversationInv, NEW msgs, Transcript(msgs), NEW g, NEW I, I = {x \in DOMAIN msgs : msgs[x].role = "system"},
         Tidy(g, msgs, SystemItems(msgs, I))
  PROVE  LET h == Texts(LastOf(From(msgs, "system"))) IN
         /\ TidyBut(h \o g, msgs)
         /\ \A y \in DOMAIN g : \E z \in DOMAIN (h \o g) : (h \o g)[z] = g[y]
         /\ \A x \in DOMAIN msgs : x \in I /\ (\A w \in DOMAIN msgs : w \in I => ~(x < w)) =>
              \E z \in DOMAIN (h \o g) : (h \o g)[z].parts = StringContent(msgs[x])
<1> DEFINE h == Texts(LastOf(From(msgs, "system")))
           first == SystemItems(msgs, I)
<1>1. h = Texts(LastOf(Only(msgs, I)))
  BY DEF From
<1>2. \A x \in I : x \in DOMAIN msgs /\ msgs[x].role = "system"
  OBVIOUS
<1> HIDE DEF h
<1>3. /\ Tidy(h, msgs, {}) /\ Len(h) \in {0, 1}
      /\ (\A x \in DOMAIN msgs : x \notin I) => h = <<>>
      /\ \A x \in DOMAIN msgs : x \in I =>
           \E w \in DOMAIN msgs : /\ w \in I /\ DOMAIN h = {1} /\ Picks(h[1].parts, msgs[w])
                                  /\ h[1].parts = StringContent(msgs[w]) /\ (w = x \/ w > x)
  <2> HIDE <1>2
  <2> QED BY ONLY <1>1, LastAlone, ConversationInv, Transcript(msgs)
<1>4. /\ \A p \in first : turns[TurnOf(p)].role = "system"
      /\ \A x \in I : \A s : Picks(s, msgs[x]) => \A p \in ToSet(s) : p \in first
  BY <1>2, SystemItemsAre
<1>5. \A y \in DOMAIN h : \A p \in ToSet(h[y].parts) : p \in first
  <2>1. CASE \A x \in DOMAIN msgs : x \notin I
    BY <1>3, <2>1
  <2>2. CASE \E x \in DOMAIN msgs : x \in I
    <3>1. PICK w \in I : DOMAIN h = {1} /\ Picks(h[1].parts, msgs[w])
      BY <1>3, <2>2
    <3> QED BY <1>4, <3>1
  <2> QED BY <2>1, <2>2
<1> HIDE DEF first
<1>6. Tidy(h \o g, msgs, first) /\ Joins(h \o g, h, g)
  <2>1. Tidy(g, msgs, first)
    BY DEF first
  <2>2. Tidy(h, msgs, {})
    BY <1>3
  <2>3. FirstIs(h, first)
    BY <1>5 DEF FirstIs
  <2> QED BY ONLY <2>1, <2>2, <2>3, ApartTidy
<1>7. TidyBut(h \o g, msgs)
  BY <1>4, <1>6 DEF TidyBut
<1>8. ASSUME NEW x \in DOMAIN msgs, x \in I, \A w \in DOMAIN msgs : w \in I => ~(x < w)
      PROVE  \E z \in DOMAIN (h \o g) : (h \o g)[z].parts = StringContent(msgs[x])
  <2>1. PICK w \in DOMAIN msgs : /\ w \in I /\ DOMAIN h = {1} /\ h[1].parts = StringContent(msgs[w])
                                 /\ (w = x \/ w > x)
    BY <1>3, <1>8
  <2>2. x \in Nat /\ w \in Nat
    BY DEF Transcript
  <2>3. w = x
    BY <1>8, <2>1, <2>2
  <2>4. PICK z \in DOMAIN (h \o g) : (h \o g)[z] = h[1]
    BY <1>6, <2>1 DEF Joins
  <2> QED BY <2>1, <2>3, <2>4
<1>9. /\ TidyBut(h \o g, msgs)
      /\ \A y \in DOMAIN g : \E z \in DOMAIN (h \o g) : (h \o g)[z] = g[y]
      /\ \A x \in DOMAIN msgs : x \in I /\ (\A w \in DOMAIN msgs : w \in I => ~(x < w)) =>
           \E z \in DOMAIN (h \o g) : (h \o g)[z].parts = StringContent(msgs[x])
  BY <1>6, <1>7, <1>8 DEF Joins
<1> QED BY <1>9 DEF h

LEMMA BaiduTidy ==
  ASSUME ConversationInv, NEW msgs, Transcript(msgs)
  PROVE  /\ TidyBut(baiduRequest(msgs), msgs)
         /\ \A x \in DOMAIN msgs :
              msgs[x].role # "system" \/ (\A w \in DOMAIN msgs : msgs[w].role = "system" => ~(x < w)) =>
                \E y \in DOMAIN baiduRequest(msgs) : baiduRequest(msgs)[y].parts = StringContent(msgs[x])
<1> DEFINE I == {x \in DOMAIN msgs : msgs[x].role = "system"}
           J == {x \in DOMAIN msgs : msgs[x].role # "system"}
           first == SystemItems(msgs, I)
           g == Texts(Only(msgs, J))
           h == Texts(LastOf(From(msgs, "system")))
           f == h \o g
<1>1. baiduRequest(msgs) = f
  BY DEF baiduRequest, Without
<1>2. \A x \in DOMAIN msgs : (x \in I <=> msgs[x].role = "system") /\ (x \in J <=> msgs[x].role # "system")
  OBVIOUS
<1>3. \A x \in DOMAIN msgs : x \notin I => Items(msgs[x]) \cap first = {}
  <2>1. \A x \in I : x \in DOMAIN msgs /\ msgs[x].role = "system"
    OBVIOUS
  <2> HIDE DEF I
  <2> QED BY <2>1, SystemItemsAre
<1>4. /\ Tidy(g, msgs, first)
      /\ \A x \in DOMAIN msgs : x \in J => \E y \in DOMAIN g : g[y].parts = StringContent(msgs[x])
  <2>1. \A x \in DOMAIN msgs : x \in J => Items(msgs[x]) \cap first = {}
    BY <1>2, <1>3
  <2> HIDE DEF J, first
  <2> QED BY <2>1, TextsOnly
<1> HIDE DEF g, J
<1>5. /\ TidyBut(f, msgs)
      /\ \A y \in DOMAIN g : \E z \in DOMAIN f : f[z] = g[y]
      /\ \A x \in DOMAIN msgs : x \in I /\ (\A w \in DOMAIN msgs : w \in I => ~(x < w)) =>
           \E z \in DOMAIN f : f[z].parts = StringContent(msgs[x])
  BY <1>4, LastSystemTidy
<1> HIDE DEF I, f, h
<1>6. ASSUME NEW x \in DOMAIN msgs,
             msgs[x].role # "system" \/ (\A w \in DOMAIN msgs : msgs[w].role = "system" => ~(x < w))
      PROVE  \E y \in DOMAIN f : f[y].parts = StringContent(msgs[x])
  <2>1. CASE msgs[x].role # "system"
    <3>1. PICK y \in DOMAIN g : g[y].parts = StringContent(msgs[x])
      BY <1>2, <1>4, <2>1
    <3>2. PICK z \in DOMAIN f : f[z] = g[y]
      BY <1>5
    <3> QED BY <3>1, <3>2
  <2>2. CASE msgs[x].role = "system"
    BY <1>2, <1>5, <1>6, <2>2
  <2> QED BY <2>1, <2>2
<1> QED BY <1>1, <1>5, <1>6

\* What Gemini is told of a message.
GeminiTold(ss, msgs, instructs) ==
  \A i \in DOMAIN msgs :
    LET says == ss[i][1] IN
    /\ instructs /\ msgs[i].role = "system" => ss[i] = <<>>
    /\ ~(instructs /\ msgs[i].role = "system") =>
         /\ ss[i] = <<says>> \/ ss[i] = <<says, Okay>>
         /\ says \in Saying /\ says.parts = ParseContent(msgs[i])

LEMMA GeminiIs ==
  ASSUME ConversationInv, NEW msgs, Transcript(msgs), NEW instructs \in BOOLEAN
  PROVE  \E ss : /\ ss = [i \in DOMAIN msgs |-> ss[i]] /\ GeminiTold(ss, msgs, instructs)
                 /\ geminiRequest(msgs, instructs) =
                      (IF instructs THEN Texts(LastOf(From(msgs, "system"))) ELSE <<>>) \o FlattenSeq(ss)
<1> DEFINE says(i) == Says(CASE msgs[i].role = "assistant" -> "model" [] msgs[i].role = "system" -> "user"
                             [] OTHER -> msgs[i].role, ParseContent(msgs[i]))
           content(i) ==
             CASE msgs[i].role = "system" -> IF instructs THEN <<>> ELSE <<says(i), Okay>>
               [] msgs[i].role # "system" /\ instructs /\ i > 1 /\ msgs[i - 1].role = "system" -> <<says(i), Okay>>
               [] OTHER -> <<says(i)>>
           ss == [i \in DOMAIN msgs |-> content(i)]
<1>1. geminiRequest(msgs, instructs) =
        (IF instructs THEN Texts(LastOf(From(msgs, "system"))) ELSE <<>>) \o FlattenSeq(ss)
  BY DEF geminiRequest, All
<1>2. ASSUME NEW i \in DOMAIN msgs
      PROVE  says(i) \in Saying /\ says(i).parts = ParseContent(msgs[i])
  <2> DEFINE role == CASE msgs[i].role = "assistant" -> "model" [] msgs[i].role = "system" -> "user"
                       [] OTHER -> msgs[i].role
  <2>1. msgs[i].role \in Speaker /\ Picks(ParseContent(msgs[i]), msgs[i])
    BY MessageSays
  <2>2. role \in Speaker \cup {"model"}
    BY <2>1 DEF Speaker
  <2> HIDE DEF role
  <2>3. Says(role, ParseContent(msgs[i])) \in Saying /\ Says(role, ParseContent(msgs[i])).parts = ParseContent(msgs[i])
    BY <2>1, <2>2, SaysType
  <2> QED BY <2>3 DEF role
<1> HIDE DEF says
<1>3. \A i \in DOMAIN msgs :
        /\ msgs[i].role = "system" /\ instructs => content(i) = <<>>
        /\ ~(instructs /\ msgs[i].role = "system") => content(i) = <<says(i)>> \/ content(i) = <<says(i), Okay>>
  OBVIOUS
<1> HIDE DEF content
<1>4. \A i \in DOMAIN msgs : ss[i] = content(i)
  OBVIOUS
<1>5. ss = [i \in DOMAIN msgs |-> ss[i]]
  OBVIOUS
<1> HIDE DEF ss
<1>6. \A x, y : <<x>>[1] = x /\ <<x, y>>[1] = x
  OBVIOUS
<1>7. GeminiTold(ss, msgs, instructs)
  <2> SUFFICES ASSUME NEW i \in DOMAIN msgs
               PROVE  /\ instructs /\ msgs[i].role = "system" => ss[i] = <<>>
                      /\ ~(instructs /\ msgs[i].role = "system") =>
                           /\ ss[i] = <<ss[i][1]>> \/ ss[i] = <<ss[i][1], Okay>>
                           /\ ss[i][1] \in Saying /\ ss[i][1].parts = ParseContent(msgs[i])
    BY DEF GeminiTold
  <2>1. ~(instructs /\ msgs[i].role = "system") => ss[i][1] = says(i)
    BY <1>3, <1>4, <1>6
  <2> QED BY <1>2, <1>3, <1>4, <2>1
<1> QED BY <1>1, <1>5, <1>7

Skips(msgs, instructs, x) == instructs /\ msgs[x].role = "system"

GeminiTells(g, msgs, instructs) ==
  \A x \in DOMAIN msgs : ~Skips(msgs, instructs, x) => \E y \in DOMAIN g : g[y].parts = ParseContent(msgs[x])

LEMMA GeminiFlat ==
  ASSUME ConversationInv, NEW msgs, Transcript(msgs), NEW instructs \in BOOLEAN,
         NEW ss, ss = [i \in DOMAIN msgs |-> ss[i]], GeminiTold(ss, msgs, instructs), NEW first,
         \A x \in DOMAIN msgs : ~Skips(msgs, instructs, x) => Items(msgs[x]) \cap first = {}
  PROVE  Tidy(FlattenSeq(ss), msgs, first) /\ GeminiTells(FlattenSeq(ss), msgs, instructs)
<1>1. DOMAIN msgs = 1..Len(msgs) /\ Len(msgs) \in Nat
  BY DEF Transcript
<1>2. Okay \in Saying /\ Okay.parts = <<>>
  BY DEF Okay, Says, Saying
<1>3. \A x : x \in Saying => <<x>> \in Seq(Saying) /\ <<x, Okay>> \in Seq(Saying)
  BY <1>2
<1>4. /\ DOMAIN <<>> = {} /\ <<>> \in Seq(Saying)
      /\ \A x, y : DOMAIN <<x>> = {1} /\ <<x>>[1] = x /\ DOMAIN <<x, y>> = {1, 2} /\ <<x, y>>[1] = x /\ <<x, y>>[2] = y
  OBVIOUS
<1>5. ASSUME NEW i \in DOMAIN msgs
      PROVE  /\ ss[i] \in Seq(Saying)
             /\ \A a \in DOMAIN ss[i] : Picks(ss[i][a].parts, msgs[i])
             /\ \A a, b \in DOMAIN ss[i] : a < b => ss[i][b].parts = <<>>
             /\ DOMAIN ss[i] # {} => Items(msgs[i]) \cap first = {}
             /\ ~Skips(msgs, instructs, i) =>
                  1 \in DOMAIN ss[i] /\ ss[i][1].parts = ParseContent(msgs[i])
  <2>1. CASE instructs /\ msgs[i].role = "system"
    <3>1. ss[i] = <<>>
      BY <2>1 DEF GeminiTold
    <3> QED BY <1>4, <2>1, <3>1 DEF Skips
  <2>2. CASE ~(instructs /\ msgs[i].role = "system")
    <3> DEFINE s == ss[i][1]
    <3>1. (ss[i] = <<s>> \/ ss[i] = <<s, Okay>>) /\ s \in Saying /\ s.parts = ParseContent(msgs[i])
      BY <2>2 DEF GeminiTold
    <3>2. Picks(s.parts, msgs[i]) /\ Picks(Okay.parts, msgs[i])
      BY <1>2, <3>1, MessageSays
    <3> HIDE DEF s
    <3>3. CASE ss[i] = <<s>>
      <4>1. DOMAIN ss[i] = {1} /\ ss[i][1] = s /\ ss[i] \in Seq(Saying)
        BY <1>3, <1>4, <3>1, <3>3
      <4> QED BY <2>2, <3>1, <3>2, <4>1 DEF Skips
    <3>4. CASE ss[i] = <<s, Okay>>
      <4>1. DOMAIN ss[i] = {1, 2} /\ ss[i][1] = s /\ ss[i][2] = Okay /\ ss[i] \in Seq(Saying)
        <5>1. DOMAIN ss[i] = {1, 2} /\ ss[i][1] = s /\ ss[i][2] = Okay
          BY ONLY <1>4, <3>4
        <5>2. ss[i] \in Seq(Saying)
          BY ONLY <1>3, <3>1, <3>4
        <5> QED BY <5>1, <5>2
      <4>2. \A a, b \in DOMAIN ss[i] : a < b => b = 2
        BY <4>1
      <4> QED BY <1>2, <2>2, <3>1, <3>2, <4>1, <4>2 DEF Skips
    <3> QED BY <3>1, <3>3, <3>4
  <2> QED BY <2>1, <2>2
<1>6. ss \in Seq(Seq(Saying)) /\ Len(ss) = Len(msgs)
  BY <1>1, <1>5
<1>7. ToldAs(ss, msgs, first)
  BY <1>5 DEF ToldAs
<1> DEFINE g == FlattenSeq(ss)
<1>8. Tidy(g, msgs, first) /\ MadeOf(g, ss, msgs)
  BY <1>6, <1>7, FlattenTidy
<1> HIDE DEF g
<1>9. GeminiTells(g, msgs, instructs)
  BY <1>5, <1>8 DEF GeminiTells, MadeOf, Skips
<1> QED BY <1>8, <1>9 DEF g

LEMMA NothingTidy ==
  ASSUME ConversationInv, NEW msgs, Transcript(msgs), NEW g, Tidy(g, msgs, {})
  PROVE  <<>> \o g = g
<1>1. g \in Seq(Saying)
  BY DEF Tidy
<1> QED BY <1>1, ConcatEmptySeq

LEMMA GeminiTidy ==
  ASSUME ConversationInv, NEW msgs, Transcript(msgs)
  PROVE  /\ Tidy(geminiRequest(msgs, FALSE), msgs, {})
         /\ \A x \in DOMAIN msgs :
              \E y \in DOMAIN geminiRequest(msgs, FALSE) : geminiRequest(msgs, FALSE)[y].parts = ParseContent(msgs[x])
<1>1. PICK ss : /\ ss = [i \in DOMAIN msgs |-> ss[i]] /\ GeminiTold(ss, msgs, FALSE)
                /\ geminiRequest(msgs, FALSE) = <<>> \o FlattenSeq(ss)
  BY GeminiIs
<1> DEFINE g == FlattenSeq(ss)
<1>2. Tidy(g, msgs, {}) /\ GeminiTells(g, msgs, FALSE)
  <2>1. \A x \in DOMAIN msgs : ~Skips(msgs, FALSE, x) => Items(msgs[x]) \cap {} = {}
    OBVIOUS
  <2>2. ss = [i \in DOMAIN msgs |-> ss[i]] /\ GeminiTold(ss, msgs, FALSE) /\ FALSE \in BOOLEAN
    BY <1>1
  <2>3. Tidy(FlattenSeq(ss), msgs, {}) /\ GeminiTells(FlattenSeq(ss), msgs, FALSE)
    BY ONLY <2>1, <2>2, ConversationInv, Transcript(msgs), GeminiFlat
  <2> QED BY <2>3
<1> HIDE DEF g
<1>3. geminiRequest(msgs, FALSE) = g
  <2>1. <<>> \o g = g
    BY <1>2, NothingTidy
  <2> QED BY <1>1, <2>1 DEF g
<1> QED BY <1>2, <1>3 DEF GeminiTells, Skips

LEMMA Gemini2Tidy ==
  ASSUME ConversationInv, NEW msgs, Transcript(msgs)
  PROVE  /\ TidyBut(geminiRequest(msgs, TRUE), msgs)
         /\ \A x \in DOMAIN msgs : msgs[x].role # "system" =>
              \E y \in DOMAIN geminiRequest(msgs, TRUE) : geminiRequest(msgs, TRUE)[y].parts = ParseContent(msgs[x])
         /\ \A x \in DOMAIN msgs :
              msgs[x].role = "system" /\ (\A w \in DOMAIN msgs : msgs[w].role = "system" => ~(x < w)) =>
                \E y \in DOMAIN geminiRequest(msgs, TRUE) : geminiRequest(msgs, TRUE)[y].parts = StringContent(msgs[x])
<1>1. PICK ss : /\ ss = [i \in DOMAIN msgs |-> ss[i]] /\ GeminiTold(ss, msgs, TRUE)
                /\ geminiRequest(msgs, TRUE) = Texts(LastOf(From(msgs, "system"))) \o FlattenSeq(ss)
  BY GeminiIs
<1> DEFINE g == FlattenSeq(ss)
           I == {x \in DOMAIN msgs : msgs[x].role = "system"}
           first == SystemItems(msgs, I)
           f == Texts(LastOf(From(msgs, "system"))) \o g
<1>2. \A x \in DOMAIN msgs : x \in I <=> msgs[x].role = "system"
  OBVIOUS
<1>3. \A x \in DOMAIN msgs : x \notin I => Items(msgs[x]) \cap first = {}
  <2>1. \A x \in I : x \in DOMAIN msgs /\ msgs[x].role = "system"
    OBVIOUS
  <2> HIDE DEF I
  <2> QED BY <2>1, SystemItemsAre
<1> HIDE DEF first
<1>4. Tidy(g, msgs, first) /\ GeminiTells(g, msgs, TRUE)
  <2>1. \A x \in DOMAIN msgs : ~Skips(msgs, TRUE, x) => Items(msgs[x]) \cap first = {}
    BY <1>2, <1>3 DEF Skips
  <2> QED BY <1>1, <2>1, GeminiFlat
<1> HIDE DEF g
<1>5. /\ TidyBut(f, msgs)
      /\ \A y \in DOMAIN g : \E z \in DOMAIN f : f[z] = g[y]
      /\ \A x \in DOMAIN msgs : x \in I /\ (\A w \in DOMAIN msgs : w \in I => ~(x < w)) =>
           \E z \in DOMAIN f : f[z].parts = StringContent(msgs[x])
  BY <1>4, LastSystemTidy DEF first
<1> HIDE DEF I, f
<1>6. geminiRequest(msgs, TRUE) = f
  BY <1>1 DEF f, g
<1>7. ASSUME NEW x \in DOMAIN msgs, msgs[x].role # "system"
      PROVE  \E y \in DOMAIN f : f[y].parts = ParseContent(msgs[x])
  <2>1. PICK y \in DOMAIN g : g[y].parts = ParseContent(msgs[x])
    BY <1>4, <1>7 DEF GeminiTells, Skips
  <2>2. PICK z \in DOMAIN f : f[z] = g[y]
    BY <1>5
  <2> QED BY <2>1, <2>2
<1>8. ASSUME NEW x \in DOMAIN msgs,
             msgs[x].role = "system" /\ (\A w \in DOMAIN msgs : msgs[w].role = "system" => ~(x < w))
      PROVE  \E y \in DOMAIN f : f[y].parts = StringContent(msgs[x])
  BY <1>2, <1>5, <1>8
<1> QED BY <1>5, <1>6, <1>7, <1>8

\* What Claude is told of a message.
ClaudeParts(m) == IF m.form = "string" THEN m.parts \o m.calls ELSE ParseContent(m)

LEMMA ClaudeSays ==
  ASSUME ConversationInv, NEW msgs, Transcript(msgs), NEW x \in DOMAIN msgs
  PROVE  LET says == Says(IF msgs[x].role = "tool" THEN "user" ELSE msgs[x].role, ClaudeParts(msgs[x])) IN
         says \in Saying /\ says.parts = ClaudeParts(msgs[x]) /\ Picks(says.parts, msgs[x])
<1> DEFINE role == IF msgs[x].role = "tool" THEN "user" ELSE msgs[x].role
           s == ClaudeParts(msgs[x])
<1>1. /\ msgs[x].role \in Speaker /\ Picks(ParseContent(msgs[x]), msgs[x])
      /\ Picks(msgs[x].parts \o msgs[x].calls, msgs[x])
  BY MessageSays
<1>2. role \in Speaker \cup {"model"}
  BY <1>1 DEF Speaker
<1>3. Picks(s, msgs[x])
  BY <1>1 DEF ClaudeParts
<1> HIDE DEF role, s
<1>4. Says(role, s) \in Saying /\ Says(role, s).parts = s
  BY <1>2, <1>3, SaysType
<1> QED BY <1>3, <1>4 DEF role, s

\* Claude: every message but the system prompt, in order, and a string with its calls.
LEMMA AnthropicTidy ==
  ASSUME ConversationInv, NEW msgs, Transcript(msgs)
  PROVE  /\ TidyBut(anthropicRequest(msgs), msgs)
         /\ \A x \in DOMAIN msgs : \E y \in DOMAIN anthropicRequest(msgs) :
              \/ anthropicRequest(msgs)[y].parts = ClaudeParts(msgs[x])
              \/ msgs[x].role = "system" /\ anthropicRequest(msgs)[y].parts = StringContent(msgs[x])
<1> DEFINE systems == {i \in DOMAIN msgs : msgs[i].role = "system"}
           apart == {i \in systems : \A k \in systems : i <= k}
           said(m) == Says(IF m.role = "tool" THEN "user" ELSE m.role,
                           IF m.form = "string" THEN m.parts \o m.calls ELSE ParseContent(m))
           aa == [i \in DOMAIN msgs |-> IF i \in apart THEN Texts(<<msgs[i]>>) ELSE <<>>]
           bb == [i \in DOMAIN msgs |-> IF i \in apart THEN <<>> ELSE <<said(msgs[i])>>]
           h == FlattenSeq(aa)
           g == FlattenSeq(bb)
           first == SystemItems(msgs, apart)
<1>1. anthropicRequest(msgs) = h \o g
  BY DEF anthropicRequest, All
<1>2. DOMAIN msgs = 1..Len(msgs) /\ Len(msgs) \in Nat
  BY DEF Transcript
<1>3. \A i \in DOMAIN msgs : said(msgs[i]) \in Saying /\ said(msgs[i]).parts = ClaudeParts(msgs[i]) /\ Picks(said(msgs[i]).parts, msgs[i])
  <2> SUFFICES ASSUME NEW i \in DOMAIN msgs
               PROVE  said(msgs[i]) \in Saying /\ said(msgs[i]).parts = ClaudeParts(msgs[i]) /\ Picks(said(msgs[i]).parts, msgs[i])
    OBVIOUS
  <2>1. said(msgs[i]) = Says(IF msgs[i].role = "tool" THEN "user" ELSE msgs[i].role, ClaudeParts(msgs[i]))
    BY DEF ClaudeParts
  <2> HIDE DEF said
  <2> QED BY <2>1, ClaudeSays
<1>4. \A i \in apart : i \in DOMAIN msgs /\ msgs[i].role = "system"
  OBVIOUS
<1> HIDE DEF said, apart, systems
<1>5. ASSUME NEW i \in DOMAIN msgs, NEW t, t = Texts(<<msgs[i]>>)
      PROVE  /\ DOMAIN t = {1} /\ t \in Seq(Saying) /\ t[1].parts = StringContent(msgs[i])
             /\ Picks(t[1].parts, msgs[i])
  <2> DEFINE s == <<msgs[i]>>
  <2>1. DOMAIN s = {1} /\ s[1] = msgs[i]
    BY OneElement
  <2> HIDE DEF s
  <2>2. DOMAIN Texts(s) = DOMAIN s /\ (\A y \in DOMAIN s : Texts(s)[y] = Says(s[y].role, StringContent(s[y])))
        /\ Texts(s) = [y \in DOMAIN Texts(s) |-> Texts(s)[y]]
    BY TextsAre
  <2>3. t = Texts(s)
    BY <1>5 DEF s
  <2>4. DOMAIN t = {1} /\ t[1] = Says(msgs[i].role, StringContent(msgs[i])) /\ t = [y \in DOMAIN t |-> t[y]]
    BY <2>1, <2>2, <2>3
  <2> HIDE <1>5
  <2>5. msgs[i].role \in Speaker /\ Picks(StringContent(msgs[i]), msgs[i])
    BY MessageSays
  <2>6. t[1] \in Saying /\ t[1].parts = StringContent(msgs[i])
    BY <2>4, <2>5, SaysType
  <2>7. t \in Seq(Saying)
    <3> DEFINE r == [y \in 1..1 |-> t[y]]
    <3>1. r \in Seq(Saying)
      BY <2>6
    <3>2. t = r
      BY <2>4
    <3> QED BY ONLY <3>1, <3>2
  <2> QED BY <2>4, <2>5, <2>6, <2>7
<1>6. \A x : DOMAIN <<x>> = {1} /\ <<x>>[1] = x /\ (x \in Saying => <<x>> \in Seq(Saying))
  OBVIOUS
<1>7. DOMAIN <<>> = {} /\ <<>> \in Seq(Saying)
  OBVIOUS
<1>8. \A i \in DOMAIN msgs : /\ i \in apart => aa[i] = Texts(<<msgs[i]>>) /\ bb[i] = <<>>
                             /\ i \notin apart => aa[i] = <<>> /\ bb[i] = <<said(msgs[i])>>
  OBVIOUS
<1>9. aa = [i \in 1..Len(msgs) |-> aa[i]] /\ bb = [i \in 1..Len(msgs) |-> bb[i]]
  BY <1>2
<1> HIDE DEF aa, bb
<1>10. \A i \in DOMAIN msgs :
         /\ i \in apart => DOMAIN aa[i] = {1} /\ aa[i][1].parts = StringContent(msgs[i]) /\ Picks(aa[i][1].parts, msgs[i])
         /\ i \notin apart => DOMAIN aa[i] = {}
         /\ aa[i] \in Seq(Saying)
  BY <1>5, <1>7, <1>8
<1>11. \A i \in DOMAIN msgs :
         /\ i \notin apart => DOMAIN bb[i] = {1} /\ bb[i][1].parts = ClaudeParts(msgs[i]) /\ Picks(bb[i][1].parts, msgs[i])
         /\ i \in apart => DOMAIN bb[i] = {}
         /\ bb[i] \in Seq(Saying)
  <2> SUFFICES ASSUME NEW i \in DOMAIN msgs
               PROVE  /\ i \notin apart => /\ DOMAIN bb[i] = {1} /\ bb[i][1].parts = ClaudeParts(msgs[i])
                                           /\ Picks(bb[i][1].parts, msgs[i])
                      /\ i \in apart => DOMAIN bb[i] = {}
                      /\ bb[i] \in Seq(Saying)
    OBVIOUS
  <2>1. CASE i \in apart
    BY <1>7, <1>8, <2>1
  <2>2. CASE i \notin apart
    <3> DEFINE s == said(msgs[i])
    <3>1. s \in Saying /\ s.parts = ClaudeParts(msgs[i]) /\ Picks(s.parts, msgs[i]) /\ bb[i] = <<s>>
      BY <1>3, <1>8, <2>2
    <3> HIDE DEF s
    <3>2. DOMAIN bb[i] = {1} /\ bb[i][1] = s
      BY ONLY <1>6, <3>1
    <3>3. bb[i] \in Seq(Saying)
      BY ONLY <1>6, <3>1
    <3> QED BY <2>2, <3>1, <3>2, <3>3
  <2> QED BY <2>1, <2>2
<1>12. /\ \A p \in first : turns[TurnOf(p)].role = "system"
       /\ \A x \in DOMAIN msgs : x \notin apart => Items(msgs[x]) \cap first = {}
       /\ \A x \in apart : \A s : Picks(s, msgs[x]) => \A p \in ToSet(s) : p \in first
  BY <1>4, SystemItemsAre
<1> HIDE DEF first
<1>13. Tidy(h, msgs, {}) /\ MadeOf(h, aa, msgs)
  <2>1. aa \in Seq(Seq(Saying)) /\ Len(aa) = Len(msgs)
    <3> DEFINE r == [i \in 1..Len(msgs) |-> aa[i]]
    <3>1. r \in Seq(Seq(Saying)) /\ Len(r) = Len(msgs)
      BY <1>2, <1>10
    <3>2. aa = r
      BY <1>9
    <3> QED BY ONLY <3>1, <3>2
  <2>2. ToldAs(aa, msgs, {})
    BY <1>10 DEF ToldAs
  <2> QED BY <2>1, <2>2, FlattenTidy
<1>14. Tidy(g, msgs, first) /\ MadeOf(g, bb, msgs)
  <2>1. bb \in Seq(Seq(Saying)) /\ Len(bb) = Len(msgs)
    <3> DEFINE r == [i \in 1..Len(msgs) |-> bb[i]]
    <3>1. r \in Seq(Seq(Saying)) /\ Len(r) = Len(msgs)
      BY <1>2, <1>11
    <3>2. bb = r
      BY <1>9
    <3> QED BY ONLY <3>1, <3>2
  <2>2. ToldAs(bb, msgs, first)
    BY <1>11, <1>12 DEF ToldAs
  <2> QED BY <2>1, <2>2, FlattenTidy
<1> HIDE DEF h, g
<1>15. FirstIs(h, first)
  <2> SUFFICES ASSUME NEW y \in DOMAIN h, NEW p \in ToSet(h[y].parts) PROVE p \in first
    BY DEF FirstIs
  <2>1. PICK i \in DOMAIN msgs : \E a \in DOMAIN aa[i] : h[y] = aa[i][a]
    BY <1>13 DEF MadeOf
  <2>2. i \in apart /\ h[y] = aa[i][1]
    BY <1>10, <2>1
  <2>3. Picks(h[y].parts, msgs[i])
    BY <1>10, <2>2
  <2> QED BY <1>12, <2>2, <2>3
<1>16. Tidy(h \o g, msgs, first) /\ Joins(h \o g, h, g)
  BY <1>13, <1>14, <1>15, ApartTidy
<1> DEFINE f == h \o g
<1>17. Tidy(f, msgs, first) /\ Joins(f, h, g)
  BY <1>16
<1> HIDE DEF f
<1>18. TidyBut(f, msgs)
  BY <1>12, <1>17 DEF TidyBut
<1>19. ASSUME NEW x \in DOMAIN msgs
       PROVE  \E y \in DOMAIN f : \/ f[y].parts = ClaudeParts(msgs[x])
                                  \/ msgs[x].role = "system" /\ f[y].parts = StringContent(msgs[x])
  <2>1. CASE x \in apart
    <3>1. PICK y \in DOMAIN h : h[y] = aa[x][1]
      BY <1>10, <1>13, <2>1 DEF MadeOf
    <3>2. PICK z \in DOMAIN f : f[z] = h[y]
      BY <1>17 DEF Joins
    <3>3. f[z].parts = StringContent(msgs[x])
      BY <1>10, <2>1, <3>1, <3>2
    <3> QED BY <1>4, <2>1, <3>3
  <2>2. CASE x \notin apart
    <3>1. PICK y \in DOMAIN g : g[y] = bb[x][1]
      BY <1>11, <1>14, <2>2 DEF MadeOf
    <3>2. PICK z \in DOMAIN f : f[z] = g[y]
      BY <1>17 DEF Joins
    <3>3. f[z].parts = ClaudeParts(msgs[x])
      BY <1>11, <2>2, <3>1, <3>2
    <3> QED BY <3>3
  <2> QED BY <2>1, <2>2
<1>20. anthropicRequest(msgs) = f
  BY <1>1 DEF f
<1> QED BY <1>18, <1>19, <1>20

-----------------------------------------------------------------------------
(* Those that tell the last message, or the strings, or Cohere.            *)
LEMMA AllKept ==
  ASSUME NEW msgs, Transcript(msgs)
  PROVE  Only(msgs, DOMAIN msgs) = msgs
<1>1. msgs \in Seq(Msg)
  BY DEF Transcript
<1> QED BY <1>1, OnlyAll

LEMMA LastTidy ==
  ASSUME ConversationInv, NEW msgs, Transcript(msgs)
  PROVE  /\ Tidy(Texts(LastOf(msgs)), msgs, {})
         /\ \A x \in DOMAIN msgs : (\A w \in DOMAIN msgs : ~(x < w)) =>
              \E y \in DOMAIN Texts(LastOf(msgs)) : Texts(LastOf(msgs))[y].parts = StringContent(msgs[x])
<1> DEFINE I == DOMAIN msgs
           g == Texts(LastOf(msgs))
<1>1. g = Texts(LastOf(Only(msgs, I)))
  BY AllKept
<1> HIDE DEF I, g
<1>2. /\ Tidy(g, msgs, {})
      /\ \A x \in DOMAIN msgs : x \in I =>
           \E w \in DOMAIN msgs : /\ w \in I /\ DOMAIN g = {1} /\ Picks(g[1].parts, msgs[w])
                                  /\ g[1].parts = StringContent(msgs[w]) /\ (w = x \/ w > x)
  BY ONLY <1>1, LastAlone, ConversationInv, Transcript(msgs)
<1>3. ASSUME NEW x \in DOMAIN msgs, \A w \in DOMAIN msgs : ~(x < w)
      PROVE  \E y \in DOMAIN g : g[y].parts = StringContent(msgs[x])
  <2>1. PICK w \in DOMAIN msgs : /\ DOMAIN g = {1} /\ g[1].parts = StringContent(msgs[w])
                                 /\ (w = x \/ w > x)
    BY <1>2 DEF I
  <2>2. x \in Nat /\ w \in Nat
    BY DEF Transcript
  <2>3. w = x
    BY <1>3, <2>1, <2>2
  <2> QED BY <2>1, <2>3
<1> QED BY <1>2, <1>3 DEF g

LEMMA ReplicateTidy ==
  ASSUME ConversationInv, NEW msgs, Transcript(msgs)
  PROVE  /\ Tidy(replicateRequest(msgs), msgs, {})
         /\ \A x \in DOMAIN msgs : msgs[x].form = "string" =>
              \E y \in DOMAIN replicateRequest(msgs) : replicateRequest(msgs)[y].parts = StringContent(msgs[x])
<1> DEFINE I == {i \in DOMAIN msgs : msgs[i].form = "string"}
           g == Texts(Only(msgs, I))
<1>1. replicateRequest(msgs) = g
  BY DEF replicateRequest
<1>2. \A x \in DOMAIN msgs : msgs[x].form = "string" => x \in I
  OBVIOUS
<1> HIDE DEF I
<1>3. \A x \in DOMAIN msgs : x \in I => Items(msgs[x]) \cap {} = {}
  OBVIOUS
<1>4. /\ Tidy(g, msgs, {})
      /\ \A x \in DOMAIN msgs : x \in I => \E y \in DOMAIN g : g[y].parts = StringContent(msgs[x])
  BY <1>3, TextsOnly
<1> HIDE DEF g
<1> QED BY <1>1, <1>2, <1>4

\* Cohere is told what is of the messages, in an order of its own.
TellsOf(g, msgs) == g \in Seq(Saying) /\ \A y \in DOMAIN g : \E x \in DOMAIN msgs : Picks(g[y].parts, msgs[x])

\* Cohere may be told out of order, but only what is in the messages.
LEMMA CohereTold ==
  ASSUME ConversationInv, NEW msgs, Transcript(msgs)
  PROVE  /\ TellsOf(cohereRequest(msgs), msgs)
         /\ \A x \in DOMAIN msgs :
              msgs[x].role # "user" \/ (\A w \in DOMAIN msgs : msgs[w].role = "user" => ~(x < w)) =>
                \E y \in DOMAIN cohereRequest(msgs) : cohereRequest(msgs)[y].parts = StringContent(msgs[x])
<1> DEFINE I == {x \in DOMAIN msgs : msgs[x].role = "user"}
           J == {x \in DOMAIN msgs : msgs[x].role # "user"}
           h == Texts(Only(msgs, J))
           g == Texts(LastOf(Only(msgs, I)))
           f == h \o g
           F == Len(h)
<1>1. cohereRequest(msgs) = f
  BY DEF cohereRequest, Without, From
<1>2. \A x \in DOMAIN msgs : (x \in I <=> msgs[x].role = "user") /\ (x \in J <=> msgs[x].role # "user")
  OBVIOUS
<1> HIDE DEF I, J
<1>3. \A x \in DOMAIN msgs : x \in J => Items(msgs[x]) \cap {} = {}
  OBVIOUS
<1>4. /\ Tidy(h, msgs, {})
      /\ \A x \in DOMAIN msgs : x \in J => \E y \in DOMAIN h : h[y].parts = StringContent(msgs[x])
  BY <1>3, TextsOnly
<1> HIDE DEF h, g
<1>5. /\ Tidy(g, msgs, {})
      /\ \A x \in DOMAIN msgs : x \in I =>
           \E w \in DOMAIN msgs : /\ w \in I /\ DOMAIN g = {1} /\ Picks(g[1].parts, msgs[w])
                                  /\ g[1].parts = StringContent(msgs[w]) /\ (w = x \/ w > x)
  BY ONLY LastAlone, ConversationInv, Transcript(msgs) DEF g
<1>6. /\ h \in Seq(Saying) /\ g \in Seq(Saying)
      /\ DOMAIN h = 1..F /\ F \in Nat /\ Len(g) \in Nat /\ DOMAIN g = 1..Len(g)
  BY <1>4, <1>5 DEF Tidy
<1>7. /\ f \in Seq(Saying) /\ Len(f) = F + Len(g)
      /\ \A k \in 1..(F + Len(g)) : f[k] = IF k <= F THEN h[k] ELSE g[k - F]
  BY <1>6, ConcatProperties
<1> HIDE DEF f, F
<1>8. DOMAIN f = 1..(F + Len(g))
  BY <1>6, <1>7
<1>9. \A k \in DOMAIN f : \/ k <= F /\ k \in DOMAIN h /\ f[k] = h[k]
                          \/ k > F /\ k - F \in DOMAIN g /\ f[k] = g[k - F]
  BY <1>6, <1>7, <1>8
<1>10. \A y \in DOMAIN h : y \in DOMAIN f /\ f[y] = h[y]
  BY <1>6, <1>7, <1>8
<1>11. ASSUME NEW y \in DOMAIN g PROVE y + F \in DOMAIN f /\ f[y + F] = g[y]
  <2>1. y + F \in 1..(F + Len(g)) /\ ~(y + F <= F) /\ (y + F) - F = y
    BY <1>6
  <2> QED BY <1>7, <1>8, <2>1
<1>12. ASSUME NEW y \in DOMAIN f PROVE \E x \in DOMAIN msgs : Picks(f[y].parts, msgs[x])
  <2>1. CASE y \in DOMAIN h /\ f[y] = h[y]
    BY <1>4, <2>1 DEF Tidy
  <2>2. CASE y - F \in DOMAIN g /\ f[y] = g[y - F]
    BY <1>5, <2>2 DEF Tidy
  <2> QED BY <1>9, <2>1, <2>2
<1>13. ASSUME NEW x \in DOMAIN msgs,
              msgs[x].role # "user" \/ (\A w \in DOMAIN msgs : msgs[w].role = "user" => ~(x < w))
       PROVE  \E y \in DOMAIN f : f[y].parts = StringContent(msgs[x])
  <2>1. CASE msgs[x].role # "user"
    <3>1. PICK y \in DOMAIN h : h[y].parts = StringContent(msgs[x])
      BY <1>2, <1>4, <2>1
    <3> QED BY <1>10, <3>1
  <2>2. CASE msgs[x].role = "user"
    <3>1. PICK w \in DOMAIN msgs : /\ w \in I /\ DOMAIN g = {1} /\ g[1].parts = StringContent(msgs[w])
                                   /\ (w = x \/ w > x)
      BY <1>2, <1>5, <2>2
    <3>2. x \in Nat /\ w \in Nat /\ msgs[w].role = "user"
      BY <1>2, <3>1 DEF Transcript
    <3>3. w = x
      BY <1>13, <2>2, <3>1, <3>2
    <3>4. 1 + F \in DOMAIN f /\ f[1 + F] = g[1]
      BY <1>11, <3>1
    <3> QED BY <3>1, <3>3, <3>4
  <2> QED BY <2>1, <2>2
<1>14. TellsOf(f, msgs)
  BY <1>7, <1>12 DEF TellsOf
<1> QED BY <1>1, <1>13, <1>14

\* What Ollama is told.
LEMMA OllamaTidy ==
  ASSUME ConversationInv, NEW msgs, Transcript(msgs)
  PROVE  /\ Tidy(ollamaRequest(msgs), msgs, {})
         /\ \A x \in DOMAIN msgs :
              /\ x \in DOMAIN ollamaRequest(msgs)
              /\ \A p \in ToSet(StringContent(msgs[x])) :
                   (\A k, l \in DOMAIN StringContent(msgs[x]) : p = StringContent(msgs[x])[k] => ~(k < l)) =>
                     p \in ToSet(ollamaRequest(msgs)[x].parts)
<1> DEFINE g == ollamaRequest(msgs)
           told(x) == LastOf(StringContent(msgs[x])) \o OfKind(ParseContent(msgs[x]), "image")
<1>1. DOMAIN g = DOMAIN msgs /\ (\A y \in DOMAIN msgs : g[y] = Says(msgs[y].role, told(y)))
      /\ g = [y \in DOMAIN g |-> g[y]]
  BY DEF ollamaRequest
<1>2. \A x \in DOMAIN msgs :
        /\ Picks(told(x), msgs[x])
        /\ \A p \in ToSet(StringContent(msgs[x])) :
             (\A k, l \in DOMAIN StringContent(msgs[x]) : p = StringContent(msgs[x])[k] => ~(k < l)) =>
               p \in ToSet(told(x))
  BY OllamaPicks
<1> HIDE DEF g, told
<1>3. \A x \in DOMAIN msgs : g[x] \in Saying /\ g[x].parts = told(x) /\ Picks(g[x].parts, msgs[x])
  <2> SUFFICES ASSUME NEW x \in DOMAIN msgs
               PROVE  g[x] \in Saying /\ g[x].parts = told(x) /\ Picks(g[x].parts, msgs[x])
    OBVIOUS
  <2>1. msgs[x].role \in Speaker /\ Picks(told(x), msgs[x])
    BY <1>2, MessageSays
  <2> QED BY <1>1, <2>1, SaysType
<1>4. Tidy(g, msgs, {})
  BY <1>1, <1>3, EachTidy
<1> QED BY <1>1, <1>2, <1>3, <1>4 DEF g

-----------------------------------------------------------------------------
(* All of them.                                                            *)
LEMMA GivenIs ==
  ASSUME NEW msgs
  PROVE  /\ Given("openai", msgs) = openaiRequest(msgs)
         /\ Given("anthropic", msgs) = anthropicRequest(msgs)
         /\ Given("gemini", msgs) = geminiRequest(msgs, FALSE)
         /\ Given("gemini2", msgs) = geminiRequest(msgs, TRUE)
         /\ Given("baidu", msgs) = baiduRequest(msgs)
         /\ \A a \in {"xunfei", "tencent", "zhipu", "ali", "palm", "bedrockLlama", "coze"} : Given(a, msgs) = Texts(msgs)
         /\ Given("ollama", msgs) = ollamaRequest(msgs)
         /\ Given("cohere", msgs) = cohereRequest(msgs)
         /\ \A a \in {"deepl", "aiproxy"} : Given(a, msgs) = Texts(LastOf(msgs))
         /\ Given("replicate", msgs) = replicateRequest(msgs)
<1>1. /\ Given("openai", msgs) = openaiRequest(msgs)
      /\ Given("anthropic", msgs) = anthropicRequest(msgs)
      /\ Given("gemini", msgs) = geminiRequest(msgs, FALSE)
      /\ Given("gemini2", msgs) = geminiRequest(msgs, TRUE)
      /\ Given("baidu", msgs) = baiduRequest(msgs)
  BY DEF Given
<1>2. /\ Given("ollama", msgs) = ollamaRequest(msgs)
      /\ Given("cohere", msgs) = cohereRequest(msgs)
      /\ Given("replicate", msgs) = replicateRequest(msgs)
  BY DEF Given
<1>3. Given("xunfei", msgs) = Texts(msgs) /\ Given("tencent", msgs) = Texts(msgs)
  BY DEF Given, xunfeiRequest, tencentRequest
<1>4. Given("zhipu", msgs) = Texts(msgs) /\ Given("ali", msgs) = Texts(msgs) /\ Given("palm", msgs) = Texts(msgs)
  BY DEF Given, zhipuRequest, aliRequest, palmRequest
<1>5. Given("bedrockLlama", msgs) = Texts(msgs) /\ Given("coze", msgs) = Texts(msgs)
  BY DEF Given, bedrockLlamaRequest, cozeRequest
<1>6. Given("deepl", msgs) = Texts(LastOf(msgs)) /\ Given("aiproxy", msgs) = Texts(LastOf(msgs))
  BY DEF Given, deeplRequest, aiproxyRequest
<1> QED BY <1>1, <1>2, <1>3, <1>4, <1>5, <1>6

\* Every adaptor but Cohere's keeps the order.
LEMMA AdaptorTidy ==
  ASSUME ConversationInv, NEW msgs, Transcript(msgs), NEW a \in Adaptor, a # "cohere"
  PROVE  TidyBut(Given(a, msgs), msgs)
<1>1. ASSUME NEW g, Tidy(g, msgs, {}) PROVE TidyBut(g, msgs)
  <2>1. \A p \in {} : turns[TurnOf(p)].role = "system"
    OBVIOUS
  <2> QED BY <1>1, <2>1 DEF TidyBut
<1>2. CASE a = "openai"
  BY <1>1, <1>2, GivenIs, OpenaiTidy
<1>3. CASE a = "anthropic"
  BY <1>3, GivenIs, AnthropicTidy
<1>4. CASE a = "gemini"
  BY <1>1, <1>4, GivenIs, GeminiTidy
<1>5. CASE a = "gemini2"
  BY <1>5, GivenIs, Gemini2Tidy
<1>6. CASE a = "baidu"
  BY <1>6, GivenIs, BaiduTidy
<1>7. CASE a \in {"xunfei", "tencent", "zhipu", "ali", "palm", "bedrockLlama", "coze"}
  BY <1>1, <1>7, GivenIs, TextsTidy
<1>8. CASE a = "ollama"
  BY <1>1, <1>8, GivenIs, OllamaTidy
<1>9. CASE a \in {"deepl", "aiproxy"}
  BY <1>1, <1>9, GivenIs, LastTidy
<1>10. CASE a = "replicate"
  BY <1>1, <1>10, GivenIs, ReplicateTidy
<1> QED BY <1>2, <1>3, <1>4, <1>5, <1>6, <1>7, <1>8, <1>9, <1>10 DEF Adaptor

\* And every one tells parts of the messages.
LEMMA AdaptorTold ==
  ASSUME ConversationInv, NEW msgs, Transcript(msgs), NEW a \in Adaptor
  PROVE  TellsOf(Given(a, msgs), msgs)
<1>1. CASE a = "cohere"
  BY <1>1, GivenIs, CohereTold
<1>2. CASE a # "cohere"
  <2>1. TidyBut(Given(a, msgs), msgs)
    BY <1>2, AdaptorTidy
  <2> QED BY <2>1 DEF TidyBut, Tidy, TellsOf
<1> QED BY <1>1, <1>2

LEMMA InConcat ==
  ASSUME NEW S, NEW s \in Seq(S), NEW r \in Seq(S), NEW p \in ToSet(s)
  PROVE  p \in ToSet(s \o r)
<1>1. PICK k \in DOMAIN s : p = s[k]
  BY DEF ToSet
<1>2. k \in DOMAIN (s \o r) /\ (s \o r)[k] = s[k]
  BY <1>1, ConcatProperties, LenProperties
<1> QED BY <1>1, <1>2 DEF ToSet

\* The text of a user that Ollama takes is the last.
LEMMA LastText ==
  ASSUME ConversationInv, NEW i \in DOMAIN turns, NEW m, OfTurn(m, i), NEW p \in ToSet(turns[i].parts),
         ~(turns[i].role = "user" /\ \E q \in ToSet(turns[i].parts) : q.kind = "text" /\ q.n > p.n),
         NEW k \in DOMAIN StringContent(m), NEW l \in DOMAIN StringContent(m), p = StringContent(m)[k], k < l
  PROVE  FALSE
<1> DEFINE I == {h \in DOMAIN m.parts : m.parts[h].kind # "image"}
           u == StringContent(m)
           o == Only(m.parts, I)
<1>1. u = o
  BY DEF StringContent, OfOther
<1>2. m.parts \in Seq(Item)
  BY DEF OfTurn, Msg
<1>3. \A h \in I : m.parts[h].kind # "image"
  OBVIOUS
<1> HIDE DEF I
<1>4. \A c, d \in DOMAIN o : c < d =>
        \E a, b \in DOMAIN m.parts : a \in I /\ b \in I /\ a < b /\ o[c] = m.parts[a] /\ o[d] = m.parts[b]
  BY <1>2, OnlyInOrder
<1> HIDE DEF o, u
<1>5. k \in DOMAIN o /\ l \in DOMAIN o /\ p = o[k]
  BY <1>1 DEF u
<1>6. PICK a, b \in DOMAIN m.parts : a \in I /\ b \in I /\ a < b /\ o[k] = m.parts[a] /\ o[l] = m.parts[b]
  BY <1>4, <1>5
<1> DEFINE q == m.parts[b]
<1>7. /\ p.n < q.n /\ q.kind \in {"text", "image"} /\ turns[i].role = "user"
      /\ q \in ToSet(turns[i].parts)
  BY <1>5, <1>6 DEF OfTurn
<1>8. q.kind = "text"
  BY <1>3, <1>6, <1>7
<1>9. p.n \in Nat /\ q.n \in Nat
  BY <1>7, TurnOfPart DEF Item
<1>10. q.n > p.n
  BY <1>7, <1>9
<1> QED BY <1>7, <1>8, <1>10

\* The message told last is the one of the part, unless a result comes after it.
LEMMA LastMessage ==
  ASSUME ConversationInv, NEW msgs, Transcript(msgs), NEW i \in DOMAIN turns, NEW p \in ToSet(turns[i].parts),
         ~(i < Len(turns) \/ OfKind(turns[i].parts, "result") \notin {<<>>, turns[i].parts}),
         NEW x \in DOMAIN msgs, OfTurn(msgs[x], i), p \in ToSet(msgs[x].parts), NEW w \in DOMAIN msgs, x < w
  PROVE  FALSE
<1> DEFINE s == turns[i].parts
           I == {h \in DOMAIN s : s[h].kind = "result"}
           o == Only(s, I)
<1>1. PICK l \in DOMAIN turns : OfTurn(msgs[w], l) /\ (l > i \/ (l = i /\ TextThenResult(msgs[x], msgs[w])))
  BY LaterMessage
<1>2. ~(l > i)
  BY RenderedIs
<1>3. l = i /\ TextThenResult(msgs[x], msgs[w])
  BY <1>1, <1>2
<1>4. PICK q : q \in Items(msgs[w])
  BY <1>1 DEF OfTurn
<1>5. q.kind = "result" /\ q \in ToSet(s) /\ p.kind = "text"
  <2>1. p \in Items(msgs[x])
    BY DEF Items
  <2>2. q \in ToSet(s)
    BY <1>1, <1>3, <1>4, OneTurn
  <2> QED BY <1>3, <1>4, <2>1, <2>2 DEF TextThenResult
<1>6. o = <<>> \/ o = s
  BY DEF OfKind
<1>7. s \in Seq(Item)
  <2>1. TurnFacts(turns[i])
    BY TurnsHave
  <2> QED BY <2>1 DEF TurnFacts, Turn
<1>8. PICK c \in DOMAIN s : q = s[c]
  BY <1>5 DEF ToSet
<1>9. PICK d \in DOMAIN s : p = s[d]
  BY DEF ToSet
<1>10. c \in I /\ \A h \in I : s[h].kind = "result"
  BY <1>5, <1>8
<1> HIDE DEF I, s
<1>11. /\ \A k \in DOMAIN o : \E a \in DOMAIN s : a \in I /\ o[k] = s[a]
       /\ \A a \in DOMAIN s : a \in I => \E k \in DOMAIN o : o[k] = s[a]
  <2>1. \A k \in DOMAIN o : \E a \in DOMAIN s : a \in I /\ o[k] = s[a]
    BY <1>7, OnlyFrom
  <2>2. \A a \in DOMAIN s : a \in I => \E k \in DOMAIN o : o[k] = s[a]
    BY <1>7, OnlyHas
  <2> QED BY <2>1, <2>2
<1> HIDE DEF o
<1>12. o # <<>>
  BY <1>8, <1>10, <1>11
<1>13. o = s
  BY <1>6, <1>12
<1>14. \E a \in DOMAIN s : a \in I /\ s[d] = s[a]
  BY <1>9, <1>11, <1>13
<1> QED BY <1>5, <1>9, <1>10, <1>14

LEMMA MissedIs ==
  ASSUME NEW a, NEW i, NEW p, ~Missed(a, i, p)
  PROVE  /\ a = "replicate" => ~Lists(turns[i])
         /\ a = "ollama" => ~(turns[i].role = "user" /\ \E q \in ToSet(turns[i].parts) : q.kind = "text" /\ q.n > p.n)
         /\ a \in {"baidu", "gemini2"} /\ turns[i].role = "system" =>
              \A k \in (i + 1)..Len(turns) : turns[k].role # "system"
         /\ a = "cohere" /\ turns[i].role = "user" => \A k \in (i + 1)..Len(turns) : turns[k].role # "user"
         /\ a \in {"deepl", "aiproxy"} =>
              ~(i < Len(turns) \/ OfKind(turns[i].parts, "result") \notin {<<>>, turns[i].parts})
BY DEF Missed, Lists

\* Every text and result is told, but for what may be missed.
LEMMA AdaptorTells ==
  ASSUME ConversationInv, NEW msgs, Transcript(msgs), NEW a \in Adaptor,
         NEW i \in DOMAIN turns, NEW p \in ToSet(turns[i].parts), p.kind \in {"text", "result"}, ~Missed(a, i, p)
  PROVE  \E y \in DOMAIN Given(a, msgs) : p \in ToSet(Given(a, msgs)[y].parts)
<1>1. \A x \in DOMAIN msgs : OfTurn(msgs[x], i) => msgs[x].parts \in Seq(Item) /\ msgs[x].calls \in Seq(Item)
  BY DEF OfTurn, Msg
<1>2. CASE a = "openai"
  <2> DEFINE g == openaiRequest(msgs)
  <2>1. PICK x \in DOMAIN msgs : OfTurn(msgs[x], i) /\ Holds(turns[i], p, msgs[x])
    BY DEF Transcript
  <2>2. p \in ToSet(msgs[x].parts)
    BY <2>1 DEF Holds
  <2>3. p \in ToSet(msgs[x].parts \o msgs[x].calls)
    BY <1>1, <2>1, <2>2, InConcat
  <2>4. x \in DOMAIN g /\ g[x].parts = msgs[x].parts \o msgs[x].calls
    BY OpenaiTidy
  <2>5. g = Given(a, msgs)
    BY <1>2, GivenIs
  <2> HIDE DEF g
  <2> QED BY <2>3, <2>4, <2>5
<1>3. ASSUME a # "openai"
      PROVE  \E x \in DOMAIN msgs :
               /\ OfTurn(msgs[x], i) /\ Holds(turns[i], p, msgs[x])
               /\ p \in ToSet(msgs[x].parts) /\ p \in ToSet(ParseContent(msgs[x])) /\ p \in ToSet(StringContent(msgs[x]))
               /\ msgs[x].form \in {"string", "list"}
  <2>1. Lists(turns[i]) => Listing = "list"
    BY <1>3, NotMissed
  <2> QED BY <2>1, Readable
<1>4. CASE a # "openai"
  <2>1. PICK x \in DOMAIN msgs :
          /\ OfTurn(msgs[x], i) /\ Holds(turns[i], p, msgs[x])
          /\ p \in ToSet(msgs[x].parts) /\ p \in ToSet(ParseContent(msgs[x])) /\ p \in ToSet(StringContent(msgs[x]))
          /\ msgs[x].form \in {"string", "list"}
    BY <1>3, <1>4
  <2>2. /\ msgs[x].role = "system" <=> turns[i].role = "system"
        /\ msgs[x].role = "user" => turns[i].role = "user"
    BY <2>1 DEF OfTurn
  <2>3. CASE a = "anthropic"
    <3> DEFINE g == anthropicRequest(msgs)
    <3>1. p \in ToSet(ClaudeParts(msgs[x]))
      <4>1. p \in ToSet(msgs[x].parts \o msgs[x].calls)
        BY <1>1, <2>1, InConcat
      <4> QED BY <2>1, <4>1 DEF ClaudeParts
    <3>2. PICK y \in DOMAIN g : g[y].parts = ClaudeParts(msgs[x]) \/ g[y].parts = StringContent(msgs[x])
      BY AnthropicTidy
    <3>3. g = Given(a, msgs)
      BY <2>3, GivenIs
    <3> HIDE DEF g
    <3> QED BY <2>1, <3>1, <3>2, <3>3
  <2>4. CASE a = "gemini"
    <3> DEFINE g == geminiRequest(msgs, FALSE)
    <3>1. \E y \in DOMAIN g : g[y].parts = ParseContent(msgs[x])
      BY GeminiTidy
    <3>2. g = Given(a, msgs)
      BY <2>4, GivenIs
    <3> HIDE DEF g
    <3> QED BY <2>1, <3>1, <3>2
  <2>5. ASSUME a \in {"baidu", "gemini2"}, msgs[x].role = "system"
        PROVE  \A w \in DOMAIN msgs : msgs[w].role = "system" => ~(x < w)
    <3> SUFFICES ASSUME NEW w \in DOMAIN msgs, msgs[w].role = "system", x < w PROVE FALSE
      OBVIOUS
    <3>1. \A k \in (i + 1)..Len(turns) : turns[k].role # "system"
      BY <2>2, <2>5, MissedIs
    <3> QED BY <2>1, <3>1, LastOfSpeaker
  <2>6. CASE a = "gemini2"
    <3> DEFINE g == geminiRequest(msgs, TRUE)
    <3>1. CASE msgs[x].role # "system"
      <4>1. \E y \in DOMAIN g : g[y].parts = ParseContent(msgs[x])
        BY <3>1, Gemini2Tidy
      <4>2. g = Given(a, msgs)
        BY <2>6, GivenIs
      <4> HIDE DEF g
      <4> QED BY <2>1, <4>1, <4>2
    <3>2. CASE msgs[x].role = "system"
      <4>1. \E y \in DOMAIN g : g[y].parts = StringContent(msgs[x])
        BY <2>5, <2>6, <3>2, Gemini2Tidy
      <4>2. g = Given(a, msgs)
        BY <2>6, GivenIs
      <4> HIDE DEF g
      <4> QED BY <2>1, <4>1, <4>2
    <3> QED BY <3>1, <3>2
  <2>7. CASE a = "baidu"
    <3> DEFINE g == baiduRequest(msgs)
    <3>1. \E y \in DOMAIN g : g[y].parts = StringContent(msgs[x])
      <4>1. msgs[x].role # "system" \/ (\A w \in DOMAIN msgs : msgs[w].role = "system" => ~(x < w))
        BY <2>5, <2>7
      <4> QED BY <4>1, BaiduTidy
    <3>2. g = Given(a, msgs)
      BY <2>7, GivenIs
    <3> HIDE DEF g
    <3> QED BY <2>1, <3>1, <3>2
  <2>8. CASE a \in {"xunfei", "tencent", "zhipu", "ali", "palm", "bedrockLlama", "coze"}
    <3>1. x \in DOMAIN Texts(msgs) /\ Texts(msgs)[x].parts = StringContent(msgs[x])
      BY TextsTidy
    <3>2. Texts(msgs) = Given(a, msgs)
      BY <2>8, GivenIs
    <3> QED BY <2>1, <3>1, <3>2
  <2>9. CASE a = "ollama"
    <3> DEFINE g == ollamaRequest(msgs)
    <3>1. \A k, l \in DOMAIN StringContent(msgs[x]) : p = StringContent(msgs[x])[k] => ~(k < l)
      <4> SUFFICES ASSUME NEW k \in DOMAIN StringContent(msgs[x]), NEW l \in DOMAIN StringContent(msgs[x]),
                          p = StringContent(msgs[x])[k], k < l
                   PROVE  FALSE
        OBVIOUS
      <4>1. ~(turns[i].role = "user" /\ \E q \in ToSet(turns[i].parts) : q.kind = "text" /\ q.n > p.n)
        BY <2>9, MissedIs
      <4> QED BY <2>1, <4>1, LastText
    <3>2. x \in DOMAIN g /\ p \in ToSet(g[x].parts)
      BY <2>1, <3>1, OllamaTidy
    <3>3. g = Given(a, msgs)
      BY <2>9, GivenIs
    <3> HIDE DEF g
    <3> QED BY <3>2, <3>3
  <2>10. CASE a = "cohere"
    <3> DEFINE g == cohereRequest(msgs)
    <3>1. msgs[x].role # "user" \/ (\A w \in DOMAIN msgs : msgs[w].role = "user" => ~(x < w))
      <4> SUFFICES ASSUME msgs[x].role = "user", NEW w \in DOMAIN msgs, msgs[w].role = "user", x < w PROVE FALSE
        OBVIOUS
      <4>1. \A k \in (i + 1)..Len(turns) : turns[k].role # "user"
        BY <2>2, <2>10, MissedIs
      <4> QED BY <2>1, <4>1, LastOfSpeaker
    <3>2. \E y \in DOMAIN g : g[y].parts = StringContent(msgs[x])
      BY <3>1, CohereTold
    <3>3. g = Given(a, msgs)
      BY <2>10, GivenIs
    <3> HIDE DEF g
    <3> QED BY <2>1, <3>2, <3>3
  <2>11. CASE a \in {"deepl", "aiproxy"}
    <3> DEFINE g == Texts(LastOf(msgs))
    <3>1. \A w \in DOMAIN msgs : ~(x < w)
      <4> SUFFICES ASSUME NEW w \in DOMAIN msgs, x < w PROVE FALSE
        OBVIOUS
      <4>1. ~(i < Len(turns) \/ OfKind(turns[i].parts, "result") \notin {<<>>, turns[i].parts})
        BY <2>11, MissedIs
      <4> QED BY <2>1, <4>1, LastMessage
    <3>2. \E y \in DOMAIN g : g[y].parts = StringContent(msgs[x])
      BY <3>1, LastTidy
    <3>3. g = Given(a, msgs)
      BY <2>11, GivenIs
    <3> HIDE DEF g
    <3> QED BY <2>1, <3>2, <3>3
  <2>12. CASE a = "replicate"
    <3> DEFINE g == replicateRequest(msgs)
    <3>1. msgs[x].form = "string"
      BY <2>1, <2>12, MissedIs DEF Holds
    <3>2. \E y \in DOMAIN g : g[y].parts = StringContent(msgs[x])
      BY <3>1, ReplicateTidy
    <3>3. g = Given(a, msgs)
      BY <2>12, GivenIs
    <3> HIDE DEF g
    <3> QED BY <2>1, <3>2, <3>3
  <2> QED BY <1>4, <2>3, <2>4, <2>6, <2>7, <2>8, <2>9, <2>10, <2>11, <2>12 DEF Adaptor
<1> QED BY <1>2, <1>4

\* What is said is kept: each adaptor is tidy, and tells what it does not miss.
LEMMA ConversationKeptHolds ==
  ASSUME ConversationInv
  PROVE  ConversationKept
<1>1. FirstTry = Invalid => turns = From(turns, "system")
  BY FirstTryIs
<1>2. ASSUME NEW a \in Adaptor, Serves(a)
      PROVE  /\ ToSet(Got(a)) \subseteq ToSet(Parts(turns))
             /\ \A j, k \in DOMAIN Got(a) : j < k /\ a # "cohere" =>
                  \/ TurnOf(Got(a)[j]) < TurnOf(Got(a)[k])
                  \/ TurnOf(Got(a)[j]) = TurnOf(Got(a)[k]) /\ Got(a)[j].n # Got(a)[k].n
                  \/ turns[TurnOf(Got(a)[j])].role = "system"
             /\ \A i \in DOMAIN turns : \A p \in ToSet(turns[i].parts) :
                  p.kind \in {"text", "result"} /\ ~Missed(a, i, p) => p \in ToSet(Got(a))
  <2> DEFINE msgs == FirstTry
             g == Given(a, msgs)
  <2>1. Transcript(msgs)
    BY <1>2, RequestIs DEF Serves
  <2>2. Got(a) = Parts(g)
    BY DEF Got
  <2> HIDE DEF msgs
  <2>3. TellsOf(g, msgs)
    BY <2>1, AdaptorTold
  <2>4. a # "cohere" => TidyBut(g, msgs)
    BY <2>1, AdaptorTidy
  <2>5. \A i \in DOMAIN turns : \A p \in ToSet(turns[i].parts) :
          p.kind \in {"text", "result"} /\ ~Missed(a, i, p) => \E y \in DOMAIN g : p \in ToSet(g[y].parts)
    BY <2>1, AdaptorTells
  <2> HIDE DEF g
  <2>6. ToSet(Parts(g)) \subseteq ToSet(Parts(turns))
    BY <2>1, <2>3, ToldKnown DEF TellsOf
  <2>7. ASSUME NEW j \in DOMAIN Parts(g), NEW k \in DOMAIN Parts(g), j < k, a # "cohere"
        PROVE  \/ TurnOf(Parts(g)[j]) < TurnOf(Parts(g)[k])
               \/ TurnOf(Parts(g)[j]) = TurnOf(Parts(g)[k]) /\ Parts(g)[j].n # Parts(g)[k].n
               \/ turns[TurnOf(Parts(g)[j])].role = "system"
    <3>1. PICK first : Tidy(g, msgs, first) /\ \A p \in first : turns[TurnOf(p)].role = "system"
      BY <2>4, <2>7 DEF TidyBut
    <3> QED BY <2>1, <2>7, <3>1, ToldInOrder
  <2>8. \A i \in DOMAIN turns : \A p \in ToSet(turns[i].parts) :
          p.kind \in {"text", "result"} /\ ~Missed(a, i, p) => p \in ToSet(Parts(g))
    BY <2>3, <2>5, ToldParts DEF TellsOf
  <2> QED BY <2>2, <2>6, <2>7, <2>8
<1> QED BY <1>1, <1>2 DEF ConversationKept

-----------------------------------------------------------------------------
(* Calls and their results.                                                *)
LEMMA SpeakerOfKind ==
  ASSUME ConversationInv, NEW i \in DOMAIN turns, NEW p \in ToSet(turns[i].parts), p.kind \in {"use", "result"}
  PROVE  turns[i].role # "system"
<1> DEFINE t == turns[i]
<1>1. TurnFacts(t)
  BY TurnsHave
<1>2. PICK k \in DOMAIN t.parts : p = t.parts[k]
  BY DEF ToSet
<1> HIDE DEF t
<1>3. t.role = "system" => DOMAIN t.parts = 1..1 /\ t.parts[1].kind = "text"
  BY <1>1 DEF TurnFacts
<1>4. t.role # "system"
  BY <1>2, <1>3
<1> QED BY <1>4 DEF t

LEMMA InConcatRight ==
  ASSUME NEW S, NEW s \in Seq(S), NEW r \in Seq(S), NEW p \in ToSet(r)
  PROVE  p \in ToSet(s \o r)
<1>1. PICK k \in DOMAIN r : p = r[k]
  BY DEF ToSet
<1>2. Len(s) \in Nat /\ Len(r) \in Nat /\ DOMAIN r = 1..Len(r) /\ DOMAIN (s \o r) = 1..(Len(s) + Len(r))
  BY ConcatProperties, LenProperties
<1>3. k + Len(s) \in 1..(Len(s) + Len(r)) /\ ~(k + Len(s) <= Len(s)) /\ (k + Len(s)) - Len(s) = k
  BY <1>1, <1>2
<1>4. (s \o r)[k + Len(s)] = r[k]
  BY <1>1, <1>2, <1>3, ConcatProperties
<1> QED BY <1>1, <1>2, <1>3, <1>4 DEF ToSet

\* A call is told, but to Claude when the assistant said nothing beside it.
LEMMA CallTold ==
  ASSUME ConversationInv, NEW msgs, Transcript(msgs), NEW a \in {"openai", "anthropic"},
         NEW i \in DOMAIN turns, NEW q \in ToSet(turns[i].parts), q.kind = "use"
  PROVE  \/ q \in ToSet(Parts(Given(a, msgs)))
         \/ a = "anthropic" /\ OfKind(turns[i].parts, "text") = <<>>
<1>1. PICK x \in DOMAIN msgs : OfTurn(msgs[x], i) /\ Holds(turns[i], q, msgs[x])
  BY DEF Transcript
<1>2. q \in ToSet(msgs[x].calls) /\ (msgs[x].form = "string" \/ \A r \in ToSet(turns[i].parts) : r.kind # "text")
  BY <1>1 DEF Holds
<1>3. q \in ToSet(msgs[x].parts \o msgs[x].calls)
  <2>1. msgs[x].parts \in Seq(Item) /\ msgs[x].calls \in Seq(Item)
    BY <1>1 DEF OfTurn, Msg
  <2> QED BY <1>2, <2>1, InConcatRight
<1> DEFINE g == Given(a, msgs)
<1>4. g \in Seq(Saying)
  BY AdaptorTold, GivenIs DEF TellsOf, Adaptor
<1>5. CASE a = "openai"
  <2>1. x \in DOMAIN g /\ g[x].parts = msgs[x].parts \o msgs[x].calls
    BY <1>5, GivenIs, OpenaiTidy
  <2> QED BY <1>3, <1>4, <2>1, ToldParts
<1>6. CASE a = "anthropic" /\ msgs[x].form = "string"
  <2>1. msgs[x].role # "system"
    BY <1>1, SpeakerOfKind DEF OfTurn
  <2>2. PICK y \in DOMAIN g : g[y].parts = ClaudeParts(msgs[x])
    BY <1>6, <2>1, GivenIs, AnthropicTidy
  <2>3. g[y].parts = msgs[x].parts \o msgs[x].calls
    BY <1>6, <2>2 DEF ClaudeParts
  <2> QED BY <1>3, <1>4, <2>3, ToldParts
<1>7. CASE a = "anthropic" /\ \A r \in ToSet(turns[i].parts) : r.kind # "text"
  <2> DEFINE s == turns[i].parts
             I == {k \in DOMAIN s : s[k].kind = "text"}
  <2>1. TurnFacts(turns[i])
    BY TurnsHave
  <2>2. s \in Seq(Item)
    BY <2>1 DEF TurnFacts, Turn
  <2>3. \A k \in DOMAIN s : k \notin I
    BY <1>7 DEF ToSet
  <2>4. OfKind(s, "text") = Only(s, I)
    BY DEF OfKind
  <2> HIDE DEF I
  <2>5. Only(s, I) = <<>>
    BY <2>2, <2>3, OnlyNone
  <2> QED BY <1>7, <2>4, <2>5
<1> QED BY <1>2, <1>5, <1>6, <1>7

\* A list made of nothing is empty.
LEMMA EmptyList ==
  ASSUME NEW f, DOMAIN f = {}, f = [i \in DOMAIN f |-> f[i]]
  PROVE  f = <<>>
<1>1. f \in Seq({}) /\ Len(f) = 0
  <2> DEFINE r == [i \in 1..0 |-> f[i]]
  <2>1. r \in Seq({}) /\ Len(r) = 0
    OBVIOUS
  <2>2. f = r
    OBVIOUS
  <2> QED BY ONLY <2>1, <2>2
<1> QED BY <1>1, EmptySeq

\* Nothing is said in a request that is refused.
LEMMA NothingTold ==
  ASSUME FirstTry = Invalid, NEW a \in {"openai", "anthropic"}
  PROVE  DOMAIN Got(a) = {}
<1> DEFINE none == <<>>
<1>1. FlattenSeq(<<>>) = <<>>
  BY DEF FlattenSeq
<1>2. openaiRequest(<<>>) = <<>>
  <2> DEFINE f == openaiRequest(<<>>)
  <2>1. DOMAIN f = {} /\ f = [i \in DOMAIN f |-> f[i]]
    BY DEF openaiRequest
  <2> HIDE DEF f
  <2>2. f = <<>>
    BY <2>1, EmptyList
  <2> QED BY <2>2 DEF f
<1>3. anthropicRequest(<<>>) = <<>>
  <2> DEFINE systems == {i \in DOMAIN none : none[i].role = "system"}
             apart == {i \in systems : \A k \in systems : i <= k}
             said(m) == Says(IF m.role = "tool" THEN "user" ELSE m.role,
                             IF m.form = "string" THEN m.parts \o m.calls ELSE ParseContent(m))
             aa == [i \in DOMAIN none |-> IF i \in apart THEN Texts(<<none[i]>>) ELSE <<>>]
             bb == [i \in DOMAIN none |-> IF i \in apart THEN <<>> ELSE <<said(none[i])>>]
  <2>1. anthropicRequest(none) = FlattenSeq(aa) \o FlattenSeq(bb)
    BY DEF anthropicRequest, All
  <2>2. DOMAIN aa = {} /\ aa = [i \in DOMAIN aa |-> aa[i]] /\ DOMAIN bb = {} /\ bb = [i \in DOMAIN bb |-> bb[i]]
    OBVIOUS
  <2> HIDE DEF aa, bb
  <2>3. aa = <<>> /\ bb = <<>>
    BY <2>2, EmptyList
  <2>4. <<>> \o <<>> = <<>>
    OBVIOUS
  <2> QED BY <1>1, <2>1, <2>3, <2>4
<1>4. Given(a, FirstTry) = <<>>
  BY <1>2, <1>3, GivenIs DEF Invalid
<1>5. Parts(<<>>) = <<>>
  <2> DEFINE f == [i \in DOMAIN none |-> none[i].parts]
  <2>1. Parts(none) = FlattenSeq(f)
    BY DEF Parts, All
  <2>2. DOMAIN f = {} /\ f = [i \in DOMAIN f |-> f[i]]
    OBVIOUS
  <2> HIDE DEF f
  <2>3. f = <<>>
    BY <2>2, EmptyList
  <2> QED BY <1>1, <2>1, <2>3
<1> QED BY <1>4, <1>5 DEF Got

\* The call is in the turn before its result, and what is told is in the order of turns.
LEMMA ToolResultsMatchedHolds ==
  ASSUME ConversationInv
  PROVE  ToolResultsMatched
<1> SUFFICES ASSUME NEW a \in {"openai", "anthropic"}, NEW k \in DOMAIN Got(a), Got(a)[k].kind = "result"
             PROVE  \/ \E j \in 1..(k - 1) :
                         /\ Got(a)[j].n = Got(a)[k].of
                         /\ \A between \in (j + 1)..(k - 1) : TurnOf(Got(a)[between]) = TurnOf(Got(a)[k])
                    \/ a = "anthropic" /\ \E t \in ToSet(turns) : OfKind(t.parts, "text") = <<>> /\
                                            \E p \in ToSet(t.parts) : p.n = Got(a)[k].of
  BY DEF ToolResultsMatched
<1> DEFINE msgs == FirstTry
           g == Given(a, msgs)
           had == Parts(g)
           p == had[k]
<1>1. Got(a) = had
  BY DEF Got
<1>2. Transcript(msgs)
  BY NothingTold, RequestIs
<1> HIDE DEF msgs
<1>3. TidyBut(g, msgs) /\ TellsOf(g, msgs)
  BY <1>2, AdaptorTidy, AdaptorTold DEF Adaptor
<1>4. PICK first : Tidy(g, msgs, first) /\ \A r \in first : turns[TurnOf(r)].role = "system"
  BY <1>3 DEF TidyBut
<1> HIDE DEF g
<1>5. g \in Seq(Saying) /\ \A b, c \in DOMAIN had : b < c => After(first, had[b], had[c])
  <2>1. g \in Seq(Saying) /\ Ordered(g, first)
    BY <1>4 DEF Tidy
  <2>2. \A f : Ordered(g, f) => \A j, l \in DOMAIN Parts(g) : j < l => After(f, Parts(g)[j], Parts(g)[l])
    BY <2>1, ToldParts
  <2> HIDE DEF p
  <2> QED BY <2>1, <2>2
<1>6. had \in Seq(Item) /\ Len(had) \in Nat /\ DOMAIN had = 1..Len(had)
  BY <1>5, PartsPlaced, LenProperties
<1>7. \A b \in DOMAIN had : \E i \in DOMAIN turns : had[b] \in ToSet(turns[i].parts) /\ TurnOf(had[b]) = i
  <2>1. \A b \in DOMAIN had : had[b] \in ToSet(had)
    BY DEF ToSet
  <2> QED BY <1>2, <1>3, <2>1, ToldKnown DEF TellsOf
<1>8. k \in DOMAIN had /\ p.kind = "result"
  BY <1>1
<1>9. PICK i \in DOMAIN turns : p \in ToSet(turns[i].parts) /\ TurnOf(p) = i
  BY <1>7, <1>8
<1>10. i > 1 /\ \E q \in ToSet(turns[i - 1].parts) : q.kind = "use" /\ q.n = p.of
  BY <1>8, <1>9 DEF ConversationInv
<1>11. PICK q \in ToSet(turns[i - 1].parts) : q.kind = "use" /\ q.n = p.of
  BY <1>10
<1>12. i - 1 \in DOMAIN turns /\ i \in Nat /\ DOMAIN turns = 1..Len(turns) /\ Len(turns) \in Nat
  BY <1>10, RenderedIs, SMTT(30)
<1>13. TurnOf(q) = i - 1 /\ turns[i - 1].role # "system" /\ turns[i].role # "system"
  BY <1>8, <1>9, <1>11, <1>12, TurnOfPart, SpeakerOfKind
<1>14. q \notin first /\ p \notin first
  BY <1>4, <1>9, <1>13
<1>15. CASE a = "anthropic" /\ OfKind(turns[i - 1].parts, "text") = <<>>
  <2>1. turns[i - 1] \in ToSet(turns)
    BY <1>12 DEF ToSet
  <2> QED BY <1>1, <1>11, <1>15, <2>1
<1>16. CASE q \in ToSet(had)
  <2>1. PICK j \in DOMAIN had : had[j] = q
    BY <1>16 DEF ToSet
  <2>2. j # k
    BY <1>8, <1>11, <2>1
  <2>3. ~(k < j)
    <3> SUFFICES ASSUME k < j PROVE FALSE
      OBVIOUS
    <3>1. Before(p, q)
      BY <1>5, <1>8, <1>14, <2>1 DEF After
    <3> QED BY <1>9, <1>12, <1>13, <3>1 DEF Before
  <2>4. j \in 1..(k - 1) /\ j < k
    BY <1>6, <1>8, <2>2, <2>3
  <2>5. ASSUME NEW b \in (j + 1)..(k - 1) PROVE TurnOf(had[b]) = i
    <3>1. b \in DOMAIN had /\ j < b /\ b < k
      BY <1>6, <1>8, <2>4
    <3>2. PICK l \in DOMAIN turns : TurnOf(had[b]) = l
      BY <1>7, <3>1
    <3>3. After(first, q, had[b]) /\ After(first, had[b], p)
      BY <1>5, <1>8, <2>1, <3>1
    <3>4. Before(q, had[b]) /\ Before(had[b], p)
      BY <1>14, <3>3 DEF After
    <3>5. i - 1 < l
      BY <1>11, <1>13, <3>2, <3>4 DEF Before
    <3>6. l < i \/ l = i
      BY <1>9, <3>2, <3>4 DEF Before
    <3> QED BY <1>12, <3>2, <3>5, <3>6
  <2> QED BY <1>1, <1>9, <1>11, <2>1, <2>4, <2>5
<1>17. q \in ToSet(had) \/ (a = "anthropic" /\ OfKind(turns[i - 1].parts, "text") = <<>>)
  BY <1>2, <1>11, <1>12, CallTold DEF g
<1> QED BY <1>15, <1>16, <1>17

-----------------------------------------------------------------------------
(* The channel a request falls back to.                                    *)

\* Texts are said as they are.
LEMMA TextsConverted ==
  ASSUME NEW t, t.parts \in Seq(Item), Len(t.parts) \in {1, 2}, \A k \in DOMAIN t.parts : t.parts[k].kind = "text"
  PROVE  convertMessage(t) = <<Message(t.role, IF Len(t.parts) = 1 THEN "string" ELSE "typed", t.parts, <<>>)>>
<1> DEFINE s == t.parts
           I(kind) == {k \in DOMAIN s : s[k].kind = kind}
           texts == OfKind(s, "text")
           images == OfKind(s, "image")
           results == OfKind(s, "result")
           uses == OfKind(s, "use")
           content == texts \o images
           said == IF content = <<>> THEN <<>> ELSE <<Message(t.role, Form(content, "typed"), content, <<>>)>>
           answers == [i \in DOMAIN results |-> Message("tool", "string", <<results[i]>>, <<>>)]
           form == IF Len(s) = 1 THEN "string" ELSE "typed"
           first == IF texts = <<>> THEN "none" ELSE Form(texts, "typed")
           m == Message(t.role, form, s, <<>>)
<1>1. /\ t.role = "assistant" =>
           convertMessage(t) = <<Message("assistant", first, texts, uses)>>
      /\ t.role # "assistant" => convertMessage(t) = said \o answers
  BY DEF convertMessage, ToolCalls
<1>2. s \in Seq(Item) /\ Len(s) \in {1, 2} /\ DOMAIN s = 1..Len(s)
  BY LenProperties
<1>3. /\ \A kind : OfKind(s, kind) = Only(s, I(kind))
      /\ \A k \in DOMAIN s : k \in I("text") /\ k \notin I("image") /\ k \notin I("result") /\ k \notin I("use")
  BY DEF OfKind
<1> HIDE DEF I
<1>4. texts = s
  BY <1>2, <1>3, OnlyAll
<1>5. images = <<>> /\ results = <<>> /\ uses = <<>>
  BY <1>2, <1>3, OnlyNone
<1>6. s # <<>>
  BY <1>2, EmptySeq
<1>7. Form(s, "typed") = form
  <2>1. Len(s) = 1 => 1 \in DOMAIN s
    BY <1>2
  <2>2. Len(s) = 1 => s[1].kind = "text"
    BY <2>1
  <2> QED BY <2>2 DEF Form
<1>8. content = s
  <2>1. s \o <<>> = s
    BY <1>2, ConcatEmptySeq
  <2> HIDE DEF texts, images, s
  <2> QED BY <1>4, <1>5, <2>1
<1>9. answers = <<>>
  <2>1. DOMAIN answers = {} /\ answers = [i \in DOMAIN answers |-> answers[i]]
    <3>1. DOMAIN results = {}
      BY <1>5
    <3> QED BY <3>1
  <2> HIDE DEF answers
  <2> QED BY <2>1, EmptyList
<1> HIDE DEF content, answers, texts, images, results, uses, form, s
<1>10. first = form
  BY <1>4, <1>6, <1>7
<1>11. said = <<m>>
  BY <1>6, <1>7, <1>8
<1> HIDE DEF first, said
<1>12. t.role = "assistant" => convertMessage(t) = <<m>>
  BY <1>1, <1>4, <1>5, <1>10
<1>13. ASSUME t.role # "assistant" PROVE convertMessage(t) = <<m>>
  <2>1. convertMessage(t) = <<m>> \o <<>>
    <3> HIDE DEF m
    <3> QED BY <1>1, <1>9, <1>11, <1>13
  <2>2. <<m>> \o <<>> = <<m>>
    OBVIOUS
  <2> HIDE DEF m
  <2> QED BY <2>1, <2>2
<1>14. convertMessage(t) = <<m>>
  BY <1>12, <1>13
<1> QED BY <1>14 DEF s, form

\* A message of texts, as the next channel reads and converts it.
Plain(m) ==
  /\ m \in Msg /\ m.calls = <<>> /\ ValidRole(m.role)
  /\ Len(m.parts) \in {1, 2} /\ \A k \in DOMAIN m.parts : m.parts[k].kind = "text"
  /\ m.form = IF Len(m.parts) = 1 THEN "string" ELSE "typed"

LEMMA PlainReread ==
  ASSUME NEW msgs \in Seq(Msg), NEW x \in DOMAIN msgs, Plain(msgs[x])
  PROVE  /\ ValidRole(Reread(msgs)[x].role)
         /\ convertMessage(Reread(msgs)[x]) = <<msgs[x]>>
<1> DEFINE m == msgs[x]
           t == Reread(msgs)[x]
<1>1. /\ m \in Msg /\ m.calls = <<>> /\ ValidRole(m.role)
      /\ Len(m.parts) \in {1, 2} /\ \A k \in DOMAIN m.parts : m.parts[k].kind = "text"
      /\ m.form = IF Len(m.parts) = 1 THEN "string" ELSE "typed"
  BY DEF Plain
<1>2. t = [role |-> IF m.form = "none" THEN "none" ELSE m.role, parts |-> OfKind(m.parts, "text")]
  BY DEF Reread
<1> HIDE DEF m, t
<1>3. m.parts \in Seq(Item) /\ m = [role |-> m.role, form |-> m.form, parts |-> m.parts, calls |-> m.calls]
  BY <1>1 DEF Msg
<1>4. m.form # "none"
  BY <1>1
<1>5. OfKind(m.parts, "text") = m.parts
  <2> DEFINE I == {k \in DOMAIN m.parts : m.parts[k].kind = "text"}
  <2>1. OfKind(m.parts, "text") = Only(m.parts, I) /\ \A k \in DOMAIN m.parts : k \in I
    BY <1>1 DEF OfKind
  <2> HIDE DEF I
  <2> QED BY <1>3, <2>1, OnlyAll
<1>6. t.role = m.role /\ t.parts = m.parts
  BY <1>2, <1>4, <1>5
<1>7. convertMessage(t) = <<Message(t.role, IF Len(t.parts) = 1 THEN "string" ELSE "typed", t.parts, <<>>)>>
  BY <1>1, <1>3, <1>6, TextsConverted
<1>8. Message(t.role, IF Len(t.parts) = 1 THEN "string" ELSE "typed", t.parts, <<>>) = m
  BY <1>1, <1>3, <1>6 DEF Message
<1>9. ValidRole(t.role) /\ convertMessage(t) = <<m>>
  BY <1>1, <1>6, <1>7, <1>8
<1> QED BY <1>9 DEF m, t

\* A turn of texts becomes plain messages, ...
LEMMA TextsOfTurn ==
  ASSUME NEW t, TurnFacts(t), \A p \in ToSet(t.parts) : p.kind = "text",
         NEW ms, Renders(t, ms, "typed"), NEW x \in DOMAIN ms
  PROVE  Plain(ms[x])
<1> DEFINE a == t.parts[1]
           b == t.parts[2]
<1>1. a \in ToSet(t.parts) /\ (Len(t.parts) = 2 => b \in ToSet(t.parts))
  <2>1. 1 \in DOMAIN t.parts /\ (Len(t.parts) = 2 => 2 \in DOMAIN t.parts)
    BY TurnCases DEF TurnFacts
  <2> QED BY <2>1 DEF ToSet
<1>2. a.kind = "text" /\ (Len(t.parts) = 2 => b.kind = "text")
  BY <1>1
<1>3. t.role \in Speaker /\ a \in Item /\ (Len(t.parts) = 2 => b \in Item)
  BY TurnCases DEF TurnFacts, Turn
<1>4. t.role # "tool"
  BY <1>2 DEF TurnFacts
<1> HIDE DEF a, b
<1>5. ValidRole(t.role)
  BY <1>3, <1>4 DEF Speaker, ValidRole
<1>6. \/ Len(t.parts) = 1 /\ ms = <<Message(t.role, "string", <<a>>, <<>>)>>
      \/ Len(t.parts) = 2 /\ ms = <<Message(t.role, "typed", <<a, b>>, <<>>)>>
  BY <1>2, <1>3 DEF Renders, a, b
<1>7. CASE Len(t.parts) = 1 /\ ms = <<Message(t.role, "string", <<a>>, <<>>)>>
  <2> DEFINE m == Message(t.role, "string", <<a>>, <<>>)
  <2>1. x = 1 /\ ms[x] = m
    BY <1>7, OneElement
  <2>2. <<a>> \in Seq(Item) /\ Len(<<a>>) = 1 /\ \A k \in DOMAIN <<a>> : <<a>>[k].kind = "text"
    BY <1>2, <1>3, OneElement
  <2>3. m \in Msg
    <3>1. "string" \in MessageForm /\ <<>> \in Seq(Item)
      BY DEF MessageForm
    <3> QED BY <1>3, <2>2, <3>1, MessageType
  <2>4. m.role = t.role /\ m.form = "string" /\ m.parts = <<a>> /\ m.calls = <<>>
    BY DEF Message
  <2> HIDE DEF m
  <2>5. Plain(m)
    BY <1>5, <2>2, <2>3, <2>4 DEF Plain
  <2> QED BY <2>1, <2>5
<1>8. CASE Len(t.parts) = 2 /\ ms = <<Message(t.role, "typed", <<a, b>>, <<>>)>>
  <2> DEFINE m == Message(t.role, "typed", <<a, b>>, <<>>)
  <2>1. x = 1 /\ ms[x] = m
    BY <1>8, OneElement
  <2>2. <<a, b>> \in Seq(Item) /\ Len(<<a, b>>) = 2 /\ \A k \in DOMAIN <<a, b>> : <<a, b>>[k].kind = "text"
    BY <1>2, <1>3, <1>8, TwoElements
  <2>3. m \in Msg
    <3>1. "typed" \in MessageForm /\ <<>> \in Seq(Item)
      BY DEF MessageForm
    <3> QED BY <1>3, <2>2, <3>1, MessageType
  <2>4. m.role = t.role /\ m.form = "typed" /\ m.parts = <<a, b>> /\ m.calls = <<>>
    BY DEF Message
  <2> HIDE DEF m
  <2>5. Plain(m)
    BY <1>5, <2>2, <2>3, <2>4 DEF Plain
  <2> QED BY <2>1, <2>5
<1> QED BY <1>6, <1>7, <1>8

\* ... and a result one of the role "tool", which /v1/messages does not have.
LEMMA ResultOfTurn ==
  ASSUME NEW t, NEW ms, Renders(t, ms, "typed"), NEW x \in DOMAIN ms, NEW q \in ToSet(ms[x].parts), q.kind = "result"
  PROVE  ms[x].role = "tool" /\ ms[x].form = "string"
<1> DEFINE a == t.parts[1]
           b == t.parts[2]
           m == ms[x]
<1>1. PICK k \in DOMAIN m.parts : m.parts[k].kind = "result"
  BY DEF ToSet
<1>2. \/ \E role, form, list : /\ m = Message(role, form, list, <<>>) /\ DOMAIN list \subseteq {1, 2}
                               /\ \A l \in DOMAIN list : list[l].kind # "result"
      \/ \E calls : m = Message("assistant", "none", <<>>, calls)
      \/ \E calls : a.kind = "text" /\ m = Message(t.role, "string", <<a>>, calls)
      \/ m = Message("tool", "string", <<a>>, <<>>)
  <2>1. \A y : DOMAIN <<y>> = {1} /\ <<y>>[1] = y
    BY OneElement
  <2>2. \A y, z : DOMAIN <<y, z>> = {1, 2} /\ <<y, z>>[1] = y /\ <<y, z>>[2] = z
    BY TwoElements
  <2> QED BY <2>1, <2>2 DEF Renders
<1>3. \A role, form, list, calls : /\ Message(role, form, list, calls).parts = list
                                   /\ Message(role, form, list, calls).role = role
                                   /\ Message(role, form, list, calls).form = form
  BY DEF Message
<1> HIDE DEF m, a
<1>4. m.role = "tool" /\ m.form = "string"
  <2>1. \A y : DOMAIN <<y>> = {1} /\ <<y>>[1] = y
    BY OneElement
  <2>2. DOMAIN <<>> = {}
    OBVIOUS
  <2> QED BY <1>1, <1>2, <1>3, <2>1, <2>2
<1> QED BY <1>4 DEF m

\* A refused request is refused again.
LEMMA NoneConverted == ToOpenAIRequest(<<>>, Reread(Invalid)) = Invalid
<1> DEFINE f == Reread(<<>>)
<1>1. DOMAIN f = {} /\ f = [i \in DOMAIN f |-> f[i]]
  BY DEF Reread
<1> HIDE DEF f
<1>2. f = <<>>
  BY <1>1, EmptyList
<1>3. Reread(Invalid) = <<>>
  BY <1>2 DEF f, Invalid
<1> QED BY <1>3 DEF ToOpenAIRequest

\* Plain messages are converted into themselves.
LEMMA PlainConverted ==
  ASSUME NEW msgs \in Seq(Msg), msgs # <<>>, \A x \in DOMAIN msgs : Plain(msgs[x])
  PROVE  ToOpenAIRequest(<<>>, Reread(msgs)) = msgs
<1> DEFINE again == Reread(msgs)
           bb == [i \in DOMAIN again |-> convertMessage(again[i])]
           system == <<>>
           aa == [i \in DOMAIN system |-> convertSystem(system[i])]
<1>1. DOMAIN again = DOMAIN msgs
  BY DEF Reread
<1>2. \A x \in DOMAIN msgs : ValidRole(again[x].role) /\ convertMessage(again[x]) = <<msgs[x]>>
  BY PlainReread
<1>3. 1 \in DOMAIN msgs
  BY EmptySeq, LenProperties
<1>4. again # <<>>
  BY <1>1, <1>3
<1> HIDE DEF again
<1>5. ToOpenAIRequest(<<>>, again) = All(aa) \o All(bb)
  BY <1>1, <1>2, <1>4 DEF ToOpenAIRequest
<1>6. All(bb) = msgs
  <2>1. bb = [i \in DOMAIN msgs |-> <<msgs[i]>>]
    BY <1>1, <1>2
  <2> HIDE DEF bb
  <2> QED BY <2>1, FlattenSingles DEF All
<1>7. All(aa) = <<>>
  <2>1. DOMAIN aa = {} /\ aa = [i \in DOMAIN aa |-> aa[i]]
    OBVIOUS
  <2> HIDE DEF aa
  <2>2. aa = <<>>
    BY <2>1, EmptyList
  <2> QED BY <2>2 DEF All, FlattenSeq
<1>8. <<>> \o msgs = msgs
  BY ConcatEmptySeq
<1> HIDE DEF aa, bb
<1>9. ToOpenAIRequest(<<>>, again) = msgs
  BY <1>5, <1>6, <1>7, <1>8
<1> QED BY <1>9 DEF again

\* A fallback tells the same when all messages are plain, and is refused after a result.
LEMMA SecondChannelSameHolds ==
  ASSUME ConversationInv
  PROVE  SecondChannelSame
<1> DEFINE kinds == {p.kind : p \in ToSet(Parts(turns))}
           msgs == FirstTry
<1>1. msgs \in Seq(Msg) /\ (msgs # Invalid => Placed(msgs, Rendered, Len(turns)))
  BY FirstTryIs
<1>2. /\ DOMAIN turns = 1..Len(turns)
      /\ \A i \in DOMAIN turns : TurnFacts(turns[i]) /\ Renders(turns[i], Rendered[i], Listing)
  BY RenderedIs, TurnsHave
<1>3. \A i \in DOMAIN turns : \A p \in ToSet(turns[i].parts) : p \in ToSet(Parts(turns))
  BY ConversationParts
<1>4. \A p \in ToSet(Parts(turns)) : \E i \in DOMAIN turns : p \in ToSet(turns[i].parts)
  BY ConversationParts
<1>5. entry = "messages" => SecondTry = ToOpenAIRequest(<<>>, Reread(msgs)) /\ Listing = "typed"
  BY DEF SecondTry, Listing
<1>6. entry = "chat" => SecondTry = msgs
  BY DEF SecondTry
<1>7. entry \in {"chat", "messages"}
  BY DEF ConversationInv, ConversionTypeOK
<1>8. msgs # Invalid => Transcript(msgs)
  BY RequestIs
<1> HIDE DEF msgs
<1>9. ASSUME entry = "messages", kinds \subseteq {"text"}, msgs # Invalid
      PROVE  SecondTry = msgs
  <2>1. ASSUME NEW x \in DOMAIN msgs PROVE Plain(msgs[x])
    <3>1. PICK i \in DOMAIN turns : \E k \in DOMAIN Rendered[i] : msgs[x] = Rendered[i][k]
      BY <1>1, <1>2, <1>9 DEF Placed
    <3>2. \A p \in ToSet(turns[i].parts) : p.kind = "text"
      BY <1>3, <1>9
    <3>3. TurnFacts(turns[i]) /\ Renders(turns[i], Rendered[i], "typed")
      BY <1>2, <1>5, <1>9
    <3> QED BY <3>1, <3>2, <3>3, TextsOfTurn
  <2>2. ToOpenAIRequest(<<>>, Reread(msgs)) = msgs
    BY <1>1, <1>9, <2>1, PlainConverted DEF Invalid
  <2> QED BY <1>5, <1>9, <2>2
<1>10. ASSUME entry = "messages", "result" \in kinds
       PROVE  SecondTry = Invalid
  <2>1. CASE msgs = Invalid
    BY <1>5, <1>10, <2>1, NoneConverted
  <2>2. CASE msgs # Invalid
    <3>1. PICK p \in ToSet(Parts(turns)) : p.kind = "result"
      BY <1>10
    <3>2. PICK i \in DOMAIN turns : p \in ToSet(turns[i].parts)
      BY <1>4
    <3>3. PICK x \in DOMAIN msgs : Holds(turns[i], p, msgs[x])
      BY <1>8, <2>2, <3>2 DEF Transcript
    <3>4. p \in ToSet(msgs[x].parts)
      BY <3>1, <3>3 DEF Holds
    <3>5. PICK l \in DOMAIN turns : \E k \in DOMAIN Rendered[l] : msgs[x] = Rendered[l][k]
      BY <1>1, <1>2, <2>2, SMTT(30) DEF Placed
    <3>6. Renders(turns[l], Rendered[l], "typed")
      BY <1>2, <1>5, <1>10
    <3>7. msgs[x].role = "tool" /\ msgs[x].form = "string"
      BY <3>1, <3>4, <3>5, <3>6, ResultOfTurn
    <3>8. x \in DOMAIN Reread(msgs) /\ Reread(msgs)[x].role = "tool"
      BY <3>7 DEF Reread
    <3>9. ~ValidRole(Reread(msgs)[x].role)
      BY <3>8 DEF ValidRole
    <3>10. ToOpenAIRequest(<<>>, Reread(msgs)) = Invalid
      BY <3>8, <3>9 DEF ToOpenAIRequest
    <3> QED BY <1>5, <1>10, <3>10
  <2> QED BY <2>1, <2>2
<1>11. (entry = "chat" \/ kinds \subseteq {"text"}) /\ msgs # Invalid => SecondTry = msgs
  BY <1>6, <1>7, <1>9
<1>12. entry = "chat" \/ kinds \subseteq {"text"} =>
         \A a \in {b \in Adaptor : Serves(b)} : Given(a, SecondTry) = Given(a, FirstTry)
  BY <1>11 DEF Serves, msgs
<1> QED BY <1>10, <1>12 DEF SecondChannelSame

-----------------------------------------------------------------------------
(* What holds of every conversation.                                       *)

\* Conversations are well-formed, and not longer than the bound.
THEOREM ConversionTypes == ConversionSpec => []ConversionTypeOK
<1>1. ConversationInv => ConversionTypeOK
  BY DEF ConversationInv
<1> QED BY <1>1, ConversationInvariant, PTL

\* Of however long a conversation, ConvertRequest of every adaptor tells its provider
\* nothing that was not said, all texts and results but for those Missed names, and
\* what it tells in the order it was said, but for system prompts, and but for Cohere,
\* which takes the user's message out of it.
THEOREM EveryConversationKept == ConversionSpec => []ConversationKept
<1>1. ConversationInv => ConversationKept
  BY ConversationKeptHolds
<1> QED BY <1>1, ConversationInvariant, PTL

\* A provider that is told the result of a tool has just been told the call of the
\* assistant's that it answers, but for Claude and a call with no text beside it.
THEOREM EveryResultMatched == ConversionSpec => []ToolResultsMatched
<1>1. ConversationInv => ToolResultsMatched
  BY ToolResultsMatchedHolds
<1> QED BY <1>1, ConversationInvariant, PTL

\* The next channel reads what the first one left as the body, and tells its provider
\* the same, as long as a conversation on /v1/messages is of texts; with a result of a
\* tool it refuses the request.
THEOREM EverySecondChannelSame == ConversionSpec => []SecondChannelSame
<1>1. ConversationInv => SecondChannelSame
  BY SecondChannelSameHolds
<1> QED BY <1>1, ConversationInvariant, PTL
=============================================================================
