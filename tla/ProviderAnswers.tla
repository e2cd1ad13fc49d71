---------------------------- MODULE ProviderAnswers ----------------------------
(***************************************************************************)
(* The handlers of relay/adaptor that turn a provider's answer into the    *)
(* client's: one that reads a stream line by line, one for a whole chat    *)
(* answer and one for embeddings.  A text is a sequence of numbered        *)
(* pieces.  What a handler returns as usage is what postConsumeQuota       *)
(* charges; an error makes controller.Relay try the next channel.          *)
(***************************************************************************)
EXTENDS Integers, Sequences, FiniteSets, SequencesExt

CONSTANTS MaxParts, MaxRead     \* bounds

ASSUME AnswersAssumption == MaxParts \in Nat /\ MaxRead \in Nat

ChatOnly == {"openai", "anthropic", "xunfei", "cohere", "coze", "cloudflare", "palm", "deepl",
             "aiproxy", "bedrockClaude", "bedrockLlama"}
WithEmbeddings == {"gemini", "baidu", "tencent", "zhipu", "ali", "ollama"}
\* Those that answer a stream with one whole body, and those whose lines are not read by a
\* bufio.Scanner but handed over one by one to gin's c.Stream.
OneBody == {"palm", "deepl"}
Stepwise == {"xunfei", "bedrockClaude", "bedrockLlama"}
Claude == {"anthropic", "bedrockClaude"}
Bedrock == {"bedrockClaude", "bedrockLlama"}

Number(x) == IF x < 0 THEN -x ELSE x
Done == 0            \* the line [DONE]; a piece that is passed on unread is -n
PromptTokens == 1    \* as the gateway counts them, and the provider

\* Lines of a stream and whole bodies; tokens are the completion tokens so far, 0 if untold.
\* A line may be Claude's message_start, a [DONE] with "data: " or bare, or longer than the
\* scanner takes; stop is Llama's stop_reason "stop".
Part == 1..MaxParts
Line == [kind: {"data", "start", "bad", "other", "done", "bare", "long"}, parts: SeqOf(Part, 2),
         tokens: 0..MaxParts, stop: BOOLEAN]
Body == [kind: {"bad", "error", "empty", "text"}, parts: SeqOf(Part, 2), tokens: 0..MaxParts]
NotBegun == -1

\* nil, or model.Usage.
NoUsage == [known |-> FALSE, prompt |-> 0, completion |-> 0]
Tokens(prompt, completion) == [known |-> TRUE, prompt |-> prompt, completion |-> completion]
ResponseText2Usage(text) == Tokens(PromptTokens, Len(text))
Told(l) == IF l.tokens = 0 THEN Tokens(0, 0) ELSE Tokens(PromptTokens, l.tokens)

VARIABLES
  provider, mode,    \* whose answer, and to what
  out,               \* what the client has been sent
  heard,             \* responseText
  usage,
  doneRendered,      \* of OpenAI's and Replicate's handlers
  status,            \* of the handler
  lines, pieces,     \* the provider: lines sent, pieces generated
  metered,           \* history: the tokens it told last
  opening,           \* history: the tokens message_start told
  ending,            \* history: the line the stream ended with, if that matters
  unread,            \* history: pieces the handler does not read
  gone               \* history: a write failed, the client is gone

answerVars ==
  <<provider, mode, out, heard, usage, doneRendered, status, lines, pieces, metered, opening, ending, unread, gone>>

AnswersTypeOK ==
  /\ provider \in ChatOnly \cup WithEmbeddings \cup {"replicate"} /\ mode \in {"chat", "stream", "embedding"}
  /\ out \in Seq(Int) /\ heard \in Seq(Part)
  /\ usage \in [known: BOOLEAN, prompt: 0..(PromptTokens + MaxParts), completion: 0..(MaxParts + 1)]
  /\ doneRendered \in BOOLEAN
  /\ status \in {"open", "closing", "ok", "error"}
  /\ lines \in 0..MaxRead /\ pieces \in 0..MaxParts /\ metered \in 0..MaxParts
  /\ opening \in {NotBegun, 0, 1} /\ ending \in {"", "stop", "bare", "long", "unread"}
  /\ unread \subseteq 1..pieces /\ gone \in BOOLEAN

AnswersInit ==
  /\ \/ provider \in ChatOnly /\ mode \in {"chat", "stream"}
     \/ provider = "replicate" /\ mode = "stream"
     \/ provider \in WithEmbeddings /\ mode \in {"chat", "stream", "embedding"}
  /\ out = <<>> /\ heard = <<>> /\ status = "open"
  /\ usage = IF provider \in {"openai", "zhipu"} THEN NoUsage ELSE Tokens(0, 0)
  /\ lines = 0 /\ pieces = 0 /\ metered = 0 /\ unread = {} /\ gone = FALSE
  /\ doneRendered = FALSE /\ opening = NotBegun /\ ending = ""

-----------------------------------------------------------------------------
(* The stream handlers: what one line makes them send, hear and charge,    *)
(* and whether they go on.                                                 *)
Ignored == [send |-> <<>>, heard |-> <<>>, usage |-> usage, rendered |-> doneRendered, status |-> "open"]
Read(l) == l.kind = "data"
Text(l) == [Ignored EXCEPT !.send = l.parts, !.heard = l.parts]
First(parts) == IF parts = <<>> THEN <<>> ELSE <<Head(parts)>>
Final(parts) == IF parts = <<>> THEN <<>> ELSE <<Last(parts)>>
Later(l) == IF l.tokens = 0 THEN usage ELSE Told(l)
Added(l) == Tokens(usage.prompt + Told(l).prompt, usage.completion + Told(l).completion)

\* A mutant: what cannot be read is dropped.
openaiDropsUnread(l) ==
  CASE l.kind = "done" -> [Ignored EXCEPT !.send = <<Done>>, !.rendered = TRUE]
    [] Read(l) -> [Text(l) EXCEPT !.usage = Later(l)]
    [] OTHER -> Ignored

\* A bare [DONE] is taken for a line that cannot be read, and such a line is passed on.
openaiLine(l) ==
  CASE l.kind = "done" -> [Ignored EXCEPT !.send = <<Done>>, !.rendered = TRUE]
    [] l.kind = "bare" -> [Ignored EXCEPT !.send = <<Done>>]
    [] l.kind = "bad" -> [Ignored EXCEPT !.send = [i \in DOMAIN l.parts |-> -l.parts[i]]]
    [] Read(l) -> [Text(l) EXCEPT !.usage = Later(l)]
    [] OTHER -> Ignored

\* message_start tells the prompt, and it and message_delta the completion: added up.
ClaudeUsage(l) ==
  Tokens(usage.prompt + (IF l.kind = "start" THEN PromptTokens ELSE 0), usage.completion + l.tokens)

anthropicLine(l) == IF Read(l) \/ l.kind = "start" THEN [Text(l) EXCEPT !.usage = ClaudeUsage(l)] ELSE Ignored

\* Of a candidate's parts the first.
geminiLine(l) == IF Read(l) THEN Text([l EXCEPT !.parts = First(@)]) ELSE Ignored

baiduLine(l) == IF Read(l) THEN [Text(l) EXCEPT !.usage = Later(l)] ELSE Ignored

tencentLine(l) == IF Read(l) THEN Text(l) ELSE Ignored

zhipuLine(l) == IF Read(l) THEN [Text(l) EXCEPT !.usage = Later(l)] ELSE Ignored

\* A mutant: every line overwrites the usage.
aliForgets(l) == IF Read(l) THEN [Text(l) EXCEPT !.usage = Told(l)] ELSE Ignored

aliLine(l) == IF Read(l) THEN [Text(l) EXCEPT !.usage = Later(l)] ELSE Ignored

ollamaLine(l) == IF Read(l) THEN [Text(l) EXCEPT !.usage = Later(l)] ELSE Ignored

\* The last event, which tells the tokens, is not passed on.
cohereLine(l) == IF Read(l) THEN [Text(l) EXCEPT !.usage = Added(l)] ELSE Ignored

cozeLine(l) == IF Read(l) THEN Text(l) ELSE Ignored

cloudflareLine(l) ==
  CASE l.kind \in {"done", "bare"} -> [Ignored EXCEPT !.status = "closing"]
    [] Read(l) -> Text(l)
    [] OTHER -> Ignored

\* Of an event's data lines the last.  A line that is too long is an error.
replicateLine(l) ==
  CASE l.kind = "done" -> [Ignored EXCEPT !.send = <<Done>>, !.rendered = TRUE, !.status = "closing"]
    [] l.kind = "long" -> [Ignored EXCEPT !.status = "error"]
    [] Read(l) -> Text([l EXCEPT !.parts = Final(@)])
    [] OTHER -> Ignored

\* The usage stays zero.
aiproxyLine(l) == IF Read(l) THEN Text(l) ELSE Ignored

\* A mutant: a message that cannot be read is answered as an error.
xunfeiFails(l) ==
  CASE Read(l) -> [Text(l) EXCEPT !.usage = Added(l)]
    [] l.kind = "bad" -> [Ignored EXCEPT !.status = "error"]
    [] OTHER -> Ignored

\* The goroutine that reads the websocket hands the messages over one by one and stops
\* at one it cannot read.
xunfeiLine(l) ==
  CASE Read(l) -> [Text(l) EXCEPT !.usage = Added(l)]
    [] l.kind = "bad" -> [Ignored EXCEPT !.status = "closing"]
    [] OTHER -> Ignored

\* Bedrock: an event that cannot be read ends the stream as it is.
bedrockClaudeLine(l) ==
  CASE Read(l) \/ l.kind = "start" -> [Text(l) EXCEPT !.usage = ClaudeUsage(l)]
    [] l.kind = "bad" -> [Ignored EXCEPT !.status = "ok"]
    [] OTHER -> Ignored

\* The completion is taken over when the stop reason is "stop": a stream that ends by its
\* length costs its prompt.
LlamaUsage(l) ==
  Tokens(IF l.tokens = 0 THEN usage.prompt ELSE PromptTokens, IF l.stop THEN l.tokens ELSE usage.completion)

bedrockLlamaLine(l) ==
  CASE Read(l) -> [Text(l) EXCEPT !.usage = LlamaUsage(l)]
    [] l.kind = "bad" -> [Ignored EXCEPT !.status = "ok"]
    [] OTHER -> Ignored

Handled(l) ==
  CASE provider = "openai" -> openaiLine(l)
    [] provider = "anthropic" -> anthropicLine(l)
    [] provider = "gemini" -> geminiLine(l)
    [] provider = "baidu" -> baiduLine(l)
    [] provider = "tencent" -> tencentLine(l)
    [] provider = "zhipu" -> zhipuLine(l)
    [] provider = "ali" -> aliLine(l)
    [] provider = "ollama" -> ollamaLine(l)
    [] provider = "cohere" -> cohereLine(l)
    [] provider = "coze" -> cozeLine(l)
    [] provider = "cloudflare" -> cloudflareLine(l)
    [] provider = "replicate" -> replicateLine(l)
    [] provider = "aiproxy" -> aiproxyLine(l)
    [] provider = "xunfei" -> xunfeiLine(l)
    [] provider = "bedrockClaude" -> bedrockClaudeLine(l)
    [] provider = "bedrockLlama" -> bedrockLlamaLine(l)

\* The providers whose usages are added up tell them once, in a line without text; Claude
\* has told the prompt, and a first token, before its text.  A Gemini line may have two
\* parts and a Replicate event two data lines.
ToldOnce == {"anthropic", "bedrockClaude", "xunfei", "cohere"}
Apart == ToldOnce \cup {"zhipu"}
MostParts(kind) ==
  CASE kind \in {"start", "other", "done", "bare"} \/ (kind = "bad" /\ provider = "zhipu") -> 0
    [] kind = "data" /\ provider \in {"gemini", "replicate"} -> 2
    [] OTHER -> 1
MayFollow(l) ==
  /\ ending = ""
  /\ l.parts = [i \in 1..Len(l.parts) |-> pieces + i] /\ Len(l.parts) <= MostParts(l.kind)
  /\ l.kind = "start" => provider \in Claude /\ opening = NotBegun /\ pieces = 0 /\ metered = 0 /\ l.tokens <= 1
  /\ l.kind = "long" => provider \notin Stepwise
  /\ l.kind = "data" => l.tokens \in {0, pieces + Len(l.parts)}
  /\ l.kind \notin {"data", "start"} => l.tokens = 0
  /\ l.kind = "data" /\ l.tokens # 0 =>
       (provider \in Apart => l.parts = <<>>) /\ (provider \in ToldOnce => metered = 0)
  /\ l.stop => provider = "bedrockLlama" /\ l.kind = "data" /\ l.tokens = pieces + Len(l.parts)

Kept(l) ==
  CASE provider = "gemini" /\ Read(l) -> ToSet(First(l.parts))
    [] provider = "replicate" /\ Read(l) -> ToSet(Final(l.parts))
    [] provider \notin {"gemini", "replicate"} /\ Read(l) -> ToSet(l.parts)
    [] provider = "openai" /\ l.kind = "bad" -> ToSet(l.parts)
    [] OTHER -> {}

EndsWith(l) ==
  CASE l.stop -> "stop"
    [] l.kind \in {"bare", "long"} -> l.kind
    [] l.kind = "bad" /\ provider \in Bedrock -> "unread"
    [] OTHER -> ""

StreamLine ==
  \E l \in Line :
    LET step == Handled(l) IN
    /\ mode = "stream" /\ provider \notin OneBody /\ status = "open"
    /\ lines < MaxRead /\ lines' = lines + 1
    /\ MayFollow(l)
    /\ out' = out \o step.send
    /\ heard' = heard \o step.heard
    /\ usage' = IF step.status = "error" THEN NoUsage ELSE step.usage
    /\ doneRendered' = step.rendered
    /\ status' = IF l.kind \in {"done", "bare", "long"} /\ step.status = "open" THEN "closing" ELSE step.status
    /\ pieces' = pieces + Len(l.parts)
    /\ metered' = IF l.kind = "data" /\ l.tokens # 0 THEN l.tokens ELSE metered
    /\ opening' = IF l.kind = "start" THEN l.tokens ELSE opening
    /\ ending' = EndsWith(l)
    /\ unread' = unread \cup (ToSet(l.parts) \ Kept(l))
    /\ UNCHANGED <<provider, mode, gone>>

\* Adaptor.DoResponse: usage as returned by the handler, or counted.
DoResponse ==
  CASE provider = "openai" /\ usage.prompt + usage.completion = 0 -> ResponseText2Usage(heard)
    [] provider \in {"gemini", "tencent", "coze", "cloudflare", "replicate"} -> ResponseText2Usage(heard)
    [] OTHER -> usage

\* The handlers that close the answer's body after the stream, and say so if they cannot.
Closing == {"openai", "anthropic", "gemini", "baidu", "tencent", "zhipu", "ali", "ollama", "cohere", "coze",
            "cloudflare", "aiproxy"}

\* The provider is done, or its connection breaks: only Replicate's handler tells.
StreamEnd ==
  \E broken, fails \in BOOLEAN :
    /\ mode = "stream" /\ provider \notin OneBody
    /\ status \in {"open", "closing"} /\ (broken => status = "open")
    /\ IF broken /\ provider = "replicate"
       THEN status' = "error" /\ usage' = NoUsage /\ UNCHANGED out
       ELSE /\ out' = IF doneRendered THEN out ELSE Append(out, Done)
            /\ status' = IF fails /\ provider \in Closing THEN "error" ELSE "ok"
            /\ usage' = IF status' = "ok" THEN DoResponse ELSE NoUsage
    /\ UNCHANGED <<provider, mode, heard, doneRendered, lines, pieces, metered, opening, ending, unread, gone>>

\* c.Stream returns when the client is gone, whatever the provider still has to say.
ClientLeaves ==
  /\ mode = "stream" /\ provider \in Stepwise /\ status \in {"open", "closing"}
  /\ status' = "ok" /\ gone' = TRUE
  /\ UNCHANGED <<provider, mode, out, heard, usage, doneRendered, lines, pieces, metered, opening, ending, unread>>

-----------------------------------------------------------------------------
(* The handlers of a whole body.  Some answer an error when the client     *)
(* could not be written to.                                                *)
Declined == [ok |-> FALSE, send |-> <<>>, usage |-> NoUsage, tells |-> FALSE]
Answers(text, u) == [ok |-> TRUE, send |-> text, usage |-> u, tells |-> FALSE]
OrError(b, answer) == IF b.kind \in {"bad", "error"} THEN Declined ELSE answer

openaiBody(b) ==
  OrError(b, [Answers(b.parts, IF b.tokens = 0 THEN ResponseText2Usage(b.parts) ELSE Told(b)) EXCEPT !.tells = TRUE])

\* Text is taken from the first block alone.
anthropicBody(b) == OrError(b, Answers(First(b.parts), Told(b)))

\* Without a candidate it is an error.  All parts are sent and the first is counted.
geminiBody(b) == IF b.kind # "text" THEN Declined ELSE Answers(b.parts, ResponseText2Usage(First(b.parts)))

baiduBody(b) == OrError(b, Answers(b.parts, Told(b)))

\* The messages of the websocket are put together; without a text at last it is an error.
xunfeiBody(b) == IF b.kind # "text" THEN Declined ELSE Answers(b.parts, Told(b))

tencentBody(b) == OrError(b, [Answers(First(b.parts), Told(b)) EXCEPT !.tells = TRUE])

zhipuBody(b) == OrError(b, Answers(b.parts, Told(b)))

aliBody(b) == OrError(b, Answers(b.parts, Told(b)))

ollamaBody(b) == OrError(b, Answers(b.parts, Told(b)))

cohereBody(b) == OrError(b, Answers(b.parts, Told(b)))

\* The first message that is an answer.
cozeBody(b) == OrError(b, Answers(First(b.parts), ResponseText2Usage(First(b.parts))))

\* An error the provider answers with status 200 is an answer without text.
cloudflareBody(b) == IF b.kind = "bad" THEN Declined ELSE Answers(b.parts, ResponseText2Usage(b.parts))

palmBody(b) == IF b.kind # "text" THEN Declined ELSE Answers(b.parts, ResponseText2Usage(First(b.parts)))

\* One chunk; what is no answer has no text.
palmStream(b) == IF b.kind = "bad" THEN Declined ELSE Answers(First(b.parts), ResponseText2Usage(First(b.parts)))

\* DeepL is charged by what is translated.
deeplBody(b) == OrError(b, Answers(First(b.parts), Tokens(PromptTokens, 0)))

deeplStream(b) == IF b.kind = "bad" THEN Declined ELSE Answers(First(b.parts), Tokens(PromptTokens, 0))

aiproxyBody(b) == OrError(b, [Answers(b.parts, Tokens(0, 0)) EXCEPT !.tells = TRUE])

bedrockClaudeBody(b) == OrError(b, Answers(First(b.parts), Told(b)))

bedrockLlamaBody(b) == OrError(b, Answers(b.parts, Told(b)))

\* Embeddings: Gemini and Ollama tell no tokens; of Ali and Tencent only the total is
\* taken over, which is not what is charged.
geminiEmbedding(b) == OrError(b, Answers(b.parts, Tokens(0, 0)))

baiduEmbedding(b) == OrError(b, Answers(b.parts, Tokens(b.tokens, 0)))

tencentEmbedding(b) == OrError(b, Answers(b.parts, Tokens(0, 0)))

\* An error is an answer without embeddings.
zhipuEmbedding(b) == IF b.kind = "bad" THEN Declined ELSE Answers(b.parts, Tokens(b.tokens, 0))

aliEmbedding(b) == OrError(b, Answers(b.parts, Tokens(0, 0)))

ollamaEmbedding(b) == OrError(b, Answers(b.parts, Tokens(0, 0)))

Embedded(b) ==
  CASE provider = "gemini" -> geminiEmbedding(b)
    [] provider = "baidu" -> baiduEmbedding(b)
    [] provider = "tencent" -> tencentEmbedding(b)
    [] provider = "zhipu" -> zhipuEmbedding(b)
    [] provider = "ali" -> aliEmbedding(b)
    [] provider = "ollama" -> ollamaEmbedding(b)

Answered(b) ==
  IF mode = "embedding" THEN Embedded(b) ELSE
  CASE provider = "openai" -> openaiBody(b)
    [] provider = "anthropic" -> anthropicBody(b)
    [] provider = "gemini" -> geminiBody(b)
    [] provider = "baidu" -> baiduBody(b)
    [] provider = "xunfei" -> xunfeiBody(b)
    [] provider = "tencent" -> tencentBody(b)
    [] provider = "zhipu" -> zhipuBody(b)
    [] provider = "ali" -> aliBody(b)
    [] provider = "ollama" -> ollamaBody(b)
    [] provider = "cohere" -> cohereBody(b)
    [] provider = "coze" -> cozeBody(b)
    [] provider = "cloudflare" -> cloudflareBody(b)
    [] provider = "palm" -> IF mode = "stream" THEN palmStream(b) ELSE palmBody(b)
    [] provider = "deepl" -> IF mode = "stream" THEN deeplStream(b) ELSE deeplBody(b)
    [] provider = "aiproxy" -> aiproxyBody(b)
    [] provider = "bedrockClaude" -> bedrockClaudeBody(b)
    [] provider = "bedrockLlama" -> bedrockLlamaBody(b)

WholeBody ==
  \E b \in Body, fails \in BOOLEAN :
    LET answer == Answered(b) IN
    /\ mode # "stream" \/ provider \in OneBody
    /\ status = "open"
    /\ b.parts = [i \in 1..Len(b.parts) |-> i] /\ (b.kind # "text" => b.parts = <<>>)
    /\ b.tokens \in {0, Len(b.parts)}
    /\ status' = IF answer.ok /\ ~(fails /\ answer.tells) THEN "ok" ELSE "error"
    /\ out' = IF answer.ok /\ mode = "stream" THEN Append(answer.send, Done) ELSE answer.send
    /\ usage' = IF status' = "ok" THEN answer.usage ELSE NoUsage
    /\ pieces' = Len(b.parts) /\ metered' = b.tokens /\ gone' = fails
    /\ unread' = ToSet(b.parts) \ ToSet(answer.send)
    /\ UNCHANGED <<provider, mode, heard, doneRendered, lines, opening, ending>>

AnswersNext == StreamLine \/ StreamEnd \/ ClientLeaves \/ WholeBody
AnswersSpec == AnswersInit /\ [][AnswersNext]_answerVars

-----------------------------------------------------------------------------
\* A stream that is answered ends with one [DONE], whatever line it broke at; with two of
\* OpenAI's if the provider's has no "data: "; and Bedrock's as it is at an event that
\* cannot be read, or like Xunfei's when the client is gone.  The client has every piece of
\* the lines that were sent, in order, read or unread, but what was in lines that cannot be
\* read or are too long, in Gemini's further parts and in the data lines before the last of
\* a Replicate event: OpenAI's handler loses what is in a line that is too long.
StreamDelivered ==
  /\ mode = "stream" /\ status = "ok" =>
       LET dones == IF provider = "openai" /\ ending = "bare" THEN 2 ELSE 1 IN
       \/ dones <= Len(out) /\ \A i \in DOMAIN out : out[i] = Done <=> i > Len(out) - dones
       \/ ending = "unread" \/ (gone /\ provider \in Stepwise)
  /\ mode = "stream" /\ provider \notin OneBody =>
       LET said == {i \in DOMAIN out : out[i] # Done} IN
       /\ \A i, j \in said : i < j => Number(out[i]) < Number(out[j])
       /\ {Number(out[i]) : i \in said} = (1..pieces) \ unread
       /\ provider = "openai" /\ ending # "long" => unread = {}

\* controller.Relay tries another channel after an error, so nothing may have been sent by
\* then, unless the client is gone.  It gets two answers from Replicate's handler, which
\* tells of a stream that breaks off, and where the body of a stream that was sent to its
\* [DONE] does not close.
NothingSentBeforeError ==
  status = "error" =>
    \/ out = <<>> \/ gone \/ provider = "replicate"
    \/ mode = "stream" /\ provider \in Closing /\ Last(out) = Done

\* What reaches the client is charged: as the gateway counts the texts it has read, Gemini's
\* and PaLM's whole answers by their first part; or as the provider told it last.  So a
\* provider that breaks off before it tells, AI Proxy, and the embeddings of four providers
\* cost nothing, although postConsumeQuota takes zero tokens for an error; Llama's stream
\* costs its prompt if it stopped by its length, and Claude's the token of message_start twice.
DeliveredIsCharged ==
  LET texts == IF provider \in {"gemini", "palm"} /\ mode = "chat" THEN 1 ELSE Cardinality({i \in DOMAIN out : out[i] > 0})
      counts == {"gemini", "coze", "cloudflare", "replicate", "palm"}
                \cup (IF mode = "stream" THEN {"tencent"} ELSE {})
                \cup (IF metered = 0 THEN {"openai"} ELSE {})
      price ==
        CASE mode = "embedding" -> <<IF provider \in {"baidu", "zhipu"} THEN metered ELSE 0, 0>>
          [] provider = "aiproxy" -> <<0, 0>>
          [] provider = "deepl" -> <<PromptTokens, 0>>
          [] mode # "embedding" /\ provider \in counts -> <<PromptTokens, texts>>
          [] provider \in Claude /\ mode = "stream" ->
               IF opening = NotBegun THEN <<0, metered>> ELSE <<PromptTokens, metered + opening>>
          [] provider = "bedrockLlama" /\ mode = "stream" ->
               <<IF metered = 0 THEN 0 ELSE PromptTokens, IF ending = "stop" THEN metered ELSE 0>>
          [] OTHER -> <<IF metered = 0 THEN 0 ELSE PromptTokens, metered>>
  IN
  status = "ok" /\ (\E i \in DOMAIN out : out[i] # Done) => <<usage.prompt, usage.completion>> = price
=============================================================================
