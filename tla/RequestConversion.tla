-------------------------- MODULE RequestConversion --------------------------
(***************************************************************************)
(* What becomes of a conversation on its way to a provider: /v1/messages   *)
(* is turned into a chat request (relaymode/anthropic/request.go), and a   *)
(* chat request into the provider's by ConvertRequest of its adaptor.  A   *)
(* text, an image, a tool call or its result is a numbered part.           *)
(***************************************************************************)
EXTENDS Integers, Sequences, SequencesExt

CONSTANT MaxTurns     \* bound of the turns of a conversation

ASSUME ConversionAssumption == MaxTurns \in Nat

VARIABLES
  entry,      \* "chat", or "messages" for /v1/messages
  turns       \* what the client sends

conversionVars == <<entry, turns>>

Item == [kind: {"text", "image", "use", "result"}, n: Nat, of: Nat]
Speaker == {"system", "user", "assistant", "tool"}
Turn == [role: Speaker, parts: Seq(Item)]

ConversionTypeOK == entry \in {"chat", "messages"} /\ turns \in Seq(Turn) /\ Len(turns) <= MaxTurns

ConversionInit == entry \in {"chat", "messages"} /\ turns = <<>>

All(seqs) == FlattenSeq(seqs)
Parts(ts) == All([i \in DOMAIN ts |-> ts[i].parts])

\* What a sequence has at some of its places, in order.
Only(seq, places) == All([i \in DOMAIN seq |-> IF i \in places THEN <<seq[i]>> ELSE <<>>])
OfKind(parts, kind) == Only(parts, {i \in DOMAIN parts : parts[i].kind = kind})
OfOther(parts, kind) == Only(parts, {i \in DOMAIN parts : parts[i].kind # kind})
ToolCalls(t) == OfKind(t.parts, "use")
From(msgs, role) == Only(msgs, {i \in DOMAIN msgs : msgs[i].role = role})
Without(msgs, role) == Only(msgs, {i \in DOMAIN msgs : msgs[i].role # role})

\* A client's next turn: a call is answered at once, by the user of /v1/messages and by
\* the role "tool" of a chat; a system prompt of /v1/messages comes first.
Shapes == {<<"system", <<"text">>>>, <<"user", <<"text">>>>, <<"user", <<"text", "text">>>>,
           <<"user", <<"text", "image">>>>, <<"user", <<"result">>>>, <<"user", <<"result", "text">>>>,
           <<"tool", <<"result">>>>, <<"assistant", <<"text">>>>, <<"assistant", <<"use">>>>,
           <<"assistant", <<"text", "use">>>>}

Say ==
  \E shape \in Shapes :
    LET role == shape[1]  kinds == shape[2]  n == Len(Parts(turns))
        call == IF turns = <<>> THEN <<>> ELSE ToolCalls(turns[Len(turns)])
        answers == "result" \in ToSet(kinds)
    IN
    /\ Len(turns) < MaxTurns
    /\ answers <=> call # <<>>
    /\ answers => (role = "tool" <=> entry = "chat")
    /\ role = "system" /\ entry = "messages" => turns = <<>>
    /\ turns' = Append(turns, [role |-> role, parts |->
         [i \in DOMAIN kinds |-> [kind |-> kinds[i], n |-> n + i,
                                  of |-> IF kinds[i] = "result" THEN call[1].n ELSE 0]]])
    /\ UNCHANGED entry

ConversionNext == Say
ConversionSpec == ConversionInit /\ [][ConversionNext]_conversionVars

-----------------------------------------------------------------------------
(* A chat message.  Its content is a string, a list, a list the gateway    *)
(* made itself (a slice of maps, which the methods below do not take for   *)
(* one), or missing.                                                       *)
Message(role, form, parts, calls) == [role |-> role, form |-> form, parts |-> parts, calls |-> calls]
Form(parts, list) == IF Len(parts) = 1 /\ parts[1].kind # "image" THEN "string" ELSE list

StringContent(m) ==
  IF m.form \in {"string", "list"} THEN OfOther(m.parts, "image") ELSE <<>>

ParseContent(m) == IF m.form \in {"string", "list"} THEN m.parts ELSE <<>>

\* A client of /v1/chat/completions.
Sent(t) ==
  LET content == OfOther(t.parts, "use") IN
  Message(t.role, IF content = <<>> THEN "none" ELSE Form(content, "list"), content, ToolCalls(t))

\* A mutant: calls are taken over only without a text.
convertMessageTextOrCalls(t) ==
  LET texts == OfKind(t.parts, "text")  images == OfKind(t.parts, "image")
      results == OfKind(t.parts, "result")
      content == texts \o images
      said == IF content = <<>> THEN <<>> ELSE <<Message(t.role, Form(content, "typed"), content, <<>>)>>
  IN
  IF t.role = "assistant"
  THEN <<Message("assistant", IF texts = <<>> THEN "none" ELSE Form(texts, "typed"), texts,
                 IF texts = <<>> THEN ToolCalls(t) ELSE <<>>)>>
  ELSE said \o [i \in DOMAIN results |-> Message("tool", "string", <<results[i]>>, <<>>)]

\* Texts, then images, then each result as a message of its own.
convertMessage(t) ==
  LET texts == OfKind(t.parts, "text")  images == OfKind(t.parts, "image")
      results == OfKind(t.parts, "result")
      content == texts \o images
      said == IF content = <<>> THEN <<>> ELSE <<Message(t.role, Form(content, "typed"), content, <<>>)>>
  IN
  IF t.role = "assistant"
  THEN <<Message("assistant", IF texts = <<>> THEN "none" ELSE Form(texts, "typed"), texts, ToolCalls(t))>>
  ELSE said \o [i \in DOMAIN results |-> Message("tool", "string", <<results[i]>>, <<>>)]

\* A mutant: a message cannot be the system's.
NoSystemRole(role) == role \in {"user", "assistant"}

ValidRole(role) == role \in {"user", "assistant", "system"}

\* A system prompt is a string.
convertSystem(t) == <<Message("system", "string", OfKind(t.parts, "text"), <<>>)>>

Invalid == <<>>    \* invalid_request_error, also for a request without messages
ToOpenAIRequest(system, ts) ==
  IF ts = <<>> \/ \E i \in DOMAIN ts : ~ValidRole(ts[i].role) THEN Invalid
  ELSE All([i \in DOMAIN system |-> convertSystem(system[i])]) \o All([i \in DOMAIN ts |-> convertMessage(ts[i])])

\* The first channel leaves its chat request as the body, which the next one reads as
\* /v1/messages again: tool_calls and image_url are not known there, a missing content
\* is an error.
Reread(msgs) == [i \in DOMAIN msgs |->
  [role |-> IF msgs[i].form = "none" THEN "none" ELSE msgs[i].role, parts |-> OfKind(msgs[i].parts, "text")]]

FirstTry ==
  IF entry = "chat" THEN [i \in DOMAIN turns |-> Sent(turns[i])]
  ELSE ToOpenAIRequest(From(turns, "system"), Without(turns, "system"))
SecondTry == IF entry = "chat" THEN FirstTry ELSE ToOpenAIRequest(<<>>, Reread(FirstTry))

-----------------------------------------------------------------------------
(* The requests providers get: what is said, by whom, in which order.      *)
Says(role, parts) == [role |-> role, parts |-> parts]
Texts(msgs) == [i \in DOMAIN msgs |-> Says(msgs[i].role, StringContent(msgs[i]))]
LastOf(msgs) == IF msgs = <<>> THEN <<>> ELSE <<Last(msgs)>>

\* As it is: OpenAI and the adaptors like it, Cloudflare.
openaiRequest(msgs) == [i \in DOMAIN msgs |-> Says(msgs[i].role, msgs[i].parts \o msgs[i].calls)]

\* A mutant: every system message takes the place of the one before.
anthropicLastSystem(msgs) ==
  Texts(LastOf(From(msgs, "system"))) \o
  [i \in DOMAIN Without(msgs, "system") |->
     LET m == Without(msgs, "system")[i] IN
     Says(IF m.role = "tool" THEN "user" ELSE m.role,
          IF m.form = "string" THEN m.parts \o m.calls ELSE ParseContent(m))]

\* Claude: the first system message apart; the calls of messages whose content is a string.
anthropicRequest(msgs) ==
  LET systems == {i \in DOMAIN msgs : msgs[i].role = "system"}
      apart == {i \in systems : \A k \in systems : i <= k}
      said(m) == Says(IF m.role = "tool" THEN "user" ELSE m.role,
                      IF m.form = "string" THEN m.parts \o m.calls ELSE ParseContent(m))
  IN
  All([i \in DOMAIN msgs |-> IF i \in apart THEN Texts(<<msgs[i]>>) ELSE <<>>]) \o
  All([i \in DOMAIN msgs |-> IF i \in apart THEN <<>> ELSE <<said(msgs[i])>>])

Okay == Says("model", <<>>)

\* Gemini: with a system instruction, the last there is; without, the user says it.  A
\* message of the model's is added after the next message that is not an instruction.
geminiRequest(msgs, instructs) ==
  LET says(i) == Says(CASE msgs[i].role = "assistant" -> "model" [] msgs[i].role = "system" -> "user"
                        [] OTHER -> msgs[i].role, ParseContent(msgs[i]))
      content(i) ==
        CASE msgs[i].role = "system" -> IF instructs THEN <<>> ELSE <<says(i), Okay>>
          [] msgs[i].role # "system" /\ instructs /\ i > 1 /\ msgs[i - 1].role = "system" -> <<says(i), Okay>>
          [] OTHER -> <<says(i)>>
  IN
  (IF instructs THEN Texts(LastOf(From(msgs, "system"))) ELSE <<>>) \o All([i \in DOMAIN msgs |-> content(i)])

\* Baidu: the last system message apart.
baiduRequest(msgs) == Texts(LastOf(From(msgs, "system"))) \o Texts(Without(msgs, "system"))

xunfeiRequest(msgs) == Texts(msgs)

tencentRequest(msgs) == Texts(msgs)

zhipuRequest(msgs) == Texts(msgs)

aliRequest(msgs) == Texts(msgs)

palmRequest(msgs) == Texts(msgs)

bedrockLlamaRequest(msgs) == Texts(msgs)

\* Ollama: of several texts the last, and the images.
ollamaRequest(msgs) ==
  [i \in DOMAIN msgs |-> Says(msgs[i].role,
     LastOf(StringContent(msgs[i])) \o OfKind(ParseContent(msgs[i]), "image"))]

\* Cohere: the last message of the user after what the others said; contents must be strings.
CohereFails(msgs) == \E i \in DOMAIN msgs : msgs[i].form # "string"

cohereRequest(msgs) == Texts(Without(msgs, "user")) \o Texts(LastOf(From(msgs, "user")))

cozeRequest(msgs) == Texts(msgs)

deeplRequest(msgs) == Texts(LastOf(msgs))

aiproxyRequest(msgs) == Texts(LastOf(msgs))

\* Replicate: one prompt of the contents that are strings.
replicateRequest(msgs) == Texts(Only(msgs, {i \in DOMAIN msgs : msgs[i].form = "string"}))

Adaptor == {"openai", "anthropic", "gemini", "gemini2", "baidu", "xunfei", "tencent", "zhipu", "ali",
            "palm", "bedrockLlama", "ollama", "cohere", "coze", "deepl", "aiproxy", "replicate"}

Given(a, msgs) ==
  CASE a = "openai" -> openaiRequest(msgs)
    [] a = "anthropic" -> anthropicRequest(msgs)
    [] a = "gemini" -> geminiRequest(msgs, FALSE)
    [] a = "gemini2" -> geminiRequest(msgs, TRUE)
    [] a = "baidu" -> baiduRequest(msgs)
    [] a = "xunfei" -> xunfeiRequest(msgs)
    [] a = "tencent" -> tencentRequest(msgs)
    [] a = "zhipu" -> zhipuRequest(msgs)
    [] a = "ali" -> aliRequest(msgs)
    [] a = "palm" -> palmRequest(msgs)
    [] a = "bedrockLlama" -> bedrockLlamaRequest(msgs)
    [] a = "ollama" -> ollamaRequest(msgs)
    [] a = "cohere" -> cohereRequest(msgs)
    [] a = "coze" -> cozeRequest(msgs)
    [] a = "deepl" -> deeplRequest(msgs)
    [] a = "aiproxy" -> aiproxyRequest(msgs)
    [] a = "replicate" -> replicateRequest(msgs)

-----------------------------------------------------------------------------
Got(a) == Parts(Given(a, FirstTry))
TurnOf(p) == CHOOSE i \in DOMAIN turns : p \in ToSet(turns[i].parts)
Serves(a) == FirstTry # Invalid /\ ~(a = "cohere" /\ CohereFails(FirstTry))

\* Whether a provider may miss a text or a result: a second text of a message of
\* /v1/messages makes it a list that no adaptor but OpenAI's can read; some take one
\* system prompt, one message of the user, one text of a message, or the last message.
Missed(a, i, p) ==
  LET t == turns[i]
      again(role) == \E k \in (i + 1)..Len(turns) : turns[k].role = role
      lists == \E q, r \in ToSet(t.parts) : q.n # r.n /\ {q.kind, r.kind} \subseteq {"text", "image"}
  IN
  \/ entry = "messages" /\ lists /\ a # "openai" /\ p.kind = "text"
  \/ a = "replicate" /\ lists
  \/ a = "ollama" /\ t.role = "user" /\ \E q \in ToSet(t.parts) : q.kind = "text" /\ q.n > p.n
  \/ a \in {"baidu", "gemini2"} /\ t.role = "system" /\ again("system")
  \/ a = "cohere" /\ t.role = "user" /\ again("user")
  \/ a \in {"deepl", "aiproxy"} /\ (i < Len(turns) \/ OfKind(t.parts, "result") \notin {<<>>, t.parts})

\* What a provider is told was said in the conversation, once, and turn after turn but
\* for system prompts and Cohere's message of the user; and all that was said, but for
\* what may be missed.
ConversationKept ==
  /\ FirstTry = Invalid => turns = From(turns, "system")
  /\ \A a \in {b \in Adaptor : Serves(b)} :
      LET got == Got(a) IN
      /\ ToSet(got) \subseteq ToSet(Parts(turns))
      /\ \A j, k \in DOMAIN got : j < k /\ a # "cohere" =>
           \/ TurnOf(got[j]) < TurnOf(got[k])
           \/ TurnOf(got[j]) = TurnOf(got[k]) /\ got[j].n # got[k].n
           \/ turns[TurnOf(got[j])].role = "system"
      /\ \A i \in DOMAIN turns : \A p \in ToSet(turns[i].parts) :
           p.kind \in {"text", "result"} /\ ~Missed(a, i, p) => p \in ToSet(got)

\* Whoever is told results as such is told the call just before its result, but for a text
\* of the message with the result, and but for Claude when the assistant said nothing
\* beside the call: then the call is not passed on.
ToolResultsMatched ==
  \A a \in {"openai", "anthropic"} :
    LET got == Got(a) IN
    \A k \in DOMAIN got : got[k].kind = "result" =>
      \/ \E j \in 1..(k - 1) :
           /\ got[j].n = got[k].of
           /\ \A between \in (j + 1)..(k - 1) : TurnOf(got[between]) = TurnOf(got[k])
      \/ a = "anthropic" /\ \E t \in ToSet(turns) : OfKind(t.parts, "text") = <<>> /\
                              \E p \in ToSet(t.parts) : p.n = got[k].of

\* The channel a request falls back to is told the same, unless a tool or an image is
\* part of a conversation on /v1/messages; with a result it answers invalid_request_error.
SecondChannelSame ==
  LET kinds == {p.kind : p \in ToSet(Parts(turns))} IN
  /\ entry = "chat" \/ kinds \subseteq {"text"} =>
       \A a \in {b \in Adaptor : Serves(b)} : Given(a, SecondTry) = Given(a, FirstTry)
  /\ entry = "messages" /\ "result" \in kinds => SecondTry = Invalid
=============================================================================
