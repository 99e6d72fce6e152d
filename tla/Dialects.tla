------------------------------ MODULE Dialects ------------------------------
(***************************************************************************)
(* internal/adapter/transform.go and the BuildRequest half of the three    *)
(* adapters: a client's body becomes the unified request, and that becomes *)
(* the body of an OpenAI, an Anthropic or a Bedrock upstream.  Text is a   *)
(* sequence of pieces, so that joining texts is concatenation; the         *)
(* arguments of a call are the pieces of a JSON object.  An optional value *)
(* is a sequence of length 0 or 1.                                         *)
(***************************************************************************)
EXTENDS Naturals, Sequences, SequencesExt

Nothing == <<>>
Some(x) == <<x>>
EmptyObject == <<"{}">>

(* Every element of s replaced by the sequence Op makes of it. *)
Each(Op(_), s) == FlattenSeq([k \in DOMAIN s |-> Op(s[k])])

-----------------------------------------------------------------------------
(* Unified blocks.  mark is the block's CacheControl. *)

TextBlock(t) == [kind |-> "text", text |-> t, mark |-> FALSE]
ImageBlock(i) == [kind |-> "image", image |-> i, mark |-> FALSE]
ToolUseBlockOf(id, name, input) ==
  [kind |-> "call", call |-> [id |-> id, name |-> name, input |-> input], mark |-> FALSE]
ToolResultBlockOf(id, content) ==
  [kind |-> "result", answers |-> id, content |-> content, mark |-> FALSE]

IsText(c) == c.kind = "text"
IsImage(c) == c.kind = "image"
IsToolUse(c) == c.kind = "call"
IsToolResult(c) == c.kind = "result"
NotEmpty(c) == IsText(c) => c.text # <<>>

(* The text of a message or of a response. *)
TextOf(blocks) ==
  LET Text(c) == IF IsText(c) THEN c.text ELSE <<>> IN Each(Text, blocks)

-----------------------------------------------------------------------------
(* OpenAI in.  A content is a string, null or an array of parts; a picture *)
(* is behind an http URL or inside a data URL.                             *)

ImageOfURL(u) ==
  [at |-> IF u.scheme = "data" THEN "base64" ELSE "url", label |-> u.label, bytes |-> u.bytes]

openAIContentToBlocks(c) ==
  IF c.form = "parts"
  THEN LET Block(p) == IF p.kind = "image_url" THEN ImageBlock(ImageOfURL(p.url))
                                               ELSE TextBlock(p.text)
       IN SelectSeq([k \in DOMAIN c.v |-> Block(c.v[k])], NotEmpty)
  ELSE <<TextBlock(c.v)>>

(* The arguments are a JSON string with JSON inside. *)
openAIArgsToInput(args) == IF args.quoted = <<>> THEN EmptyObject ELSE args.quoted
inputToOpenAIArgs(input) == [quoted |-> IF input = <<>> THEN EmptyObject ELSE input]

CallsToBlocks(calls) ==
  [k \in DOMAIN calls |->
     ToolUseBlockOf(calls[k].id, calls[k].name, openAIArgsToInput(calls[k].args))]

MessageFromOpenAI(m) ==
  LET blocks == openAIContentToBlocks(m.content) \o CallsToBlocks(m.calls)
  IN IF m.role = "tool"
     THEN [role |-> "user", content |-> <<ToolResultBlockOf(m.answers, m.content)>>]
     ELSE [role |-> m.role,
           content |-> IF blocks = <<>> THEN <<TextBlock(<<>>)>> ELSE blocks]

openAIToolsToCanonical(tools) ==
  IF tools = Nothing THEN Nothing
  ELSE Some([k \in DOMAIN tools[1] |-> [name |-> tools[1][k].function]])

openAIToolChoiceToCanonical(c) ==
  [type |-> CASE c.type = "required" -> "any"
              [] c.type = "function" -> "tool"
              [] OTHER -> c.type,
   name |-> c.name]

IsSystem(m) == m.role = "system"
IsTurn(m) == m.role # "system"

ParseOpenAIRequest(in) ==
  LET SystemText(m) == TextOf(openAIContentToBlocks(m.content))
      turns == SelectSeq(in.messages, IsTurn)
  IN [system     |-> Each(SystemText, SelectSeq(in.messages, IsSystem)),
      systemMark |-> FALSE,
      messages   |-> [k \in DOMAIN turns |-> MessageFromOpenAI(turns[k])],
      tools      |-> openAIToolsToCanonical(in.tools),
      choice     |-> openAIToolChoiceToCanonical(in.choice)]

-----------------------------------------------------------------------------
(* Anthropic in: its blocks have the unified shape. *)

anthropicContentToBlocks(c) ==
  IF c.form = "string" THEN <<TextBlock(c.v)>> ELSE SelectSeq(c.v, NotEmpty)

anthropicSystemToText(c) == IF c.form = "string" THEN c.v ELSE TextOf(c.v)

anthropicSystemHasCacheControl(c) ==
  c.form = "blocks" /\ \E k \in DOMAIN c.v : c.v[k].mark

ParseAnthropicRequest(in) ==
  LET SystemText(m) == anthropicSystemToText(m.content)
      systems == SelectSeq(in.messages, IsSystem)
      turns   == SelectSeq(in.messages, IsTurn)
  IN [system     |-> anthropicSystemToText(in.system) \o Each(SystemText, systems),
      systemMark |-> \/ anthropicSystemHasCacheControl(in.system)
                     \/ \E k \in DOMAIN systems :
                          anthropicSystemHasCacheControl(systems[k].content),
      messages   |-> [k \in DOMAIN turns |->
                       [role |-> turns[k].role,
                        content |-> anthropicContentToBlocks(turns[k].content)]],
      tools      |-> in.tools,
      choice     |-> in.choice]

-----------------------------------------------------------------------------
(* OpenAI out: results are messages of their own, ahead of what is left of *)
(* the turn.                                                               *)

URLOf(i) ==
  [scheme |-> IF i.at = "base64" THEN "data" ELSE "http", label |-> i.label, bytes |-> i.bytes]

(* A data URL without a media type is given one. *)
dataURL(i) ==
  IF i.at = "base64" /\ i.label = "" THEN [URLOf(i) EXCEPT !.label = "png"] ELSE URLOf(i)

openAIOutboundContent(rest) ==
  LET Part(c) == IF IsImage(c) THEN <<[kind |-> "image_url", url |-> dataURL(c.image)]>>
                 ELSE IF c.text # <<>> THEN <<[kind |-> "text", text |-> c.text]>> ELSE <<>>
  IN IF \E k \in DOMAIN rest : IsImage(rest[k])
     THEN [form |-> "parts", v |-> Each(Part, rest)]
     ELSE [form |-> "string", v |-> TextOf(rest)]

(* A tool message has a string: that of a result that is one, unquoted,    *)
(* or the JSON text of what else the result is.                            *)
toolResultContentToText(content) ==
  [form |-> IF content.form = "string" THEN "string" ELSE "json", v |-> content.v]

OpenAIMessage(role, content, calls, id) ==
  [role |-> role, content |-> content, calls |-> calls, answers |-> id]

OpenAICalls(blocks) ==
  LET calls == SelectSeq(blocks, IsToolUse)
  IN [k \in DOMAIN calls |->
        [id |-> calls[k].call.id, name |-> calls[k].call.name,
         args |-> inputToOpenAIArgs(calls[k].call.input)]]

openAIMessagesFromUnified(m) ==
  LET Rest(c) == IsText(c) \/ IsImage(c)
      ToolMessage(c) == OpenAIMessage("tool", toolResultContentToText(c.content), <<>>, c.answers)
      results == SelectSeq(m.content, IsToolResult)
      rest    == SelectSeq(m.content, Rest)
      calls   == OpenAICalls(m.content)
      content == IF rest # <<>> THEN openAIOutboundContent(rest)
                 ELSE [form |-> IF calls # <<>> THEN "null" ELSE "string", v |-> <<>>]
  IN [k \in DOMAIN results |-> ToolMessage(results[k])]
       \o (IF rest # <<>> \/ calls # <<>> \/ results = <<>>
           THEN <<OpenAIMessage(m.role, content, calls, 0)>> ELSE <<>>)

canonicalToolsToOpenAI(tools) ==
  IF tools = Nothing THEN Nothing
  ELSE Some([k \in DOMAIN tools[1] |-> [function |-> tools[1][k].name]])

canonicalToolChoiceToOpenAI(c) ==
  [type |-> CASE c.type = "any" -> "required" [] c.type = "tool" -> "function" [] OTHER -> c.type,
   name |-> c.name]

BuildOpenAIRequest(uni) ==
  [messages |-> (IF uni.system = <<>> THEN <<>>
                 ELSE <<OpenAIMessage("system", [form |-> "string", v |-> uni.system], <<>>, 0)>>)
                  \o Each(openAIMessagesFromUnified, uni.messages),
   tools    |-> canonicalToolsToOpenAI(uni.tools),
   choice   |-> canonicalToolChoiceToOpenAI(uni.choice)]

-----------------------------------------------------------------------------
(* Anthropic out. *)

BuildAnthropicContentBlock(c) ==
  IF IsToolUse(c) /\ c.call.input = <<>> THEN [c EXCEPT !.call.input = EmptyObject] ELSE c

BuildAnthropicContentBlocks(content) ==
  [k \in DOMAIN content |-> BuildAnthropicContentBlock(content[k])]

buildAnthropicSystem(uni) ==
  IF ~uni.systemMark \/ uni.system = <<>>
  THEN [form |-> "string", v |-> uni.system]
  ELSE [form |-> "blocks", v |-> <<[TextBlock(uni.system) EXCEPT !.mark = TRUE]>>]

(* Mutant: only an absent list counts as none. *)
toolsAbsent(tools) == tools = Nothing

(* Absent, and an empty array as well. *)
toolsEffectivelyEmpty(tools) == tools \in {Nothing, Some(<<>>)}

(* The names the history calls, each once, in the order of its first call. *)
CalledTools(messages) ==
  LET Calls(m) == SelectSeq(m.content, IsToolUse)
      calls == Each(Calls, messages)
      New(names, c) == IF Contains(names, c.call.name) THEN names ELSE Append(names, c.call.name)
  IN FoldLeft(New, <<>>, calls)

ReconstructCanonicalToolsFromHistory(messages) ==
  LET names == CalledTools(messages)
  IN IF names = <<>> THEN Nothing
     ELSE Some([k \in DOMAIN names |-> [name |-> names[k]]])

BuildAnthropicRequest(uni) ==
  [system   |-> buildAnthropicSystem(uni),
   messages |-> [k \in DOMAIN uni.messages |->
                  [role |-> uni.messages[k].role,
                   content |-> [form |-> "blocks",
                                v |-> BuildAnthropicContentBlocks(uni.messages[k].content)]]],
   tools    |-> IF toolsEffectivelyEmpty(uni.tools)
                THEN ReconstructCanonicalToolsFromHistory(uni.messages) ELSE uni.tools,
   choice   |-> uni.choice]

-----------------------------------------------------------------------------
(* Bedrock out. *)

CachePoint == [member |-> "cachePoint"]
BedrockFormats == {"png", "jpeg", "gif", "webp"}

(* The formats of Converse are told by their bytes, failing that by their  *)
(* label.                                                                  *)
sniffImageFormat(bytes) == IF bytes \in BedrockFormats THEN bytes ELSE ""
bedrockImageFormat(label) == IF label \in BedrockFormats THEN label ELSE ""
ImageFormat(i) ==
  IF sniffImageFormat(i.bytes) # "" THEN sniffImageFormat(i.bytes)
  ELSE bedrockImageFormat(i.label)

(* A string is a text, an array of blocks one text per block, an object    *)
(* the only json; v stands for what the block or the object says.          *)
bedrockToolResultContent(content) ==
  [as |-> IF content.form = "object" THEN "json" ELSE "text", v |-> content.v]

BedrockBlock(c) ==
  CASE IsImage(c) -> <<[member |-> "image", format |-> ImageFormat(c.image),
                        bytes |-> c.image.bytes]>>
    [] IsToolUse(c) -> <<[member |-> "toolUse",
                          call |-> BuildAnthropicContentBlock(c).call]>>
    [] IsToolResult(c) -> <<[member |-> "toolResult", answers |-> c.answers,
                             content |-> bedrockToolResultContent(c.content)]>>
    [] IsText(c) -> IF c.text # <<>> THEN <<[member |-> "text", text |-> c.text]>> ELSE <<>>

BedrockBlocks(c) ==
  LET block == BedrockBlock(c)
  IN block \o (IF c.mark /\ block # <<>> THEN <<CachePoint>> ELSE <<>>)

canonicalToolChoiceToBedrock(c) ==
  IF c.type = "none" THEN [type |-> "absent", name |-> c.name] ELSE c

(* The declared tools, or those the history needs; Nothing without either. *)
ToolConfig(uni) ==
  LET names == CalledTools(uni.messages)
  IN IF ~toolsEffectivelyEmpty(uni.tools)
     THEN Some([tools |-> uni.tools[1], choice |-> canonicalToolChoiceToBedrock(uni.choice)])
     ELSE IF names # <<>>
     THEN Some([tools |-> [k \in DOMAIN names |-> [name |-> names[k]]],
                choice |-> [type |-> "absent", name |-> ""]])
     ELSE Nothing

BedrockMessages(messages) ==
  LET all == [k \in DOMAIN messages |->
                [role |-> messages[k].role, content |-> Each(BedrockBlocks, messages[k].content)]]
      Sent(m) == m.content # <<>>
  IN SelectSeq(all, Sent)

unifiedToBedrock(uni) ==
  [system   |-> IF uni.system = <<>> THEN <<>>
                ELSE <<[member |-> "text", text |-> uni.system]>>
                       \o (IF uni.systemMark THEN <<CachePoint>> ELSE <<>>),
   messages |-> BedrockMessages(uni.messages),
   toolConfig |-> ToolConfig(uni)]

Build(type, uni) ==
  CASE type = "openai" -> BuildOpenAIRequest(uni)
    [] type = "anthropic" -> BuildAnthropicRequest(uni)
    [] type = "bedrock" -> unifiedToBedrock(uni)

(* The pictures of a request, and those no Bedrock request can carry. *)
ImagesOf(uni) ==
  {i \in UNION {{<<k, j>> : j \in DOMAIN uni.messages[k].content} : k \in DOMAIN uni.messages} :
     IsImage(uni.messages[i[1]].content[i[2]])}
Unconvertible(uni) ==
  \E i \in ImagesOf(uni) : ImageFormat(uni.messages[i[1]].content[i[2]].image) = ""
Downloads(uni) ==
  \E i \in ImagesOf(uni) : uni.messages[i[1]].content[i[2]].image.at = "url"

=============================================================================
