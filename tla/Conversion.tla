----------------------------- MODULE Conversion -----------------------------
(***************************************************************************)
(* One conversation held through the gateway.  The client speaks OpenAI or *)
(* Anthropic and sends its whole history with every turn; each request may *)
(* go to an upstream of another dialect, after others have failed; what    *)
(* comes back, whole or streamed, is what the client's history says next   *)
(* time.  conv is the conversation as it was really held, which no         *)
(* participant sees.  The client's and the upstreams' sides are external:  *)
(* they follow the wire contracts of the two APIs and of Converse.         *)
(***************************************************************************)
EXTENDS Framing, FiniteSets

CONSTANTS
  Systems,       \* system prompts: sequences of blocks
  Turns,         \* what a user says: [content, form, tools, choice]
  Channels,      \* upstreams: [type, auto, haiku]
  Answers,       \* upstream answers: [blocks, stop]
  ReopensText,   \* whether streams to be framed may have text after a call
  MaxTurns,      \* user turns of a conversation
  MaxAttempts    \* upstreams one request may be built for

Dialects == {"openai", "anthropic"}
Modes == {"whole", "stream"}

VARIABLES
  client,    \* [dialect, system, history]
  conv,      \* the turns held so far: [role, items]
  asked,     \* the settings of the current request: [tools, choice]
  uni,       \* the unified request: Nothing or Some
  sent,      \* the body last built: Nothing or Some([channel, body])
  attempts,
  reply      \* what the client received last: Nothing or Some

vars == <<client, conv, asked, uni, sent, attempts, reply>>

-----------------------------------------------------------------------------
(* What is said, whatever the dialect: the items of a block. *)

Args(input) == IF input = EmptyObject THEN <<>> ELSE input

Items(c) ==
  (CASE IsText(c) -> [k \in DOMAIN c.text |-> <<"text", c.text[k]>>]
     [] IsImage(c) -> <<<<"image", c.image.bytes>>>>
     [] IsToolUse(c) -> <<<<"call", c.call.id, c.call.name, Args(c.call.input)>>>>
     [] IsToolResult(c) -> <<<<"result", c.answers, c.content.v>>>>)
   \o (IF c.mark THEN <<<<"cache">>>> ELSE <<>>)

(* An OpenAI message has its text apart from its calls. *)
Grouped(items) ==
  LET Kind(kinds, i) == i[1] \in kinds
      Of(kinds) == LET In(i) == Kind(kinds, i) IN SelectSeq(items, In)
  IN Of({"result"}) \o Of({"text", "image"}) \o Of({"call"})

(* Turns without items are silent, and neighbours of one role are one. *)
Said(turns) ==
  LET Join(acc, t) ==
        IF t.items = <<>> THEN acc
        ELSE IF acc # <<>> /\ Last(acc).role = t.role
        THEN Append(Front(acc), [role |-> t.role, items |-> Last(acc).items \o t.items])
        ELSE Append(acc, t)
  IN FoldLeft(Join, <<>>, turns)

-----------------------------------------------------------------------------
(* The client. *)

(* The calls of the last turn, to be answered by the next. *)
Pending ==
  LET Call(i) == i[1] = "call"
  IN IF conv = <<>> THEN <<>> ELSE SelectSeq(Last(conv).items, Call)

Results(turn) ==
  [k \in DOMAIN Pending |-> ToolResultBlockOf(Pending[k][2], [form |-> turn.form, v |-> "r"])]

OpenAIParts(content) ==
  IF Len(content) = 1 /\ IsText(content[1]) THEN [form |-> "string", v |-> content[1].text]
  ELSE [form |-> "parts",
        v |-> [k \in DOMAIN content |->
                 IF IsImage(content[k]) THEN [kind |-> "image_url", url |-> URLOf(content[k].image)]
                 ELSE [kind |-> "text", text |-> content[k].text]]]

UserMessages(turn) ==
  IF client.dialect = "openai"
  THEN [k \in DOMAIN Results(turn) |->
          OpenAIMessage("tool", Results(turn)[k].content, <<>>, Results(turn)[k].answers)]
        \o (IF turn.content = <<>> THEN <<>>
            ELSE <<OpenAIMessage("user", OpenAIParts(turn.content), <<>>, 0)>>)
  ELSE <<[role |-> "user",
          content |-> [form |-> "blocks", v |-> Results(turn) \o turn.content]]>>

(* Marks are Anthropic's; an OpenAI client has none to give. *)
Unmarked(c) == [c EXCEPT !.mark = FALSE]
Meant(turn) ==
  IF client.dialect = "openai" THEN [turn EXCEPT !.content = [k \in DOMAIN @ |-> Unmarked(@[k])]]
  ELSE turn

(* OpenAI has its system prompts as messages; Anthropic one in its field,  *)
(* and some clients further ones as messages.                              *)
InboundBody(history, turn) ==
  LET SystemMessage(b) ==
        IF client.dialect = "openai"
        THEN OpenAIMessage("system", [form |-> "string", v |-> b.text], <<>>, 0)
        ELSE [role |-> "system", content |-> [form |-> "blocks", v |-> <<b>>]]
      field   == IF client.dialect = "openai" \/ client.system = <<>> THEN 0 ELSE 1
      prompts == SubSeq(client.system, field + 1, Len(client.system))
  IN [system   |-> [form |-> "blocks", v |-> SubSeq(client.system, 1, field)],
      messages |-> [k \in DOMAIN prompts |-> SystemMessage(prompts[k])] \o history,
      tools    |-> IF client.dialect = "anthropic" \/ turn.tools = Nothing THEN turn.tools
                   ELSE canonicalToolsToOpenAI(turn.tools),
      choice   |-> IF client.dialect = "anthropic" THEN turn.choice
                   ELSE canonicalToolChoiceToOpenAI(turn.choice)]

Parse(in) ==
  IF client.dialect = "openai" THEN ParseOpenAIRequest(in) ELSE ParseAnthropicRequest(in)

Ask(turn) ==
  /\ uni = Nothing
  /\ Len(conv) < 2 * MaxTurns
  /\ turn.content # <<>> \/ Pending # <<>>
  /\ LET t == Meant(turn)
         history == client.history \o UserMessages(t)
     IN /\ client' = [client EXCEPT !.history = history]
        /\ conv' = Append(conv, [role |-> "user", items |-> Each(Items, Results(t) \o t.content)])
        /\ uni' = Some(Parse(InboundBody(history, t)))
  /\ asked' = [tools |-> turn.tools, choice |-> turn.choice]
  /\ sent' = Nothing
  /\ attempts' = 0
  /\ reply' = Nothing

-----------------------------------------------------------------------------
(* The gateway: one attempt at one upstream. *)

(* The prompt is worth a breakpoint when it is long enough for the model. *)
LongEnough(system, ch) == Len(system) >= (IF ch.haiku THEN 3 ELSE 2)

maybeInjectSystemCache(u, ch) ==
  IF ~u.systemMark /\ ch.auto /\ ch.type \in {"bedrock", "anthropic"} /\ LongEnough(u.system, ch)
  THEN [u EXCEPT !.systemMark = TRUE] ELSE u

(* Mutant: the breakpoint stays in the request the next attempt starts from. *)
AttemptLeaks(ch) ==
  /\ uni # Nothing
  /\ attempts < MaxAttempts
  /\ attempts' = attempts + 1
  /\ uni' = Some(maybeInjectSystemCache(uni[1], ch))
  /\ ~(ch.type = "bedrock" /\ Unconvertible(uni[1]))
  /\ sent' = Some([channel |-> ch, body |-> Build(ch.type, uni'[1])])
  /\ UNCHANGED <<client, conv, asked, reply>>

Attempt(ch) ==
  /\ uni # Nothing
  /\ attempts < MaxAttempts
  /\ ~(ch.type = "bedrock" /\ Unconvertible(uni[1]))
  /\ attempts' = attempts + 1
  /\ sent' = Some([channel |-> ch,
                   body |-> Build(ch.type, maybeInjectSystemCache(uni[1], ch))])
  /\ UNCHANGED <<client, conv, asked, uni, reply>>

(* A picture Converse cannot take, or that cannot be fetched, fails the    *)
(* attempt before anything is sent.                                        *)
RefuseImage(ch) ==
  /\ uni # Nothing
  /\ attempts < MaxAttempts
  /\ ch.type = "bedrock"
  /\ Unconvertible(uni[1]) \/ Downloads(uni[1])
  /\ attempts' = attempts + 1
  /\ sent' = Nothing
  /\ UNCHANGED <<client, conv, asked, uni, reply>>

-----------------------------------------------------------------------------
(* How an upstream reads the body it gets. *)

OpenAIItems(m) ==
  LET Part(p) == IF p.kind = "image_url" THEN <<<<"image", p.url.bytes>>>>
                 ELSE [k \in DOMAIN p.text |-> <<"text", p.text[k]>>]
      Call(c) == <<<<"call", c.id, c.name, Args(c.args.quoted)>>>>
  IN IF m.role = "tool" THEN <<<<"result", m.answers, m.content.v>>>>
     ELSE (IF m.content.form = "parts" THEN Each(Part, m.content.v)
           ELSE [k \in DOMAIN m.content.v |-> <<"text", m.content.v[k]>>])
          \o Each(Call, m.calls)

BedrockItems(b) ==
  CASE b.member = "text" -> [k \in DOMAIN b.text |-> <<"text", b.text[k]>>]
    [] b.member = "image" -> <<<<"image", b.bytes>>>>
    [] b.member = "toolUse" -> <<<<"call", b.call.id, b.call.name, Args(b.call.input)>>>>
    [] b.member = "toolResult" -> <<<<"result", b.answers, b.content.v>>>>
    [] b.member = "cachePoint" -> <<<<"cache">>>>

TurnsRead(type, body) ==
  LET turns == SelectSeq(body.messages, IsTurn)
      Content(m) == CASE type = "openai" -> OpenAIItems(m)
                      [] type = "anthropic" -> Each(Items, m.content.v)
                      [] type = "bedrock" -> Each(BedrockItems, m.content)
  IN [k \in DOMAIN turns |->
        [role |-> IF turns[k].role = "tool" THEN "user" ELSE turns[k].role,
         items |-> Content(turns[k])]]

SystemRead(type, body) ==
  LET OpenAIText(m) == m.content.v
  IN CASE type = "openai" ->
            [text |-> Each(OpenAIText, SelectSeq(body.messages, IsSystem)), mark |-> FALSE]
       [] type = "anthropic" ->
            [text |-> anthropicSystemToText(body.system),
             mark |-> anthropicSystemHasCacheControl(body.system)]
       [] type = "bedrock" ->
            [text |-> IF body.system = <<>> THEN <<>> ELSE body.system[1].text,
             mark |-> Len(body.system) = 2]

(* The names of the tools offered, and the choice among them. *)
ToolsRead(type, body) ==
  CASE type = "openai" ->
         IF body.tools = Nothing THEN <<>>
         ELSE [k \in DOMAIN body.tools[1] |-> body.tools[1][k].function]
    [] type = "anthropic" ->
         IF body.tools = Nothing THEN <<>>
         ELSE [k \in DOMAIN body.tools[1] |-> body.tools[1][k].name]
    [] type = "bedrock" ->
         IF body.toolConfig = Nothing THEN <<>>
         ELSE [k \in DOMAIN body.toolConfig[1].tools |-> body.toolConfig[1].tools[k].name]

ChoiceRead(type, body) ==
  CASE type = "openai" -> openAIToolChoiceToCanonical(body.choice).type
    [] type = "anthropic" -> body.choice.type
    [] type = "bedrock" ->
         IF body.toolConfig = Nothing THEN "absent" ELSE body.toolConfig[1].choice.type

-----------------------------------------------------------------------------
(* The upstream. *)

UpstreamStop ==
  [openai    |-> [end |-> "stop", length |-> "length", tool |-> "tool_calls",
                  filter |-> "content_filter", sequence |-> "stop"],
   anthropic |-> [end |-> "end_turn", length |-> "max_tokens", tool |-> "tool_use",
                  filter |-> "refusal", sequence |-> "stop_sequence"],
   bedrock   |-> [end |-> "end_turn", length |-> "max_tokens", tool |-> "tool_use",
                  filter |-> "guardrail_intervened", sequence |-> "stop_sequence"]]

(* The blocks of an answer, its calls numbered through the conversation. *)
Numbered(answer) ==
  [k \in DOMAIN answer.blocks |->
     IF IsToolUse(answer.blocks[k]) THEN [answer.blocks[k] EXCEPT !.call.id = 10 * Len(conv) + k]
     ELSE answer.blocks[k]]

AnswerBody(type, blocks, stop) ==
  LET BedrockOut(c) == IF IsText(c) THEN [member |-> "text", text |-> c.text]
                       ELSE [member |-> "toolUse", call |-> c.call]
  IN [content |-> CASE type = "openai" -> TextOf(blocks)
                    [] type = "anthropic" -> blocks
                    [] type = "bedrock" -> [k \in DOMAIN blocks |-> BedrockOut(blocks[k])],
      calls   |-> IF type = "openai" THEN OpenAICalls(blocks) ELSE <<>>,
      stop    |-> UpstreamStop[type][stop]]

(* A call is opened and its arguments follow piece by piece. *)
OpenAIEvents(blocks) ==
  LET calls == SelectSeq(blocks, IsToolUse)
      Event(text, call) == [text |-> text, calls |-> call, stop |-> "", usage |-> FALSE]
      CallEvents(k) ==
        <<Event(<<>>, Some(CallDelta(k - 1, calls[k].call.id, calls[k].call.name, <<>>)))>>
          \o [j \in DOMAIN calls[k].call.input |->
                Event(<<>>, Some(CallDelta(k - 1, 0, "", <<calls[k].call.input[j]>>)))]
      Text(b) == IF IsText(b) THEN <<Event(b.text, Nothing)>> ELSE <<>>
  IN Each(Text, blocks) \o Each(CallEvents, [k \in DOMAIN calls |-> k])

AnthropicEvents(blocks) ==
  LET Block(k) ==
        IF IsText(blocks[k])
        THEN <<BlockStart(k - 1, TextBlock(<<>>)), BlockDelta(k - 1, blocks[k].text, <<>>),
               BlockStop(k - 1)>>
        ELSE <<BlockStart(k - 1, [blocks[k] EXCEPT !.call.input = EmptyObject])>>
               \o [j \in DOMAIN blocks[k].call.input |->
                     BlockDelta(k - 1, <<>>, <<blocks[k].call.input[j]>>)]
               \o <<BlockStop(k - 1)>>
  IN Each(Block, [k \in DOMAIN blocks |-> k])

BedrockEvents(blocks) ==
  LET Start(k, tool) == [event |-> "contentBlockStart", index |-> k - 1, toolUse |-> tool]
      Delta(k, text, input) ==
        [event |-> "contentBlockDelta", index |-> k - 1, text |-> text, input |-> input]
      Block(k) ==
        IF IsText(blocks[k]) THEN <<Delta(k, blocks[k].text, <<>>)>>
        ELSE <<Start(k, Some(blocks[k].call))>>
               \o [j \in DOMAIN blocks[k].call.input |->
                     Delta(k, <<>>, <<blocks[k].call.input[j]>>)]
  IN Each(Block, [k \in DOMAIN blocks |-> k])

(* The usage comes with the stop reason or after it. *)
AnswerEvents(type, blocks, stop) ==
  LET last == UpstreamStop[type][stop]
      OpenAIEvent(reason, usage) ==
        [text |-> <<>>, calls |-> <<>>, stop |-> reason, usage |-> usage]
  IN CASE type = "openai" ->
            OpenAIEvents(blocks) \o <<OpenAIEvent(last, FALSE), OpenAIEvent("", TRUE)>>
       [] type = "anthropic" -> Append(AnthropicEvents(blocks), MessageDelta(last))
       [] type = "bedrock" ->
            BedrockEvents(blocks)
              \o <<[event |-> "messageStop", stop |-> last], [event |-> "metadata"]>>

-----------------------------------------------------------------------------
(* What the client makes of a stream: the message it would have been told  *)
(* whole.                                                                  *)

AssembleOpenAI(chunks) ==
  LET Text(c) == c.text
      Stop(c) == c.stop # ""
      Add(calls, c) ==
        IF c.calls = Nothing THEN calls
        ELSE IF \E k \in DOMAIN calls : calls[k].index = c.calls[1].index
        THEN [k \in DOMAIN calls |->
                IF calls[k].index = c.calls[1].index
                THEN [calls[k] EXCEPT !.args.quoted = @ \o c.calls[1].args] ELSE calls[k]]
        ELSE Append(calls, [index |-> c.calls[1].index, id |-> c.calls[1].id,
                            name |-> c.calls[1].name, args |-> [quoted |-> c.calls[1].args]])
      calls == FoldLeft(Add, <<>>, chunks)
      text  == Each(Text, chunks)
      stops == SelectSeq(chunks, Stop)
  IN [content |-> [form |-> IF text = <<>> THEN "null" ELSE "string", v |-> text],
      calls   |-> [k \in DOMAIN calls |->
                    [id |-> calls[k].id, name |-> calls[k].name, args |-> calls[k].args]],
      stop    |-> IF stops = <<>> THEN "" ELSE Last(stops).stop]

(* A delta belongs to the last block started at its index. *)
AssembleAnthropic(events) ==
  LET Grow(b, ev) ==
        IF IsText(b) THEN [b EXCEPT !.text = @ \o ev.text]
        ELSE [b EXCEPT !.call.input = Args(@) \o ev.args]
      Add(acc, ev) ==
        LET Match(b) == b.index = ev.index
            k == SelectLastInSeq(acc.blocks, Match)
        IN CASE ev.type = "content_block_start" ->
                  [acc EXCEPT !.blocks = Append(@, [index |-> ev.index, block |-> ev.block])]
             [] ev.type = "content_block_delta" ->
                  [acc EXCEPT !.blocks[k].block = Grow(@, ev)]
             [] ev.type = "message_delta" -> [acc EXCEPT !.stop = ev.stop]
             [] OTHER -> acc
      all == FoldLeft(Add, [blocks |-> <<>>, stop |-> ""], events)
  IN [content |-> [k \in DOMAIN all.blocks |-> all.blocks[k].block], stop |-> all.stop]

AssistantMessage(message) ==
  IF client.dialect = "openai"
  THEN OpenAIMessage("assistant", message.content, message.calls, 0)
  ELSE [role |-> "assistant", content |-> [form |-> "blocks", v |-> message.content]]

(* Text after a call, in a stream that AnthropicFrames has to frame. *)
Reopens(a, mode) ==
  /\ mode = "stream"
  /\ client.dialect = "anthropic"
  /\ sent[1].channel.type = "bedrock"
  /\ \E i, j \in DOMAIN a.blocks : i < j /\ IsToolUse(a.blocks[i]) /\ IsText(a.blocks[j])

Receive(a, mode) ==
  LET type   == sent[1].channel.type
      blocks == Numbered(a)
      events == pumpStream(client.dialect, type, AnswerEvents(type, blocks, a.stop))
      whole  == ParseResponse(type, AnswerBody(type, blocks, a.stop))
      message ==
        IF mode = "stream"
        THEN IF client.dialect = "openai" THEN AssembleOpenAI(events) ELSE AssembleAnthropic(events)
        ELSE IF client.dialect = "openai" THEN BuildOpenAIResponse(whole)
             ELSE BuildAnthropicResponse(whole)
  IN /\ reply' = Some([message |-> message, stop |-> a.stop, type |-> type,
                       events |-> IF mode = "stream" THEN events ELSE <<>>])
     /\ client' = [client EXCEPT !.history = Append(@, AssistantMessage(message))]
     /\ conv' = Append(conv, [role |-> "assistant",
                              items |-> IF type = "openai" THEN Grouped(Each(Items, blocks))
                                        ELSE Each(Items, blocks)])

(* A model calls only what it was offered. *)
Offered(a) ==
  \A k \in DOMAIN a.blocks :
    IsToolUse(a.blocks[k]) =>
      a.blocks[k].call.name \in ToSet(ToolsRead(sent[1].channel.type, sent[1].body))

Answer(a, mode) ==
  /\ sent # Nothing
  /\ Offered(a)
  /\ Reopens(a, mode) => ReopensText
  /\ Receive(a, mode)
  /\ uni' = Nothing
  /\ sent' = Nothing
  /\ UNCHANGED <<asked, attempts>>

(* A conversation ends when the client leaves it, and another begins. *)
NoSettings == [tools |-> Nothing, choice |-> [type |-> "absent", name |-> ""]]
Client(d, s) == [dialect |-> d, system |-> s, history |-> <<>>]

Init ==
  /\ client \in {Client(d, s) : d \in Dialects, s \in Systems}
  /\ conv = <<>>
  /\ asked = NoSettings
  /\ uni = Nothing
  /\ sent = Nothing
  /\ attempts = 0
  /\ reply = Nothing

Leave ==
  /\ client' \in {Client(d, s) : d \in Dialects, s \in Systems}
  /\ conv' = <<>>
  /\ asked' = NoSettings
  /\ uni' = Nothing
  /\ sent' = Nothing
  /\ attempts' = 0
  /\ reply' = Nothing

Next ==
  \/ \E turn \in Turns : Ask(turn)
  \/ \E ch \in Channels : Attempt(ch) \/ RefuseImage(ch)
  \/ \E a \in Answers, mode \in Modes : Answer(a, mode)
  \/ Leave

Spec == Init /\ [][Next]_vars

-----------------------------------------------------------------------------
(* Properties. *)

(* How a turn looks to or through an upstream of the type. *)
View(type, turns) ==
  IF "openai" \in {type, client.dialect}
  THEN [k \in DOMAIN turns |-> [turns[k] EXCEPT !.items = Grouped(@)]] ELSE turns

SystemMeant(ch) ==
  LET text == TextOf(client.system)
  IN [text |-> text,
      mark |-> /\ ch.type # "openai" /\ text # <<>>
               /\ \/ client.dialect = "anthropic"
                       /\ \E k \in DOMAIN client.system : client.system[k].mark
                  \/ ch.auto /\ LongEnough(text, ch)]

(* Without tools of its own a request needs those its history calls,       *)
(* except at an OpenAI upstream.                                           *)
ToolsMeant(type) ==
  LET names == {i[3] : i \in {j \in UNION {ToSet(t.items) : t \in ToSet(conv)} : j[1] = "call"}}
  IN IF ~toolsEffectivelyEmpty(asked.tools)
     THEN {asked.tools[1][k].name : k \in DOMAIN asked.tools[1]}
     ELSE IF type = "openai" THEN {} ELSE names

ChoiceMeant(type) ==
  IF type = "bedrock" /\ (asked.choice.type = "none" \/ toolsEffectivelyEmpty(asked.tools))
  THEN "absent" ELSE asked.choice.type

(* Whatever upstream a request ends up at, and whichever gave the earlier  *)
(* answers, the body it is sent reads as the conversation that was held:   *)
(* every text, picture, call and result in its place, the system prompt    *)
(* and its breakpoint, the breakpoints of an Anthropic client, the tools   *)
(* and the choice among them (Converse cannot say none).                   *)
UpstreamSeesConversation ==
  sent # Nothing =>
    LET ch   == sent[1].channel
        body == sent[1].body
    IN /\ Said(View(ch.type, TurnsRead(ch.type, body))) = Said(View(ch.type, conv))
       /\ SystemRead(ch.type, body) = SystemMeant(ch)
       /\ ToSet(ToolsRead(ch.type, body)) = ToolsMeant(ch.type)
       /\ ChoiceRead(ch.type, body) = ChoiceMeant(ch.type)

OpenAIAccepts(body) ==
  \A k \in DOMAIN body.messages :
    LET m == body.messages[k]
        Asks(i) == /\ body.messages[i].role = "assistant"
                   /\ \E c \in ToSet(body.messages[i].calls) : c.id = m.answers
    IN /\ \A c \in ToSet(m.calls) : c.args.quoted # <<>>
       /\ m.content.form = "parts" => \A p \in ToSet(m.content.v) :
            p.kind = "image_url" /\ p.url.scheme = "data" => p.url.label # ""
       /\ m.role = "tool" =>
            \E i \in 1..k - 1 : Asks(i) /\ \A j \in i + 1..k - 1 : body.messages[j].role = "tool"

AnthropicAccepts(body) ==
  LET blocks == UNION {ToSet(m.content.v) : m \in ToSet(body.messages)}
      Tool(c) == IsToolUse(c) \/ IsToolResult(c)
  IN /\ \A m \in ToSet(body.messages) : m.role \in {"user", "assistant"}
     /\ body.tools # Some(<<>>)
     /\ (\E c \in blocks : Tool(c)) => body.tools # Nothing
     /\ \A c \in blocks : IsToolUse(c) => c.call.input # <<>>
     /\ body.system.form = "blocks" => TextOf(body.system.v) # <<>>

BedrockAccepts(body) ==
  LET contents == {m.content : m \in ToSet(body.messages)}
      blocks   == UNION {ToSet(c) : c \in contents}
      Breaks(c) == c # <<>> => c[1].member # "cachePoint"
  IN /\ <<>> \notin contents
     /\ \A c \in contents \cup {body.system} : Breaks(c)
     /\ (\E b \in blocks : b.member \in {"toolUse", "toolResult"}) => body.toolConfig # Nothing
     /\ body.toolConfig # Nothing => body.toolConfig[1].tools # <<>>
     /\ \A b \in blocks :
          CASE b.member = "text" -> b.text # <<>>
            [] b.member = "image" -> /\ b.format # ""
                                     /\ b.bytes \in BedrockFormats => b.format = b.bytes
            [] b.member = "toolUse" -> b.call.input # <<>>
            [] b.member = "toolResult" -> b.content.as = "text"
            [] b.member = "cachePoint" -> TRUE

(* The rules of each wire that the code states, over a whole history: no   *)
(* empty content or text and no stray cachePoint at Converse, a format     *)
(* that is the picture's, a tool configuration whenever the history has    *)
(* tool blocks and never an empty one, arguments that are an object, a     *)
(* media type in every data URL, and an OpenAI tool message right behind   *)
(* the message that made the call.                                         *)
UpstreamAccepts ==
  sent # Nothing =>
    LET body == sent[1].body
    IN CASE sent[1].channel.type = "openai" -> OpenAIAccepts(body)
         [] sent[1].channel.type = "anthropic" -> AnthropicAccepts(body)
         [] sent[1].channel.type = "bedrock" -> BedrockAccepts(body)

(* What a stop reason tells the client. *)
StopRead ==
  [stop |-> "end", length |-> "length", tool_calls |-> "tool", content_filter |-> "filter",
   end_turn |-> "end", max_tokens |-> "length", tool_use |-> "tool", refusal |-> "filter",
   stop_sequence |-> "sequence"]

AnswerItems(message) ==
  IF client.dialect = "openai"
  THEN OpenAIItems(OpenAIMessage("assistant", message.content, message.calls, 0))
  ELSE Each(Items, message.content)

(* The client is told what the upstream answered, whole or from the pieces *)
(* of a stream reframed on the way: the same text, calls and arguments,    *)
(* and why it stopped; Anthropic has no word for a filtered answer and     *)
(* OpenAI none for a stop sequence.                                        *)
ClientSeesAnswer ==
  reply # Nothing =>
    LET r == reply[1]
        held == View(r.type, <<Last(conv)>>)[1].items
        read == View(r.type, <<[role |-> "assistant", items |-> AnswerItems(r.message)]>>)[1].items
    IN /\ read = held
       /\ \/ StopRead[r.message.stop] = r.stop
          \/ r.stop = "filter" /\ StopRead[r.message.stop] = "end"
               /\ "anthropic" \in {r.type, client.dialect}
          \/ r.stop = "sequence" /\ StopRead[r.message.stop] = "end"
               /\ "openai" \in {r.type, client.dialect}

(* stream.go:402-405: each tool call opens its own content block, which    *)
(* "closes when the next block/stop arrives": no event finds two blocks    *)
(* open.                                                                   *)
OneBlockOpen ==
  reply # Nothing /\ client.dialect = "anthropic" =>
    LET events == reply[1].events
        Started(k) == {i \in 1..k : events[i].type = "content_block_start"}
        Stopped(i, k) == \E j \in i + 1..k : /\ events[j].type = "content_block_stop"
                                             /\ events[j].index = events[i].index
    IN \A k \in DOMAIN events :
         Cardinality({i \in Started(k) : ~Stopped(i, k)}) <= 1

=============================================================================
