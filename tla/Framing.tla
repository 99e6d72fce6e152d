------------------------------ MODULE Framing ------------------------------
(***************************************************************************)
(* The way back: what an upstream answers, whole or as a stream of events, *)
(* is parsed by its adapter and built again in the client's dialect; and   *)
(* the block framing pumpStream gives an Anthropic client (stream.go).     *)
(***************************************************************************)
EXTENDS Dialects

(* Stop reasons: to the unified vocabulary and back.  What a dialect has   *)
(* no row for ends the turn; no reason at all is unknown.                  *)

openAIFinishToStop ==
  [stop |-> "end_turn", length |-> "max_tokens", tool_calls |-> "tool_use",
   function_call |-> "tool_use", content_filter |-> "content_filter"]
anthropicStopToUnified ==
  [end_turn |-> "end_turn", max_tokens |-> "max_tokens", stop_sequence |-> "stop_sequence",
   tool_use |-> "tool_use"]
bedrockStopToUnified ==
  [end_turn |-> "end_turn", max_tokens |-> "max_tokens", stop_sequence |-> "stop_sequence",
   tool_use |-> "tool_use", content_filtered |-> "content_filter",
   guardrail_intervened |-> "content_filter"]
StopToUnified(table, reason) ==
  IF reason = "" THEN "unknown"
  ELSE IF reason \in DOMAIN table THEN table[reason] ELSE "end_turn"

stopToOpenAIFinish ==
  [end_turn |-> "stop", stop_sequence |-> "stop", max_tokens |-> "length",
   tool_use |-> "tool_calls", content_filter |-> "content_filter", unknown |-> "stop"]
stopToAnthropic ==
  [end_turn |-> "end_turn", stop_sequence |-> "stop_sequence", max_tokens |-> "max_tokens",
   tool_use |-> "tool_use", content_filter |-> "end_turn", unknown |-> "end_turn"]

-----------------------------------------------------------------------------
(* Whole answers. *)

OpenAIResponseContent(r) ==
  LET blocks == (IF r.content # <<>> THEN <<TextBlock(r.content)>> ELSE <<>>)
                  \o CallsToBlocks(r.calls)
  IN IF blocks = <<>> THEN <<TextBlock(<<>>)>> ELSE blocks

BedrockResponseContent(r) ==
  LET Block(b) == CASE b.member = "toolUse" ->
                         <<ToolUseBlockOf(b.call.id, b.call.name, b.call.input)>>
                    [] b.member = "text" -> SelectSeq(<<TextBlock(b.text)>>, NotEmpty)
  IN Each(Block, r.content)

ParseResponse(type, r) ==
  [content |-> CASE type = "openai" -> OpenAIResponseContent(r)
                 [] type = "anthropic" -> SelectSeq(r.content, NotEmpty)
                 [] type = "bedrock" -> BedrockResponseContent(r),
   stop |-> StopToUnified(CASE type = "openai" -> openAIFinishToStop
                            [] type = "anthropic" -> anthropicStopToUnified
                            [] type = "bedrock" -> bedrockStopToUnified, r.stop)]

BuildOpenAIResponse(r) ==
  LET calls == OpenAICalls(r.content)
      text  == TextOf(r.content)
  IN [content |-> [form |-> IF calls # <<>> /\ text = <<>> THEN "null" ELSE "string", v |-> text],
      calls   |-> calls,
      stop    |-> stopToOpenAIFinish[r.stop]]

BuildAnthropicResponse(r) ==
  [content |-> IF r.content = <<>> THEN <<TextBlock(<<>>)>>
               ELSE BuildAnthropicContentBlocks(r.content),
   stop    |-> stopToAnthropic[r.stop]]

-----------------------------------------------------------------------------
(* Streams: one chunk per event, with a piece of text, or a piece of a     *)
(* call (its opening has the name), or the stop reason, or usage.          *)

NoChunk == [delta |-> <<>>, call |-> Nothing, stop |-> "unknown", usage |-> FALSE]
TextChunk(text) == [NoChunk EXCEPT !.delta = text]
StopChunk(reason) == [NoChunk EXCEPT !.stop = reason]
UsageChunk == [NoChunk EXCEPT !.usage = TRUE]
CallDelta(index, id, name, args) ==
  [index |-> index, id |-> id, name |-> name, args |-> args]
CallChunk(delta) == [NoChunk EXCEPT !.call = Some(delta)]

(* Of several calls in one event only the first is kept. *)
OpenAIChunk(ev) ==
  [delta |-> ev.text,
   call  |-> IF ev.calls = <<>> THEN Nothing ELSE Some(ev.calls[1]),
   stop  |-> StopToUnified(openAIFinishToStop, ev.stop),
   usage |-> ev.usage]

AnthropicChunk(ev) ==
  CASE ev.type = "content_block_start" /\ IsToolUse(ev.block) ->
         CallChunk(CallDelta(ev.index, ev.block.call.id, ev.block.call.name, <<>>))
    [] ev.type = "content_block_delta" ->
         IF ev.args # <<>> THEN CallChunk(CallDelta(ev.index, 0, "", ev.args)) ELSE TextChunk(ev.text)
    [] ev.type = "message_delta" -> [StopChunk(StopToUnified(anthropicStopToUnified, ev.stop)) EXCEPT !.usage = TRUE]
    [] OTHER -> NoChunk

BedrockChunk(ev) ==
  CASE ev.event = "contentBlockStart" /\ ev.toolUse # Nothing ->
         CallChunk(CallDelta(ev.index, ev.toolUse[1].id, ev.toolUse[1].name, <<>>))
    [] ev.event = "contentBlockDelta" ->
         IF ev.input # <<>> THEN CallChunk(CallDelta(ev.index, 0, "", ev.input)) ELSE TextChunk(ev.text)
    [] ev.event = "messageStop" -> StopChunk(StopToUnified(bedrockStopToUnified, ev.stop))
    [] ev.event = "metadata" -> UsageChunk
    [] OTHER -> NoChunk

ParseStreamChunk(type, ev) ==
  CASE type = "openai" -> OpenAIChunk(ev)
    [] type = "anthropic" -> AnthropicChunk(ev)
    [] type = "bedrock" -> BedrockChunk(ev)

Meaningful(c) == c # NoChunk

BuildOpenAIStreamChunk(c) ==
  [text |-> c.delta, calls |-> c.call,
   stop |-> IF c.stop = "unknown" THEN "" ELSE stopToOpenAIFinish[c.stop],
   usage |-> c.usage]

(* Events of an Anthropic stream. *)
BlockStart(index, block) == [type |-> "content_block_start", index |-> index, block |-> block]
BlockDelta(index, text, args) ==
  [type |-> "content_block_delta", index |-> index, text |-> text, args |-> args]
BlockStop(index) == [type |-> "content_block_stop", index |-> index]
MessageDelta(stop) == [type |-> "message_delta", stop |-> stop]

(* The framing: what was written, whether the text block 0 is open, the    *)
(* index of the open tool block, and the stop reason so far.               *)
NoFrames == [out |-> <<>>, text |-> FALSE, tool |-> 0, stop |-> "unknown"]

closeAnthToolBlock(f) ==
  IF f.tool = 0 THEN f
  ELSE [f EXCEPT !.out = Append(@, BlockStop(f.tool)), !.tool = 0]

closeAnthText(f) ==
  IF f.text THEN [f EXCEPT !.out = Append(@, BlockStop(0)), !.text = FALSE] ELSE f

openAnthropicText(f) ==
  IF f.text THEN f
  ELSE [f EXCEPT !.out = Append(@, BlockStart(0, TextBlock(<<>>))), !.text = TRUE]

openTool(f, call) ==
  [f EXCEPT !.tool = call.index + 1,
            !.out = Append(@, BlockStart(call.index + 1,
                                         ToolUseBlockOf(call.id, call.name, EmptyObject)))]

emitAnthropic(f, c) ==
  IF c.call # Nothing
  THEN LET call == c.call[1]
           g == IF call.name # "" THEN openTool(closeAnthText(closeAnthToolBlock(f)), call) ELSE f
       IN IF call.args = <<>> \/ g.tool = 0 THEN g
          ELSE [g EXCEPT !.out = Append(@, BlockDelta(g.tool, <<>>, call.args))]
  ELSE IF c.delta # <<>>
  THEN LET g == openAnthropicText(f)
       IN [g EXCEPT !.out = Append(@, BlockDelta(0, c.delta, <<>>))]
  ELSE f

(* Mutant: an event without a stop reason clears the one before it. *)
processClobbers(f, c) == emitAnthropic([f EXCEPT !.stop = c.stop], c)

(* process: the last stop reason is kept for the message_delta, and for an *)
(* Anthropic client the chunk is framed.                                   *)
process(f, c) ==
  emitAnthropic([f EXCEPT !.stop = IF c.stop = "unknown" THEN @ ELSE c.stop], c)

AnthropicFrames(chunks) ==
  LET f == closeAnthText(closeAnthToolBlock(FoldLeft(process, NoFrames, chunks)))
  IN Append(f.out, MessageDelta(stopToAnthropic[f.stop]))

(* What a client of the dialect receives of a stream of the upstream: an   *)
(* Anthropic client of an Anthropic upstream gets its very events.         *)
pumpStream(dialect, type, events) ==
  LET chunks == SelectSeq([k \in DOMAIN events |-> ParseStreamChunk(type, events[k])], Meaningful)
  IN CASE dialect = "openai" -> [k \in DOMAIN chunks |-> BuildOpenAIStreamChunk(chunks[k])]
       [] dialect = "anthropic" /\ type = "anthropic" -> events
       [] dialect = "anthropic" /\ type # "anthropic" -> AnthropicFrames(chunks)

=============================================================================
