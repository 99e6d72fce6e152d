---------------------------- MODULE MCConversion ----------------------------
(* Conversations of two user turns, through upstreams of every dialect. *)
EXTENDS Conversion

Marked(c) == [c EXCEPT !.mark = TRUE]
Picture(at, label, bytes) == ImageBlock([at |-> at, label |-> label, bytes |-> bytes])

(* None, a marked one without text, a short one with a mark on a message,  *)
(* and a long one without marks.                                           *)
MCSystems ==
  {<<>>, <<Marked(TextBlock(<<>>))>>,
   <<TextBlock(<<"s1">>), Marked(TextBlock(<<"s2">>))>>,
   <<TextBlock(<<"s1", "s2">>), TextBlock(<<"s3">>)>>}

Declared == Some(<<[name |-> "find"], [name |-> "read"]>>)
Turn(content, form, tools, type) ==
  [content |-> content, form |-> form, tools |-> tools,
   choice |-> [type |-> type, name |-> IF type = "tool" THEN "find" ELSE ""]]

MCTurns ==
  {Turn(<<Marked(TextBlock(<<"u">>))>>, "string", Declared, "auto"),
   Turn(<<TextBlock(<<"u">>), Picture("base64", "jpeg", "png"),
          Picture("base64", "", "gif")>>, "blocks", Some(<<>>), "absent"),
   Turn(<<Marked(Picture("url", "", "jpeg")), TextBlock(<<"u", "v">>)>>, "string", Declared, "none"),
   Turn(<<Picture("base64", "heic", "heic")>>, "string", Nothing, "absent"),
   Turn(<<>>, "blocks", Nothing, "absent"),
   Turn(<<TextBlock(<<>>), TextBlock(<<"u">>)>>, "string", Declared, "tool")}

MCChannels ==
  {[type |-> "openai", auto |-> TRUE, haiku |-> FALSE],
   [type |-> "anthropic", auto |-> FALSE, haiku |-> FALSE],
   [type |-> "bedrock", auto |-> TRUE, haiku |-> FALSE],
   [type |-> "anthropic", auto |-> TRUE, haiku |-> TRUE]}

Find(input) == ToolUseBlockOf(0, "find", input)
Read(input) == ToolUseBlockOf(0, "read", input)
AnswerOf(blocks, stop) == [blocks |-> blocks, stop |-> stop]

MCAnswers ==
  {AnswerOf(<<>>, "end"),
   AnswerOf(<<TextBlock(<<"a">>), TextBlock(<<"b">>)>>, "length"),
   AnswerOf(<<TextBlock(<<"a">>)>>, "filter"),
   AnswerOf(<<TextBlock(<<"b">>)>>, "sequence"),
   AnswerOf(<<Find(<<"x", "y">>)>>, "tool"),
   AnswerOf(<<TextBlock(<<"a">>), Read(<<>>), Find(<<"x">>), Read(<<"y">>)>>, "tool"),
   AnswerOf(<<Find(<<"x">>), TextBlock(<<"b">>)>>, "tool")}

=============================================================================
