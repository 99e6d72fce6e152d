\* A Bedrock stream with text after a call, to an Anthropic client.
CONSTANTS
  Systems <- MCSystems
  Turns <- MCTurns
  Channels <- MCChannels
  Answers <- MCAnswers
  ReopensText = TRUE
  MaxTurns = 1
  MaxAttempts = 1
SPECIFICATION Spec
INVARIANT OneBlockOpen
