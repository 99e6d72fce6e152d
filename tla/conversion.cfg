\* Two user turns, each sent to one or two of four upstreams.
CONSTANTS
  Systems <- MCSystems
  Turns <- MCTurns
  Channels <- MCChannels
  Answers <- MCAnswers
  ReopensText = FALSE
  MaxTurns = 2
  MaxAttempts = 2
SPECIFICATION Spec
INVARIANT UpstreamSeesConversation
INVARIANT UpstreamAccepts
INVARIANT ClientSeesAnswer
