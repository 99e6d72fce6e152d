SPECIFICATION Spec
CONSTANTS
  RuleIds = {1, 2}
  ChannelIds = {1, 2, 3}
  Tables <- MCTables
  Boards <- MCBoards
  Requests <- MCRequests
  Inputs <- MCInputs
  ModelRank <- Ranks
  Answers <- MCAnswers
  TurnMax = 3
  PromptMax = 8
  Overhead = 1
  MockFloor = 1
  MockCap = 2
  Editors = {e1}
  MaxEdits = 1
  MaxStoreErrors = 1
CHECK_DEADLOCK FALSE
INVARIANT TypeOK
INVARIANT ConditionsMeanWhatTheySay
INVARIANT ProbeSkippedSafely
INVARIANT PromptKeepsRecent
INVARIANT EveryCandidateMayLead
PROPERTY TargetsDecide
