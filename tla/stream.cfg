SPECIFICATION FairSpec
CONSTANTS
  Cap = 2
  Kinds = {"text", "start", "delta", "junk", "fatal"}
  MaxEvents = 4
  Est = 1
CHECK_DEADLOCK FALSE
INVARIANT TypeOK
INVARIANT UsageComplete
INVARIANT OnlyCleanIsBilled
INVARIANT ForwardedInOrder
PROPERTY HandlerReturns
