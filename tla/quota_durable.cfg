SPECIFICATION FairSpec
CONSTANTS
  r1 = r1  r2 = r2  t1 = t1  t2 = t2  u1 = u1
  c1 = c1  c2 = c2  x1 = x1  x2 = x2
  Replicas = {r1}
  Calls = {c1, c2}
  Tokens = {t1, t2}
  Users = {u1}
  Modes = {TRUE, FALSE}
  ReplicaOf <- AllOnR1
  TokenOf <- OwnToken
  Owner <- OneOwner
  Limit <- NoLimits
  InitialUsed <- UsedTwo
  Resets = {}
  ResetReplica <- ResetOnR1
  ResetUser <- ResetU1
  Edits = {}
  EditToken <- EditT1
  Estimates = {0, 1}
  Costs = {0, 1}
  MaxLosses = 0
  MaxCrashes = 0
  MaxCallErrors = 0
  MaxFlushErrors = 2
CHECK_DEADLOCK FALSE
INVARIANT NothingForgotten
PROPERTY DurableNeverRegresses
PROPERTY EventuallyDurable
