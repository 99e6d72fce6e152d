SPECIFICATION Spec
CONSTANTS
  r1 = r1  r2 = r2  t1 = t1  t2 = t2  u1 = u1
  c1 = c1  c2 = c2  x1 = x1  x2 = x2
  Replicas = {r1}
  Calls = {c1}
  Tokens = {t1}
  Users = {u1}
  Modes = {TRUE}
  ReplicaOf <- AllOnR1
  TokenOf <- SameToken
  Owner <- OneOwner
  Limit <- NoLimits
  InitialUsed <- Unused
  Resets = {}
  ResetReplica <- ResetOnR1
  ResetUser <- ResetU1
  Edits = {x2}
  EditToken <- EditT1
  Estimates = {0, 1}
  Costs = {0, 1}
  MaxLosses = 0
  MaxCrashes = 0
  MaxCallErrors = 0
  MaxFlushErrors = 0
CHECK_DEADLOCK FALSE
PROPERTY EditKeepsUsage
