SPECIFICATION Spec
CONSTANTS
  r1 = r1  r2 = r2  t1 = t1  t2 = t2  u1 = u1
  c1 = c1  c2 = c2  x1 = x1  x2 = x2
  Replicas = {r1, r2}
  Calls = {c1, c2}
  Tokens = {t1}
  Users = {u1}
  Modes = {TRUE, FALSE}
  ReplicaOf <- Spread
  TokenOf <- SameToken
  Owner <- OneOwner
  Limit <- BothLimits
  InitialUsed <- Unused
  Resets = {x1}
  ResetReplica <- ResetOnR1
  ResetUser <- ResetU1
  Edits = {x2}
  EditToken <- EditT1
  Estimates = {0, 1}
  Costs = {0, 1}
  MaxLosses = 1
  MaxCrashes = 1
  MaxCallErrors = 1
  MaxFlushErrors = 0
CHECK_DEADLOCK FALSE
INVARIANT TypeOK
INVARIANT NoPhantomUsage
INVARIANT LiveExact
INVARIANT ExhaustedRejected
