\* Every request of two administrators, interleaved with one test chat.
CONSTANTS
  Admins = {a1, a2}
  Models <- MCModels
  Bodies <- MCBodies
  Rates <- MCRates
  Replies <- MCReplies
  MaxChannels = 2
  MaxPrices = 2
  MaxOps = 3
  MaxFaults = 1
  Usages <- MCUsages
  Statuses = {302, 429}
  Million = 4
  MaxEvents = 2
SPECIFICATION Spec
SYMMETRY MCSymmetry
INVARIANT TypeOK
INVARIANT RefusalLeavesNoTrace
INVARIANT TestIsLogged
PROPERTY OnlyEditsChangeSettings
CHECK_DEADLOCK FALSE
