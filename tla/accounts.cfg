SPECIFICATION Spec
CONSTANTS
  Procs = {p1, p2}
  Names = {a, b}
  MaxUsers = 2
  MaxTokens = 1
SYMMETRY Symmetry
INVARIANT TypeOK
INVARIANT UsernamesUnique
INVARIANT BootstrapHasAdmin
INVARIANT OrphansAreLate
INVARIANT AuthorityIsGranted
PROPERTY CalmDeleteKeepsAdmin
PROPERTY OnlyOthersLower
PROPERTY KeysChangeForTheirOwner
