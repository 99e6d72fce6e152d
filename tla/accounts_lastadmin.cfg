SPECIFICATION Spec
CONSTANTS
  Procs = {p1, p2}
  Names = {a, b}
  MaxUsers = 2
  MaxTokens = 1
SYMMETRY Symmetry
PROPERTY LastAdminGuard
