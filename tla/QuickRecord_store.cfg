\* Three invocations of two requests, one of which writes; a move of the user.
SPECIFICATION Spec
CONSTANTS
  r1 = r1
  r2 = r2
  r3 = r3
  Run = {r1, r2, r3}
  Request = {"writes", "looks"}
  Change = {"writes"}
  Written <- MCWritten
  Path = {"own", "other"}
  Scope = "own"
  Content = {0, 1}
  Original = 0
  MaxMoves = 1
  Nobody = Nobody
  None = None
SYMMETRY Symmetry
INVARIANTS
  StoredQuicksAreWhole
PROPERTIES
  AuditRemains
\* Every invocation ends.
CHECK_DEADLOCK FALSE
