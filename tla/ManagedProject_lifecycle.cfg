\* Two calls that may run at once, edits and failing writes.
SPECIFICATION Spec
CONSTANTS
  c1 = c1
  c2 = c2
  config = config
  ignore = ignore
  agents = agents
  b1 = b1
  b2 = b2
  Call = {c1, c2}
  Paths <- Order
  Class <- Classes
  Target = 2
  Block <- Blocks
  Changed = Changed
  NoBlock = NoBlock
  Missing = Missing
  None = None
  MaxCalls = 3
  MaxEdits = 1
  MaxFaults = 1
SYMMETRY Symmetry
CHECK_DEADLOCK FALSE
INVARIANTS
  TypeOK
  ConflictsAreTheUsers
  JournalCanBeFinished
  RestIsCoherent
PROPERTIES
  UserWorkSurvives
