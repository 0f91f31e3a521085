SPECIFICATION SchedulerSpec
CONSTANTS
  Call = {"both", "wave", "merge"}
  Integrations = {"merge"}
  Signalled = {"both"}
  Node = {"r1", "r2", "w1", "w2", "i"}
  Readers <- MCReaders
  Writers <- MCWriters
  Nothing = Nothing
INVARIANTS WritersAreAlone
CHECK_DEADLOCK FALSE
