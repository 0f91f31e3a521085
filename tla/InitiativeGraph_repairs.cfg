SPECIFICATION Spec
CONSTANTS
  Task = {"first", "second", "third"}
  Planned = {"first", "second"}
  Edge <- MCEdge
  Claims = {0}
  Declared = 0
  Moves <- MCMoves
  MaxVersion = 3
  None = None
INVARIANTS
  IntegrationFollowsWork FrontierIsExact NodesWaitForTheirBlockers CompletedMeansDone
PROPERTIES NodesAndEventsAreKept
CHECK_DEADLOCK FALSE
