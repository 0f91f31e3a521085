\* A file of the Task and one of the user's, three calls, two moves meanwhile.
SPECIFICATION Spec
CONSTANTS
  Path = {"own", "other"}
  Scope = {"own"}
  Content = {0, 1, 2}
  Original = 0
  MaxCalls = 3
  MaxMoves = 2
  MaxCommits = 3
  None = None

  
PROPERTIES
  UserWorkStays
  OnlyActiveTasksCommit
\* The Task may be archived, and every bounded counter used up.
CHECK_DEADLOCK FALSE
