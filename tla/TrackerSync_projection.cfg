SPECIFICATION Spec
CONSTANTS
  None = none
  Last <- MCLast
  Ended <- MCEnded
  MaxClock = 4
  MaxLate = 1
INVARIANTS
  RecordsAreTrue
PROPERTIES
  ForeignEditsSurvive
  AdoptionIsEarned
CHECK_DEADLOCK FALSE
