SPECIFICATION Spec
CONSTANTS
  None = None
  Deadline = 22
  Interval <- Intervals
  Inspect = 2
  Late = 1
  MaxTime = 24
INVARIANTS
  ExitShows
  DeadlineFair
CHECK_DEADLOCK FALSE
