\* One crash wedges a run.
SPECIFICATION Spec
CONSTANTS
  None = None
  MaxSteps = 2
  MaxRuns = 1
  MaxCrashes = 1
  ClockMoves = FALSE
INVARIANT
  Resumable
CHECK_DEADLOCK FALSE
