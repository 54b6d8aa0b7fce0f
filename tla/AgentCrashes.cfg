\* Two crashes, at any commits of a run.
SPECIFICATION FairSpec
CONSTANTS
  None = None
  MaxSteps = 2
  MaxRuns = 1
  MaxCrashes = 2
  ClockMoves = TRUE
INVARIANTS
  TypeOK
  SentOnce
  WaitsForAsked
  EndedRunIsComplete
PROPERTIES
  CompletionSettlesYard
  YardGatesCarrier
  RecoveryCompletes
  RunSettles
CHECK_DEADLOCK FALSE
