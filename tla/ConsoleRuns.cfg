CONSTANTS
  None = None
  Tasks <- TwoTasks
  MaxIncidents = 2
  MaxCalls = 5
  MaxFaults = 1
SPECIFICATION FairSpec
INVARIANT
  ShowsWhatItDid
PROPERTY ControlsComeBack
CHECK_DEADLOCK FALSE
