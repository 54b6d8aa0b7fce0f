CONSTANTS
  None = None
  Tasks <- TwoTasks
  MaxIncidents = 2
  MaxCalls = 5
  MaxFaults = 0
SPECIFICATION Spec
INVARIANT ApprovesWhatIsShown
