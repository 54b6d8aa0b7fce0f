\* Both workflows over every pattern of lateness, with a crash anywhere.
SPECIFICATION Spec
CONSTANTS
  Containers <- MCContainers
  Services <- MCServices
  Worlds <- MCWorlds
  ServiceOf <- MCServiceOf
  Safe <- MCSafe
  Saved <- MCSaved
  Limits <- MCLimits
  Arrival <- MCArrival
  Triggers <- MCTriggers
INVARIANTS
  SelectedIsBest
  AsksOnlyOnTies
  BaselineIsBeaten
  DecisionsMatchPlan
CHECK_DEADLOCK FALSE
