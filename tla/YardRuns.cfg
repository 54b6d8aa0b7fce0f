\* Every later forecast, two overlapping selections, two restarts anywhere.
SPECIFICATION FairSpec
CONSTANTS
  Containers <- MCContainers
  Services <- MCServices
  Worlds <- MCWorlds
  ServiceOf <- MCServiceOf
  Safe <- MCSafe
  Saved <- MCSaved
  Limits <- MCLimits
  Arrival <- MCArrival
  InitialPlan = {"fixed", "planned"}
  Locks = {"fixed"}
  Forecasts <- MCForecasts
  Operators = {o1, o2}
  MaxCrashes = 2
INVARIANTS
  TypeOK
  CommitmentsFollowRevision
  RevisionsAreDecided
  AssessmentIsRight
PROPERTIES
  KeepsYardContract
  EvidenceIsAssessed
CHECK_DEADLOCK FALSE
