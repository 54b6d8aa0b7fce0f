CONSTANTS
  None = None
  MaxSteps = 6
  MaxActions = 16
  MaxFaults = 1
  MaxMeddles = 4
  Calls <- AllCalls
SPECIFICATION FairSpec
INVARIANTS
  TypeOK
  OffersMakeProgress
  EvidenceOnce
PROPERTIES
  ReplayEnds
  HeroSucceeds
