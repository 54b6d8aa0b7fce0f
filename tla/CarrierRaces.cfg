\* Three overlapping requests: what survives every interleaving.
SPECIFICATION Spec
CONSTANTS
  Containers <- MCContainers
  Eligible <- MCEligible
  Recoverable <- MCRecoverable
  Worlds <- MCWorlds
  Preserved <- MCPreserved
  None = None
  Outcomes = {"ACCEPT", "COUNTER", "SILENT"}
  Clients = {c1, c2, c3}
  Instants = {1, 2, 3}
  Deadlines = {2}
SYMMETRY ClientSymmetry
INVARIANTS
  TypeOK
  DispatchAuthorised
  RefusalIsFinal
  TimingAuthorised
  ResultsJustified
  PreservationEarned
  TerminalMatchesResults
PROPERTIES
  EvidenceIsAppendOnly
CHECK_DEADLOCK FALSE
