\* One request at a time: the lifecycle contract and progress.
SPECIFICATION FairSpec
CONSTANTS
  Containers <- MCContainers
  Eligible <- MCEligible
  Recoverable <- MCRecoverable
  Worlds <- MCWorlds
  Preserved <- MCPreserved
  None = None
  Outcomes = {"ACCEPT", "COUNTER", "SILENT"}
  Clients = {c1}
  Instants = {1, 2, 3, 4}
  Deadlines = {2, 3}
PROPERTIES
  KeepsContract
  Settles
CHECK_DEADLOCK FALSE
