\* Two overlapping requests break OneDispatch.
SPECIFICATION Spec
CONSTANTS
  Containers <- MCContainers
  Eligible <- MCEligible
  Recoverable <- MCRecoverable
  Worlds <- MCWorlds
  Preserved <- MCPreserved
  None = None
  Outcomes = {"ACCEPT", "COUNTER", "SILENT"}
  Clients = {c1, c2}
  Instants = {1, 2, 3}
  Deadlines = {2}
INVARIANT
  OneDispatch
CHECK_DEADLOCK FALSE
