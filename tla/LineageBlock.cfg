\* Does automation_blocked stop the automated recovery of the container?
SPECIFICATION Spec
CONSTANTS
  c1 = c1
  c2 = c2
  n1 = n1
  r1 = r1
  r2 = r2
  None = None
  Requests = {p1, p2}
  Containers <- MCContainers
  Connections <- MCConnections
  Reviews <- MCReviews
  Affected <- MCAffected
  ReviewOf <- MCReviewOf
INVARIANTS
  BlockStopsRecovery
CHECK_DEADLOCK FALSE
