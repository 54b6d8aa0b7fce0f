\* Preparation, recomputation and two reviews, requests overlapping or not.
SPECIFICATION Spec
CONSTANTS
  c1 = c1
  c2 = c2
  n1 = n1
  r1 = r1
  r2 = r2
  None = None
  Requests = {p1, p2}
  Containers <- MCContainers
  Connections <- MCConnections
  Reviews <- MCReviews
  Affected <- MCAffected
  ReviewOf <- MCReviewOf
SYMMETRY Symmetry
INVARIANTS
  TypeOK
  OnlyPreparationHidesBlock
  EvaluationsAgree
  ForksAreExplained
PROPERTIES
  ForkFreezes
CHECK_DEADLOCK FALSE
