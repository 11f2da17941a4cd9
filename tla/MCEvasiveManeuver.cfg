SPECIFICATION FairSpec
CONSTANTS
  Horizon = 10
  Distance <- MCDistance
INVARIANTS
  TypeOK
  OneRequest
  InBounds
  StalePlanHalts
PROPERTIES
  PlansKeepComing
  DeadSolverHalts
