SPECIFICATION FairSpec
CONSTANTS
  Horizon = 5
  HorizonSteady = 1
  MIN_EQUILIBRIUM_TIME = 5
  Clock = {1, 1000}
  TurnsToStay = 2
INVARIANTS
  TypeOK
  OneRequest
  InBounds
  StalePlanFallsBack
PROPERTIES
  ImplementsLoop
  PlansKeepComing
