SPECIFICATION Spec
CONSTANTS
  Horizon = 5
  HorizonSteady = 1
  MIN_EQUILIBRIUM_TIME = 5
  Clock = {1000}
  TurnsToStay = 2
INVARIANT
  StayedOnEquilibrium
