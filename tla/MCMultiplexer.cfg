SPECIFICATION Spec
CONSTANTS
  Speed <- MCSpeed
  Angle <- MCAngle
  Stamp <- MCStamp
  Timeout = 1
  Latency = 1
  Boot = 1
  MaxTime = 10
INVARIANTS
  TypeOK
  Authority
  EstopHoldsHalt
  StaleCommandStops
PROPERTY
  ImplementsArbiter
