SPECIFICATION FairSpec
CONSTANTS
  CounterSize = 2
  Catchup = 1
  Cost <- MCCost
  MinCost = 3
  MaxSeen = 3
  MaxOld = 3
INVARIANTS
  TypeOK
  EraseSafe
  MatchesAsMeant
  FadesInTime
PROPERTY
  GhostsVanish
