SPECIFICATION FairSpec
CONSTANTS
  max_iter = 50
  lambdaInit = 0
  dlambdaInit = 0
  lambdaFactor <- MCFactor
  lambdaMin <- MCLambdaMin
  lambdaMax <- MCLambdaMax
  Small <- MCSmall
  Zero <- MCZero
INVARIANTS
  TypeOK
  RegularisationBounded
  ConvergedIsSuccess
PROPERTIES
  RetriesAreStronger
  Terminates
CHECK_DEADLOCK FALSE
