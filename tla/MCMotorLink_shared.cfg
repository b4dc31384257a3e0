CONSTANTS
  N = 2
  Gains <- SomeGains
  Obs <- OneObs
  TxSize = 48
  Faulty = {}
  BadSizes = {}
  MaxCycle = 2
SPECIFICATION Spec
CHECK_DEADLOCK FALSE
PROPERTIES
  SharedWithItsClient
