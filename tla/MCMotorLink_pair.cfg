CONSTANTS
  N = 2
  Gains <- AllGains
  Obs <- SomeObs
  TxSize = 80
  Faulty = {1}
  BadSizes = {2}
  MaxCycle = 2
SPECIFICATION Spec
CHECK_DEADLOCK FALSE
INVARIANTS
  BufferIsOwn
  ConfiguredBeforeCommanded
  QuietMeansCurrent
PROPERTIES
  CommandsCurrent
