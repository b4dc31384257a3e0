CONSTANTS
  Blocks = 3
  BlockBytes = 2
  AddressMod = 8
  Kinds = {"SD1", "SD2", "SDHC"}
  ClockMod = 6
  CommandWait = 1
  InitTimeout = 2
  ReadTimeout = 1
  WriteTimeout = 2
  MaxCount = 2
  Chunks = 2
  Passes = 2
SPECIFICATION Spec
CHECK_DEADLOCK FALSE
INVARIANTS
  AddressingAgrees
  TrueMeansDone
  OnlyTheBlock
  BusReleased
PROPERTIES
  CallsReturn
