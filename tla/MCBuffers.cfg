CONSTANTS
  DataSize = 4
  Item = {0, 1, 7}
  BufLen = 5
  Byte = {0, 1}
  MaxSize = 6
SPECIFICATION BuffersSpec
INVARIANTS
  FullIffCapacity
  ReservationApart
PROPERTIES
  ImplementsFifo
  ImplementsStagedFifo
  FindsPackets
