CONSTANTS
  PacketBufferSize = 12
  MaxData = 1
  StartByte = 2
  ByteMod = 3
  IndexMod = 12
  IndexSize = 3
  MakeCrc <- MCMakeCrc
  ByteUpdateCrc <- MCByteUpdateCrc
  Chunks <- Frames
SPECIFICATION Spec
INVARIANTS
  ParserInsideData
  NothingLeftUnparsed
  NoiseIsFlushed
PROPERTIES
  ImplementsPacketStream
  PutBytesReturns
