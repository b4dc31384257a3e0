CONSTANTS
  BufLen = 16
  LengthMod = 16
  MaxSent = 27
  get = get
  setByte = setByte
  setWord = setWord
  Msg = {get, setByte, setWord}
  DataLen <- MCDataLen
  Packets <- MCPackets
  DataSize = 30
  MaxLine = 1
  MaxCuts = 1
  MaxMissed = 2
VIEW View
SPECIFICATION SerialSpec
INVARIANTS
  RunsWhole
  AnglesFromOnePacket
  SoonInStep
PROPERTIES
  WholePacketsWhenRoom
