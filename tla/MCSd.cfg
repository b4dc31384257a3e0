CONSTANTS
  ClusterCount = 3
  BlocksPerCluster = 2
  BlockSize = 2
  FatPerBlock = 3
  file1 = file1
  file2 = file2
  Names <- Files
  WriteSizes = {4}
  ReadSizes = {3}
  SeekTo = {7, 10}
  MaxSize = 14
  MaxFailures = 2
  TreeClusters = 3
  TreeBlocks = 1
  Slots = 3
  TreeNames <- Files
  MaxDepth = 2
  MaxChanges = 3
  MaxCuts = 1
SYMMETRY Alike
VIEW View
SPECIFICATION MCSdSpec
CHECK_DEADLOCK FALSE
INVARIANTS
  CardSound
  ClosedIsDurable
  CacheHonest
  NothingLeaked
  TreeSound
  ReadsBack
PROPERTIES
  ImplementsFileTree
  ListsThroughout
