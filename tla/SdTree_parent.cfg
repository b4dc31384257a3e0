CONSTANTS
  TreeClusters = 3
  TreeBlocks = 1
  Slots = 3
  TreeNames = {n1, n2}
  MaxDepth = 2
  MaxChanges = 2
  MaxCuts = 0
SPECIFICATION SdTreeSpec
CHECK_DEADLOCK FALSE
INVARIANTS
  OpensInDirectories
