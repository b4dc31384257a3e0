CONSTANTS
  ClusterCount = 2
  BlocksPerCluster = 2
  BlockSize = 2
  FatPerBlock = 3
  Names = {file1}
  WriteSizes = {3}
  ReadSizes = {3}
  SeekTo = {2}
  MaxSize = 6
  MaxFailures = 0
SPECIFICATION Spec
CHECK_DEADLOCK FALSE
PROPERTIES
  FailsOnlyWhenFull
