CONSTANTS
  Thread = {1, 2}
  Volumes <- MCVolumes
  Sizes <- MCSizes
  CacheSizes = {1, 2}
  SectorBytes = 2
  Fat16Links = 2
  Fat32Links = 1
  Fat12Clusters = 3
  Fat16Clusters = 9
  Trees <- MCTrees
  Paths <- MCPaths
  Elsewhere <- MCElsewhere
  MaxListed = 7
  EntriesPerSector = 2
  SectorsPerCluster = 2
SPECIFICATION LibrarySpec
INVARIANTS ReadsTheFile CursorAgrees HeldStays ListsEachOnce OpensWhatIsThere
CHECK_DEADLOCK FALSE
