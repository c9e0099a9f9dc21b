SPECIFICATION FairSpec
CONSTANTS
  TotalClusters = 5
  RootCluster = 1
  END = 65535
  BAD = 65000
  MaxChain = 3
INVARIANTS
  TypeOK
  ChainsDisjoint
  NoLinkIntoFreeSpace
  NeverCorrupt
PROPERTIES
  UsedEntriesKept
  OperationsEnd
