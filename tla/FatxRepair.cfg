SPECIFICATION Spec
CONSTANTS
  TotalClusters = 4
  RootCluster = 1
  END = 65535
  BAD = 65000
  MaxChain = 1
  MaxRecords = 2
  MaxCrashes = 1
INVARIANTS
  TypeOK
  LiveKept
PROPERTIES
  AllReclaimed
  Converges
