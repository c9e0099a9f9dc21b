SPECIFICATION Spec
CONSTANTS
  TotalClusters = 5
  RootCluster = 1
  END = 65535
  BAD = 65000
  MaxChain = 2
  LastCluster = 4
  SlotsPerCluster = 1
  Name = {a, b}
  NoName = free
  Payload = {x}
  MaxDepth = 2
PROPERTY RefusedPutKeepsFile
CHECK_DEADLOCK FALSE
