SPECIFICATION FairSpec
CONSTANTS
  TotalClusters = 4
  RootCluster = 1
  END = 65535
  BAD = 65000
  MaxChain = 2
  LastCluster = 3
  SlotsPerCluster = 2
  Name = {a, b}
  NoName = free
  Payload = {x, y}
  MaxDepth = 2
PROPERTIES
  Undisturbed
  WritesTakeEffect
  OperationsEnd
CHECK_DEADLOCK FALSE
