SPECIFICATION Spec
CONSTANTS
  TotalClusters = 6
  RootCluster = 1
  END = 65535
  BAD = 65000
  MaxChain = 2
  LastCluster = 4
  SlotsPerCluster = 1
  Name = {a, b}
  NoName = free
  Payload = {x}
  MaxDepth = 2
INVARIANTS
  TypeOK
  ChainsExclusive
  NamesUnique
  NoLeak
PROPERTIES
  MoveKeepsChain
  ContractKept
CHECK_DEADLOCK FALSE
SYMMETRY NameSymmetry
