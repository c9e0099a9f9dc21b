SPECIFICATION Spec
CONSTANTS
  MaxPasses = 2
  Paths = 2
  MaxLate = 0
CHECK_DEADLOCK FALSE
INVARIANTS
  CycleIsReal
