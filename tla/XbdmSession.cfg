SPECIFICATION FairSpec
CONSTANTS
  Callers = {c1, c2}
  NoOne = NoOne
  Tries = 2
  Chunks = 2
  Bodies = {0, 2}
  MaxCalls = 3
CHECK_DEADLOCK FALSE
INVARIANTS
  TypeOK
  Exclusive
PROPERTIES
  CallsEnd
