SPECIFICATION FairSpec
CONSTANTS
  MaxPasses = 2
  Paths = 2
  MaxLate = 2
CHECK_DEADLOCK FALSE
INVARIANTS
  TypeOK
  RebootGated
  ScreenTrue
PROPERTIES
  Ends
  Departs
