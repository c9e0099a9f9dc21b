SPECIFICATION FairSpec
CONSTANT Attempts = 3
CHECK_DEADLOCK FALSE
INVARIANTS
  TypeOK
  NeverPartial
  SuccessIsReal
  RestoredIsTrue
  Findable
PROPERTIES
  OriginalKept
  UnapprovedKept
  Replaces
  Ends
