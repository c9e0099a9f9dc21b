SPECIFICATION FairSpec
CONSTANTS
  Ring = 9
  Spare = 3
  SndBuf = 4
  Tries = 4
  Answers <- MCAnswers
CHECK_DEADLOCK FALSE
INVARIANTS
  TypeOK
  FinishedOnce
PROPERTIES
  AnswersWhole
  Answered
