SPECIFICATION FairSpec
CONSTANTS
  Codes <- AllCodes
  UserIds = {0}
  Texts <- Strings
  IntSize = 2
  Garbage <- SomeInts
INVARIANT AnswersAreTrue
PROPERTY DialogEnds
CHECK_DEADLOCK FALSE
