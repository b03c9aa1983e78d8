SPECIFICATION Spec
CONSTANTS
  NumPages = 3
  Words = 2
  Polls = 2
  MspiStable = FALSE
  FileMayFail = TRUE
  BusMayFail = TRUE
  MaxStarts = 2
  Old = Old
  Blank = Blank
  Torn = Torn
INVARIANT InitMeansErased
CHECK_DEADLOCK FALSE
