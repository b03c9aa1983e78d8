SPECIFICATION FairSpec
CONSTANTS
  NumPages = 3
  Words = 2
  Polls = 3
  MspiStable = TRUE
  FileMayFail = TRUE
  BusMayFail = TRUE
  MaxStarts = 3
  Old = Old
  Blank = Blank
  Torn = Torn
INVARIANT PhyListens
INVARIANT PrefixWritten
INVARIANT SuccessMeansComplete
PROPERTY RunsAgainOrError
CHECK_DEADLOCK FALSE
