SPECIFICATION ToolSpec
CONSTANTS
  NumPages = 3
  Words = 2
  Polls = 3
  MspiStable = FALSE
  FileMayFail = TRUE
  BusMayFail = TRUE
  MaxStarts = 3
  Old = Old
  Blank = Blank
  Torn = Torn
INVARIANT TypeOK
PROPERTY NewFirmwareStays
PROPERTY ToolEnds
CHECK_DEADLOCK FALSE
