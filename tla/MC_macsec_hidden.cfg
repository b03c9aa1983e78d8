SPECIFICATION Spec
CONSTANTS
  sa1 = sa1
  sa2 = sa2
  Monitor = Monitor
  NoThread = NoThread
  SAs = {sa1, sa2}
  TrWords = 2
  PnBase = 2
  MaxPn = 2
  MaxFlight = 2
  BusyRetry = 2
  BusMayFail = TRUE
INVARIANT EnabledMeansProgrammed
CHECK_DEADLOCK FALSE
