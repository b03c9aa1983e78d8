SPECIFICATION ApiSpec
CONSTANTS
  sa1 = sa1
  sa2 = sa2
  Monitor = Monitor
  NoThread = NoThread
  Nobody = Nobody
  SAs = {sa1, sa2}
  TrWords = 2
  PnBase = 2
  MaxPn = 2
  MaxFlight = 2
  BusyRetry = 2
  BusMayFail = TRUE
  Times = {time1, time2}
  MaxRwRetry = 2
  Callers = {t1, t2}
  MaxLeaks = 2
SYMMETRY SaSymmetry
INVARIANT ApiTypeOK
INVARIANT ZeroedOnlyWhenUnused
INVARIANT RemovedMeansErased
INVARIANT PnNotUnderReported
INVARIANT LockAccounted
INVARIANT OwnerGoesOn
PROPERTY TimeIsWhole
PROPERTY SuccessMeansSet
CHECK_DEADLOCK FALSE
