SPECIFICATION FairSpec
CONSTANTS
  t1 = t1
  t2 = t2
  NoThread = NoThread
  Threads = {t1, t2}
  AddrHi = {0}
  AddrLo = {0}
  Value = {0, 1}
  Zero = 0
  Calls <- CallsOne
  MaxBusyRetry = 2
  Locking = TRUE
  BusMayFail = TRUE
INVARIANT LockOwned
PROPERTY LockReleased
