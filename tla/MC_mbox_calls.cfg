SPECIFICATION Spec
CONSTANTS
  t1 = t1
  t2 = t2
  NoThread = NoThread
  Threads = {t1, t2}
  AddrHi = {0}
  AddrLo = {0, 1}
  Value = {0, 1}
  Zero = 0
  Calls <- CallsMixed
  MaxBusyRetry = 1
  Locking = TRUE
  BusMayFail = TRUE
INVARIANT TypeOK
INVARIANT LockOwned
INVARIANT ExchangeIntact
PROPERTY ImplementsApi
SYMMETRY ThreadSymmetry
