SPECIFICATION Spec
CONSTANTS
  AnMedia = {t10h}
  GMedia = {t1000f}
  MgMedia = {t2500f, t5000f}
  Pause = pause
  TenHalf = t10h
  TwoFiveG = t2500f
  FiveG = t5000f
  HalfGig = t1000h
  OddSpeed = t20
  Unknown = unknown
  Supported <- MCSupported
  Requests <- MCRequests
  BusMayFail = TRUE
INVARIANTS TypeOK OnlySupported SuccessMeansNegotiating SuccessMeansForced UnfailedMeansOffered
