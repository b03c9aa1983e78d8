SPECIFICATION ToolsSpec
CONSTANTS
  i0 = i0
  i1 = i1
  Images = {i0, i1}
  Factory = i0
  Parts = {"kernel", "rootfs", "firmware"}
  Offer <- MCOffer
  Names = {n1, n2}
  Values = {f0, f1}
  FactoryFile = f0
  Procs = {p1, p2}
  Globals = {g1}
  Wlans = {w1}
  Settings = {a, b}
  Params <- MCParams
  MaxEdits = 2
SYMMETRY MCSymmetry
INVARIANT ToolsTypeOK
 
INVARIANT NumbersStay
INVARIANT CalibrationKept
PROPERTY OkIsWritten
PROPERTY OkIsNew
PROPERTY LoneEditIsExact
CHECK_DEADLOCK FALSE
