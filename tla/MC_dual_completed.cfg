SPECIFICATION Spec
CONSTANTS
  i0 = i0
  i1 = i1
  s1 = s1
  Sessions = {s1}
  Images = {i0, i1}
  Factory = i0
  PartOrder <- PartsNoBootcore
  EnvFails = {}
INVARIANT CompletedMeansBootable
