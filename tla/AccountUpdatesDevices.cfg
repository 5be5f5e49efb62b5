SPECIFICATION Spec
CONSTANTS
  Devices = {desktop, other}
  Audited = {desktop}
  FastSkippers = {other}
  Calls = {c1}
  None = None
  MaxPts = 2
  PageLimit = 1
  TotalLimit = 1
  Impatient = {}
CHECK_DEADLOCK FALSE
INVARIANTS
  TypeOK
  NoSilentGap
  BaselineHolds
PROPERTIES
  CaughtUp
