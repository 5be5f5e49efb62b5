SPECIFICATION Spec
CONSTANTS
  Devices = {other}
  Audited = {}
  FastSkippers = {}
  Calls = {c1}
  None = None
  MaxPts = 2
  PageLimit = 2
  TotalLimit = 1
  Impatient = {"logout"}
CHECK_DEADLOCK FALSE
INVARIANTS
  BaselineHolds
