SPECIFICATION Spec
CONSTANTS
  Devices = {other}
  Audited = {}
  FastSkippers = {other}
  Calls = {c1, c2}
  None = None
  MaxPts = 3
  PageLimit = 2
  TotalLimit = 1
  Impatient = {}
SYMMETRY Interchangeable
CHECK_DEADLOCK FALSE
INVARIANTS
  NoSilentGap
  HonestAnswer
PROPERTIES
  NeverBackwards
