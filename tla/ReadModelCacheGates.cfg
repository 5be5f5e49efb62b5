SPECIFICATION FairSpec
CONSTANTS
  Keys = {k1}
  Callers = {c1, c2}
  None = None
  Bypass = Bypass
  Cap = 1
  MaxVersion = 2
  MaxEpoch = 1
  Expires = TRUE
  Kinds = {"one", "batch", "through"}
  Gates = {"versioned", "bypass"}
INVARIANTS
  VersionHonoured
PROPERTIES
  EveryCallReturns
