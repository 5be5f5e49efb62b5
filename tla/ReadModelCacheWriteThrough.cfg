SPECIFICATION Spec
CONSTANTS
  Keys = {k1}
  Callers = {c1, c2}
  None = None
  Bypass = Bypass
  Cap = 1
  MaxVersion = 3
  MaxEpoch = 2
  Expires = FALSE
  Kinds = {"one", "through"}
  Gates = {"plain"}
INVARIANTS
  NoStaleResident
