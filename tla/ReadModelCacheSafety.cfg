SPECIFICATION Spec
CONSTANTS
  Keys = {k1, k2}
  Callers = {c1, c2}
  None = None
  Bypass = Bypass
  Cap = 1
  MaxVersion = 2
  MaxEpoch = 1
  Expires = FALSE
  Kinds = {"one", "batch", "build"}
  Gates = {"plain"}
SYMMETRY Interchangeable
INVARIANTS
  TypeOK
  NoStaleResident
  ReadsFresh
