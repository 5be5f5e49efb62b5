SPECIFICATION Spec
CONSTANTS
  Producers = {p1, p2}
  Workers = {w1, w2}
  None = None
  Cleaner = Cleaner
  Pruner = Pruner
  MaxPts = 3
  AttemptLimit = 2
  MaxFaults = 2
  FaultKinds = {"crash", "defer", "overrun"}
  Silent = {2}
SYMMETRY Interchangeable
CHECK_DEADLOCK FALSE
INVARIANTS
  TypeOK
  LaneDiscoverable
  NothingLost
  PushOrder
  DurableBacking
PROPERTIES
  LeaseProtected
  LaneSpec
