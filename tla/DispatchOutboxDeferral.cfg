SPECIFICATION Spec
CONSTANTS
  Producers = {p1}
  Workers = {w1}
  None = None
  Cleaner = Cleaner
  Pruner = Pruner
  MaxPts = 2
  AttemptLimit = 5
  MaxFaults = 4
  FaultKinds = {"defer"}
  Silent = {}
CHECK_DEADLOCK FALSE
INVARIANT
  DeferralsDoNotEscalate
