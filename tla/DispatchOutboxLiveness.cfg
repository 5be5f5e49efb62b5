SPECIFICATION FairSpec
CONSTANTS
  Producers = {p1}
  Workers = {w1, w2}
  None = None
  Cleaner = Cleaner
  Pruner = Pruner
  MaxPts = 2
  AttemptLimit = 2
  MaxFaults = 1
  FaultKinds = {"crash", "defer", "overrun"}
  Silent = {2}
CHECK_DEADLOCK FALSE
PROPERTIES
  EveryTaskSettles
  TransactionsEnd
