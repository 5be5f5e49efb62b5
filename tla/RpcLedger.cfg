SPECIFICATION FairSpec
CONSTANTS
  k1 = k1
  k2 = k2
  k3 = k3
  s1 = s1
  s2 = s2
  Keys = {k1, k2, k3}
  Copies = {a1, a2, a3}
  Shards = {s1, s2}
  ShardOf <- MCShardOf
  None = None
  MaxEntries = 2
  MaxPending = 2
  PendingPerAuth = 2
  MaxSlots = 2
  SlotsPerFlight = 2
CHECK_DEADLOCK FALSE
INVARIANTS
  TypeOK
  BudgetExact
  AckIsFinal
  CalledOnce

PROPERTIES
  RunsOnce
  EveryCopySettles
