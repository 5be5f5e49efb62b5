SPECIFICATION FairSpec
CONSTANTS
  Channels = {1, 2}
  Shards = {s1}
  NudgeWorkers = {n1}
  None = None
  Buffer = 1
  MaxJobs = 2
  OverflowLimit = 1
  NudgeLimit = 1
  PageSize = 1
  MaxUpdates = 3
  MaxFaults = 1
CHECK_DEADLOCK FALSE
INVARIANTS
  TypeOK
  BudgetExact
  NothingForgotten
  NudgeBehindPayloads
  SleepsOnlyWhenFull

PROPERTIES
  LostIsNudged
