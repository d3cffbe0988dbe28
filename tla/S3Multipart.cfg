CONSTANTS
  PartSize = 2
  MaxParts = 4
  Concurrency = 2
  MaxSize = 9
SPECIFICATION FairSpec
CHECK_DEADLOCK FALSE
INVARIANTS WithinLimits NothingLeftBehind
PROPERTIES KeepsContract PutReturns
