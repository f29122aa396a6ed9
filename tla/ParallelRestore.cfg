SPECIFICATION FairSpec
CONSTANTS
  N = 3
  MaxSeq = 4
  Limit = 2
  MaxRetries = 1
  Faults = TRUE
INVARIANTS
  ResultIsComplete
PROPERTIES
  CallReturns
CHECK_DEADLOCK FALSE
