SPECIFICATION FairSpec
CONSTANTS
  N = 2
  MaxSeq = 3
  Callers = {c1}
  Fixed = {}
  MaxRetries = 1
  Recovery = {"retry", "resume"}
  MaxCalls = 2
  MaxCrashes = 1
INVARIANTS
  RetryCoversPlan
  DoubleOnlyAfterDoubt
PROPERTIES
  NoSecondLiveTransaction
  CallsReturn
CHECK_DEADLOCK FALSE
