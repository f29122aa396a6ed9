SPECIFICATION Spec
CONSTANTS
  MaxRetries = 2
  FailureThreshold = 2
  OpenTimeout = 0
  MaxNow = 2
  CacheSize = 1
  Ttl = 1
  Entries = {t1, t2}
  MaxLedger = 2
  Calls = {c1, c2}
  MaxBegun = 3
  MaxControls = 1
INVARIANTS
  AnswersAreRecent
  BreakerHolds
CHECK_DEADLOCK FALSE
SYMMETRY Symmetry
