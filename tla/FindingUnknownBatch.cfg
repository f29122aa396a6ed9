SPECIFICATION Spec
CONSTANTS
  N = 2
  MaxSeq = 3
  Callers = {c1}
  Fixed = {}
  MaxRetries = 0
  Recovery = {"retry", "resume"}
  MaxCalls = 1
  MaxCrashes = 0
INVARIANTS
  OriginalNeverAfterUnknownBatch
CHECK_DEADLOCK FALSE
