SPECIFICATION Spec
CONSTANTS
  N = 2
  MaxSeq = 2
  Callers = {c1, c2}
  Fixed = {2}
  MaxRetries = 1
  Recovery = {"retry", "resume"}
  MaxCalls = 2
  MaxCrashes = 0
INVARIANTS
  LandedInOrder
CHECK_DEADLOCK FALSE
