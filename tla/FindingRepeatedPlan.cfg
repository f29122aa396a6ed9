SPECIFICATION Spec
CONSTANTS
  N = 1
  MaxSeq = 3
  Callers = {c1}
  Fixed = {}
  MaxRetries = 0
  Recovery = {}
  MaxCalls = 2
  MaxCrashes = 0
INVARIANTS
  RepeatIsNoOp
CHECK_DEADLOCK FALSE
