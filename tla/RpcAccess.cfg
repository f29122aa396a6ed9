SPECIFICATION AccessSpec
CONSTANTS
  N = 2
  MaxFailures = 2
  SuccessThreshold = 2
  Sticky = TRUE
  Calls = {a1}
  Rounds = {h1, h2}
  CountCap = 3
  Callers = {c1, c2, c3}
  Limit = 1
  MaxRetries = 1
  Deadline = 2
  Delays = {0, 2}
  Askers = {s1, s2}
  Keys = {k1, k2}
  Reads = {r1, r2}
  NoRead = NoRead
  MaxWrites = 1
  MaxCalls = 3
PROPERTIES
  ServesHealthy
  RecoversWhenUp
  ImplementsSlots
  CallsEnd
  ImplementsMonotonicReads
  CallsSettle
CHECK_DEADLOCK FALSE
