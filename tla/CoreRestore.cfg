SPECIFICATION FairSpec
CONSTANTS
  N = 2
  MaxSeq = 3
  Contracts = {A, B}
  Lengths = {30, 60}
  MaxXdrSize = 100
  HeaderOverhead = 10
  Fixed = {2}
  MaxRetries = 1
  MaxPolls = 1
  MaxKeys = 3
  MaxCalls = 2
INVARIANTS
  PlansHoldTheKeys
  SuccessMeansRestored
  RetryCoversPlan
  NoWorkAfterReturn
PROPERTIES
  AbortStopsPrompts
  CallReturns
CHECK_DEADLOCK FALSE
