SPECIFICATION PartsSpec
CONSTANTS
  ParserCalls = {p1, p2}
  MaxParserCalls = 3
  ContractIds = {k1, k2}
  CodeId = code
  UnknownId = unknown
  Sizes = {1, 3}
  XdrLimit = 6
  Overhead = 1
  BatchSizes = {1, 2, 3}
  MaxArchived = 4
  Callees = {k1, k2}
  OtherFn = other
  MaxEntries = 2
  Envelopes = {f1, f2}
  MaxFootprints = 1
  Window = 2
  MaxClosed = 3
  MaxClock = 4
  Endpoints = {e1, e2}
  MethodCount = 2
  Builders = {b1, b2}
  MaxBuilds = 4
  MaxOutages = 1
  Protocols = {20, 21, 22, 23}
  Builds = {19, 22, 23}
  MinProtocols = {20, 21}
  Negotiations = {n1, n2}
  MaxNegotiations = 3
  Requests = {r1, r2}
  MaxRequests = 2
  MaxControlled = 3
  ClassKeys = {cls}
  Tokens = {tok}
  MaxContainers = 3
  MaxRegistrations = 3
PROPERTY CachedWhereResolved
CHECK_DEADLOCK FALSE
