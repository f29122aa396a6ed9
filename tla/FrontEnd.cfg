SPECIFICATION FrontEndSpec
CONSTANTS
  Ids = {w1, w2}
  NoId = NoId
  Connects = {c1, c2}
  NoConnect = NoConnect
  MaxConnects = 4
  Uses = {u1, u2}
  MaxUses = 5
  ThrottleMs = 2
  MaxReports = 5
  MaxTime = 6
  MaxEmits = 2
  Txs = {x1, x2}
  Checks = {k1, k2}
  CacheTtl = 1
  MaxConfigs = 3
  MaxChecks = 3
  MaxHookTime = 1
  Pairings = {p1, p2}
  MaxSessions = 3
  Clients = {t1}
  MaxDecisions = 4
  Calls = {m1, m2}
  NoCall = NoCall
  NoWallet = NoWallet
  Registered = {"freighter", "rabet", "ledger", "xbull", "albedo"}
  MaxHandlers = 2
  MaxTransports = 1
  MaxBegun = 3
  MaxEvents = 1
INVARIANTS
  OutcomeIsShown
  LastReportIsShown
  StoresAgree
  HookIsOfItsConfig
  RequestsNameTheirSession
  OnlyWithConsent
  RelaysFollowActive
PROPERTIES
  LoneConnectReturns
  LateAnswersAreIgnored
  CallsReturn
CHECK_DEADLOCK FALSE
