SPECIFICATION FairSpec
CONSTANTS
  Requests = {c1, e1}
  Chats = {c1}
  Principals = {"anyone"}
  Owner <- OneCaller
  MaxConcurrency = 1
  RequestsPerMinute = 1
  MaxDailyCalls = 3
  MaxDailyTokens = 5
  RequestTimeout = 1
  LeaseLife = 2
  MinuteLength = 1
  DayLength = 1
  AttemptMemory = 90
  MaxTime = 3
  MaxModelCalls = 2
  MaxToolCalls = 2
  Sizes = {2}
  Usages = {1, 3}
  Interpretations = {"clarify", "read", "loop", "recommend", "route"}
  ReadPlans <- Plans
INVARIANTS
  CapHolds
  LedgerAddsUp
  AvailableMeansRead
PROPERTIES
  EveryRequestEnds
CHECK_DEADLOCK FALSE
