SPECIFICATION EitherSpec
CONSTANTS
  Workers = {w1, w2}
  SourceOrder <- OneSource
  ForecastJobs = {}
  Configs <- ScoresOnly
  Outcomes = {"succeeded", "failed"}
  Continuations = {}
  MaxTime = 1
  MaxRequests = 1
  MaxRevocations = 2
  MaxCrashes = 1
  MaxLosses = 1
  ExternalFloor = 1
  ForecastCeiling = 2
  LongestDelay = 3
  ShortestDelay = 1
PROPERTIES
  RequestCompletes
  RevocationAnswered
CHECK_DEADLOCK FALSE
