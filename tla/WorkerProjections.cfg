SPECIFICATION ScenarioSpec
CONSTANTS
  Workers = {w1, w2}
  SourceOrder <- OneSource
  ForecastJobs = {"khoa_beach"}
  Configs <- RacingOrRestarted
  Outcomes = {"succeeded", "partial", "failed"}
  Continuations = {2}
  MaxTime = 2
  MaxRequests = 1
  MaxRevocations = 0
  MaxCrashes = 1
  MaxLosses = 1
  ExternalFloor = 1
  ForecastCeiling = 2
  LongestDelay = 3
  ShortestDelay = 1
SYMMETRY Identical
INVARIANTS
  SuccessMeansRefreshed
  ClosedMeansSettled
PROPERTIES
  FinishedTaskStable
  ProviderPause
CHECK_DEADLOCK FALSE
