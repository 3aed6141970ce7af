SPECIFICATION Spec
CONSTANTS
  Records = {1, 2}
  Forecasts = {1, 2}
  Contents = {a, b}
  a = a
  b = b
  ObservedAt <- From
  ValidUntil <- To
  SourceKey <- Key
  Product <- One
  DayLength = 2
  WindowDays = 1
  MaxClock = 3
  MaxBatches = 3
  Groups = {1, 2}
  GroupRecords <- Parts
  Mapped = {2}
  MaxMappings = 2
  MaxRuns = 2
  BatchSize = 1
  MaxPasses = 2
  Workloads <- Turns
INVARIANTS
  NothingDangles
  CurrentIsLastHeard
  ServedIsLive
PROPERTIES
  PastStaysKnown
  RetentionHidesNothing
SYMMETRY Same
CHECK_DEADLOCK FALSE
