SPECIFICATION Spec
CONSTANTS
  End = 3
  Digests = {a, b}
  OldGenerations = {1, 2}
  DayStarts = {0, 1}
  Records = {1, 2, 3}
  Forecasts = {}
  Contents = {1, 2, 3}
  Missing = 3
  Stations = {1, 2}
  StationOf <- StationsOfRecords
  ObservedAt <- TargetStarts
  ValidUntil <- TargetEnds
  SourceKey <- TargetStarts
  Product <- TargetStarts
  Surroundings <- Places
  DayLength = 2
  WindowDays = 1
  MaxClock = 3
  MaxBatches = 4
  Worlds <- PossibleWorlds
  MaxLost = 2
  Spots = {s1, s2}
  Collectors = {c1, c2}
  Tellings = {"open", "closed", "plain"}
  Photos = {"p", "q"}
  Picture <- PictureOf
  Gallery <- GalleryOf
  DailyBudget = 4
  MaxRevisions = 2
  MaxTroubles = 1
  MaxDays = 2
SYMMETRY Identical
INVARIANTS
  MergeIsPointwise
  ReadersTellTheNewest
  OfficialWordIsFinal
  DegradesOpenly
  SettledPagesAreCurrent
CHECK_DEADLOCK FALSE
