SPECIFICATION ScenarioSpec
CONSTANTS
  Editors = {e1, e2}
  Items = {1, 2}
  Places = {p}
  ReceiptLife = 1
  Tags = {t1, t2}
  MaxTags = 1
  Fields = {intensity, region}
  MoodFields = {intensity}
  Values = {v1, v2}
  Unset = unset
  MaxEdits = 2
  MaxClock = 2
  MaxChanges = 3
  Devices = {d1, d2}
  Subjects <- Records2
  SpotOf <- Spots
  KindOf <- Kinds
  CacheLife = 1
  PauseLengths = {1, 2}
  MaxVersion <- Versions
  MaxRefreshes = 2
  MaxSettings = 1
PROPERTY
  AcknowledgedStays
CHECK_DEADLOCK FALSE
SYMMETRY Alike
