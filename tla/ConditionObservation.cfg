SPECIFICATION FairSpec
CONSTANTS
  Mode = "observation"
  DayLength = 2
  Window = 3
  MaxTime = 2
  MaxRevision = 2
  MaxCrashes = 1
  Kinds = {"fresh", "missing", "absent"}
  Writers = {w1}
  Segments <- WholeOnly
PROPERTIES
  EventuallyCurrent
CHECK_DEADLOCK FALSE
