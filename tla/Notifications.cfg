SPECIFICATION BoundedSpec
CONSTANTS
  Senders = {s1, s2}
  Window = 1
  KeyMemory = 2
  PassLength = 1
  Pause = 1
  MaxAttempts = 2
  Configured = {TRUE, FALSE}
  Validities = {2}
  MaxTime = 2
  MaxReadings = 2
  MaxNotices = 2
  MaxRevision = 2
  MaxFaults = 1
SYMMETRY Identical
INVARIANTS
  AtMostOneMail
  OneNoticePerRevision
PROPERTIES
  CancellationHolds
CHECK_DEADLOCK FALSE
