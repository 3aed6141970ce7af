SPECIFICATION Spec
CONSTANTS
  MaxCommit = 2
  MaxAttempt = 1
INVARIANTS
  LiveOnRealData
  ResumedDataKept
PROPERTIES
  OneFailureKeepsTheSite
  ArchiveEndsLive
  AttemptOnce
CHECK_DEADLOCK FALSE
