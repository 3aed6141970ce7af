SPECIFICATION Spec
CONSTANTS
  MaxCommit = 1
  MaxAttempt = 1
INVARIANT
  RolledBackDataKept
CHECK_DEADLOCK FALSE
