SPECIFICATION Spec
CONSTANTS
  Mode = "forecast"
  DayLength = 2
  Window = 3
  MaxTime = 2
  MaxRevision = 2
  MaxCrashes = 1
  Kinds = {"fresh", "missing", "blocked"}
  Writers = {w1, w2}
  Segments <- WholeOrLater
SYMMETRY Identical
INVARIANTS
  NoWithdrawnEvidenceServed
  WithdrawnEvidenceEndsAtCorrection
  LatestGenerationComplete
  RestrictionShown
PROPERTIES
  KeepsPromise
  PublishesCurrentEvidence
CHECK_DEADLOCK FALSE
