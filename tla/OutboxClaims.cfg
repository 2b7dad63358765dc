\* One day and a half; two workers, two rows.
CONSTANTS
  Items = {i1, i2}
  NoItem = NoItem
  Workers = {w1, w2}
  DayLen = 4
  WindowOpen = 1
  WindowClose = 2
  StuckAfter = 1
  Backoff <- MCBackoff
  MaxAttempts = 2
  BatchLimit = 2
  MaxRun = 1
  RecoverRun = 0
  ScanRun = 1
  Horizon = 7
  MaxCrashes = 1
SPECIFICATION Spec
SYMMETRY MCSymmetry
INVARIANTS
  ExclusiveClaim
  OutcomeCoherent
  DuplicateOnlyIfUnrecorded
PROPERTIES
  FinalIsFinal
  ImplementsDelivery
