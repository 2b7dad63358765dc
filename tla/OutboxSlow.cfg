CONSTANTS
  Items = {i1}
  NoItem = NoItem
  Workers = {w1, w2}
  DayLen = 6
  WindowOpen = 1
  WindowClose = 2
  StuckAfter = 1
  Backoff <- MCBackoff
  MaxAttempts = 2
  BatchLimit = 1
  MaxRun = 3
  RecoverRun = 3
  ScanRun = 1
  Horizon = 10
  MaxCrashes = 1
SPECIFICATION Spec
SYMMETRY MCWorkerSymmetry
INVARIANTS
  RetriesInSendWindow
PROPERTIES
  SendsNearWindow
