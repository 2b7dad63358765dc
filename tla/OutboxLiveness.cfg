CONSTANTS
  Items = {i1, i2}
  NoItem = NoItem
  Workers = {w1}
  DayLen = 4
  WindowOpen = 1
  WindowClose = 2
  StuckAfter = 1
  Backoff <- MCBackoff
  MaxAttempts = 2
  BatchLimit = 1
  MaxRun = 1
  RecoverRun = 0
  ScanRun = 0
  Horizon = 6
  MaxCrashes = 1
SPECIFICATION FairSpec
PROPERTIES
  EveryReminderSettles
