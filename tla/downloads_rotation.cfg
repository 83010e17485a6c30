SPECIFICATION MCSpec
CONSTANTS
  d1 = d1
  d2 = d2
  f1 = f1
  f2 = f2
  Callers = {d1, d2}
  Files = {f1, f2}
  FileOf <- DistinctFiles
  Lifetime = 1
  MaxTime = 1
  MaxFutures = 6
  MaxFaults = 0
  MaxOutside = 0
  Publishes = {1}
  OutsideFiles = {1, 2}
  OwnFiles = {1}
  SlotCount = 1
  Contents = {1, 2}
  TempUrl = 2
  PermanentUrl = 3
  Skew = 1
  MaxActive = 2
  MaxHour = 1
  MaxEdits = 1
  MaxHostedFaults = 1
INVARIANT
  ConcurrentRefreshIsHarmless
CHECK_DEADLOCK FALSE
