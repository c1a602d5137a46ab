SPECIFICATION Spec
CONSTANTS
  Jobs = {j1, j2}
  MaxJobs = 2
  MaxTries = 1
  a1 = a1
  a2 = a2
  k1 = k1
  k2 = k2
  Agents = {a1, a2}
  Keys = {k1, k2}
  Requests <- Honest
  Global = Global
  DailyLimit = 1
  InfoCap = 1
  CooldownAny = 1
  CooldownCrit = 2
  DedupWindow = 3
  CacheTTL = 1
  DayLength = 2
  MaxTime = 2
  CacheOn = FALSE
  RedisFaults = FALSE
  Failures = FALSE
INVARIANTS NoDuplicateInWindow
