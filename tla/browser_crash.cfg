SPECIFICATION Spec
CONSTANTS
  Calls = {x1, x2}
  p1 = p1
  d1 = d1
  Profiles = {p1}
  BadProfile = BadProfile
  Domains = {d1}
  Loads <- FetchOnly
  None = None
  Capacity = 2
  Unit = 2
  Refill = 1
  MaxTime = 0
  Crashes = TRUE
  Shutdowns = FALSE
  MaxCancels = 0
PROPERTIES ReinitAfterCrash
