SPECIFICATION Spec
CONSTANTS
  Calls = {x1, x2, x3}
  p1 = p1
  d1 = d1
  Profiles = {p1}
  BadProfile = BadProfile
  Domains = {d1}
  Loads <- SharedProfile
  None = None
  Capacity = 1
  Unit = 2
  Refill = 1
  MaxTime = 2
  Crashes = TRUE
  Shutdowns = TRUE
  MaxCancels = 1
SYMMETRY Symmetry
INVARIANTS TypeOK OneRuntime PagesClosed BucketBound RetriesOnce OneRowEach
