SPECIFICATION Spec
CONSTANTS
  r1 = r1
  r2 = r2
  Runs <- MCRuns
  Clients = {c1}
  ReplayLimit = 1
  NoSlot = NoSlot
  Loads <- ZonedLoads
  NoAnswer = NoAnswer
  Unasked = Unasked
  Previous = Previous
  Length = 1
  MaxItems = 2
  MaxRounds = 2
  Threshold = 2
  Before0 = {1}
  MaxCancels = 1
INVARIANT SlotIsFree
CHECK_DEADLOCK FALSE
