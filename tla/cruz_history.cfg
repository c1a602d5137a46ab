SPECIFICATION Spec
CONSTANTS
  Turns = {t1, t2, t3}
  c1 = c1
  phone = phone
  ipad = ipad
  observe = observe
  pm = pm
  Convs = {c1}
  Devices = {phone, ipad}
  NoDevice = NoDevice
  Asks <- JsonOnly
  Tools = {observe, pm}
  Quiet = {observe}
  Gated = {pm}
  Plans <- NoTools
  MaxCalls = 1
  HistoryLimit = 2
  MayCut = {}
  Faults = FALSE
  Leaves = FALSE
  Restarts = FALSE
PROPERTIES HistoryIsRecent
