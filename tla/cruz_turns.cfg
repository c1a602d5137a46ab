SPECIFICATION Spec
CONSTANTS
  Turns = {t1, t2}
  c1 = c1
  phone = phone
  ipad = ipad
  observe = observe
  pm = pm
  Convs = {c1}
  Devices = {phone, ipad}
  NoDevice = NoDevice
  Asks <- SameConversation
  Tools = {observe, pm}
  Quiet = {observe}
  Gated = {pm}
  Plans <- ToolPlans
  MaxCalls = 2
  HistoryLimit = 2
  MayCut = {"json"}
  Faults = TRUE
  Leaves = TRUE
  Restarts = TRUE
SYMMETRY Symmetry
INVARIANTS TypeOK ExchangesWhole AnswersAreKept HeldTurnStops ReadYourReplies StreamProtocol ActivitiesTruthful
PROPERTIES LedgerSpec
