SPECIFICATION Spec
CONSTANTS
  j1 = j1
  j2 = j2
  j3 = j3
  m1 = m1
  m2 = m2
  m3 = m3
  t1 = t1
  t2 = t2
  a1 = a1
  a2 = a2
  a3 = a3
  Jobs <- MCJobs
  Loads <- MCLoads
  NoMail = NoMail
  NoVerdict = NoVerdict
  Clients <- MCClients
  Addressed <- MCAddressed
  Limit = 2
  Window = 2
  SeenCap = 2
  Dimensions <- MCDimensions
  Threshold = 2
  Recent = 2
  RecentDays = 1
  MaxDay = 2
  MaxTrouble = 2
INVARIANTS
  TypeOK
  RowsKeepItems
  RecordedIsActed
  NoSecondAct
  CriticalsEarned
PROPERTY EveryMailDispatched
CHECK_DEADLOCK FALSE
