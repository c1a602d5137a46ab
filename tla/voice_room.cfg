\* A call of two turns with a page on one route, whose connection drops once; or
\* three routes in a row, a drop and a change of the window's width.
SPECIFICATION MCSpec
CONSTANTS
  Devices = {"mac-web", "ipad"}
  Device = "mac-web"
  MaxVisits = 3
  MaxDrops = 1
  MaxResizes = 1
  MaxTurns = 2
  MaxChunks = 2
INVARIANTS
  TypeOK
  RowTrue
  BargeExact
  MicAgrees
PROPERTY
  StaleRoomsEnd
CHECK_DEADLOCK FALSE
