SPECIFICATION FairSpec
CONSTANTS
  Conn = {c1, c2, c3}
  PerIp = 2
  MaxRoom = 2
  MaxWork = 2
  MaxFail = 1
INVARIANTS
  TypeOK
  Together
  NewcomersGetEverything
  WorkWillBeSaved
PROPERTIES
  OccupiedIsKept
  LastOneOutForgets
CHECK_DEADLOCK FALSE
