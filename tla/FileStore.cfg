SPECIFICATION Spec
CONSTANTS
  a = a
  b = b
  first = first
  second = second
  None = None
  Tab <- MC_Tab
  Room <- MC_Room
  MaxEdit = 1
  MaxRelease = 1
  MaxStart = 2
SYMMETRY Alike
INVARIANTS
  TypeOK
  AcceptedIsKept
  DeletedIsGone
PROPERTIES
  VersionsGrow
CHECK_DEADLOCK FALSE
CONSTRAINT Few
