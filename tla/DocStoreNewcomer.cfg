SPECIFICATION Spec
CONSTANTS
  root = root
  x = x
  y = y
  Client <- MC_Client
  Session <- MC_Session
  First <- MC_First
  Node <- MC_OneNode
  Root = root
  Drawn <- MC_Drawn
  Key <- MC_DeletedOnly
  MaxEdit <- MC_MaxEdit
  MaxLoad = 1
INVARIANTS
  SameFileEverywhere
CHECK_DEADLOCK FALSE
