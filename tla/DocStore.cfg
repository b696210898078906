SPECIFICATION Spec
CONSTANTS
  root = root
  x = x
  y = y
  Client <- MC_Client
  Session <- MC_Session
  First <- MC_First
  Node <- MC_Node
  Root = root
  Drawn <- MC_Drawn
  Key <- MC_Key
  MaxEdit <- MC_MaxEdit
  MaxLoad = 1
CONSTRAINT Few
INVARIANTS
  TypeOK
  TreeSound
  RegistersAgree
  PlacesAgree
  EditsCount
  HistoryTellsTheFile
CHECK_DEADLOCK FALSE
