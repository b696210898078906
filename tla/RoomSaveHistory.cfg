SPECIFICATION Spec
CONSTANTS
  MaxMem = 2
  Picture = {}
  SaveAfter = 1
  SaveAtLeast = 2
  MaxFail = 0
  MaxLives = 1
INVARIANT
  EveryoneLeftIsKept
CHECK_DEADLOCK FALSE
