SPECIFICATION Spec
CONSTANTS
  a = a
  b = b
  Client <- TwoClients
  Quota <- QuotaTwoOne
  MaxConn <- ConnTwoOne
  Needs <- Node
  Pictures <- PictureOfB
  LogLimit = 2
  MaxVersion = 2
  MaxEpoch = 2
INVARIANTS
  TypeOK
  NoWorkLost
  StreamInOrder
  AllWorkArrives
CHECK_DEADLOCK FALSE
