SPECIFICATION Spec
CONSTANTS
  a = a
  b = b
  Client <- TwoClients
  Quota <- QuotaTwoOne
  MaxConn <- ConnTwoOne
  Needs <- Chain
  Pictures <- PictureOfB
  LogLimit = 2
  MaxVersion = 2
  MaxEpoch = 2
INVARIANT
  ConfirmedWorkCounts
CHECK_DEADLOCK FALSE
