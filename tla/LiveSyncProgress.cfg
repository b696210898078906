SPECIFICATION FairSpec
CONSTANTS
  a = a
  b = b
  Client <- TwoClients
  Quota <- QuotaOneOne
  MaxConn <- ConnTwoOne
  Needs <- Chain
  Pictures <- PictureOfB
  LogLimit = 1
  MaxVersion = 2
  MaxEpoch = 2
PROPERTIES
  WorkGetsConfirmed
  WorkGetsAround
CHECK_DEADLOCK FALSE
