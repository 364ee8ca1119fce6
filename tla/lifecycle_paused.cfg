SPECIFICATION Spec
CONSTANTS
  Bots <- OneBot
  Apis <- OneApi
  Accounts <- OneAccount
  MaxTrades = 1
  MaxApi = 2
  MaxFail = 0
  MaxCrash = 1
INVARIANT PausedManaged
CHECK_DEADLOCK FALSE
