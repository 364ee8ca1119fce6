SPECIFICATION Spec
CONSTANTS
  Bots <- OneBot
  Apis <- OneApi
  Accounts <- TwoAccounts
  MaxTrades = 0
  MaxApi = 2
  MaxFail = 0
  MaxCrash = 0
INVARIANT RowsAgree
CHECK_DEADLOCK FALSE
