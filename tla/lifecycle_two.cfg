SPECIFICATION Spec
CONSTANTS
  Bots <- OneBot
  Apis <- TwoApis
  Accounts <- OneAccount
  MaxTrades = 0
  MaxApi = 4
  MaxFail = 0
  MaxCrash = 0
INVARIANT OneTaskPerBot
CHECK_DEADLOCK FALSE
