SPECIFICATION Spec
CONSTANTS
  Bots <- TwoBots
  Apis <- OneApi
  Accounts <- TwoAccounts
  MaxTrades = 2
  MaxApi = 4
  MaxFail = 1
  MaxCrash = 1
INVARIANTS StatusesAgree PositionsHeld
CHECK_DEADLOCK FALSE
