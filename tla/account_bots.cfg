SPECIFICATION MCSpec
CONSTANTS
  Bots <- TwoBots
  LimitBots <- OneBot
  Start = 10
  Fee = 1
  Margin = 3
  Moves <- Drops
  MaxPositions = 1
  MaxDD = 30
  MaxDaily = 20
  ApiOps <- AllOps
  Amounts <- Five
  MaxTrades = 2
  MaxEvents = 1
INVARIANTS BalanceIsLedger PositionsCapped IncomeImported
PROPERTIES LockReturned CatchesUp
CHECK_DEADLOCK FALSE
