SPECIFICATION MCSpec
CONSTANTS
  Bots <- OneBot
  LimitBots <- NoOps
  Start = 10
  Fee = 1
  Margin = 3
  Moves <- Drops
  MaxPositions = 1
  MaxDD = 30
  MaxDaily = 20
  ApiOps <- NoOps
  Amounts <- Five
  MaxTrades = 2
  MaxEvents = 0
PROPERTY NoEntryWhenBlocked
CHECK_DEADLOCK FALSE
