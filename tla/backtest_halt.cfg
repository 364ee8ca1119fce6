SPECIFICATION MCSpec
CONSTANTS
  Parts = {"backtest"}
  FirstWeekday = 4
  FirstMonthDay = 6
  Cases <- AllCases
  Capital = 10000
  Scale = 100
  TakerFee = 1
  MakerFee = 0
  Slip = 1
  LiqDistance = 3
  MaxRiskPct = 15
  MaxOpenRiskPct = 20
  DailyLossPct = 8
  MaxDdPct = 20
  MinNotional = 1500
  DayLength = 4
  Starts = {0, 2}
  MinCandles = 4
  MaxCandles = 4
  MaxPending = 2
  Bars <- MCBars
  Orders <- MCOrders
  Variants <- MCVariants
INVARIANT HaltEndsWithDay
CHECK_DEADLOCK FALSE
