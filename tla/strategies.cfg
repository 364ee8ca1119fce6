\* Every strategy as a bot; and any strategy in a backtest: SL inside and at the opening of
\* a candle, LIMIT orders, leverage, a halted day and a drawdown stop.
SPECIFICATION MCSpec
CONSTANTS
  Parts = {"bot", "backtest"}
  FirstWeekday = 4
  FirstMonthDay = 6
  Cases <- AllCases
  Capital = 10000
  Scale = 100
  TakerFee = 1
  MakerFee = 0
  Slip = 1
  LiqDistance = 3
  MaxRiskPct = 15
  MaxOpenRiskPct = 20
  DailyLossPct = 8
  MaxDdPct = 20
  MinNotional = 1500
  DayLength = 4
  Starts = {0, 2}
  MinCandles = 4
  MaxCandles = 4
  MaxPending = 2
  Bars <- MCBars
  Orders <- MCOrders
  Variants <- MCVariants
INVARIANTS BeliefCovers DayTradesEnd EntriesCapped NoRepaint DecisionsAreDrawn StopLinesTighten BacktestAgrees
           BooksBalance StopLosesRisk
PROPERTIES HaltLasts MarginCovered
CHECK_DEADLOCK FALSE
