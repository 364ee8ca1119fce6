SPECIFICATION MCSpec
CONSTANTS
  Owners = {"bot", "desk"}
  TakerFee = 1
  MakerFee = 0
  Slip = 1
  LiqGap = 1
  GapFill = TRUE
  Apis <- TwoApis
  Manual = FALSE
  SignalOps <- BotOps
  ApiOps <- NoOps
  Prices <- ThreePrices
  LimitAt <- Mid
  Lows <- Below
  Highs <- Above
  MaxPos = 2
  MaxLimits = 1
  MaxApi = 0
  MaxCrash = 1
INVARIANTS RowsMatchEngine TradesBooked TradesPaired PendingTracked
PROPERTIES BotHasTradeBook OrdersSettleOnce
CHECK_DEADLOCK FALSE
