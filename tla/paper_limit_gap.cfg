SPECIFICATION MCSpec
CONSTANTS
  Owners = {"bot"}
  TakerFee = 1
  MakerFee = 0
  Slip = 1
  LiqGap = 1
  GapFill = TRUE
  Apis <- NoApis
  Manual = FALSE
  SignalOps <- BotOps
  ApiOps <- NoOps
  Prices <- ThreePrices
  LimitAt <- Mid
  Lows <- Below
  Highs <- Above
  MaxPos = 2
  MaxLimits = 1
  MaxApi = 0
  MaxCrash = 0
INVARIANT EveryPnlBooked
CHECK_DEADLOCK FALSE
