SPECIFICATION MCSpec
CONSTANTS
  Owners = {"bot"}
  TakerFee = 1
  MakerFee = 0
  Slip = 1
  LiqGap = 1
  GapFill = TRUE
  Apis <- OneApi
  Manual = FALSE
  SignalOps <- MarketOnly
  ApiOps <- CloseOnly
  Prices <- Mid
  LimitAt <- Mid
  Lows <- NoLevels
  Highs <- NoLevels
  MaxPos = 3
  MaxLimits = 1
  MaxApi = 1
  MaxCrash = 0
INVARIANT AtMostOnePosition
CHECK_DEADLOCK FALSE
