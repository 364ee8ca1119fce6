SPECIFICATION MCSpec
CONSTANTS
  Parts = {"feed"}
  BTC = BTC
  ETH = ETH
  Symbols <- OnePair
  Defaults <- OnePair
  Tfs <- TwoFrames
  DefaultTf = "1m"
  BotKeys <- HourBot
  Requests <- TwoRequests
  BackoffBase = 1
  BackoffMax = 3
  QueueSize = 2
  MaxLoss = 2
  MaxRequests = 1
  Lookback = 3
  FirstOpen = 3
  LastCandle = 5
  MaxWire = 2
  MaxTicks = 1
  MaxBreaks = 1
  MaxDownloads = 1
INVARIANT FeedLossPauses
CHECK_DEADLOCK FALSE
