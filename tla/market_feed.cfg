\* Two pairs and two bots over breaks and restarts of the feed; and the candles of one
\* stream on their way to table kline and to a bot's window.
SPECIFICATION MCSpec
CONSTANTS
  Parts = {"feed", "candles"}
  BTC = BTC
  ETH = ETH
  Symbols <- TwoPairs
  Defaults <- OnePair
  Tfs <- TwoFrames
  DefaultTf = "1m"
  BotKeys <- BothFrames
  Requests <- TwoRequests
  BackoffBase = 1
  BackoffMax = 3
  QueueSize = 2
  MaxLoss = 2
  MaxRequests = 3
  Lookback = 3
  FirstOpen = 3
  LastCandle = 5
  MaxWire = 2
  MaxTicks = 1
  MaxBreaks = 1
  MaxDownloads = 1
INVARIANTS OpenStreamsAll HeardIsKept DecidesOnce
PROPERTIES BotHears HistoryContiguous
CHECK_DEADLOCK FALSE
