SPECIFICATION Spec
CONSTANTS
  QueueSize = 2
  Lookback = 3
  FirstOpen = 3
  LastCandle = 5
  MaxWire = 2
  MaxTicks = 1
  MaxBreaks = 1
  MaxDownloads = 1

PROPERTY DecidesOnClosedCandles
CHECK_DEADLOCK FALSE
