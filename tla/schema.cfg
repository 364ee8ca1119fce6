SPECIFICATION Spec
CONSTANTS
  Bots = {1, 2, 3}
  Testnet = {3}
  MaxRows = 2
  MaxTime = 3
  Prices = {1, 2}
  EntryPrices = {1}
  SourceWindow = 1
  LinkWindow = 2
  SizingWindow = 2
  Deployed = {3, 14, 17}
  MaxDowngrades = 1
INVARIANTS SchemaOfRevision NothingLeftNull BotTradesKept LinksRight
CHECK_DEADLOCK FALSE
