SPECIFICATION Spec
CONSTANTS
  Requests = {"request"}
  Funds = 10
  Results = {1}
  Transfers = {}
  DrawdownPct = 30
  MaxIncome = 2
  MaxTroubles = 1
INVARIANT LedgerSumsUp
