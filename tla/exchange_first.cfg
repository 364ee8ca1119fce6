SPECIFICATION Spec
CONSTANTS
  Requests = {"request"}
  Funds = 10
  Results = {}
  Transfers = {}
  DrawdownPct = 30
  MaxIncome = 1
  MaxTroubles = 1
INVARIANT HaltedForLosses
