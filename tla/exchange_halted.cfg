SPECIFICATION Spec
CONSTANTS
  Requests = {}
  Funds = 10
  Results = {}
  Transfers = {6}
  DrawdownPct = 30
  MaxIncome = 1
  MaxTroubles = 0
INVARIANT HaltedForLosses
