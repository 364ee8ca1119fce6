SPECIFICATION Spec
CONSTANTS
  Apis <- OneApi
  ApiOps <- AllOps
  LegChoices <- BothLegs
  MaxPos = 2
  MaxApi = 1
  MaxFail = 1
  MaxCrash = 0
  MaxHand = 1
INVARIANTS FillMeetsEmptyEngine CancelAfterClose
