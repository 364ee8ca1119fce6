SPECIFICATION Spec
CONSTANTS
  Apis <- OneApi
  ApiOps <- AllOps
  LegChoices <- BothLegs
  MaxPos = 2
  MaxApi = 1
  MaxFail = 0
  MaxCrash = 0
  MaxHand = 0
INVARIANT ClosesWhatItSent
