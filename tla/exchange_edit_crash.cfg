SPECIFICATION Spec
CONSTANTS
  Apis <- OneApi
  ApiOps <- EditOps
  LegChoices <- BothLegs
  MaxPos = 1
  MaxApi = 1
  MaxFail = 0
  MaxCrash = 1
  MaxHand = 0
INVARIANT NoPhantomProtection
