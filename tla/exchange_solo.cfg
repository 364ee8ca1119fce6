SPECIFICATION Spec
CONSTANTS
  Apis <- NoApis
  ApiOps <- NoOps
  LegChoices <- BothLegs
  MaxPos = 2
  MaxApi = 0
  MaxFail = 1
  MaxCrash = 1
  MaxHand = 1
INVARIANTS RowsMatchEngine NoPhantomProtection
PROPERTY ExternalCloseBooked
