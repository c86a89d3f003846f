SPECIFICATION Spec
CONSTANTS
  Setups <- GoodSetups
  Drifts <- BusDrifts
  LossTimes <- Losses
  MaxTime = 6000
  Settling = 2500
INVARIANTS
  TypeOK
  Opposes
  InRing
  Settles
CHECK_DEADLOCK FALSE
