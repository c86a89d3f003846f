SPECIFICATION Spec
CONSTANTS
  Setups <- DmaFullSpeed
  Drifts <- BusDrifts
  LossTimes <- NoLoss
  MaxTime = 6000
  Settling = 2500
INVARIANTS
  Opposes
CHECK_DEADLOCK FALSE
