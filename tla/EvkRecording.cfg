SPECIFICATION Spec
CONSTANTS
  QueueBytes = 80
  Depth = 8
  Wrap = 256
  NOMINAL_SAMPLES = 2
  DRAINING = 4
  FILLING = 6
INVARIANT
  SlippageFollowsFill
