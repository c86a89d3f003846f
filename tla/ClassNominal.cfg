SPECIFICATION Spec
CONSTANTS
  HasInput = TRUE
  HasOutput = TRUE
  FirstIface = 1
  HostRequests <- FeedbackRequests
  Rates <- MCRates
  InitRate = 48000
  MaxRate = 48000
  NumRanges = 3
  AudioRate = 8000
  BytesPerFrame = 8
  PacketLens <- SmallPackets
  ControlBuf = 128
  MayDecline = {}
  RateMayFail = TRUE
  ClockMayMove = FALSE
  ValidityKnown = TRUE
  DriverKeeps = TRUE
INVARIANT
  FeedbackUsesClock
