SPECIFICATION Spec
CONSTANTS
  HasInput = TRUE
  HasOutput = TRUE
  FirstIface = 1
  HostRequests <- AllRequests
  Rates <- MCRates
  InitRate = 48000
  MaxRate = 192000
  NumRanges = 3
  AudioRate = 1000
  BytesPerFrame = 8
  PacketLens <- AnyPackets
  ControlBuf = 128
  MayDecline = {"In"}
  RateMayFail = FALSE
  ClockMayMove = FALSE
  ValidityKnown = TRUE
  DriverKeeps = TRUE
INVARIANTS
  TypeOK
  HostAgreesHandler
  StaleOnlyWhileStopped
  StopIsUnanimous
  CycleAlive
  SpinOnlyIdle
  NominalIsClock
PROPERTIES
  DiscardOnlyIdle
  ImplementsContract
CHECK_DEADLOCK FALSE
