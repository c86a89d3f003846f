SPECIFICATION Spec
CONSTANTS
  Jobs <- AllJobs
  Rooms <- AllRooms
INVARIANTS
  TypeOK
  LengthsTruthful
  TotalTruthful
  NoSilentTruncation
  OverflowIsHonest
  TopologyConnected
CHECK_DEADLOCK FALSE
