SPECIFICATION Spec
CONSTANTS
  Jobs <- UnitJobs
  Rooms <- UnitRooms
INVARIANT
  LengthsTruthful
CHECK_DEADLOCK FALSE
