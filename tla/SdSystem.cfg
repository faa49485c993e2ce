SPECIFICATION Spec
CONSTANTS
  d1 = d1
  d2 = d2
  Cards <- AnyCard
  MaxTries = 3
  NumBlocks = 3
  MaxNum = 3
  BlockLen = 2
  CountSize = 3
  Data = {d1, d2}
  MaxFaults = 2
SYMMETRY Contents
CHECK_DEADLOCK FALSE
INVARIANTS
  TypeOK
  ReadsLastWrite
  InitHeals
  ClockWithinLimits
  DriverKnowsCard
PROPERTIES
  BlocksLandInPlace
