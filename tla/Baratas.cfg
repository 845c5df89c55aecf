SPECIFICATION BaratasFairSpec
CONSTANTS
  QuantaPerSec = 1
  AdaptationTime = 1
  DeviceOutcomes <- AllReached
  MaxClock = 6
  MaxStall = 1
  MaxClockSteps = 0
  LastRequest = 3
  Spots <- Far
  MaxBlobs = 1
  Speeds <- Still
  PixelUnits = 1
  UnitCost = 1
  Tresh = 1
  MaxUnseen = 1
PROPERTIES
  TracksCalibratedFrames
  OperatorIsHeard
