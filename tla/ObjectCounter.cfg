SPECIFICATION FairSpec
CONSTANTS
  QuantaPerSec = 2
  AdaptationTime = 1
  DeviceOutcomes <- AnyReached
  MaxClock = 11
  MaxStall = 2
  MaxClockSteps = 1
  LastRequest = 4
  MaxCircles = 1
PROPERTY KeepsCounting
