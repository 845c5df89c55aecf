SPECIFICATION HandSpec
CONSTANTS
  QuantaPerSec = 2
  AdaptationTime = 1
  DeviceOutcomes <- AllReached
  MaxClock = 24
  MaxStall = 20
  MaxClockSteps = 1
  LastRequest = 22
  MaxHands = 1
INVARIANTS
  HandTypeOK
  CalibratedLongEnough
  FrozenWhileProcessing
  BackgroundNotStale
  CountdownFits
