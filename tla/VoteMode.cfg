SPECIFICATION FairSpec
CONSTANTS
  QuantaPerSec = 2
  AdaptationTime = 0
  DeviceOutcomes <- AllReached
  MaxClock = 8
  MaxStall = 2
  MaxClockSteps = 0
  LastRequest = 2
  StampMod = 7
  ActivationTime = 1
  NumBoxes = 2
  HullSets <- HandsAnywhere
  FrameWidth = 640
  SquareSize = 150
  SquareMargin = 10
INVARIANTS
  PanelTyped
  SoleHolder
PROPERTIES
  CountNeedsSoleHolder
  Kept
  HeldIsCounted
