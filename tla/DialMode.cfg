SPECIFICATION Spec
CONSTANTS
  QuantaPerSec = 1
  AdaptationTime = 0
  DeviceOutcomes <- AllReached
  MaxClock = 7
  MaxStall = 1
  MaxClockSteps = 0
  LastRequest = 1
  StampMod = 4
  ActivationTime = 1
  NumBoxes = 3
  HullSets <- Hands
  SquareSize = 50
  SquareMargin = 12
  Code <- OneZero
  MaxDialled = 3
INVARIANTS
  NumberTellsCounts
  DiallingTakesTime
PROPERTIES
  DigitIsBox
  Kept
