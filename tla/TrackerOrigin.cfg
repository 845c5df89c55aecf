SPECIFICATION Spec
CONSTANTS
  Spots <- Away
  MaxBlobs = 1
  Speeds <- Still
  PixelUnits = 1
  UnitCost = 1
  Tresh = 1
  MaxUnseen = 2
INVARIANT HistoryInScene
