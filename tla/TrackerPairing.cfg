SPECIFICATION Spec
CONSTANTS
  Spots <- Row
  MaxBlobs = 3
  Speeds <- Still
  PixelUnits = 100
  UnitCost = 1
  Tresh = 10000
  MaxUnseen = 1
PROPERTY NearestPairing
