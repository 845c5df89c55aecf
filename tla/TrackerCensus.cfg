SPECIFICATION Spec
CONSTANTS
  Spots <- Far
  MaxBlobs = 2
  Speeds <- Still
  PixelUnits = 1
  UnitCost = 1
  Tresh = 1
  MaxUnseen = 1
INVARIANTS
  TypeOK
  EveryBlobIsOneObject
  ObjectsBounded
  StillSceneIsKept
PROPERTY Kept
