SPECIFICATION Spec
CONSTANTS
  PictureHeights <- Heights
  StartHeight = 5
  StepUp = 3
  StepDown = 4
  Band = 3
  MinRows = 2
  BlobSets <- FewBlobs
INVARIANTS
  TypeOK
  LineEndsOnlyAtEdges
  CrossingIsCounted
