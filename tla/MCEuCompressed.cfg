SPECIFICATION Spec
CONSTANTS
  Images <- MCAllImages
  Descriptors <- MCDescriptors
  Contents <- MCContents
  Aligns = {1}
  MaxCalls = 4
  MaxPieces = 2
  MaxFaults = 1
PROPERTY
  CompressedOnce
CHECK_DEADLOCK FALSE
