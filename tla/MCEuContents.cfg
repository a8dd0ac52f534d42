SPECIFICATION Spec
VIEW View
CONSTANTS
  Images <- MCAllImages
  Descriptors <- MCDescriptors
  Contents <- MCContents
  Aligns = {1}
  MaxCalls = 4
  MaxPieces = 2
  MaxFaults = 1
CHECK_DEADLOCK FALSE
INVARIANTS
  Survives
  Accounted
  ContentsKept
  AnswersRight
PROPERTIES
  RefusalKeeps
