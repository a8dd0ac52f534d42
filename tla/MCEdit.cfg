SPECIFICATION Spec
CONSTANTS
  NULL = NULL
  Word = 64
  Programs <- OldPrograms
  LORESERVE = 4
  XNUM = 9
VIEW NoResult
INVARIANTS
  LayoutStable
PROPERTIES
  ReadsBack
  UpdateReturns
  RetrySame
