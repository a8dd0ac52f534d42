SPECIFICATION Spec
CONSTANTS
  NULL = NULL
  Word = 64
  Programs <- NewPrograms
  LORESERVE = 3
  XNUM = 9
VIEW NoResult
INVARIANTS
  LayoutSound
PROPERTIES
  ReadsBack
  UpdateReturns
