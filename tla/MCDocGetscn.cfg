SPECIFICATION Spec
CONSTANTS
  NULL = NULL
  Word = 64
  Programs <- GetPrograms
  LORESERVE = 4
  XNUM = 9
INVARIANTS
  GetscnWorks
