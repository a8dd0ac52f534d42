SPECIFICATION Spec
CONSTANTS
  Word = 8
  Request <- MCRequest
  MaxExtents = 4
INVARIANTS
  SortedDisjoint
  RefusalJustified
