SPECIFICATION Spec
VIEW View
CONSTANTS
  Images <- MCAll
  Shifts = {1, 4}
  MaxCalls = 3
CHECK_DEADLOCK FALSE
INVARIANTS
  Translated
  WalksAgree
PROPERTIES
  Confined
