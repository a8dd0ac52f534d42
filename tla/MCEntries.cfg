SPECIFICATION Spec
CONSTANTS
  Tables <- MCTables
  Values <- MCValues
  Words <- MCWords
  Places <- MCPlaces
  Offsets <- MCOffsets
  MaxCalls = 2
VIEW View
INVARIANT Agree
PROPERTIES InBounds RefusalKeeps ReadsBack
CHECK_DEADLOCK FALSE
