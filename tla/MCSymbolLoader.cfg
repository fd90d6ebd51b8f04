\* LoadMapFromMemory returns after the last line: the loader stops.
CONSTANTS
  Width = 3
  LongBits = 3
  Records <- MCRecords
  WinTypes = {0, 4}
  MaxLines = 4
  kMaxErrorsBeforeBailing = 2
SPECIFICATION Spec
INVARIANTS
  LineAttribution
  ErrorAccounting
PROPERTY
  IndexRefinement
CHECK_DEADLOCK FALSE
