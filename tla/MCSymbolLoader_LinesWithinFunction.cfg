CONSTANTS
  Width = 3
  LongBits = 3
  Records <- MCRecords
  WinTypes = {0, 4}
  MaxLines = 4
  kMaxErrorsBeforeBailing = 2
SPECIFICATION Spec
INVARIANT LinesWithinFunction
CHECK_DEADLOCK FALSE
