CONSTANTS
  WordBits = 16
  Instrs <- MCInstrs
  MaxProg = 3
  Regs <- MCRegsFn
  FrameBase = 4
  Memory <- MCMemory
  Garbage = {0, 9}
SPECIFICATION Spec
INVARIANTS
  UnknownOpFails
CHECK_DEADLOCK FALSE
