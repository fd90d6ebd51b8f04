\* ReadFuncParams returns after its last parameter: the model stops there.
CONSTANTS
  Descriptors <- MCDescriptors
  MaxParams = 3
  WordBytes = 4
  ByteBits = 4
  MemBase = 4
  MemBytes <- MCMemBytes
  Instrs <- MCInstrs
  MaxLoc = 2
  Regs <- MCRegs
  FrameBase = 4
  Garbage = {0, 6}
SPECIFICATION Spec
INVARIANTS
  ParamListShape
  ReportedValuesMatchMemory
CHECK_DEADLOCK FALSE
