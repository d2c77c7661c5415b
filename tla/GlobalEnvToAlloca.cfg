SPECIFICATION Spec
CONSTANTS
  Regs <- MCRegs
  Modules <- MCModules
  Values = {0, 1}
  MaxFrames = 5
  Undef = undef
INVARIANTS
  ReadsLastWrite
  CrashesOnlyOnForeign
CHECK_DEADLOCK FALSE
