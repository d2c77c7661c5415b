SPECIFICATION Spec
CONSTANTS
  Blocks = {1, 2}
  Traces = 2
  Helpers <- MCHelpers
  Imports = {"stdout"}
  Sig <- MCSig
  SymbolOf <- MCSymbolOf
  Captured <- MCCaptured
INVARIANTS
  FailsOnlyOnOddResult
  CodeKept
  Linkable
  NothingShadowed
  LibraryCallsKept
  ImportsBound
CHECK_DEADLOCK FALSE
