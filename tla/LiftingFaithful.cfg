SPECIFICATION Spec
CONSTANTS
  Pc <- MCPc
  FnNames = {}
  Access = {}
  Programs <- MCPrograms
  MaxCalls = 4
  MaxRuns = 2
  MaxFrames = 5
CHECK_DEADLOCK FALSE
INVARIANTS LiftSucceeds Faithful
