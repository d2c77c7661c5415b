SPECIFICATION Spec
CONSTANTS
  Pc = {1, 2}
  Module = {1}
  Owner <- MCOwnerSingle
  FnNames = {}
  Access = {}
  States = {0, 1}
  FirstState = 0
  GuestMay = {"longjmp", "jump", "reenter"}
  Preemptive = FALSE
  MaxDepth = 2
  MaxEntries = 3
  MaxStack = 4
CHECK_DEADLOCK FALSE
INVARIANTS TypeOK CopyAvailable ReturnFindsFrame FramesKept FinalEntriesReal
PROPERTY TracesIsolated
