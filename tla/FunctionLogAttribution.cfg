SPECIFICATION Spec
CONSTANTS
  Pc = {1, 2, 3, 4}
  Module = {1, 2, 3}
  Owner <- MCOwner
  FnNames = {}
  Access = {}
  States = {0}
  FirstState = 0
  GuestMay = {}
  Preemptive = FALSE
  MaxDepth = 3
  MaxEntries = 3
  MaxStack = 5
CHECK_DEADLOCK FALSE
INVARIANTS BlocksBelongToFunction FollowUpInCaller ReturnsFromOwnBlock
