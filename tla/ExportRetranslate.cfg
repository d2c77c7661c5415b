SPECIFICATION Spec
CONSTANTS
  Pc = {1}
  Sizes <- MCSizes
  States = {0}
  FirstState = 0
  Preemptive = FALSE
  Retranslation = TRUE
  Interval = 0
  MaxFunctions = 5
  MaxTbs = 3
CHECK_DEADLOCK FALSE
INVARIANTS FinalizedKept TracedCodeKept
