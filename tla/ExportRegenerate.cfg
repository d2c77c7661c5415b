SPECIFICATION Spec
CONSTANTS
  Pc = {1, 2}
  Sizes <- MCSizes
  States = {0, 1}
  FirstState = 0
  Preemptive = FALSE
  Retranslation = FALSE
  Interval = 2
  MaxFunctions = 4
  MaxTbs = 1
CHECK_DEADLOCK FALSE
INVARIANTS BestVersionFirst CapturedCoversTrace
