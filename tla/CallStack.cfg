SPECIFICATION Spec
CONSTANTS
  Functions = {f}
  Instructions = {1, 2}
  Addresses = {1, 2, 3, 4}
  MaxDepth = 3
  MaxRecorded = 2
INVARIANTS
  FramesDescend
  AbortsOnlyOnStale
PROPERTY FreedByReturnOnly
CHECK_DEADLOCK FALSE
