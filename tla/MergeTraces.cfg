SPECIFICATION FairSpec
CONSTANTS
  Pc = {1}
  FnNames = {}
  Access = {}
  States = {0, 1}
  FirstState = 0
  Preemptive = FALSE
  Interval = 2
  MaxEntries = 1
  Base = 10
  MaxDirs = 2
  MaxMerges = 2
CHECK_DEADLOCK FALSE
INVARIANTS MergedCovers InfoPresent NothingLost
PROPERTY MergeEnds
