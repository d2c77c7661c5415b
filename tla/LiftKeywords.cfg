SPECIFICATION Spec
CONSTANTS
  Pythons = {py}
  Tools = {}
  Dirs = {home, t1}
  Home = home
  Limits = {0, 100000}
  DefaultLimit = 100
  None = None
  LiftFlags <- MCAllFlags
  MaxRemoved = 0
  WorkDirs = {w1}
  Binaries <- MCBinaries
  NewCode <- MCNewCode
INVARIANTS
  LiftAsDocumented
CHECK_DEADLOCK FALSE
