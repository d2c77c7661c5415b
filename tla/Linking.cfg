SPECIFICATION Spec
CONSTANTS
  Pythons = {py}
  Tools = {tool}
  Dirs = {home, t1, t2}
  Home = home
  Limits = {0, 100000}
  DefaultLimit = 100
  None = None
  LiftFlags <- MCUsed
  MaxRemoved = 1
  WorkDirs = {w1, w2}
  Binaries <- MCBinaries
  NewCode <- MCNewCode
SYMMETRY MCSymmetry
INVARIANTS
  CwdKept
  RunsAsAsked
  TempRemoved
  SectionsInPlace
  WorkRemoved
CHECK_DEADLOCK FALSE
