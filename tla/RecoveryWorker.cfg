SPECIFICATION Spec
CONSTANTS
  Traces = {t1, t2}
  Projects = {p1}
  Handlers = {h1, h2}
  t1 = t1
  t2 = t2
  p1 = p1
  h1 = h1
  h2 = h2
  MaxTraces = 1
  MaxJobs = 2
  MaxEdits = 1
SYMMETRY Interchangeable
CHECK_DEADLOCK FALSE
INVARIANTS SingleWorker NoStaleFile ResultIsLast
PROPERTY SuccessCovers
