SPECIFICATION Spec
CONSTANTS
  Runs = {r1}
  Procs = {p1, p2}
  Modes = {"proxy", "quick", "named"}
  None = None
  MayAbandon = TRUE
  MaxRuns = 2
INVARIANTS StoppedMeansClosed
CHECK_DEADLOCK FALSE
