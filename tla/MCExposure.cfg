SPECIFICATION Spec
CONSTANTS
  Runs = {r1, r2}
  Procs = {p1, p2, p3}
  Modes = {"proxy", "quick", "named"}
  None = None
  MayAbandon = TRUE
  MaxRuns = 3
INVARIANTS TypeOK IngressAccounted FailClosed CleanupOfOwn
SYMMETRY RunSymmetry
CHECK_DEADLOCK FALSE
