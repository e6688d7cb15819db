CONSTANTS
  c1 = c1
  c2 = c2
  k1 = k1
  k2 = k2
  Controllers = {c1, c2}
  Pids = {k1, k2}
  Ports = {8088}
  None = None
  MayDie = TRUE
  MayMisread = TRUE
  MayRecycle = TRUE
  QuickRecycle = FALSE
  MaxRuns = 2
  MaxAliens = 0
SPECIFICATION FairSpec
INVARIANTS
  TypeOK
  NoOrphan
  OneBackend
  SignalsOnlyBackends
PROPERTIES
  StopCompletes
  RunsReturn
CHECK_DEADLOCK FALSE
