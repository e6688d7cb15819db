CONSTANTS
  p1 = p1
  p2 = p2
  p3 = p3
  Runs = {p1, p2, p3}
  Nobody = Nobody
  MayCrash = TRUE
  MayRecycle = TRUE
  MaxStarts = 4
SPECIFICATION Spec
SYMMETRY RunSymmetry
INVARIANTS
  TypeOK
  ExclusiveUnlessOverlap
  RefusedOnlyByRival
  CleanExit
CHECK_DEADLOCK FALSE
