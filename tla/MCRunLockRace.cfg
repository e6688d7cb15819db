CONSTANTS
  p1 = p1
  p2 = p2
  Runs = {p1, p2}
  Nobody = Nobody
  MayCrash = FALSE
  MayRecycle = FALSE
  MaxStarts = 2
SPECIFICATION Spec
INVARIANT MutualExclusion
CHECK_DEADLOCK FALSE
