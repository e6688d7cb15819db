CONSTANTS
  Capacity = 5
  Cost = 2
  Rate = 1
  MaxStall = 2
  MaxTime = 9
SPECIFICATION BucketSpec
INVARIANTS
  BucketTypeOK
  WindowBound
CHECK_DEADLOCK FALSE
