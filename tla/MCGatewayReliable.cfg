CONSTANTS
  h1 = h1
  h2 = h2
  Handlers = {h1, h2}
  Requests <- Ordinary
  MayVanish = FALSE
  MaxRequests = 3
  MaxMessages = 2
  MaxSingle = 2
  MaxAggregate = 3
  MaxTokens = 2
  Deadline = 2
  Capacity = 2
  Cost = 1
  Rate = 1
  MaxStall = 1
  MaxTime = 2
SPECIFICATION FairSpec
PROPERTIES
  AdmissionImplemented
  BucketImplemented
  SlotFreed
  HandlersReturn
CHECK_DEADLOCK FALSE
