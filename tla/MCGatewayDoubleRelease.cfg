CONSTANTS
  h1 = h1
  h2 = h2
  Handlers = {h1, h2}
  Requests <- OrdinaryAndRejected
  MayVanish = TRUE
  MaxRequests = 4
  MaxMessages = 2
  MaxSingle = 2
  MaxAggregate = 3
  MaxTokens = 2
  Deadline = 1
  Capacity = 2
  Cost = 1
  Rate = 1
  MaxStall = 1
  MaxTime = 2
SPECIFICATION Spec
INVARIANT SingleInference
CHECK_DEADLOCK FALSE
