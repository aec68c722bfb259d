SPECIFICATION Spec
CONSTANTS
  Client = {c1, c2}
  Waits = {c1}
  OneAtATime = TRUE
  threadPoolSize = 2
  MaxRequests = 3
  MaxTotal = 4
INVARIANTS
  CurlIsUp
  FutureMeansOver
  WaitersSafe

  
CHECK_DEADLOCK FALSE
