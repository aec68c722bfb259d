SPECIFICATION Spec
CONSTANTS
  Conn = {c1}
  Kinds = {"GET", "POST", "BARE", "BAD"}
  Cuts = {"head", "end", "body"}
  Pipelines = FALSE
  MaxRequests = 2
INVARIANTS
  HandedWhole
  RefusalHasCause
PROPERTIES
  ImplementsExchange
CHECK_DEADLOCK FALSE
