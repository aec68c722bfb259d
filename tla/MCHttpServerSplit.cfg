SPECIFICATION Spec
CONSTANTS
  Conn = {c1}
  Kinds = {"GET"}
  Cuts = {"head"}
  Pipelines = FALSE
  MaxRequests = 1
INVARIANTS
  ErrorMeansMalformed
CHECK_DEADLOCK FALSE
