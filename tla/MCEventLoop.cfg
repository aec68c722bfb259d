SPECIFICATION Spec
CONSTANTS
  Poster = {p1, p2}
  Owner = owner0
  Stop = stop
  MaxPosts = 2
INVARIANTS
  NoLostWakeup
  StopWaitsForEarlier
PROPERTIES
  StopReturns
  ImplementsMailbox
CHECK_DEADLOCK FALSE
