SPECIFICATION Spec
CONSTANTS
  User = {u1, u2}
  Owner = owner0
  Threads = 2
  MaxPool = 3
  QueueLimit = 2
  Limits = {0, 1, 2}
  UserCalls = {"MoveToThread", "Resize", "set_queue_size_limit"}
  TaskCalls = {"MoveToThread", "Resize"}
  MaxCalls = 4
INVARIANTS
  SlotsMatch
  InFlightCounts
  NeverRefused
  NoIdleWorker
  NoLostProducer
PROPERTIES
  DestructorReturns
  ImplementsTaskPool
  
CHECK_DEADLOCK FALSE
