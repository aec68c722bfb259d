SPECIFICATION Spec
CONSTANTS
  User = {u1}
  UserCalls = {"Start", "StartWith", "Stop", "SetCbk"}
  CallbackCalls = {}
  MaxCalls = 6
INVARIANTS
  OneThread
  StopIsFinal
PROPERTIES
  StopReturns
CHECK_DEADLOCK FALSE
