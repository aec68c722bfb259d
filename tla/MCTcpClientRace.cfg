SPECIFICATION Spec
CONSTANTS
  User = {u1, u2}
  Loop = loop
  UserCalls = {"Connect", "Close", "Write"}
  StatesCalls = {}
  ReadCalls = {}
  ConnectFrom = {"Closed"}
  MaxCalls = 2
INVARIANTS
  NoLiveInit
CHECK_DEADLOCK FALSE
