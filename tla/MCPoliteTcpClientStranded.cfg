SPECIFICATION Spec
CONSTANTS
  User = {u1}
  Loop = loop
  UserCalls = {"Connect", "Close", "Write"}
  StatesCalls = {}
  ReadCalls = {}
  ConnectFrom = {"Closed"}
  MaxCalls = 3
INVARIANTS
  NeverStranded
CHECK_DEADLOCK FALSE
