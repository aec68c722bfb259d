SPECIFICATION Spec
CONSTANTS
  User = {u1}
  Loop = loop
  UserCalls = {"Connect", "Close", "Write"}
  StatesCalls = {}
  ReadCalls = {"Write", "Close"}
  ConnectFrom = {"Closed"}
  MaxCalls = 6
INVARIANTS
  RequestsAnswered
  ClosedIsReleased
  QuietStateIsTrue
PROPERTIES
  NoStaleCallback
  KeepsUvContract
  CloseReleases
CHECK_DEADLOCK FALSE
