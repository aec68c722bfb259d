SPECIFICATION Spec
CONSTANTS
  User = {u1}
  Loop = loop
  Conn = {c1, c2}
  Listener = listener
  UserCalls = {"call.Listen", "call.Close"}
  StatesCalls = {}
  ReadCalls = {"call.Write", "call.WriteAll"}
  ListenFrom = {"Closed"}
  AcceptErrors = {}
  MaxCalls = 5
INVARIANTS
  NeverFaults
  QuietStateIsTrue
PROPERTIES
  KeepsLifecycle
CHECK_DEADLOCK FALSE
