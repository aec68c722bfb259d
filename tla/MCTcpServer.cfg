SPECIFICATION Spec
CONSTANTS
  User = {u1}
  Loop = loop
  Conn = {c1, c2}
  Listener = listener
  UserCalls = {"call.Listen", "call.Close", "call.Write", "call.WriteAll"}
  StatesCalls = {"call.Listen", "call.Close", "call.Write", "call.WriteAll"}
  ReadCalls = {"call.Close", "call.Write", "call.WriteAll"}
  ListenFrom = {"Closed", "ListenFailed"}
  AcceptErrors = {"-101", "-102"}
  MaxCalls = 3
INVARIANTS
  ErasesPresent
  RequestsAnswered
  EntriesTrue
PROPERTIES
  ShutdownCloses
CHECK_DEADLOCK FALSE
