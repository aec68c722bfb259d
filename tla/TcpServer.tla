----------------------------- MODULE TcpServer -----------------------------
(***************************************************************************)
(* sample-net/tcp_server.h over sample-net/impl/libuv_tcp_server_impl.h.   *)
(* Application threads call Listen, Close, Write(connId) and Write (to     *)
(* all, here WriteAll); the network thread owns the listening socket and   *)
(* the accepted ones and reports what happens to them.  The server keeps   *)
(* its own state under stateMutex and a map from connection to state under *)
(* connStatesMutex.                                                        *)
(*                                                                         *)
(* As in TcpClient, every thread is a stack of calls in progress and a     *)
(* step executes the innermost one up to its next access to something      *)
(* shared.  A call is a name and the sockets it is about.                  *)
(***************************************************************************)
EXTENDS Naturals, Sequences

CONSTANTS
  User,          \* the application threads
  Loop,          \* the network thread
  Conn,          \* the connections, by connId: makeConnId never repeats one
  Listener,      \* ServerImpl::socket
  UserCalls,     \* the calls application threads make
  StatesCalls,   \* the calls handleStates and handleConnStates make
  ReadCalls,     \* the calls handleConnRead makes
  ListenFrom,    \* the states in which the application calls Listen
  AcceptErrors,  \* the errors of onConnection that happen: -101, -102
  MaxCalls       \* bound on the calls the application makes

Thread == User \cup {Loop}
Socket == Conn \cup {Listener}
ServerState == {"Closed", "Closing", "Listen", "Listening", "ListenFailed"}
AppCall == {"call.Listen", "call.Close", "call.Write", "call.WriteAll"}

ASSUME ThreadAssumption == Loop \notin User
ASSUME SocketAssumption == Listener \notin Conn
ASSUME CallsAssumption == /\ UserCalls \subseteq AppCall
                          /\ StatesCalls \subseteq AppCall
                          /\ ReadCalls \subseteq AppCall
                          /\ ListenFrom \subseteq ServerState
                          /\ AcceptErrors \subseteq {"-101", "-102"}
ASSUME BoundAssumption == MaxCalls \in Nat

(* What runs on the network thread for each method of IServer.             *)
EventCall == {"ListenOnEvent", "CloseOnEvent", "WriteOnEvent"}
ServerCall == {"server.Listen", "server.Close", "server.Write"}

(* SetConnState with Connected, Shutdown or Closed.                        *)
SetConn == {"conn.Connected", "conn.Shutdown", "conn.Closed"}

Op == AppCall \cup ServerState \cup SetConn \cup ServerCall \cup EventCall
        \cup {"GetConns", "close_cb"}
Frame == Op \X SUBSET Socket

(* A uv_tcp_t: not initialised; initialised but uv_listen failed;          *)
(* listening; accepted; no longer writable (after EOF or a read error);    *)
(* uv_close called; close callback reached.  A connection that is closed   *)
(* has left ServerImpl::connections.                                       *)
Phase == {"none", "init", "listening", "open", "shut", "closing", "closed"}

VARIABLES
  state,         \* TcpServer::state, under stateMutex
  connStates,    \* TcpServer::connStates; "none": no entry
  stack,         \* the calls in progress on each thread
  tasks,         \* posted to the network thread, oldest first
  batch,         \* how many of tasks the running onInit took
  drained,       \* onInit ran in this iteration of uv_run
  socket,        \* the listening socket and the accepted ones
  writes,        \* WriteReqs in flight on each connection
  shutdown_req,  \* the connections with a uv_shutdown_t in flight
  fault,         \* what ended the network thread
  calls          \* number of calls the application made

vars == <<state, connStates, stack, tasks, batch, drained, socket, writes,
          shutdown_req, fault, calls>>
stateVars == <<state, connStates>>
queueVars == <<tasks, batch, drained>>
socketVars == <<socket, writes, shutdown_req, fault>>

TypeOK ==
  /\ state \in ServerState
  /\ connStates \in [Conn -> {"none", "Connected", "Shutdown"}]
  /\ stack \in [Thread -> Seq(Frame)]
  /\ tasks \in Seq(EventCall \X SUBSET Socket)
  /\ batch \in 0..Len(tasks)
  /\ drained \in BOOLEAN
  /\ socket \in [Socket -> Phase]
  /\ writes \in [Conn -> Nat]
  /\ shutdown_req \in SUBSET Conn
  /\ fault \in {"none", "misuse", "null_id"}
  /\ calls \in 0..MaxCalls

Init ==
  /\ state = "Closed"
  /\ connStates = [c \in Conn |-> "none"]
  /\ stack = [t \in Thread |-> << >>]
  /\ tasks = << >>
  /\ batch = 0
  /\ drained = FALSE
  /\ socket = [s \in Socket |-> "none"]
  /\ writes = [c \in Conn |-> 0]
  /\ shutdown_req = {}
  /\ fault = "none"
  /\ calls = 0

-----------------------------------------------------------------------------
(* Calls in progress. *)

L == stack[Loop]

Top(t, op, S) == stack[t] # << >> /\ Head(stack[t]) = <<op, S>>

(* The innermost call of t returns after making the calls in frames.       *)
Continue(t, frames) ==
  stack' = [stack EXCEPT ![t] = frames \o Tail(stack[t])]
Return(t) == Continue(t, << >>)
LoopCalls(frames) == stack' = [stack EXCEPT ![Loop] = frames]

(* CheckIsRunning(ServerState) *)
CheckIsRunning(s) == s \in {"Listen", "Listening"}

GetConns(s) == {c \in Conn : connStates[c] = s}

(* connections.find, findConnection *)
Found(c) == socket[c] \in {"open", "shut", "closing"}

(* Mutant: an error is reported as Closed. *)
ShutdownAndClose_Closed(c) == <<<<"conn.Closed", {c}>>, <<"server.Close", {c}>>>>

(* Mutant: the connection is not closed after an error. *)
ShutdownAndClose_NoClose(c) == <<<<"conn.Shutdown", {c}>>>>

(* Mutant: the connection is closed without a word. *)
ShutdownAndClose_Silent(c) == <<<<"server.Close", {c}>>>>

(* OnConnWrite and OnConnRead with an error. *)
ShutdownAndClose(c) == <<<<"conn.Shutdown", {c}>>, <<"server.Close", {c}>>>>

(* n write requests of c that end with an error.                           *)
FailWrites(c, n) == [i \in 1..2 * n |-> IF i % 2 = 1 THEN <<"conn.Shutdown", {c}>>
                                        ELSE <<"server.Close", {c}>>]

(* The calls among allowed, where Write(connId) is about one of conns.     *)
CallsOf(allowed, conns) ==
  {<<op, {}>> : op \in {o \in allowed \ {"call.Write"} : o = "call.Listen" => state \in ListenFrom}}
    \cup {<<op, {c}>> : op \in allowed \cap {"call.Write"}, c \in conns}

(* What a callback does: nothing or one call. *)
Callback(allowed, conns) == {<< >>} \cup {<<f>> : f \in CallsOf(allowed, conns)}

Calls(call) == /\ calls + Len(call) <= MaxCalls
               /\ calls' = calls + Len(call)

-----------------------------------------------------------------------------
(* TcpServer: the calls of the application, on any thread. *)

(* Applications know the connections they were told about. *)
UserCall(u) ==
  /\ stack[u] = << >>
  /\ \E f \in CallsOf(UserCalls, {c \in Conn : socket[c] # "none"}) :
       /\ stack' = [stack EXCEPT ![u] = <<f>>]
       /\ Calls(<<f>>)
  /\ UNCHANGED <<stateVars, queueVars, socketVars>>

(* Mutant: Listen posts the operation before it sets the state. *)
Listen_PostsFirst(t) ==
  /\ Top(t, "call.Listen", {})
  /\ IF CheckIsRunning(state)
     THEN Return(t)
     ELSE Continue(t, <<<<"server.Listen", {Listener}>>, <<"Listen", {}>>>>)
  /\ UNCHANGED <<stateVars, queueVars, socketVars, calls>>

Listen(t) ==
  /\ Top(t, "call.Listen", {})
  /\ IF CheckIsRunning(state)
     THEN Return(t)
     ELSE Continue(t, <<<<"Listen", {}>>, <<"server.Listen", {Listener}>>>>)
  /\ UNCHANGED <<stateVars, queueVars, socketVars, calls>>

Close(t) ==
  /\ Top(t, "call.Close", {})
  /\ IF state \in {"Closed", "Closing"}
     THEN Return(t)
     ELSE Continue(t, <<<<"Closing", {}>>, <<"server.Close", {Listener}>>>>)
  /\ UNCHANGED <<stateVars, queueVars, socketVars, calls>>

Write(t) ==
  /\ \E c \in Conn :
       /\ Top(t, "call.Write", {c})
       /\ IF CheckIsRunning(state)
          THEN Continue(t, <<<<"server.Write", {c}>>>>)
          ELSE Return(t)
  /\ UNCHANGED <<stateVars, queueVars, socketVars, calls>>

(* Write to all: the state is read first, then the map. *)
WriteAll(t) ==
  /\ \/ /\ Top(t, "call.WriteAll", {})
        /\ IF CheckIsRunning(state)
           THEN Continue(t, <<<<"GetConns", {}>>>>)
           ELSE Return(t)
     \/ /\ Top(t, "GetConns", {})
        /\ Continue(t, <<<<"server.Write", GetConns("Connected")>>>>)
  /\ UNCHANGED <<stateVars, queueVars, socketVars, calls>>

(* SetState(s): the assignment under the lock, then handleStates.          *)
SetState(t) ==
  \E s \in ServerState :
    /\ Top(t, s, {})
    /\ state' = s
    /\ \E call \in Callback(StatesCalls, {}) : Calls(call) /\ Continue(t, call)
    /\ UNCHANGED <<connStates, queueVars, socketVars>>

(* SetConnState(c, s): erase or assignment under the lock, then            *)
(* handleConnStates.                                                       *)
SetConnState(t) ==
  \E op \in SetConn, c \in Conn :
    /\ Top(t, op, {c})
    /\ connStates' = [connStates EXCEPT ![c] =
                        CASE op = "conn.Connected" -> "Connected"
                          [] op = "conn.Shutdown"  -> "Shutdown"
                          [] op = "conn.Closed"    -> "none"]
    /\ \E call \in Callback(StatesCalls, {c}) : Calls(call) /\ Continue(t, call)
    /\ UNCHANGED <<state, queueVars, socketVars>>

(* Mutant: an operation is posted ahead of those that wait. *)
Runs_PostsFront(t, event, rest) ==
  IF t = Loop
  THEN Continue(t, <<event>> \o rest) /\ UNCHANGED tasks
  ELSE Continue(t, rest) /\ tasks' = <<event>> \o tasks

(* Execute event: at once on the network thread, posted from any other.    *)
Runs(t, event, rest) ==
  IF t = Loop
  THEN Continue(t, <<event>> \o rest) /\ UNCHANGED tasks
  ELSE Continue(t, rest) /\ tasks' = Append(tasks, event)

(* ServerImpl::Listen, Close() and Close(connId).                          *)
ServerImpl(t) ==
  /\ \E s \in Socket :
       \/ Top(t, "server.Listen", {s}) /\ Runs(t, <<"ListenOnEvent", {s}>>, << >>)
       \/ Top(t, "server.Close", {s}) /\ Runs(t, <<"CloseOnEvent", {s}>>, << >>)
  /\ UNCHANGED <<stateVars, batch, drained, socketVars, calls>>

(* ServerImpl::Write, once for each connection, in any order.              *)
ServerImplWrite(t) ==
  /\ \E S \in SUBSET Conn :
       /\ Top(t, "server.Write", S)
       /\ \/ S = {} /\ Return(t) /\ UNCHANGED tasks
          \/ \E c \in S : Runs(t, <<"WriteOnEvent", {c}>>,
                               <<<<"server.Write", S \ {c}>>>>)
  /\ UNCHANGED <<stateVars, batch, drained, socketVars, calls>>

-----------------------------------------------------------------------------
(* The network thread: the queue. *)

LoopFree == L = << >> /\ fault = "none"
LoopIdle == LoopFree /\ batch = 0

Drain ==
  /\ LoopIdle
  /\ ~drained
  /\ tasks # << >>
  /\ batch' = Len(tasks)
  /\ drained' = TRUE
  /\ UNCHANGED <<stateVars, stack, tasks, socketVars, calls>>

RunTask ==
  /\ LoopFree
  /\ batch > 0
  /\ stack' = [stack EXCEPT ![Loop] = <<Head(tasks)>>]
  /\ tasks' = Tail(tasks)
  /\ batch' = batch - 1
  /\ UNCHANGED <<stateVars, drained, socketVars, calls>>

-----------------------------------------------------------------------------
(* The network thread: operations on the sockets. *)

(* The network thread ends here: a libuv call the handle does not allow,   *)
(* or the connId 0 of onConnection, a null pointer turned into a string.   *)
Ends(f) ==
  /\ fault' = f
  /\ LoopCalls(<< >>)
  /\ UNCHANGED <<stateVars, queueVars, socket, writes, shutdown_req, calls>>

(* uv_tcp_init, uv_tcp_bind and uv_listen; the result is reported at once. *)
ListenOnEvent ==
  /\ Top(Loop, "ListenOnEvent", {Listener})
  /\ \/ socket[Listener] \notin {"none", "closed"} /\ Ends("misuse")
     \/ /\ socket[Listener] \in {"none", "closed"}
        /\ \/ /\ socket' = [socket EXCEPT ![Listener] = "listening"]
              /\ Continue(Loop, <<<<"Listening", {}>>>>)
           \/ /\ socket' = [socket EXCEPT ![Listener] = "init"]
              /\ Continue(Loop, <<<<"ListenFailed", {}>>>>)
        /\ UNCHANGED <<stateVars, queueVars, writes, shutdown_req, fault, calls>>

(* Mutant: no test whether the connection is gone. *)
WriteOnEvent_Unchecked ==
  /\ \E c \in Conn :
       /\ Top(Loop, "WriteOnEvent", {c})
       /\ writes' = [writes EXCEPT ![c] = @ + 1]
  /\ Return(Loop)
  /\ UNCHANGED <<stateVars, queueVars, socket, shutdown_req, fault, calls>>

(* A connection that is gone (-302) or not writable (-300) is an error.    *)
WriteOnEvent ==
  /\ \E c \in Conn :
       /\ Top(Loop, "WriteOnEvent", {c})
       /\ IF socket[c] = "open"
          THEN writes' = [writes EXCEPT ![c] = @ + 1] /\ Return(Loop)
          ELSE UNCHANGED writes /\ Continue(Loop, ShutdownAndClose(c))
  /\ UNCHANGED <<stateVars, queueVars, socket, shutdown_req, fault, calls>>

(* Mutant: only a connection still read from is closed. *)
CloseConnOnEvent_OnlyOpen ==
  /\ \E c \in Conn :
       /\ Top(Loop, "CloseOnEvent", {c})
       /\ socket' = [socket EXCEPT ![c] = IF @ = "open" THEN "closing" ELSE @]
  /\ Return(Loop)
  /\ UNCHANGED <<stateVars, queueVars, writes, shutdown_req, fault, calls>>

(* CloseOnEvent(connId): nothing when the connection is gone, else         *)
(* uv_close unless uv_is_closing.                                          *)
CloseConnOnEvent ==
  /\ \E c \in Conn :
       /\ Top(Loop, "CloseOnEvent", {c})
       /\ socket' = [socket EXCEPT ![c] = IF Found(c) THEN "closing" ELSE @]
  /\ Return(Loop)
  /\ UNCHANGED <<stateVars, queueVars, writes, shutdown_req, fault, calls>>

(* CloseOnEvent(): the listening socket only; connections stay open.       *)
CloseOnEvent ==
  /\ Top(Loop, "CloseOnEvent", {Listener})
  /\ \/ socket[Listener] = "none" /\ Ends("misuse")
     \/ /\ socket[Listener] # "none"
        /\ socket' = [socket EXCEPT ![Listener] = IF @ = "closed" THEN @ ELSE "closing"]
        /\ Return(Loop)
        /\ UNCHANGED <<stateVars, queueVars, writes, shutdown_req, fault, calls>>

-----------------------------------------------------------------------------
(* The network thread: libuv's callbacks. *)

(* onConnection: the connection is accepted and read from; or uv_accept    *)
(* fails (-102) and its handle is closed; or accept itself failed (-101).  *)
(* OnNewConn sets Connected in each case.                                  *)
OnConnection ==
  /\ LoopIdle
  /\ socket[Listener] = "listening"
  /\ \/ \E c \in Conn, s \in {"open"} \cup {"closed" : e \in AcceptErrors \cap {"-102"}} :
          /\ socket[c] = "none"
          /\ socket' = [socket EXCEPT ![c] = s]
          /\ LoopCalls(<<<<"conn.Connected", {c}>>>>)
          /\ UNCHANGED <<stateVars, queueVars, writes, shutdown_req, fault, calls>>
     \/ "-101" \in AcceptErrors /\ Ends("null_id")

(* onRead with data: handleConnRead may call back into the server.         *)
OnReadData ==
  /\ LoopIdle
  /\ \E c \in Conn :
       /\ socket[c] = "open"
       /\ \E call \in Callback(ReadCalls, {c}) : Calls(call) /\ LoopCalls(call)
  /\ UNCHANGED <<stateVars, queueVars, socketVars>>

(* onRead with UV_EOF: uv_shutdown; its callback reports the EOF once the  *)
(* queued writes are out.                                                  *)
OnReadEof ==
  /\ LoopIdle
  /\ \E c \in Conn :
       /\ socket[c] = "open"
       /\ socket' = [socket EXCEPT ![c] = "shut"]
       /\ shutdown_req' = shutdown_req \cup {c}
  /\ UNCHANGED <<stateVars, stack, queueVars, writes, fault, calls>>

OnShutdown ==
  /\ LoopIdle
  /\ \E c \in shutdown_req :
       /\ socket[c] = "shut"
       /\ writes[c] = 0
       /\ shutdown_req' = shutdown_req \ {c}
       /\ LoopCalls(ShutdownAndClose(c))
  /\ UNCHANGED <<stateVars, queueVars, socket, writes, fault, calls>>

(* onRead with any other error (-200). *)
OnReadError ==
  /\ LoopIdle
  /\ \E c \in Conn :
       /\ socket[c] = "open"
       /\ socket' = [socket EXCEPT ![c] = "shut"]
       /\ LoopCalls(ShutdownAndClose(c))
  /\ UNCHANGED <<stateVars, queueVars, writes, shutdown_req, fault, calls>>

(* onWrite: TcpServer::OnConnWrite ignores success; -301 shuts down.       *)
OnWrite(ok) ==
  /\ LoopIdle
  /\ \E c \in Conn :
       /\ writes[c] > 0
       /\ socket[c] \in {"open", "shut"}
       /\ writes' = [writes EXCEPT ![c] = @ - 1]
       /\ IF ok THEN UNCHANGED stack ELSE LoopCalls(ShutdownAndClose(c))
  /\ UNCHANGED <<stateVars, queueVars, socket, shutdown_req, fault, calls>>

(* The end of an iteration of uv_run.  A connection being closed answers   *)
(* its requests first: the writes (those already written succeed, the      *)
(* others are cancelled), then the shutdown.                               *)
FinishClose(s) ==
  /\ socket[s] = "closing"
  /\ IF s = Listener
     THEN LoopCalls(<<<<"close_cb", {s}>>>>) /\ UNCHANGED <<writes, shutdown_req>>
     ELSE \E n \in 0..writes[s] :
            /\ LoopCalls(FailWrites(s, n)
                         \o (IF s \in shutdown_req THEN ShutdownAndClose(s) ELSE << >>)
                         \o <<<<"close_cb", {s}>>>>)
            /\ writes' = [writes EXCEPT ![s] = 0]
            /\ shutdown_req' = shutdown_req \ {s}

EndIteration ==
  /\ LoopIdle
  /\ drained' = FALSE
  /\ \/ /\ drained
        /\ \A s \in Socket : socket[s] # "closing"
        /\ UNCHANGED <<stack, writes, shutdown_req>>
     \/ \E s \in Socket : FinishClose(s)
  /\ UNCHANGED <<stateVars, tasks, batch, socket, fault, calls>>

(* onClose of a connection: erased from connections, then OnCloseConn; of  *)
(* the listening socket: OnClose.                                          *)
OnClose ==
  /\ \E s \in Socket :
       /\ Top(Loop, "close_cb", {s})
       /\ socket' = [socket EXCEPT ![s] = "closed"]
       /\ Continue(Loop, IF s = Listener THEN <<<<"Closed", {}>>>>
                                         ELSE <<<<"conn.Closed", {s}>>>>)
  /\ UNCHANGED <<stateVars, queueVars, writes, shutdown_req, fault, calls>>

-----------------------------------------------------------------------------
ThreadStep(t) ==
  \/ Listen(t) \/ Close(t) \/ Write(t) \/ WriteAll(t)
  \/ SetState(t) \/ SetConnState(t) \/ ServerImpl(t) \/ ServerImplWrite(t)

LoopStep == \/ Drain \/ RunTask
            \/ ListenOnEvent \/ WriteOnEvent \/ CloseConnOnEvent \/ CloseOnEvent
            \/ OnShutdown \/ EndIteration \/ OnClose

Next ==
  \/ \E u \in User : UserCall(u)
  \/ \E t \in Thread : ThreadStep(t)
  \/ LoopStep
  \/ OnConnection \/ OnReadData \/ OnReadEof \/ OnReadError
  \/ \E ok \in BOOLEAN : OnWrite(ok)

(* Threads are scheduled; nobody has to call, connect, send or receive.    *)
Fairness == /\ \A t \in Thread : WF_vars(ThreadStep(t))
            /\ WF_vars(LoopStep)

Spec == Init /\ [][Next]_vars /\ Fairness

-----------------------------------------------------------------------------
(* tcp_server.h:126 erases the entry find() returned: it is always there,  *)
(* although entries come and go with the writes of other threads.          *)
ErasesPresent ==
  \A c \in Conn : Top(Loop, "conn.Closed", {c}) => connStates[c] # "none"

(* No request outlives its connection: once the close callback ran, every  *)
(* write and shutdown was answered and nobody uses the freed handle.       *)
RequestsAnswered ==
  \A c \in Conn : /\ socket[c] \in {"none", "closed"} => writes[c] = 0
                  /\ c \in shutdown_req => socket[c] \in {"shut", "closing"}

(* Between callbacks, a connection that is read from has the entry         *)
(* Connected, and one whose end was seen at least an entry.                *)
EntriesTrue ==
  LoopIdle => \A c \in Conn :
    /\ socket[c] = "open" => connStates[c] = "Connected"
    /\ socket[c] \in {"shut", "closing"} => connStates[c] # "none"
    /\ socket[c] = "none" => connStates[c] = "none"

(* A connection shut down after an error is closed and leaves the map      *)
(* connections, unless the network thread ended.                           *)
ShutdownCloses ==
  \A c \in Conn :
    (connStates[c] = "Shutdown" /\ Found(c)) ~> (socket[c] = "closed" \/ fault # "none")

(* net_states.h:44, Shutdown "-> Closing": a connection shut down after a  *)
(* read or write error is closed, and a closed one has no entry.           *)
ShutdownEnds == \A c \in Conn : connStates[c] = "Shutdown" ~> connStates[c] = "none"

(* net_states.h:37, Connected "success": a connection shown as Connected   *)
(* was accepted and not closed.                                            *)
ConnectedIsFound ==
  \A c \in Conn : connStates[c] = "Connected" =>
    Found(c) \/ Top(Loop, "conn.Closed", {c})
=============================================================================
