----------------------------- MODULE TcpClient -----------------------------
(***************************************************************************)
(* sample-net/tcp_client.h over sample-net/impl/libuv_tcp_client_impl.h.   *)
(* Application threads call Connect, Close and Write; TcpClient tests and  *)
(* sets the connection state under stateMutex, one access at a time, and   *)
(* hands the socket operation to the network thread, which alone touches   *)
(* the uv_tcp_t.  libuv's callbacks set the state on the network thread.   *)
(*                                                                         *)
(* Every thread is a stack of calls in progress, innermost first, and one  *)
(* step executes the innermost call up to its next access to something     *)
(* shared.  The functions posted with moveToThread are the queue EventLoop *)
(* implements (module Mailbox); the network thread takes all of it once    *)
(* per iteration of uv_run.                                                *)
(***************************************************************************)
EXTENDS Naturals, Sequences

CONSTANTS
  User,         \* the application threads
  Loop,         \* the network thread
  UserCalls,    \* the calls application threads make
  StatesCalls,  \* the calls the application's handleStates callback makes
  ReadCalls,    \* the calls the application's handleRead callback makes
  ConnectFrom,  \* the states in which the application calls Connect
  MaxCalls      \* bound on the calls the application makes

ConnectionState == {"Closed", "Closing", "Connecting", "Connected",
                    "ConnFailed", "Shutdown"}
Call == {"Connect", "Close", "Write"}
Thread == User \cup {Loop}

ASSUME ThreadAssumption == Loop \notin User
ASSUME CallsAssumption == /\ UserCalls \subseteq Call
                          /\ StatesCalls \subseteq Call
                          /\ ReadCalls \subseteq Call
                          /\ ConnectFrom \subseteq ConnectionState
ASSUME BoundAssumption == MaxCalls \in Nat

(* IClient's methods, and what each of them runs on the network thread.    *)
ClientCall == {"client.Connect", "client.Close", "client.Write"}
EventCall == {"ConnectOnEvent", "CloseOnEvent", "WriteOnEvent"}
OnEvent == [c \in ClientCall |-> CASE c = "client.Connect" -> "ConnectOnEvent"
                                   [] c = "client.Close"   -> "CloseOnEvent"
                                   [] c = "client.Write"   -> "WriteOnEvent"]

(* A call in progress; a ConnectionState s stands for SetState(s).         *)
Frame == Call \cup ConnectionState \cup ClientCall \cup EventCall
           \cup {"flush_writes", "close_cb"}

(* The uv_tcp_t: zeroed, initialised without a file descriptor, with a     *)
(* connect started or failed, connected, no longer writable (after EOF or  *)
(* a read error), uv_close called, close callback reached.  "broken": a    *)
(* libuv call was made that the handle does not allow; libuv's lists are   *)
(* corrupted or an assertion fails, and the model stops there.             *)
Handle == {"none", "init", "socket", "stream", "shut", "closing", "closed",
           "broken"}

VARIABLES
  state,         \* TcpClient::state, under stateMutex
  stack,         \* the calls in progress on each thread
  tasks,         \* posted to the network thread, oldest first
  batch,         \* how many of tasks the running onInit took
  drained,       \* onInit ran in this iteration of uv_run
  handle,        \* ClientImpl::socket
  connect_req,   \* a uv_connect_t is in flight
  writes,        \* WriteReqs in flight
  shutdown_req,  \* a uv_shutdown_t is in flight
  calls          \* number of calls the application made

vars == <<state, stack, tasks, batch, drained, handle, connect_req, writes,
          shutdown_req, calls>>
queueVars == <<tasks, batch, drained>>
socketVars == <<handle, connect_req, writes, shutdown_req>>

TypeOK ==
  /\ state \in ConnectionState
  /\ stack \in [Thread -> Seq(Frame)]
  /\ tasks \in Seq(EventCall)
  /\ batch \in 0..Len(tasks)
  /\ drained \in BOOLEAN
  /\ handle \in Handle
  /\ connect_req \in BOOLEAN
  /\ writes \in Nat
  /\ shutdown_req \in BOOLEAN
  /\ calls \in 0..MaxCalls

Init ==
  /\ state = "Closed"
  /\ stack = [t \in Thread |-> << >>]
  /\ tasks = << >>
  /\ batch = 0
  /\ drained = FALSE
  /\ handle = "none"
  /\ connect_req = FALSE
  /\ writes = 0
  /\ shutdown_req = FALSE
  /\ calls = 0

-----------------------------------------------------------------------------
(* Calls in progress. *)

(* The network thread's stack. *)
L == stack[Loop]

Top(t, f) == stack[t] # << >> /\ Head(stack[t]) = f

(* The innermost call of t returns after making the calls in frames.       *)
Continue(t, frames) ==
  stack' = [stack EXCEPT ![t] = frames \o Tail(stack[t])]
Return(t) == Continue(t, << >>)

(* CheckIsRunning(ConnectionState) *)
CheckIsRunning(s) == s \in {"Connecting", "Connected"}

(* OnWrite and OnRead with an error: SetState(Shutdown), client->Close().  *)
ShutdownAndClose == <<"Shutdown", "client.Close">>

(* n write requests that end with an error, one after the other.           *)
FailWrites(n) ==
  [i \in 1..2 * n |-> IF i % 2 = 1 THEN "Shutdown" ELSE "client.Close"]

(* What an application callback does in state s: nothing or one call.      *)
Callback(allowed, s) ==
  {<< >>} \cup {<<c>> : c \in {d \in allowed : d = "Connect" => s \in ConnectFrom}}

-----------------------------------------------------------------------------
(* TcpClient: the calls of the application, on any thread. *)

UserCall(u, c) ==
  /\ stack[u] = << >>
  /\ calls < MaxCalls
  /\ c = "Connect" => state \in ConnectFrom
  /\ stack' = [stack EXCEPT ![u] = <<c>>]
  /\ calls' = calls + 1
  /\ UNCHANGED <<state, queueVars, socketVars>>

(* Mutant: Connect posts the operation before it sets the state. *)
Connect_PostsFirst(t) ==
  /\ Top(t, "Connect")
  /\ IF CheckIsRunning(state)
     THEN Return(t)
     ELSE Continue(t, <<"client.Connect", "Connecting">>)
  /\ UNCHANGED <<state, queueVars, socketVars, calls>>

Connect(t) ==
  /\ Top(t, "Connect")
  /\ IF CheckIsRunning(state)
     THEN Return(t)
     ELSE Continue(t, <<"Connecting", "client.Connect">>)
  /\ UNCHANGED <<state, queueVars, socketVars, calls>>

Close(t) ==
  /\ Top(t, "Close")
  /\ IF state \in {"Closed", "Closing"}
     THEN Return(t)
     ELSE Continue(t, <<"Closing", "client.Close">>)
  /\ UNCHANGED <<state, queueVars, socketVars, calls>>

Write(t) ==
  /\ Top(t, "Write")
  /\ IF CheckIsRunning(state)
     THEN Continue(t, <<"client.Write">>)
     ELSE Return(t)
  /\ UNCHANGED <<state, queueVars, socketVars, calls>>

(* SetState(s): the assignment under the lock, then handleStates.          *)
SetState(t) ==
  \E s \in ConnectionState :
    /\ Top(t, s)
    /\ state' = s
    /\ \E call \in Callback(StatesCalls, s) :
         /\ calls + Len(call) <= MaxCalls
         /\ calls' = calls + Len(call)
         /\ Continue(t, call)
    /\ UNCHANGED <<queueVars, socketVars>>

(* ClientImpl::Connect, Close, Write: at once on the network thread,       *)
(* posted to it from any other.                                            *)
ClientImpl(t) ==
  \E c \in ClientCall :
    /\ Top(t, c)
    /\ IF t = Loop
       THEN Continue(t, <<OnEvent[c]>>) /\ UNCHANGED tasks
       ELSE Return(t) /\ tasks' = Append(tasks, OnEvent[c])
    /\ UNCHANGED <<state, batch, drained, socketVars, calls>>

-----------------------------------------------------------------------------
(* The network thread: the queue. *)

LoopFree == L = << >> /\ handle # "broken"
LoopIdle == LoopFree /\ batch = 0

Drain ==
  /\ LoopIdle
  /\ ~drained
  /\ tasks # << >>
  /\ batch' = Len(tasks)
  /\ drained' = TRUE
  /\ UNCHANGED <<state, stack, tasks, socketVars, calls>>

RunTask ==
  /\ LoopFree
  /\ batch > 0
  /\ stack' = [stack EXCEPT ![Loop] = <<Head(tasks)>>]
  /\ tasks' = Tail(tasks)
  /\ batch' = batch - 1
  /\ UNCHANGED <<state, drained, socketVars, calls>>

-----------------------------------------------------------------------------
(* The network thread: operations on the socket. *)

LoopCalls(frames) == stack' = [stack EXCEPT ![Loop] = frames]

(* A libuv call the handle does not allow: the network thread ends here.   *)
Misuse ==
  /\ handle' = "broken"
  /\ LoopCalls(<< >>)
  /\ UNCHANGED <<state, queueVars, connect_req, writes, shutdown_req, calls>>

(* uv_tcp_init, then a lookup or a uv_tcp_connect that fails at once       *)
(* (OnConnect with -102, -100) or starts.                                  *)
ConnectOnEvent ==
  /\ Top(Loop, "ConnectOnEvent")
  /\ \/ /\ handle \notin {"none", "closed"}
        /\ Misuse
     \/ /\ handle \in {"none", "closed"}
        /\ \/ /\ handle' = "init"
              /\ Continue(Loop, <<"ConnFailed">>)
              /\ UNCHANGED connect_req
           \/ /\ handle' = "socket"
              /\ connect_req' = TRUE
              /\ Return(Loop)
        /\ UNCHANGED <<state, queueVars, writes, shutdown_req, calls>>

(* Mutant: a write is counted as queued although uv_write refused it. *)
WriteOnEvent_IgnoresError ==
  /\ Top(Loop, "WriteOnEvent")
  /\ \/ /\ handle = "none"
        /\ Misuse
     \/ /\ handle # "none"
        /\ writes' = writes + 1
        /\ Return(Loop)
        /\ UNCHANGED <<state, queueVars, handle, connect_req, shutdown_req,
                       calls>>

(* uv_write queues on a writable stream and refuses (-300) on any other.   *)
WriteOnEvent ==
  /\ Top(Loop, "WriteOnEvent")
  /\ \/ /\ handle = "none"
        /\ Misuse
     \/ /\ handle # "none"
        /\ IF handle \in {"socket", "stream"}
           THEN writes' = writes + 1 /\ Return(Loop)
           ELSE UNCHANGED writes /\ Continue(Loop, ShutdownAndClose)
        /\ UNCHANGED <<state, queueVars, handle, connect_req, shutdown_req,
                       calls>>

(* Mutant: Closed is reported when uv_close was called, not its callback. *)
CloseOnEvent_ReportsClosed ==
  /\ Top(Loop, "CloseOnEvent")
  /\ \/ /\ handle = "none"
        /\ Misuse
     \/ /\ handle # "none"
        /\ handle' = IF handle = "closed" THEN "closed" ELSE "closing"
        /\ Continue(Loop, <<"Closed">>)
        /\ UNCHANGED <<state, queueVars, connect_req, writes, shutdown_req,
                       calls>>

(* Mutant: uv_close without asking uv_is_closing. *)
CloseOnEvent_Unchecked ==
  /\ Top(Loop, "CloseOnEvent")
  /\ \/ /\ handle = "none"
        /\ Misuse
     \/ /\ handle # "none"
        /\ handle' = "closing"
        /\ Return(Loop)
        /\ UNCHANGED <<state, queueVars, connect_req, writes, shutdown_req,
                       calls>>

(* Mutant: only a connected socket is closed. *)
CloseOnEvent_OnlyStream ==
  /\ Top(Loop, "CloseOnEvent")
  /\ \/ /\ handle = "none"
        /\ Misuse
     \/ /\ handle # "none"
        /\ handle' = IF handle = "stream" THEN "closing" ELSE handle
        /\ Return(Loop)
        /\ UNCHANGED <<state, queueVars, connect_req, writes, shutdown_req,
                       calls>>

(* uv_close unless uv_is_closing, which stays true of a closed handle.     *)
CloseOnEvent ==
  /\ Top(Loop, "CloseOnEvent")
  /\ \/ /\ handle = "none"
        /\ Misuse
     \/ /\ handle # "none"
        /\ handle' = IF handle = "closed" THEN "closed" ELSE "closing"
        /\ Return(Loop)
        /\ UNCHANGED <<state, queueVars, connect_req, writes, shutdown_req,
                       calls>>

-----------------------------------------------------------------------------
(* The network thread: libuv's callbacks. *)

(* onConnection: success starts reading after handleConnect returned; a    *)
(* failure lets libuv cancel the writes queued meanwhile.                  *)
OnConnection(ok) ==
  /\ LoopIdle
  /\ handle = "socket"
  /\ connect_req
  /\ connect_req' = FALSE
  /\ IF ok
     THEN handle' = "stream" /\ LoopCalls(<<"Connected">>)
     ELSE UNCHANGED handle /\ LoopCalls(<<"ConnFailed", "flush_writes">>)
  /\ UNCHANGED <<state, queueVars, writes, shutdown_req, calls>>

FlushWrites ==
  /\ Top(Loop, "flush_writes")
  /\ IF handle = "closing"
     THEN Return(Loop) /\ UNCHANGED writes
     ELSE Continue(Loop, FailWrites(writes)) /\ writes' = 0
  /\ UNCHANGED <<state, queueVars, handle, connect_req, shutdown_req, calls>>

(* onRead with data: handleRead may call back into the client.             *)
OnReadData ==
  /\ LoopIdle
  /\ handle = "stream"
  /\ \E call \in Callback(ReadCalls, state) :
       /\ calls + Len(call) <= MaxCalls
       /\ calls' = calls + Len(call)
       /\ LoopCalls(call)
  /\ UNCHANGED <<state, queueVars, socketVars>>

(* onRead with UV_EOF: uv_shutdown; its callback reports the EOF once the  *)
(* queued writes are out.                                                  *)
OnReadEof ==
  /\ LoopIdle
  /\ handle = "stream"
  /\ handle' = "shut"
  /\ shutdown_req' = TRUE
  /\ UNCHANGED <<state, stack, queueVars, connect_req, writes, calls>>

OnShutdown ==
  /\ LoopIdle
  /\ handle = "shut"
  /\ shutdown_req
  /\ writes = 0
  /\ shutdown_req' = FALSE
  /\ LoopCalls(ShutdownAndClose)
  /\ UNCHANGED <<state, queueVars, handle, connect_req, writes, calls>>

(* onRead with any other error (-200). *)
OnReadError ==
  /\ LoopIdle
  /\ handle = "stream"
  /\ handle' = "shut"
  /\ LoopCalls(ShutdownAndClose)
  /\ UNCHANGED <<state, queueVars, connect_req, writes, shutdown_req, calls>>

(* onWrite: TcpClient::OnWrite ignores success; -301 shuts down.           *)
OnWrite(ok) ==
  /\ LoopIdle
  /\ writes > 0
  /\ IF ok
     THEN handle \in {"stream", "shut"} /\ UNCHANGED stack
     ELSE /\ handle \in {"socket", "stream", "shut"}
          /\ ~connect_req
          /\ LoopCalls(ShutdownAndClose)
  /\ writes' = writes - 1
  /\ UNCHANGED <<state, queueVars, handle, connect_req, shutdown_req, calls>>

(* Mutant: the close callback comes before those of the requests. *)
EndIteration_CloseFirst ==
  /\ LoopIdle
  /\ drained \/ handle = "closing"
  /\ drained' = FALSE
  /\ IF handle = "closing"
     THEN /\ LoopCalls(<<"close_cb">>
                       \o (IF connect_req THEN <<"ConnFailed">> ELSE << >>)
                       \o FailWrites(writes))
          /\ connect_req' = FALSE
          /\ writes' = 0
          /\ shutdown_req' = FALSE
     ELSE UNCHANGED <<stack, connect_req, writes, shutdown_req>>
  /\ UNCHANGED <<state, tasks, batch, handle, calls>>

(* The end of an iteration of uv_run.  A handle being closed answers its   *)
(* requests first: the connect, then the writes (those already written     *)
(* succeed, the others are cancelled), then the shutdown.                  *)
EndIteration ==
  /\ LoopIdle
  /\ drained \/ handle = "closing"
  /\ drained' = FALSE
  /\ IF handle = "closing"
     THEN \E n \in IF connect_req THEN {writes} ELSE 0..writes :
            /\ LoopCalls((IF connect_req THEN <<"ConnFailed">> ELSE << >>)
                         \o FailWrites(n)
                         \o (IF shutdown_req THEN ShutdownAndClose ELSE << >>)
                         \o <<"close_cb">>)
            /\ connect_req' = FALSE
            /\ writes' = 0
            /\ shutdown_req' = FALSE
     ELSE UNCHANGED <<stack, connect_req, writes, shutdown_req>>
  /\ UNCHANGED <<state, tasks, batch, handle, calls>>

(* onClose: TcpClient::OnClose sets Closed. *)
OnClose ==
  /\ Top(Loop, "close_cb")
  /\ handle' = "closed"
  /\ Continue(Loop, <<"Closed">>)
  /\ UNCHANGED <<state, queueVars, connect_req, writes, shutdown_req, calls>>

-----------------------------------------------------------------------------
ThreadStep(t) == Connect(t) \/ Close(t) \/ Write(t) \/ SetState(t) \/ ClientImpl(t)

LoopStep == \/ Drain \/ RunTask
            \/ ConnectOnEvent \/ WriteOnEvent \/ CloseOnEvent
            \/ FlushWrites \/ OnShutdown \/ EndIteration \/ OnClose

Next ==
  \/ \E u \in User, c \in UserCalls : UserCall(u, c)
  \/ \E t \in Thread : ThreadStep(t)
  \/ LoopStep
  \/ \E ok \in BOOLEAN : OnConnection(ok) \/ OnWrite(ok)
  \/ OnReadData \/ OnReadEof \/ OnReadError

(* Threads are scheduled and TCP ends a connect attempt one way or the     *)
(* other; nobody has to call, and the peer owes no data and no end.        *)
Fairness ==
  /\ \A t \in Thread : WF_vars(ThreadStep(t))
  /\ WF_vars(LoopStep)
  /\ WF_vars(\E ok \in BOOLEAN : OnConnection(ok))

Spec == Init /\ [][Next]_vars /\ Fairness

-----------------------------------------------------------------------------
(* uv_tcp_init is only called on a handle that was never initialised or    *)
(* whose close callback was reached: Connect never overwrites a connection *)
(* that libuv still knows.                                                 *)
NoLiveInit == Top(Loop, "ConnectOnEvent") => handle \in {"none", "closed"}

(* No libuv call is made that the handle does not allow: a Close or Write  *)
(* is never executed before the Connect it follows.                        *)
NeverBroken == handle # "broken"

(* No request outlives its handle: when the close callback ran, every      *)
(* connect, write and shutdown request was answered.                       *)
RequestsAnswered ==
  /\ handle \in {"none", "init", "closed"} =>
       ~connect_req /\ writes = 0 /\ ~shutdown_req
  /\ connect_req => handle \in {"socket", "closing", "broken"}
  /\ shutdown_req => handle \in {"shut", "closing", "broken"}

(* Closed means closed: a thread that reads Closed finds no socket behind  *)
(* it, so that a new Connect may follow.                                   *)
ClosedIsReleased == state = "Closed" => handle \in {"none", "closed"}

(* Nothing runs, nothing is posted and no close callback is due. *)
Quiet == /\ \A t \in Thread : stack[t] = << >>
         /\ tasks = << >>
         /\ handle # "closing"

(* Once all calls and callbacks have returned, the state is the one the    *)
(* handle is in: Connecting means that a connect is under way, ConnFailed  *)
(* is shown if and only if the last one failed, and Connected if and only  *)
(* if the socket is connected (also when the peer's end, of which the      *)
(* application is not told yet, waits for the writes that are queued).  It *)
(* does not hold of Closing and Shutdown, see NeverStranded.               *)
QuietStateIsTrue ==
  Quiet =>
    /\ state = "Connecting" => handle = "socket" /\ connect_req
    /\ state = "ConnFailed" <=> handle = "init" \/ (handle = "socket" /\ ~connect_req)
    /\ state = "Connected" <=> handle = "stream" \/ (handle = "shut" /\ shutdown_req)
    /\ handle = "shut" => shutdown_req
    /\ handle = "none" => state = "Closed"

(* net_states.h:34, Closing "-> Closed", and :44, Shutdown "-> Closing":   *)
(* no client stays in one of the two when nothing is under way.            *)
NeverStranded == Quiet => state \notin {"Closing", "Shutdown"}

(* A callback of an earlier connection never sets the state of a later     *)
(* one: a connect's result follows that connect or what interrupted it,    *)
(* and a late close callback does not undo a new Connect.                  *)
NoStaleCallback ==
  [][/\ state' \in {"Connected", "ConnFailed"} =>
          state \in {"Connecting", "Closing", "Shutdown"}
     /\ state' = "Closed" => state # "Connecting"]_state

(* A Close that was posted ends with the handle closed.                    *)
CloseReleases ==
  (\E i \in 1..Len(tasks) : tasks[i] = "CloseOnEvent") ~> handle = "closed"
=============================================================================
