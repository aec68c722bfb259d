-------------------------- MODULE PoliteTcpClient --------------------------
(***************************************************************************)
(* TcpClient in the hands of an application that keeps to what the code    *)
(* supports: one thread makes the calls, it calls Connect only in state    *)
(* Closed, handleStates makes no call, and handleRead does not connect (it *)
(* may write back, as in tcp_test.cpp:307-316, or close).                  *)
(***************************************************************************)
EXTENDS TcpClient

PoliteApp ==
  /\ \E u \in User : User = {u}
  /\ StatesCalls = {}
  /\ ReadCalls \subseteq {"Close", "Write"}
  /\ ConnectFrom = {"Closed"}

TheUser == CHOOSE u \in User : TRUE

(* The user's stack. *)
U == stack[TheUser]

-----------------------------------------------------------------------------
(* The inductive invariant behind NoLiveInit, NeverBroken and              *)
(* ClosedIsReleased.                                                       *)

(* The user is on its way through Connect(). *)
UserConnects == U \in {<<"Connect">>, <<"Connecting", "client.Connect">>,
                       <<"client.Connect">>}

UserStacks ==
  U \in {<< >>,
         <<"Connect">>, <<"Connecting", "client.Connect">>, <<"client.Connect">>,
         <<"Close">>, <<"Closing", "client.Close">>, <<"client.Close">>,
         <<"Write">>, <<"client.Write">>}

(* Calls that may be anywhere on the network thread's stack. *)
Ordinary == {"Close", "Write", "Closing", "Connected", "ConnFailed", "Shutdown",
             "client.Close", "client.Write", "CloseOnEvent", "WriteOnEvent",
             "flush_writes"}

(* The others stand alone or at the bottom, and tell the handle's phase.   *)
LoopStack ==
  \A i \in 1..Len(L) :
    \/ L[i] \in Ordinary
    \/ L[i] = "ConnectOnEvent" /\ Len(L) = 1
    \/ L[i] = "close_cb" /\ i = Len(L) /\ handle = "closing"
    \/ L[i] = "Closed" /\ Len(L) = 1 /\ handle = "closed" /\ state # "Closed"

(* A connect was posted and not yet executed. *)
Posted == \/ \E i \in 1..Len(tasks) : tasks[i] = "ConnectOnEvent"
          \/ L = <<"ConnectOnEvent">>

(* At most one connect is on its way, and no handle is in use then.        *)
OneConnect ==
  /\ UserConnects \/ Posted => handle \in {"none", "closed"} /\ L # <<"Closed">>
  /\ U = <<"client.Connect">> \/ Posted => state # "Closed"
  /\ UserConnects => ~Posted
  /\ L = <<"ConnectOnEvent">> =>
       \A i \in 1..Len(tasks) : tasks[i] # "ConnectOnEvent"
  /\ \A i, j \in 1..Len(tasks) :
       tasks[i] = "ConnectOnEvent" /\ tasks[j] = "ConnectOnEvent" => i = j

(* Before the first connect was executed, nothing is ahead of it.          *)
FirstConnect ==
  handle = "none" =>
    \/ L = <<"ConnectOnEvent">>
    \/ /\ L = << >>
       /\ tasks # << >>
       /\ tasks[1] = "ConnectOnEvent"
    \/ /\ L = << >>
       /\ tasks = << >>
       /\ \/ U = <<"client.Connect">>
          \/ /\ state = "Closed"
             /\ U \in {<< >>, <<"Connect">>, <<"Connecting", "client.Connect">>,
                       <<"Close">>, <<"Write">>}

(* What keeps a polite client's connections apart: at most one connect is  *)
(* under way, while no handle is in use, and Closed is only read then.     *)
PoliteInv ==
  /\ UserStacks
  /\ LoopStack
  /\ OneConnect
  /\ FirstConnect
  /\ ClosedIsReleased
  /\ NeverBroken

-----------------------------------------------------------------------------
(* What the state tells of the connection: the invariant behind            *)
(* NoStaleCallback and, with EndedInv, behind QuietStateIsTrue.            *)

Holds(s, f) == \E i \in 1..Len(s) : s[i] = f

ConnectCall == {"ConnectOnEvent", "Connected", "ConnFailed"}

(* A connect is the innermost call, and its result is set before anything  *)
(* else happens; whoever sets Shutdown or Closing closes next.             *)
Fits(s) ==
  \A i \in 1..Len(s) :
    /\ s[i] \in ConnectCall => i = 1
    /\ s[i] \in {"Shutdown", "Closing"} => i + 1 \in 1..Len(s) /\ s[i + 1] = "client.Close"

(* A result is set while the handle of that connect is there. *)
ResultInv ==
  /\ Top(Loop, "Connected") => L = <<"Connected">> /\ handle = "stream" /\ ~connect_req
  /\ Top(Loop, "ConnFailed") => handle \in {"init", "socket", "closing"} /\ ~connect_req

(* The state has not yet told the result of a connect that was called. *)
Awaited ==
  \/ U = <<"client.Connect">> \/ Posted \/ connect_req
  \/ Top(Loop, "Connected") \/ Top(Loop, "ConnFailed")
AwaitInv == Awaited => state \in {"Connecting", "Closing", "Shutdown"}

(* Every CloseOnEvent is ahead of every ConnectOnEvent. *)
ClosesAhead(s) ==
  \A i, j \in 1..Len(s) : s[i] = "ConnectOnEvent" /\ s[j] = "CloseOnEvent" => j < i

(* The connect is on its way; what closes now closes what is closed.       *)
BeforeConnect ==
  /\ handle \in {"none", "closed"}
  /\ U = <<"client.Connect">> \/ Posted
  /\ ClosesAhead(tasks)
  /\ L = <<"ConnectOnEvent">> => ~Holds(tasks, "CloseOnEvent")

(* The connect was executed, its result is not yet set, nothing closes it. *)
DuringConnect ==
  /\ ~Holds(tasks, "CloseOnEvent")
  /\ \/ handle = "socket" /\ connect_req /\ L \in {<< >>, <<"WriteOnEvent">>}
     \/ handle = "socket" /\ L = <<"ConnFailed", "flush_writes">>
     \/ handle = "init" /\ L = <<"ConnFailed">>
     \/ handle = "stream" /\ L = <<"Connected">>

(* In state Connecting nothing closes the handle of that connect. *)
ConnectingInv ==
  state = "Connecting" => U # <<"client.Close">> /\ (BeforeConnect \/ DuringConnect)

(* The handle is going to be closed. *)
Closes == \/ U = <<"client.Close">> \/ Holds(tasks, "CloseOnEvent")
          \/ Holds(L, "client.Close") \/ Holds(L, "CloseOnEvent")

(* A connected socket is reported, or about to be reported or closed. *)
StreamInv == handle = "stream" => state = "Connected" \/ L = <<"Connected">> \/ Closes

(* Connected is not shown after the handle was closed, until Closed is.    *)
ConnectedInv ==
  state = "Connected" => \/ handle \in {"stream", "shut", "closing"}
                         \/ handle = "closed" /\ L = <<"Closed">>

(* A connect that failed is reported, or about to be reported or closed,   *)
(* and ConnFailed is not shown after the handle was closed, until Closed   *)
(* is.                                                                     *)
FailedInv ==
  /\ handle = "init" \/ (handle = "socket" /\ ~connect_req) =>
       state = "ConnFailed" \/ Top(Loop, "ConnFailed") \/ Closes
  /\ state = "ConnFailed" =>
       \/ handle \in {"init", "closing"}
       \/ handle = "socket" /\ ~connect_req
       \/ handle = "closed" /\ L = <<"Closed">>

(* A connection the peer ended waits for its writes, or is about to close. *)
ShutInv == handle = "shut" => (state = "Connected" /\ shutdown_req) \/ Closes

EndedInv == FailedInv /\ ShutInv

StateInv == /\ Fits(L) /\ ResultInv /\ AwaitInv /\ ConnectingInv
            /\ StreamInv /\ ConnectedInv

-----------------------------------------------------------------------------
(* The client keeps libuv's contract for its handle.                       *)
One(b) == IF b THEN 1 ELSE 0
Phase == IF handle = "none" THEN "fresh"
         ELSE IF handle \in {"init", "socket", "stream", "shut"} THEN "active"
         ELSE handle
Requests == One(connect_req) + writes + One(shutdown_req)

Uv == INSTANCE UvHandle WITH phase <- Phase, reqs <- Requests
KeepsUvContract == Uv!Spec
=============================================================================
