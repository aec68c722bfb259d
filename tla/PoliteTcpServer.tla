-------------------------- MODULE PoliteTcpServer --------------------------
(***************************************************************************)
(* TcpServer in the hands of an application that keeps to what the code    *)
(* supports: one thread listens, in state Closed only, and closes;         *)
(* connections are written to from handleConnRead, as the servers of       *)
(* tcp_test.cpp do; accept does not fail.                                  *)
(***************************************************************************)
EXTENDS TcpServer

PoliteApp ==
  /\ \E u \in User : User = {u}
  /\ UserCalls \subseteq {"call.Listen", "call.Close"}
  /\ StatesCalls = {}
  /\ ReadCalls \subseteq {"call.Write", "call.WriteAll"}
  /\ ListenFrom = {"Closed"}
  /\ AcceptErrors = {}

(* No libuv call is made that its handle does not allow.                   *)
NeverFaults == fault = "none"

-----------------------------------------------------------------------------
(* The listening socket: the invariant behind NeverFaults and              *)
(* QuietStateIsTrue.                                                       *)

TheUser == CHOOSE u \in User : TRUE

(* The user's stack. *)
U == stack[TheUser]

(* A call about the listening socket. *)
Event(op) == <<op, {Listener}>>

(* The user in Listen(): called, about to set the state, about to post.    *)
ListenCalled == <<<<"call.Listen", {}>>>>
ListenSets   == <<<<"Listen", {}>>, Event("server.Listen")>>
ListenPosts  == <<Event("server.Listen")>>

(* The user in Close(). *)
CloseCalled == <<<<"call.Close", {}>>>>
CloseSets   == <<<<"Closing", {}>>, Event("server.Close")>>
ClosePosts  == <<Event("server.Close")>>

UserListens == U \in {ListenCalled, ListenSets, ListenPosts}
UserStacks == U = << >> \/ UserListens \/ U \in {CloseCalled, CloseSets, ClosePosts}

(* The network thread in a call about the listening socket. *)
RunsListen     == <<Event("ListenOnEvent")>>
RunsClose      == <<Event("CloseOnEvent")>>
SetsListening  == <<<<"Listening", {}>>>>
SetsFailed     == <<<<"ListenFailed", {}>>>>
RunsCloseCb    == <<Event("close_cb")>>
SetsClosed     == <<<<"Closed", {}>>>>

(* Calls about connections. *)
ConnOp == SetConn \cup {"call.Write", "call.WriteAll", "GetConns", "server.Write",
                        "server.Close", "WriteOnEvent", "CloseOnEvent", "close_cb"}
ConnFrame == ConnOp \X SUBSET Conn

(* Calls about the listening socket stand alone on the network thread's    *)
(* stack, and tell the socket's phase.                                     *)
LoopStack ==
  \/ L \in Seq(ConnFrame)
  \/ L \in {RunsListen, RunsClose}
  \/ L = SetsListening /\ socket[Listener] = "listening"
  \/ L = SetsFailed /\ socket[Listener] = "init"
  \/ L = RunsCloseCb /\ socket[Listener] = "closing"
  \/ L = SetsClosed /\ socket[Listener] = "closed" /\ state # "Closed"

(* The phases of a socket that listens. *)
ListenerPhase == socket[Listener] \in {"none", "init", "listening", "closing", "closed"}

(* Only the user posts, and only about the listening socket. *)
PostedEvents == tasks \in Seq({Event("ListenOnEvent"), Event("CloseOnEvent")})

(* An operation is in the queue. *)
Queued(op) == \E i \in 1..Len(tasks) : tasks[i] = Event(op)

(* A listen was posted and not yet executed. *)
Posted == Queued("ListenOnEvent") \/ L = RunsListen

(* At most one listen is on its way, and the socket is not in use then.    *)
OneListen ==
  /\ UserListens \/ Posted => socket[Listener] \in {"none", "closed"} /\ L # SetsClosed
  /\ U = ListenPosts \/ Posted => state # "Closed"
  /\ UserListens => ~Posted
  /\ L = RunsListen => ~Queued("ListenOnEvent")
  /\ \A i, j \in 1..Len(tasks) :
       tasks[i] = Event("ListenOnEvent") /\ tasks[j] = Event("ListenOnEvent") => i = j

(* Before the first listen was executed, nothing is ahead of it.           *)
FirstListen ==
  socket[Listener] = "none" =>
    \/ L = RunsListen
    \/ /\ L # RunsClose
       /\ \/ tasks # << >> /\ tasks[1] = Event("ListenOnEvent")
          \/ tasks = << >> /\ U = ListenPosts
          \/ /\ tasks = << >> /\ state = "Closed"
             /\ U \in {<< >>, ListenCalled, ListenSets, CloseCalled}

(* Closed is only read when the socket is not in use. *)
ClosedIsReleased == state = "Closed" => socket[Listener] \in {"none", "closed"}

(* A close of the socket is on its way. *)
Closes == U = ClosePosts \/ Queued("CloseOnEvent") \/ L = RunsClose

(* The state tells the socket's phase, or the network thread is about to   *)
(* set it, or a close or a listen is on its way.                           *)
StateFollows ==
  /\ socket[Listener] = "listening" =>
       state = "Listening" \/ L = SetsListening \/ (state = "Closing" /\ Closes)
  /\ socket[Listener] = "init" =>
       state = "ListenFailed" \/ L = SetsFailed \/ (state = "Closing" /\ Closes)
  /\ socket[Listener] \in {"none", "closed"} =>
       \/ state \in {"Closed", "Closing"}
       \/ state = "Listen" /\ (U = ListenPosts \/ Posted)
       \/ L = SetsClosed

ListenerInv == /\ UserStacks /\ LoopStack /\ PostedEvents /\ ListenerPhase
               /\ OneListen /\ FirstListen
               /\ ClosedIsReleased /\ StateFollows
               /\ NeverFaults

-----------------------------------------------------------------------------
(* What the application hears of connections: the invariant behind the     *)
(* steps of ConnLifecycle.                                                 *)

Entries == {c \in Conn : connStates[c] # "none"}
ShutDown == {c \in Conn : connStates[c] = "Shutdown"}

(* Writes and errors are about connections with an entry.                  *)
AboutEntries(s, entries) ==
  \A i \in 1..Len(s) :
    s[i][1] \in {"call.Write", "server.Write", "WriteOnEvent", "conn.Shutdown"} =>
      s[i][2] \subseteq entries

(* No connection is closed before its Shutdown was reported. *)
ClosesAfterReport(s, reported) ==
  \A i \in 1..Len(s), c \in Conn :
    s[i] \in {<<"server.Close", {c}>>, <<"CloseOnEvent", {c}>>} =>
      c \in reported \/ (i > 1 /\ s[i - 1] = <<"conn.Shutdown", {c}>>)

(* A connection is reported once it was accepted, and only then. *)
ReportsNew ==
  \A c \in Conn : L = <<<<"conn.Connected", {c}>>>> =>
    connStates[c] = "none" /\ socket[c] = "open"

(* A connection being closed is not shown as Connected. *)
ClosedIsReported ==
  \A c \in Conn : socket[c] \in {"closing", "closed"} => connStates[c] # "Connected"

ReportInv == /\ AboutEntries(L, Entries) /\ ClosesAfterReport(L, ShutDown)
             /\ ReportsNew /\ ClosedIsReported

-----------------------------------------------------------------------------
(* Nothing runs, nothing is posted and the listening socket is not about   *)
(* to be closed.                                                           *)
Quiet == /\ \A t \in Thread : stack[t] = << >>
         /\ tasks = << >>
         /\ socket[Listener] # "closing"

(* Once all calls and callbacks have returned, the server's state tells    *)
(* the phase of the listening socket; of a socket that was closed it does  *)
(* not tell whether Closed was reported last, see ClosingEnds.             *)
QuietStateIsTrue ==
  Quiet => /\ state = "Listening" <=> socket[Listener] = "listening"
           /\ state = "ListenFailed" <=> socket[Listener] = "init"
           /\ state \in {"Closed", "Closing"} <=> socket[Listener] \in {"none", "closed"}
           /\ socket[Listener] = "none" => state = "Closed"

(* net_states.h:24, Closing "-> Closed": no server stays in Closing when   *)
(* nothing is under way.  Not so after Listen, Close, Close.               *)
ClosingEnds == Quiet => state # "Closing"

(* What the application last heard about each connection. *)
Told == [c \in Conn |-> IF connStates[c] # "none" THEN connStates[c]
                        ELSE IF socket[c] = "closed" THEN "Closed" ELSE "new"]

(* The application hears of every connection what ConnLifecycle promises.  *)
Lifecycle == INSTANCE ConnLifecycle WITH told <- Told
KeepsLifecycle == Lifecycle!Spec
=============================================================================
