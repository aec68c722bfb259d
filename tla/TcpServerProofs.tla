-------------------------- MODULE TcpServerProofs --------------------------
(***************************************************************************)
(* What holds of TcpServer whatever the application does: any number of    *)
(* threads and connections, any calls, from anywhere.  Then, from "A       *)
(* polite application" on, what holds of PoliteTcpServer: the listener,    *)
(* what its shutdowns report, and the life cycle it keeps.                 *)
(***************************************************************************)
EXTENDS PoliteTcpServer, SequenceTheorems, TLAPS

-----------------------------------------------------------------------------
(* Calls and stacks. *)

Frames(M) == Op \X SUBSET M
Events(M) == EventCall \X SUBSET M

(* The calls that thread steps make: all but those of libuv's callbacks.   *)
NormalOp == AppCall \cup ServerState \cup ServerCall \cup EventCall \cup {"GetConns"}
Normal(M) == NormalOp \X SUBSET M

(* Short sequences are sequences. *)
LEMMA ShortSeqs ==
  ASSUME NEW S
  PROVE  /\ << >> \in Seq(S)
         /\ \A f \in S : <<f>> \in Seq(S)
         /\ \A f, g \in S : <<f, g>> \in Seq(S)
OBVIOUS

(* The names of calls. *)
LEMMA OpNames ==
  /\ NormalOp \subseteq Op /\ SetConn \subseteq Op /\ "close_cb" \in Op
  /\ AppCall \subseteq NormalOp /\ ServerState \subseteq NormalOp
  /\ ServerCall \subseteq NormalOp /\ EventCall \subseteq NormalOp
  /\ "GetConns" \in NormalOp
  /\ NormalOp \cap (SetConn \cup {"close_cb"}) = {}
BY DEF Op, NormalOp, SetConn, AppCall, ServerState, ServerCall, EventCall

(* Normal calls are calls. *)
LEMMA NormalSeqs ==
  ASSUME NEW M, NEW fr \in Seq(Normal(M))
  PROVE  fr \in Seq(Frames(M))
<1>1. Normal(M) \subseteq Frames(M)
  BY OpNames DEF Normal, Frames
<1>2. Len(fr) \in Nat /\ fr \in [1..Len(fr) -> Normal(M)]
  BY LenProperties
<1>3. fr \in [1..Len(fr) -> Frames(M)]
  BY <1>1, <1>2
<1> QED
  BY <1>2, <1>3, SeqDef

(* A callback makes at most one call, about a connection it was told of.   *)
LEMMA CallbackType ==
  ASSUME NEW M, NEW allowed \in SUBSET AppCall, NEW conns \in SUBSET M
  PROVE  /\ CallsOf(allowed, conns) \subseteq Normal(M)
         /\ \A c \in Callback(allowed, conns) : c \in Seq(Normal(M)) /\ Len(c) \in {0, 1}
<1>1. ASSUME NEW f \in CallsOf(allowed, conns) PROVE f \in Normal(M)
  <2>1. CASE \E op \in allowed : f = <<op, {}>>
    BY <2>1, OpNames DEF Normal
  <2>2. CASE \E op \in allowed, c \in conns : f = <<op, {c}>>
    BY <2>2, OpNames DEF Normal
  <2>3. (\E op \in allowed : f = <<op, {}>>)
           \/ (\E op \in allowed, c \in conns : f = <<op, {c}>>)
    BY <1>1 DEF CallsOf
  <2> QED
    BY <2>1, <2>2, <2>3
<1>2. ASSUME NEW c \in Callback(allowed, conns)
      PROVE  c \in Seq(Normal(M)) /\ Len(c) \in {0, 1}
  <2>1. CASE c = << >>
    BY <2>1
  <2>2. ASSUME NEW f \in CallsOf(allowed, conns), c = <<f>>
        PROVE  c \in Seq(Normal(M)) /\ Len(c) \in {0, 1}
    BY <1>1, <2>2
  <2> QED
    BY <1>2, <2>1, <2>2 DEF Callback
<1> QED
  BY <1>1, <1>2

(* A call that makes other calls keeps the stacks.                         *)
LEMMA ContinueType ==
  ASSUME NEW M, stack \in [Thread -> Seq(Frames(M))], NEW t \in Thread,
         stack[t] # << >>, NEW fr \in Seq(Frames(M)), Continue(t, fr)
  PROVE  stack' \in [Thread -> Seq(Frames(M))]
<1>1. Tail(stack[t]) \in Seq(Frames(M))
  BY HeadTailProperties
<1>2. fr \o Tail(stack[t]) \in Seq(Frames(M))
  BY <1>1, ConcatProperties
<1> QED
  BY <1>2 DEF Continue

(* The calls about failed writes are a sequence of calls. *)
LEMMA FailWritesType ==
  ASSUME NEW M, NEW c \in M, NEW n \in Nat
  PROVE  /\ ShutdownAndClose(c) \in Seq(Frames(M))
         /\ FailWrites(c, n) \in Seq(Frames(M)) /\ Len(FailWrites(c, n)) = 2 * n
<1>1. <<"conn.Shutdown", {c}>> \in Frames(M) /\ <<"server.Close", {c}>> \in Frames(M)
  BY DEF Frames, Op, SetConn, ServerCall
<1>2. 2 * n \in Nat
  OBVIOUS
<1>3. FailWrites(c, n) \in [1..2 * n -> Frames(M)]
  BY <1>1 DEF FailWrites
<1>4. FailWrites(c, n) \in Seq(Frames(M))
  BY <1>2, <1>3, SeqDef
<1>5. /\ Len(FailWrites(c, n)) \in Nat
      /\ DOMAIN FailWrites(c, n) = 1..Len(FailWrites(c, n))
  BY <1>4, LenProperties
<1>6. DOMAIN FailWrites(c, n) = 1..2 * n
  BY DEF FailWrites
<1>7. Len(FailWrites(c, n)) = 2 * n
  <2>1. \A i, j \in Nat : 1..i = 1..j => i = j
    OBVIOUS
  <2>2. 1..Len(FailWrites(c, n)) = 1..2 * n
    BY <1>5, <1>6
  <2> QED
    BY <1>2, <1>5, <2>1, <2>2
<1>8. ShutdownAndClose(c) \in Seq(Frames(M))
  BY <1>1 DEF ShutdownAndClose
<1> QED
  BY <1>4, <1>7, <1>8

(* What a step of a thread's innermost call leaves on its stack: normal    *)
(* calls, about the connections the call was about or the map names.       *)
LEMMA ThreadCalls ==
  ASSUME NEW M \in SUBSET Socket, Listener \in M, GetConns("Connected") \subseteq M,
         stack \in [Thread -> Seq(Frames(M))], NEW t \in Thread, ThreadStep(t)
  PROVE  /\ stack[t] # << >>
         /\ \E fr \in Seq(Normal(M)) : Continue(t, fr)
<1>0. ASSUME NEW op, NEW S, Top(t, op, S) PROVE stack[t] # << >> /\ S \subseteq M
  <2>1. Head(stack[t]) \in Frames(M)
    BY <1>0, HeadTailProperties DEF Top
  <2> QED
    BY <1>0, <2>1 DEF Top, Frames
<1>1. << >> \in Seq(Normal(M))
  OBVIOUS
<1>2. \A op \in NormalOp, S \in SUBSET M : <<<<op, S>>>> \in Seq(Normal(M))
  BY DEF Normal
<1>3. \A o, p \in NormalOp, S, T \in SUBSET M : <<<<o, S>>, <<p, T>>>> \in Seq(Normal(M))
  BY DEF Normal
<1>4. CASE Listen(t)
  <2>1. <<<<"Listen", {}>>, <<"server.Listen", {Listener}>>>> \in Seq(Normal(M))
    BY <1>3 DEF NormalOp, ServerState, ServerCall
  <2> QED
    BY <1>0, <1>1, <1>4, <2>1 DEF Listen, Return
<1>5. CASE Close(t)
  <2>1. <<<<"Closing", {}>>, <<"server.Close", {Listener}>>>> \in Seq(Normal(M))
    BY <1>3 DEF NormalOp, ServerState, ServerCall
  <2> QED
    BY <1>0, <1>1, <1>5, <2>1 DEF Close, Return
<1>6. CASE Write(t)
  <2>1. PICK c \in Conn :
          /\ Top(t, "call.Write", {c})
          /\ Return(t) \/ Continue(t, <<<<"server.Write", {c}>>>>)
    BY <1>6 DEF Write
  <2>2. {c} \in SUBSET M
    BY <1>0, <2>1
  <2>3. <<<<"server.Write", {c}>>>> \in Seq(Normal(M))
    BY <1>2, <2>2 DEF NormalOp, ServerCall
  <2> QED
    BY <1>0, <1>1, <2>1, <2>3 DEF Return
<1>7. CASE WriteAll(t)
  <2>1. /\ <<<<"GetConns", {}>>>> \in Seq(Normal(M))
        /\ <<<<"server.Write", GetConns("Connected")>>>> \in Seq(Normal(M))
    BY <1>2 DEF NormalOp, ServerCall
  <2> QED
    BY <1>0, <1>1, <1>7, <2>1 DEF WriteAll, Return
<1>8. CASE SetState(t)
  <2>1. PICK s \in ServerState, call \in Callback(StatesCalls, {}) :
          Top(t, s, {}) /\ Continue(t, call)
    BY <1>8 DEF SetState
  <2>2. call \in Seq(Normal(M))
    BY CallbackType, CallsAssumption
  <2> QED
    BY <1>0, <2>1, <2>2
<1>9. CASE SetConnState(t)
  <2>0. PICK op \in SetConn, c \in Conn :
          /\ Top(t, op, {c})
          /\ \E call \in Callback(StatesCalls, {c}) : Continue(t, call)
    BY <1>9 DEF SetConnState
  <2>1. PICK call \in Callback(StatesCalls, {c}) : Continue(t, call)
    BY <2>0
  <2>2. {c} \in SUBSET M
    BY <1>0, <2>0
  <2>3. call \in Seq(Normal(M))
    BY <2>2, CallbackType, CallsAssumption
  <2> QED
    BY <1>0, <2>0, <2>1, <2>3
<1>10. CASE ServerImpl(t)
  <2>1. PICK s \in Socket, op \in EventCall, from \in ServerCall :
          Top(t, from, {s}) /\ Runs(t, <<op, {s}>>, << >>)
    BY <1>10 DEF ServerImpl, EventCall, ServerCall
  <2>2. {s} \in SUBSET M
    BY <1>0, <2>1
  <2>3. <<<<op, {s}>>>> \in Seq(Normal(M))
    BY <1>2, <2>2, OpNames
  <2>4. <<<<op, {s}>>>> \o << >> = <<<<op, {s}>>>>
    BY <2>3, ConcatEmptySeq
  <2> QED
    BY <1>0, <1>1, <2>1, <2>3, <2>4 DEF Runs
<1>11. CASE ServerImplWrite(t)
  <2>1. PICK S \in SUBSET Conn :
          /\ Top(t, "server.Write", S)
          /\ \/ Return(t)
             \/ \E c \in S : Runs(t, <<"WriteOnEvent", {c}>>, <<<<"server.Write", S \ {c}>>>>)
    BY <1>11 DEF ServerImplWrite
  <2>2. CASE Return(t)
    BY <1>0, <1>1, <2>1, <2>2 DEF Return
  <2>3. ASSUME NEW c \in S,
               Runs(t, <<"WriteOnEvent", {c}>>, <<<<"server.Write", S \ {c}>>>>)
        PROVE  \E fr \in Seq(Normal(M)) : Continue(t, fr)
    <3>1. {c} \in SUBSET M /\ S \ {c} \in SUBSET M
      BY <1>0, <2>1, <2>3
    <3>2. /\ <<<<"server.Write", S \ {c}>>>> \in Seq(Normal(M))
          /\ <<<<"WriteOnEvent", {c}>>>> \in Seq(Normal(M))
      BY <1>2, <3>1 DEF NormalOp, ServerCall, EventCall
    <3>3. <<<<"WriteOnEvent", {c}>>>> \o <<<<"server.Write", S \ {c}>>>> \in Seq(Normal(M))
      BY <3>2, ConcatProperties
    <3> QED
      BY <2>3, <3>2, <3>3 DEF Runs
  <2> QED
    BY <1>0, <2>1, <2>2, <2>3
<1> QED
  BY <1>4, <1>5, <1>6, <1>7, <1>8, <1>9, <1>10, <1>11 DEF ThreadStep

(* What the closing of s calls: the answers to its requests, then the      *)
(* close callback.                                                         *)
Answers(s, n) ==
  FailWrites(s, n) \o (IF s \in shutdown_req THEN ShutdownAndClose(s) ELSE << >>)

(* The answers are a sequence of calls. *)
LEMMA AnswersType ==
  ASSUME NEW M, NEW s \in M, NEW n \in Nat
  PROVE  /\ Answers(s, n) \in Seq(Frames(M))
         /\ Answers(s, n) \o <<<<"close_cb", {s}>>>> \in Seq(Frames(M))
<1> DEFINE b == IF s \in shutdown_req THEN ShutdownAndClose(s) ELSE << >>
<1>1. << >> \in Seq(Frames(M)) /\ b \in Seq(Frames(M))
  BY FailWritesType
<1>2. FailWrites(s, n) \o b \in Seq(Frames(M))
  BY <1>1, FailWritesType, ConcatProperties
<1>3. <<<<"close_cb", {s}>>>> \in Seq(Frames(M))
  BY DEF Frames, Op
<1> QED
  BY <1>2, <1>3, ConcatProperties DEF Answers

(* What a step may do to the stacks, about sockets in M.                   *)
Moves(M) ==
  \/ UNCHANGED stack
  \/ \E u \in User, f \in Normal(M) : stack' = [stack EXCEPT ![u] = <<f>>]
  \/ \E t \in Thread, fr \in Seq(Normal(M)) : stack[t] # << >> /\ Continue(t, fr)
  \/ \E fr \in Seq(Normal(M)) : LoopCalls(fr)
  \/ \E c \in M \cap Conn : L # << >> /\ Continue(Loop, ShutdownAndClose(c))
  \/ \E c \in M \cap Conn : LoopCalls(ShutdownAndClose(c))
  \/ \E c \in M \cap Conn : LoopCalls(<<<<"conn.Connected", {c}>>>>)
  \/ \E c \in M \cap Conn, n \in Nat :
       /\ EndIteration /\ FinishClose(c)
       /\ LoopCalls(Answers(c, n) \o <<<<"close_cb", {c}>>>>)
  \/ LoopCalls(<<<<"close_cb", {Listener}>>>>)
  \/ /\ Top(Loop, "close_cb", {Listener})
     /\ Continue(Loop, <<<<"Closed", {}>>>>)
  \/ \E c \in M \cap Conn : /\ Top(Loop, "close_cb", {c})
                            /\ Continue(Loop, <<<<"conn.Closed", {c}>>>>)

(* Every step moves the stacks in one of these ways, about any set M that  *)
(* holds the listening socket and the connections there are.               *)
LEMMA StackMoves ==
  ASSUME NEW M \in SUBSET Socket, Listener \in M, GetConns("Connected") \subseteq M,
         \A c \in Conn : socket[c] # "none" \/ socket'[c] # "none" => c \in M,
         socket \in [Socket -> Phase], writes \in [Conn -> Nat], shutdown_req \subseteq Conn,
         stack \in [Thread -> Seq(Frames(M))],
         tasks \in Seq(Events(M)), batch \in 0..Len(tasks),
         [Next]_vars
  PROVE  Moves(M)
<1>0. /\ \A op \in NormalOp, S \in SUBSET M : <<<<op, S>>>> \in Seq(Normal(M))
      /\ << >> \in Seq(Normal(M))
      /\ Loop \in Thread
      /\ \A op, S : Top(Loop, op, S) => L # << >> /\ S \subseteq M
  <2>1. ASSUME NEW op, NEW S, Top(Loop, op, S) PROVE L # << >> /\ S \subseteq M
    <3>1. Head(L) \in Frames(M)
      BY <2>1, HeadTailProperties DEF Top, Thread, L
    <3> QED
      BY <2>1, <3>1 DEF Top, Frames, L
  <2> QED
    BY <2>1 DEF Normal, Thread
<1>1. ASSUME NEW u \in User, UserCall(u) PROVE Moves(M)
  <2>1. {c \in Conn : socket[c] # "none"} \subseteq M
    OBVIOUS
  <2>2. CallsOf(UserCalls, {c \in Conn : socket[c] # "none"}) \subseteq Normal(M)
    BY <2>1, CallbackType, CallsAssumption
  <2> QED
    BY <1>1, <2>2 DEF UserCall, Moves
<1>2. ASSUME NEW t \in Thread, ThreadStep(t) PROVE Moves(M)
  BY <1>2, ThreadCalls DEF Moves
<1>3. CASE Drain
  BY <1>3 DEF Drain, Moves
<1>4. CASE RunTask
  <2>1. tasks # << >> /\ Head(tasks) \in Events(M)
    BY <1>4, EmptySeq, HeadTailProperties DEF RunTask
  <2>2. <<Head(tasks)>> \in Seq(Normal(M))
    BY <2>1, OpNames DEF Events, Normal
  <2> QED
    BY <1>4, <2>2 DEF RunTask, Moves, LoopCalls
<1>5. CASE ListenOnEvent
  BY <1>5, <1>0 DEF ListenOnEvent, Ends, Moves, NormalOp, ServerState, L
<1>6. CASE WriteOnEvent
  BY <1>6, <1>0 DEF WriteOnEvent, Return, Moves, L
<1>7. CASE CloseConnOnEvent
  BY <1>7, <1>0 DEF CloseConnOnEvent, Return, Moves, L
<1>8. CASE CloseOnEvent
  BY <1>8, <1>0 DEF CloseOnEvent, Ends, Return, Moves, L
<1>9. CASE OnConnection
  <2>1. CASE Ends("null_id")
    BY <2>1, <1>0 DEF Ends, Moves
  <2>2. CASE ~Ends("null_id")
    <3>1. PICK c \in Conn, s \in {"open", "closed"} :
            /\ socket' = [socket EXCEPT ![c] = s]
            /\ LoopCalls(<<<<"conn.Connected", {c}>>>>)
      BY <1>9, <2>2 DEF OnConnection
    <3>2. c \in M \cap Conn
      BY <3>1 DEF Socket
    <3> QED
      BY <3>1, <3>2 DEF Moves
  <2> QED
    BY <2>1, <2>2
<1>10. CASE OnReadData
  <2>1. PICK c \in Conn : /\ socket[c] = "open"
                          /\ \E call \in Callback(ReadCalls, {c}) : LoopCalls(call)
    BY <1>10 DEF OnReadData
  <2>2. {c} \in SUBSET M
    BY <2>1
  <2>3. Callback(ReadCalls, {c}) \subseteq Seq(Normal(M))
    BY <2>2, CallbackType, CallsAssumption
  <2> QED
    BY <2>1, <2>3 DEF Moves
<1>11. CASE OnReadEof
  BY <1>11 DEF OnReadEof, Moves
<1>12. CASE OnShutdown \/ OnReadError
  BY <1>12 DEF OnShutdown, OnReadError, Moves
<1>13. ASSUME NEW ok \in BOOLEAN, OnWrite(ok) PROVE Moves(M)
  BY <1>13 DEF OnWrite, Moves
<1>14. CASE EndIteration
  <2>1. CASE UNCHANGED stack
    BY <2>1 DEF Moves
  <2>2. ASSUME NEW c \in Conn, FinishClose(c) PROVE Moves(M)
    <3>1. c # Listener /\ socket[c] = "closing" /\ c \in Socket
      BY <2>2, SocketAssumption DEF FinishClose, Socket
    <3>2. PICK n \in 0..writes[c] :
            LoopCalls(FailWrites(c, n)
                      \o (IF c \in shutdown_req THEN ShutdownAndClose(c) ELSE << >>)
                      \o <<<<"close_cb", {c}>>>>)
      BY <2>2, <3>1 DEF FinishClose
    <3>3. n \in Nat /\ c \in M
      BY <3>1, <3>2
    <3> QED
      BY <1>14, <2>2, <3>2, <3>3 DEF Moves, Answers
  <2>3. CASE FinishClose(Listener)
    BY <2>3 DEF FinishClose, Moves
  <2> QED
    BY <1>14, <2>1, <2>2, <2>3 DEF EndIteration, Socket
<1>15. CASE OnClose
  <2>1. PICK s \in Socket :
          /\ Top(Loop, "close_cb", {s})
          /\ Continue(Loop, IF s = Listener THEN <<<<"Closed", {}>>>>
                                            ELSE <<<<"conn.Closed", {s}>>>>)
    BY <1>15 DEF OnClose
  <2>2. s \in M
    BY <1>0, <2>1
  <2> QED
    BY <2>1, <2>2 DEF Moves, Socket
<1>16. CASE UNCHANGED vars
  BY <1>16 DEF vars, Moves
<1> QED
  BY <1>1, <1>2, <1>3, <1>4, <1>5, <1>6, <1>7, <1>8, <1>9, <1>10, <1>11, <1>12,
     <1>13, <1>14, <1>15, <1>16 DEF Next, LoopStep

(* These moves keep the stacks. *)
LEMMA MovesType ==
  ASSUME NEW M, Listener \in M, stack \in [Thread -> Seq(Frames(M))], Moves(M)
  PROVE  stack' \in [Thread -> Seq(Frames(M))]
<1>0. /\ Loop \in Thread /\ User \subseteq Thread
      /\ << >> \in Seq(Frames(M))
      /\ \A op \in Op, S \in SUBSET M : <<<<op, S>>>> \in Seq(Frames(M))
      /\ \A fr \in Seq(Normal(M)) : fr \in Seq(Frames(M))
      /\ \A c \in M : ShutdownAndClose(c) \in Seq(Frames(M))
  <2>1. \A c \in M : ShutdownAndClose(c) \in Seq(Frames(M))
    <3>1. 0 \in Nat
      OBVIOUS
    <3> QED
      BY <3>1, FailWritesType
  <2> QED
    BY <2>1, NormalSeqs DEF Thread, Frames
<1>1. ASSUME NEW fr \in Seq(Frames(M)), LoopCalls(fr)
      PROVE  stack' \in [Thread -> Seq(Frames(M))]
  BY <1>0, <1>1 DEF LoopCalls
<1>2. ASSUME NEW t \in Thread, NEW fr \in Seq(Frames(M)), stack[t] # << >>, Continue(t, fr)
      PROVE  stack' \in [Thread -> Seq(Frames(M))]
  BY <1>2, ContinueType
<1>3. ASSUME NEW u \in User, NEW f \in Normal(M), stack' = [stack EXCEPT ![u] = <<f>>]
      PROVE  stack' \in [Thread -> Seq(Frames(M))]
  <2>1. f \in Frames(M)
    BY OpNames DEF Normal, Frames
  <2> QED
    BY <1>0, <1>3, <2>1
<1>4. ASSUME NEW c \in M, NEW n \in Nat, LoopCalls(Answers(c, n) \o <<<<"close_cb", {c}>>>>)
      PROVE  stack' \in [Thread -> Seq(Frames(M))]
  BY <1>1, <1>4, AnswersType
<1>5. /\ <<<<"close_cb", {Listener}>>>> \in Seq(Frames(M))
      /\ <<<<"Closed", {}>>>> \in Seq(Frames(M))
      /\ \A c \in M : /\ <<<<"conn.Connected", {c}>>>> \in Seq(Frames(M))
                      /\ <<<<"conn.Closed", {c}>>>> \in Seq(Frames(M))
  BY <1>0 DEF Op, SetConn, ServerState
<1> QED
  BY <1>0, <1>1, <1>2, <1>3, <1>4, <1>5 DEF Moves, Top, L

(* The queue holds operations about sockets in M. *)
LEMMA TasksStep ==
  ASSUME NEW M \in SUBSET Socket, stack \in [Thread -> Seq(Frames(M))],
         tasks \in Seq(Events(M)), batch \in 0..Len(tasks), [Next]_vars
  PROVE  tasks' \in Seq(Events(M)) /\ batch' \in 0..Len(tasks')
<1>1. ASSUME UNCHANGED <<tasks, batch>>
      PROVE  tasks' \in Seq(Events(M)) /\ batch' \in 0..Len(tasks')
  BY <1>1
<1>2. ASSUME NEW e \in Events(M), tasks' = Append(tasks, e), UNCHANGED batch
      PROVE  tasks' \in Seq(Events(M)) /\ batch' \in 0..Len(tasks')
  BY <1>2, AppendProperties, LenProperties
<1>3. ASSUME NEW t \in Thread, NEW op, NEW S, Top(t, op, S) PROVE S \in SUBSET M
  <2>1. Head(stack[t]) \in Frames(M)
    BY <1>3, HeadTailProperties DEF Top
  <2> QED
    BY <1>3, <2>1 DEF Top, Frames
<1>4. ASSUME NEW t \in Thread, ServerImpl(t)
      PROVE  tasks' \in Seq(Events(M)) /\ batch' \in 0..Len(tasks')
  <2>1. PICK s \in Socket, op \in EventCall, from \in ServerCall :
          Top(t, from, {s}) /\ Runs(t, <<op, {s}>>, << >>)
    BY <1>4 DEF ServerImpl, EventCall, ServerCall
  <2>2. <<op, {s}>> \in Events(M) /\ UNCHANGED batch
    BY <1>3, <1>4, <2>1 DEF Events, ServerImpl
  <2> QED
    BY <1>1, <1>2, <2>1, <2>2 DEF Runs
<1>5. ASSUME NEW t \in Thread, ServerImplWrite(t)
      PROVE  tasks' \in Seq(Events(M)) /\ batch' \in 0..Len(tasks')
  <2>1. PICK S \in SUBSET Conn :
          /\ Top(t, "server.Write", S)
          /\ \/ UNCHANGED tasks
             \/ \E c \in S : Runs(t, <<"WriteOnEvent", {c}>>, <<<<"server.Write", S \ {c}>>>>)
    BY <1>5 DEF ServerImplWrite
  <2>2. UNCHANGED batch /\ \A c \in S : <<"WriteOnEvent", {c}>> \in Events(M)
    BY <1>3, <1>5, <2>1 DEF Events, ServerImplWrite, EventCall
  <2> QED
    BY <1>1, <1>2, <2>1, <2>2 DEF Runs
<1>6. CASE Drain
  BY <1>6, LenProperties DEF Drain
<1>7. CASE RunTask
  BY <1>7, EmptySeq, HeadTailProperties, LenProperties DEF RunTask
<1>8. ASSUME NEW t \in Thread, ThreadStep(t)
      PROVE  tasks' \in Seq(Events(M)) /\ batch' \in 0..Len(tasks')
  <2>1. CASE ServerImpl(t) \/ ServerImplWrite(t)
    BY <1>4, <1>5, <2>1
  <2>2. CASE ~(ServerImpl(t) \/ ServerImplWrite(t))
    BY <1>1, <1>8, <2>2
    DEF ThreadStep, Listen, Close, Write, WriteAll, SetState, SetConnState, queueVars
  <2> QED
    BY <2>1, <2>2
<1>9. CASE \/ ListenOnEvent \/ WriteOnEvent \/ CloseConnOnEvent \/ CloseOnEvent
           \/ OnShutdown \/ EndIteration \/ OnClose
  BY <1>1, <1>9 DEF ListenOnEvent, WriteOnEvent, CloseConnOnEvent, CloseOnEvent,
     OnShutdown, EndIteration, OnClose, Ends, queueVars
<1>10. CASE \/ OnConnection \/ OnReadData \/ OnReadEof \/ OnReadError
            \/ \E ok \in BOOLEAN : OnWrite(ok)
  BY <1>1, <1>10 DEF OnConnection, OnReadData, OnReadEof, OnReadError, OnWrite,
     Ends, queueVars
<1>11. CASE \E u \in User : UserCall(u)
  BY <1>1, <1>11 DEF UserCall, queueVars
<1>12. CASE UNCHANGED vars
  BY <1>1, <1>12 DEF vars
<1> QED
  BY <1>6, <1>7, <1>8, <1>9, <1>10, <1>11, <1>12 DEF Next, LoopStep

-----------------------------------------------------------------------------
(* Type correctness. *)

(* The constructor gives every variable its type. *)
LEMMA InitType == Init => TypeOK
<1> SUFFICES ASSUME Init PROVE TypeOK
  OBVIOUS
<1>1. /\ << >> \in Seq(Frame) /\ << >> \in Seq(EventCall \X SUBSET Socket)
      /\ Len(<< >>) = 0
  OBVIOUS
<1>2. stack \in [Thread -> Seq(Frame)]
  BY <1>1 DEF Init
<1>3. calls \in 0..MaxCalls /\ batch \in 0..Len(tasks)
  BY <1>1, BoundAssumption DEF Init
<1>4. state \in ServerState /\ socket \in [Socket -> Phase]
  BY DEF Init, ServerState, Phase
<1> QED
  BY <1>1, <1>2, <1>3, <1>4 DEF Init, TypeOK

(* What is known of the types, in terms of all sockets. *)
LEMMA TypeFacts ==
  ASSUME TypeOK
  PROVE  /\ Socket \in SUBSET Socket /\ Listener \in Socket /\ Conn \subseteq Socket
         /\ Listener \notin Conn /\ GetConns("Connected") \subseteq Socket
         /\ stack \in [Thread -> Seq(Frames(Socket))]
         /\ tasks \in Seq(Events(Socket)) /\ batch \in 0..Len(tasks)
         /\ socket \in [Socket -> Phase] /\ writes \in [Conn -> Nat]
         /\ shutdown_req \subseteq Conn
BY SocketAssumption DEF TypeOK, Frame, Frames, Events, Socket, GetConns

(* Every step keeps the types. *)
LEMMA NextType == TypeOK /\ [Next]_vars => TypeOK'
<1> SUFFICES ASSUME TypeOK, [Next]_vars PROVE TypeOK'
  OBVIOUS
<1>1. Moves(Socket)
  BY TypeFacts, StackMoves
<1>2. stack' \in [Thread -> Seq(Frame)]
  BY <1>1, TypeFacts, MovesType DEF Frame, Frames
<1>3. tasks' \in Seq(EventCall \X SUBSET Socket) /\ batch' \in 0..Len(tasks')
  BY TypeFacts, TasksStep DEF Events
<1>4. calls' \in 0..MaxCalls
  <2>1. CASE UNCHANGED calls
    BY <2>1 DEF TypeOK
  <2>2. ASSUME NEW call, Len(call) \in {0, 1}, Calls(call) PROVE calls' \in 0..MaxCalls
    BY <2>2, BoundAssumption DEF Calls, TypeOK
  <2>3. ASSUME NEW allowed \in SUBSET AppCall, NEW conns, NEW call \in Callback(allowed, conns)
        PROVE  Len(call) \in {0, 1}
    BY CallbackType
  <2>4. ASSUME NEW u \in User, UserCall(u) PROVE calls' \in 0..MaxCalls
    <3>1. PICK f : Calls(<<f>>)
      BY <2>4 DEF UserCall
    <3>2. Len(<<f>>) = 1
      OBVIOUS
    <3> QED
      BY <2>2, <3>1, <3>2
  <2>5. ASSUME NEW t \in Thread, SetState(t) \/ SetConnState(t)
        PROVE  calls' \in 0..MaxCalls
    <3>1. PICK conns : \E call \in Callback(StatesCalls, conns) : Calls(call)
      BY <2>5 DEF SetState, SetConnState
    <3> QED
      BY <2>2, <2>3, <3>1, CallsAssumption
  <2>6. CASE OnReadData
    <3>1. PICK conns : \E call \in Callback(ReadCalls, conns) : Calls(call)
      BY <2>6 DEF OnReadData
    <3> QED
      BY <2>2, <2>3, <3>1, CallsAssumption
  <2>7. ASSUME NEW t \in Thread, ThreadStep(t) PROVE calls' \in 0..MaxCalls
    BY <2>1, <2>5, <2>7 DEF ThreadStep, Listen, Close, Write, WriteAll, ServerImpl,
       ServerImplWrite
  <2>8. CASE LoopStep
    BY <2>1, <2>8 DEF LoopStep, Drain, RunTask, ListenOnEvent, WriteOnEvent,
       CloseConnOnEvent, CloseOnEvent, OnShutdown, EndIteration, OnClose, Ends
  <2>9. CASE \/ OnConnection \/ OnReadEof \/ OnReadError
             \/ \E ok \in BOOLEAN : OnWrite(ok)
    BY <2>1, <2>9 DEF OnConnection, OnReadEof, OnReadError, OnWrite, Ends
  <2>10. CASE UNCHANGED vars
    BY <2>1, <2>10 DEF vars
  <2> QED
    BY <2>4, <2>6, <2>7, <2>8, <2>9, <2>10 DEF Next
<1>5. /\ state' \in ServerState /\ drained' \in BOOLEAN
      /\ connStates' \in [Conn -> {"none", "Connected", "Shutdown"}]
      /\ socket' \in [Socket -> Phase] /\ writes' \in [Conn -> Nat]
      /\ shutdown_req' \in SUBSET Conn /\ fault' \in {"none", "misuse", "null_id"}
  <2> USE DEF TypeOK
  <2>1. CASE \E u \in User : UserCall(u)
    BY <2>1 DEF UserCall, stateVars, queueVars, socketVars
  <2>2. ASSUME NEW t \in Thread, SetConnState(t)
        PROVE  connStates' \in [Conn -> {"none", "Connected", "Shutdown"}]
    <3>1. PICK op \in SetConn, c \in Conn :
            connStates' = [connStates EXCEPT ![c] =
                        CASE op = "conn.Connected" -> "Connected"
                          [] op = "conn.Shutdown"  -> "Shutdown"
                          [] op = "conn.Closed"    -> "none"]
      BY <2>2 DEF SetConnState
    <3>2. \E v \in {"none", "Connected", "Shutdown"} : connStates' = [connStates EXCEPT ![c] = v]
      BY <3>1 DEF SetConn
    <3> QED
      BY <3>2
  <2>3. ASSUME NEW t \in Thread, ThreadStep(t)
        PROVE  /\ state' \in ServerState /\ UNCHANGED <<drained, socketVars>>
               /\ connStates' \in [Conn -> {"none", "Connected", "Shutdown"}]
    BY <2>2, <2>3 DEF ThreadStep, Listen, Close, Write, WriteAll, SetState, SetConnState,
       ServerImpl, ServerImplWrite, stateVars, queueVars
  <2>4. CASE LoopStep
    <3>1. CASE Drain \/ RunTask \/ ListenOnEvent \/ CloseConnOnEvent \/ CloseOnEvent
               \/ OnClose
      BY <3>1, TypeFacts DEF Drain, RunTask, ListenOnEvent, CloseConnOnEvent,
         CloseOnEvent, OnClose, Ends, stateVars, queueVars, socketVars, Phase
    <3>2. CASE WriteOnEvent
      <4>1. PICK c \in Conn : UNCHANGED writes \/ writes' = [writes EXCEPT ![c] = @ + 1]
        BY <3>2 DEF WriteOnEvent
      <4>2. writes[c] + 1 \in Nat
        OBVIOUS
      <4>3. writes' \in [Conn -> Nat]
        BY <4>1, <4>2
      <4> QED
        BY <3>2, <4>3 DEF WriteOnEvent, stateVars, queueVars
    <3>3. CASE OnShutdown
      <4>1. shutdown_req' \in SUBSET Conn
        BY <3>3 DEF OnShutdown
      <4> QED
        BY <3>3, <4>1 DEF OnShutdown, stateVars, queueVars
    <3>4. CASE EndIteration
      <4>1. /\ drained' = FALSE /\ UNCHANGED <<stateVars, socket, fault>>
            /\ UNCHANGED <<writes, shutdown_req>> \/ \E s \in Socket : FinishClose(s)
        BY <3>4 DEF EndIteration
      <4>2. ASSUME NEW s \in Socket, FinishClose(s)
            PROVE  writes' \in [Conn -> Nat] /\ shutdown_req' \in SUBSET Conn
        <5>1. CASE s = Listener
          BY <4>2, <5>1 DEF FinishClose
        <5>2. CASE s # Listener
          <6>1. writes' = [writes EXCEPT ![s] = 0] /\ shutdown_req' = shutdown_req \ {s}
            BY <4>2, <5>2 DEF FinishClose
          <6> QED
            BY <6>1
        <5> QED
          BY <5>1, <5>2
      <4> QED
        BY <4>1, <4>2 DEF stateVars
    <3> QED
      BY <2>4, <3>1, <3>2, <3>3, <3>4 DEF LoopStep
  <2>5. CASE OnConnection \/ OnReadEof \/ OnReadError
    BY <2>5, TypeFacts DEF OnConnection, OnReadEof, OnReadError, Ends, stateVars,
       queueVars, Phase
  <2>6. CASE OnReadData \/ UNCHANGED vars
    BY <2>6 DEF OnReadData, vars, stateVars, queueVars, socketVars
  <2>7. ASSUME NEW ok \in BOOLEAN, OnWrite(ok)
        PROVE  writes' \in [Conn -> Nat] /\ UNCHANGED <<stateVars, drained, socket, shutdown_req, fault>>
    BY <2>7 DEF OnWrite, queueVars
  <2> QED
    BY <2>1, <2>3, <2>4, <2>5, <2>6, <2>7 DEF Next, socketVars, stateVars
<1> QED
  BY <1>2, <1>3, <1>4, <1>5 DEF TypeOK

(* Whatever the application does, the variables keep their types; every    *)
(* thread runs calls the code has, about sockets there are.                *)
THEOREM TypeCorrect == Spec => []TypeOK
BY InitType, NextType, PTL DEF Spec

-----------------------------------------------------------------------------
(* The shape of the stacks.  The calls of the close callback, of OnNewConn *)
(* and of OnCloseConn are the last ones there, the latter two the only     *)
(* ones; a Shutdown is followed by the close; and only the network thread  *)
(* sets the state of connections.                                          *)

Final == {"close_cb", "conn.Connected", "conn.Closed"}

NoFinal(s) == \A i \in 1..Len(s) : s[i][1] \notin Final

FinalLast(s) ==
  \A i \in 1..Len(s) : s[i][1] \in Final =>
    i = Len(s) /\ (s[i][1] # "close_cb" => Len(s) = 1)

Chained(s) ==
  \A i \in 1..Len(s) : s[i][1] = "conn.Shutdown" =>
    i < Len(s) /\ s[i + 1] = <<"server.Close", s[i][2]>>

UsersNormal == \A u \in User : stack[u] \in Seq(Normal(Socket))

ShapeInv == UsersNormal /\ FinalLast(L) /\ Chained(L)

In(f, s) == \E i \in 1..Len(s) : s[i] = f

(* An index of a concatenation is one of its first or of its second part.  *)
LEMMA SplitIndex ==
  ASSUME NEW m \in Nat, NEW n \in Nat, NEW i \in 1..m + n
  PROVE  i \in 1..m \/ \E j \in 1..n : i = m + j
<1>1. CASE i <= m
  BY <1>1
<1>2. CASE ~(i <= m)
  <2>1. i - m \in 1..n /\ i = m + (i - m)
    BY <1>2
  <2> QED
    BY <2>1
<1> QED
  BY <1>1, <1>2

(* A concatenation, element by element. *)
LEMMA ConcatElements ==
  ASSUME NEW S, NEW a \in Seq(S), NEW b \in Seq(S)
  PROVE  /\ Len(a) \in Nat /\ Len(b) \in Nat /\ Len(a \o b) = Len(a) + Len(b)
         /\ \A i \in 1..Len(a) : (a \o b)[i] = a[i]
         /\ \A i \in 1..Len(b) : (a \o b)[Len(a) + i] = b[i]
<1>1. /\ Len(a \o b) = Len(a) + Len(b)
      /\ \A i \in 1..Len(a) + Len(b) : (a \o b)[i] =
            IF i <= Len(a) THEN a[i] ELSE b[i - Len(a)]
  BY ConcatProperties
<1>2. Len(a) \in Nat /\ Len(b) \in Nat
  BY LenProperties
<1>3. ASSUME NEW i \in 1..Len(a) PROVE (a \o b)[i] = a[i]
  BY <1>1, <1>2
<1>4. ASSUME NEW i \in 1..Len(b) PROVE (a \o b)[Len(a) + i] = b[i]
  <2>1. /\ Len(a) + i \in 1..Len(a) + Len(b) /\ ~(Len(a) + i <= Len(a))
        /\ (Len(a) + i) - Len(a) = i
    BY <1>2
  <2> QED
    BY <1>1, <2>1
<1> QED
  BY <1>1, <1>2, <1>3, <1>4

(* A sequence that is not empty, and what follows its head. *)
LEMMA TailElements ==
  ASSUME NEW S, NEW s \in Seq(S), s # << >>
  PROVE  /\ Tail(s) \in Seq(S) /\ Len(s) \in Nat \ {0} /\ Len(Tail(s)) = Len(s) - 1
         /\ Head(s) = s[1] /\ 1 \in 1..Len(s)
         /\ \A i \in 1..Len(Tail(s)) : i + 1 \in 1..Len(s) /\ Tail(s)[i] = s[i + 1]
         /\ \A i \in 1..Len(s) : i = 1 \/ i - 1 \in 1..Len(Tail(s))
<1>1. /\ Tail(s) \in Seq(S) /\ Len(Tail(s)) = Len(s) - 1 /\ Head(s) = s[1]
      /\ \A i \in 1..Len(Tail(s)) : Tail(s)[i] = s[i + 1]
  BY HeadTailProperties
<1>2. Len(s) \in Nat \ {0}
  BY EmptySeq, LenProperties
<1> QED
  BY <1>1, <1>2

(* Replacing the innermost call keeps the shape. *)
LEMMA PopShape ==
  ASSUME NEW S, NEW s \in Seq(S), s # << >>, FinalLast(s), Chained(s),
         NEW fr \in Seq(S), NoFinal(fr), Chained(fr)
  PROVE  /\ FinalLast(fr \o Tail(s)) /\ Chained(fr \o Tail(s))
         /\ \A f : In(f, fr \o Tail(s)) => In(f, fr) \/ In(f, s)
         /\ \A f : In(f, fr) => In(f, fr \o Tail(s))
         /\ \A f : In(f, s) /\ f # Head(s) => In(f, fr \o Tail(s))
         /\ \A i \in 1..Len(fr \o Tail(s)) :
              (fr \o Tail(s))[i][1] \notin {"conn.Connected", "conn.Closed"}
<1> DEFINE t == Tail(s)
           r == fr \o t
           n == Len(fr)
<1>0. t \in Seq(S)
  BY TailElements
<1>1. /\ t \in Seq(S) /\ Len(s) \in Nat \ {0} /\ Len(t) = Len(s) - 1
      /\ Head(s) = s[1]
      /\ \A i \in 1..Len(t) : i + 1 \in 1..Len(s) /\ t[i] = s[i + 1]
      /\ \A i \in 1..Len(s) : i = 1 \/ i - 1 \in 1..Len(t)
  BY TailElements
<1> HIDE DEF t
<1>2. /\ n \in Nat /\ Len(t) \in Nat /\ Len(r) = n + Len(t)
      /\ \A i \in 1..n : r[i] = fr[i]
      /\ \A i \in 1..Len(t) : r[n + i] = t[i]
      /\ \A i \in 1..Len(r) : i \in 1..n \/ \E j \in 1..Len(t) : i = n + j
  <2>1. /\ n \in Nat /\ Len(t) \in Nat /\ Len(r) = n + Len(t)
        /\ \A i \in 1..n : r[i] = fr[i]
        /\ \A i \in 1..Len(t) : r[n + i] = t[i]
    BY <1>0, ConcatElements
  <2> HIDE DEF r, n
  <2> QED
    BY <2>1, SplitIndex
<1> HIDE DEF r, n
<1>3. ASSUME NEW i \in 1..Len(r), r[i][1] \in Final
      PROVE  i = Len(r) /\ r[i][1] = "close_cb"
  <2>1. i \notin 1..n
    BY <1>2, <1>3 DEF NoFinal, n
  <2>2. PICK j \in 1..Len(t) : i = n + j
    BY <1>2, <2>1
  <2>3. j + 1 \in 1..Len(s) /\ s[j + 1][1] \in Final /\ r[i] = s[j + 1]
    BY <1>1, <1>2, <1>3, <2>2
  <2>4. j + 1 = Len(s) /\ Len(s) # 1
    BY <1>1, <2>2, <2>3 DEF FinalLast
  <2>5. r[i][1] = "close_cb"
    BY <2>3, <2>4 DEF FinalLast
  <2>6. i = Len(r)
    <3>1. /\ n \in Nat /\ Len(r) = n + Len(t) /\ Len(t) = Len(s) - 1
          /\ Len(s) \in Nat /\ j \in Int
      BY <1>1, <1>2
    <3> QED
      BY <2>2, <2>4, <3>1
  <2> QED
    BY <2>5, <2>6
<1>4. ASSUME NEW i \in 1..Len(r), r[i][1] = "conn.Shutdown"
      PROVE  i < Len(r) /\ r[i + 1] = <<"server.Close", r[i][2]>>
  <2>1. CASE i \in 1..n
    <3>1. i < n /\ fr[i + 1] = <<"server.Close", fr[i][2]>>
      BY <1>2, <1>4, <2>1 DEF Chained, n
    <3>2. i + 1 \in 1..n /\ i < Len(r)
      BY <1>2, <2>1, <3>1
    <3> QED
      BY <1>2, <2>1, <3>1, <3>2
  <2>2. ASSUME NEW j \in 1..Len(t), i = n + j
        PROVE  i < Len(r) /\ r[i + 1] = <<"server.Close", r[i][2]>>
    <3>1. j + 1 \in 1..Len(s) /\ r[i] = s[j + 1]
      BY <1>1, <1>2, <2>2
    <3>2. j + 1 < Len(s) /\ s[j + 1 + 1] = <<"server.Close", s[j + 1][2]>>
      BY <1>4, <3>1 DEF Chained
    <3>3. j + 1 \in 1..Len(t) /\ i + 1 = n + (j + 1) /\ i < Len(r)
      BY <1>1, <1>2, <2>2, <3>2
    <3>4. r[i + 1] = t[j + 1]
      BY <1>2, <3>3
    <3> QED
      BY <1>1, <3>1, <3>2, <3>3, <3>4
  <2> QED
    BY <1>2, <2>1, <2>2
<1>5. ASSUME NEW f, NEW i \in 1..Len(r), r[i] = f PROVE In(f, fr) \/ In(f, s)
  <2>1. CASE i \in 1..n
    BY <1>2, <1>5, <2>1 DEF In, n
  <2>2. ASSUME NEW j \in 1..Len(t), i = n + j PROVE In(f, s)
    <3>1. j + 1 \in 1..Len(s) /\ r[i] = s[j + 1]
      BY <1>1, <1>2, <2>2
    <3> QED
      BY <1>5, <3>1 DEF In
  <2> QED
    BY <1>2, <2>1, <2>2
<1>6. ASSUME NEW i \in 1..n PROVE i \in 1..Len(r) /\ r[i] = fr[i]
  BY <1>2
<1>7. ASSUME NEW i \in 1..Len(s), s[i] # Head(s)
      PROVE  \E k \in 1..Len(r) : r[k] = s[i]
  <2>1. i - 1 \in 1..Len(t) /\ i \in Int
    BY <1>1, <1>7
  <2>2. t[i - 1] = s[i]
    BY <1>1, <2>1
  <2>3. n + (i - 1) \in 1..Len(r) /\ r[n + (i - 1)] = t[i - 1]
    BY <1>2, <2>1
  <2> QED
    BY <2>2, <2>3
<1>8. FinalLast(r) /\ Chained(r)
  BY <1>3, <1>4 DEF FinalLast, Chained
<1>9. \A f : In(f, r) => In(f, fr) \/ In(f, s)
  BY <1>5 DEF In
<1>10. \A f : In(f, fr) => In(f, r)
  BY <1>6 DEF In, n
<1>11. \A f : In(f, s) /\ f # Head(s) => In(f, r)
  BY <1>7 DEF In
<1>12. \A i \in 1..Len(r) : r[i][1] \notin {"conn.Connected", "conn.Closed"}
  BY <1>3 DEF Final
<1> QED
  BY <1>8, <1>9, <1>10, <1>11, <1>12 DEF r, t

(* What comes after calls without a final one keeps its shape. *)
LEMMA ConcatShape ==
  ASSUME NEW S, NEW a \in Seq(S), NEW b \in Seq(S), NoFinal(a), Chained(a), Chained(b)
  PROVE  /\ Chained(a \o b)
         /\ NoFinal(b) => NoFinal(a \o b)
         /\ Len(b) = 1 /\ b[1][1] = "close_cb" => FinalLast(a \o b)
         /\ \A f : In(f, a \o b) => In(f, a) \/ In(f, b)
<1> DEFINE r == a \o b
           n == Len(a)
<1>1. /\ n \in Nat /\ Len(b) \in Nat /\ Len(r) = n + Len(b)
      /\ \A i \in 1..n : r[i] = a[i]
      /\ \A i \in 1..Len(b) : r[n + i] = b[i]
      /\ \A i \in 1..Len(r) : i \in 1..n \/ \E j \in 1..Len(b) : i = n + j
  <2>1. /\ n \in Nat /\ Len(b) \in Nat /\ Len(r) = n + Len(b)
        /\ \A i \in 1..n : r[i] = a[i]
        /\ \A i \in 1..Len(b) : r[n + i] = b[i]
    BY ConcatElements
  <2> HIDE DEF r, n
  <2> QED
    BY <2>1, SplitIndex
<1> HIDE DEF r, n
<1>2. ASSUME NEW i \in 1..Len(r), r[i][1] = "conn.Shutdown"
      PROVE  i < Len(r) /\ r[i + 1] = <<"server.Close", r[i][2]>>
  <2>1. CASE i \in 1..n
    <3>1. i < n /\ a[i + 1] = <<"server.Close", a[i][2]>>
      BY <1>1, <1>2, <2>1 DEF Chained, n
    <3>2. i + 1 \in 1..n /\ i < Len(r)
      BY <1>1, <2>1, <3>1
    <3> QED
      BY <1>1, <2>1, <3>1, <3>2
  <2>2. ASSUME NEW j \in 1..Len(b), i = n + j
        PROVE  i < Len(r) /\ r[i + 1] = <<"server.Close", r[i][2]>>
    <3>1. r[i] = b[j]
      BY <1>1, <2>2
    <3>2. j < Len(b) /\ b[j + 1] = <<"server.Close", b[j][2]>>
      BY <1>2, <3>1 DEF Chained
    <3>3. j + 1 \in 1..Len(b) /\ i + 1 = n + (j + 1) /\ i < Len(r)
      BY <1>1, <2>2, <3>2
    <3>4. r[i + 1] = b[j + 1]
      BY <1>1, <3>3
    <3> QED
      BY <3>1, <3>2, <3>3, <3>4
  <2> QED
    BY <1>1, <2>1, <2>2
<1>3. ASSUME NEW i \in 1..Len(r)
      PROVE  (\E k \in 1..n : r[i] = a[k]) \/ (\E k \in 1..Len(b) : r[i] = b[k])
  BY <1>1
<1>4. ASSUME NoFinal(b) PROVE NoFinal(r)
  BY <1>3, <1>4 DEF NoFinal, n
<1>5. ASSUME Len(b) = 1, b[1][1] = "close_cb" PROVE FinalLast(r)
  <2>1. ASSUME NEW i \in 1..Len(r), r[i][1] \in Final PROVE i = Len(r)
    <3>1. i \notin 1..n
      BY <1>1, <2>1 DEF NoFinal, n
    <3>2. PICK j \in 1..Len(b) : i = n + j
      BY <1>1, <3>1
    <3>3. j = 1 /\ Len(r) = n + 1
      BY <1>1, <1>5, <3>2
    <3> QED
      BY <3>2, <3>3
  <2>2. ASSUME NEW i \in 1..Len(r), r[i][1] \in Final PROVE r[i][1] = "close_cb"
    <3>1. i = n + 1 /\ r[n + 1] = b[1]
      BY <1>1, <1>5, <2>1, <2>2
    <3> QED
      BY <1>5, <3>1
  <2> QED
    BY <2>1, <2>2 DEF FinalLast
<1>6. \A f : In(f, r) => In(f, a) \/ In(f, b)
  BY <1>3 DEF In, n
<1>7. Chained(r)
  BY <1>2 DEF Chained
<1> QED
  BY <1>4, <1>5, <1>6, <1>7 DEF r

(* The shape of what steps put on the stacks. *)
LEMMA FrameShapes ==
  /\ \A M : \A fr \in Seq(Normal(M)) : NoFinal(fr) /\ Chained(fr) /\ FinalLast(fr)
  /\ \A f : f[1] \in Final =>
       Chained(<<f>>) /\ FinalLast(<<f>>) /\ \A g : In(g, <<f>>) => g = f
  /\ \A c : NoFinal(ShutdownAndClose(c)) /\ Chained(ShutdownAndClose(c))
                                         /\ FinalLast(ShutdownAndClose(c))
<1>1. ASSUME NEW M, NEW fr \in Seq(Normal(M))
      PROVE  NoFinal(fr) /\ Chained(fr) /\ FinalLast(fr)
  <2>1. ASSUME NEW i \in 1..Len(fr)
        PROVE  fr[i][1] \notin Final /\ fr[i][1] # "conn.Shutdown"
    <3>1. fr[i] \in Normal(M)
      BY LenProperties
    <3>2. fr[i][1] \in NormalOp
      BY <3>1 DEF Normal
    <3> QED
      BY <3>2, OpNames DEF Final, SetConn
  <2> QED
    BY <2>1 DEF NoFinal, Chained, FinalLast
<1>2. ASSUME NEW f, f[1] \in Final
      PROVE  Chained(<<f>>) /\ FinalLast(<<f>>) /\ \A g : In(g, <<f>>) => g = f
  BY <1>2 DEF Chained, FinalLast, In, Final
<1>3. ASSUME NEW c
      PROVE  NoFinal(ShutdownAndClose(c)) /\ Chained(ShutdownAndClose(c))
                                          /\ FinalLast(ShutdownAndClose(c))
  BY DEF ShutdownAndClose, NoFinal, Chained, FinalLast, Final
<1> QED
  BY <1>1, <1>2, <1>3

(* The answers to the requests of a closing connection, then its close     *)
(* callback, have the shape.                                               *)
LEMMA AnswersShape ==
  ASSUME NEW s \in Socket, NEW n \in Nat
  PROVE  LET r == Answers(s, n) \o <<<<"close_cb", {s}>>>>
         IN  /\ FinalLast(r) /\ Chained(r)
             /\ \A f : In(f, r) /\ f[1] \in Final => f = <<"close_cb", {s}>>
<1> DEFINE a == FailWrites(s, n)
           b == IF s \in shutdown_req THEN ShutdownAndClose(s) ELSE << >>
           cb == <<<<"close_cb", {s}>>>>
<1>1. /\ a \in Seq(Frames(Socket)) /\ b \in Seq(Frames(Socket))
      /\ cb \in Seq(Frames(Socket)) /\ Len(a) = 2 * n
  BY FailWritesType DEF Frames, Op
<1>2. NoFinal(a) /\ Chained(a)
  <2>1. ASSUME NEW i \in 1..2 * n
        PROVE  /\ a[i][1] \notin Final
               /\ a[i][1] = "conn.Shutdown" =>
                    i < 2 * n /\ a[i + 1] = <<"server.Close", a[i][2]>>
    <3>1. CASE i % 2 = 1
      <4>1. i < 2 * n /\ i + 1 \in 1..2 * n /\ (i + 1) % 2 # 1
        BY <3>1
      <4>2. a[i] = <<"conn.Shutdown", {s}>> /\ a[i + 1] = <<"server.Close", {s}>>
        BY <3>1, <4>1 DEF FailWrites
      <4> QED
        BY <4>1, <4>2 DEF Final
    <3>2. CASE i % 2 # 1
      <4>1. a[i] = <<"server.Close", {s}>>
        BY <3>2 DEF FailWrites
      <4> QED
        BY <4>1 DEF Final
    <3> QED
      BY <3>1, <3>2
  <2> QED
    BY <1>1, <2>1 DEF NoFinal, Chained
<1>3. NoFinal(b) /\ Chained(b)
  BY FrameShapes DEF NoFinal, Chained
<1>4. cb[1][1] = "close_cb" /\ Len(cb) = 1
  OBVIOUS
<1>5. Chained(cb) /\ \A f : In(f, cb) => f = <<"close_cb", {s}>>
  BY FrameShapes DEF Final
<1> HIDE DEF a, b, cb
<1>6. a \o b \in Seq(Frames(Socket)) /\ NoFinal(a \o b) /\ Chained(a \o b)
  BY <1>1, <1>2, <1>3, ConcatShape, ConcatProperties
<1>7. /\ FinalLast((a \o b) \o cb) /\ Chained((a \o b) \o cb)
      /\ \A f : In(f, (a \o b) \o cb) => In(f, a \o b) \/ In(f, cb)
  BY <1>1, <1>4, <1>5, <1>6, ConcatShape
<1>8. \A f : In(f, a \o b) => f[1] \notin Final
  BY <1>6 DEF In, NoFinal
<1>9. Answers(s, n) \o <<<<"close_cb", {s}>>>> = (a \o b) \o cb
  BY DEF Answers, a, b, cb
<1> QED
  BY <1>5, <1>7, <1>8, <1>9

(* The final calls are alone on the stack when it is their turn. *)
LEMMA FinalAlone ==
  ASSUME TypeOK, ShapeInv, NEW op \in Final, NEW S, Top(Loop, op, S)
  PROVE  /\ L = <<<<op, S>>>>
         /\ \A fr \in Seq(Frame) : Continue(Loop, fr) => L' = fr
<1>1. L \in Seq(Frame) /\ L # << >> /\ Head(L) = <<op, S>>
  BY DEF Top, L, TypeOK, Thread
<1>2. /\ L[1] = <<op, S>> /\ 1 \in 1..Len(L)
      /\ Tail(L) \in Seq(Frame) /\ Len(Tail(L)) = Len(L) - 1
  BY <1>1, TailElements
<1>3. Len(L) = 1
  <2>1. L[1][1] = op
    BY <1>2
  <2> QED
    BY <1>2, <2>1 DEF ShapeInv, FinalLast
<1>4. Tail(L) = << >>
  BY <1>2, <1>3, EmptySeq
<1>5. \A fr \in Seq(Frame) : Continue(Loop, fr) => L' = fr
  BY <1>4, ConcatEmptySeq DEF Continue, L, TypeOK, Thread
<1>6. L = <<<<op, S>>>>
  <2>1. <<<<op, S>>>> \in Seq(Frame) /\ Len(<<<<op, S>>>>) = 1
    BY <1>1, <1>2, ElementOfSeq
  <2> QED
    BY <1>1, <1>2, <1>3, <2>1, SeqEqual
<1> QED
  BY <1>5, <1>6

(* Nothing is on the stacks at first. *)
LEMMA InitShape == Init => ShapeInv
BY DEF Init, ShapeInv, UsersNormal, FinalLast, Chained, L, Thread

(* Every step keeps the shape. *)
LEMMA NextShape == TypeOK /\ ShapeInv /\ [Next]_vars => ShapeInv'
<1> SUFFICES ASSUME TypeOK, ShapeInv, [Next]_vars PROVE ShapeInv'
  OBVIOUS
<1>0. /\ Moves(Socket) /\ Loop \in Thread /\ User \subseteq Thread /\ Loop \notin User
      /\ stack \in [Thread -> Seq(Frame)] /\ L \in Seq(Frame)
      /\ \A fr \in Seq(Normal(Socket)) : fr \in Seq(Frame)
      /\ \A c \in Conn : ShutdownAndClose(c) \in Seq(Frame)
  <2>1. \A c \in Conn : ShutdownAndClose(c) \in Seq(Frames(Socket))
    <3>1. 0 \in Nat
      OBVIOUS
    <3> QED
      BY <3>1, FailWritesType DEF Socket
  <2> QED
    BY <2>1, TypeFacts, StackMoves, NormalSeqs, ThreadAssumption
    DEF Thread, TypeOK, Frame, Frames, L
<1>1. ASSUME NEW fr, LoopCalls(fr), FinalLast(fr), Chained(fr) PROVE ShapeInv'
  BY <1>0, <1>1 DEF LoopCalls, ShapeInv, UsersNormal, L
<1>2. ASSUME NEW fr \in Seq(Frame), L # << >>, Continue(Loop, fr), NoFinal(fr), Chained(fr)
      PROVE  ShapeInv'
  <2>1. FinalLast(fr \o Tail(L)) /\ Chained(fr \o Tail(L))
    BY <1>0, <1>2, PopShape DEF ShapeInv
  <2>2. L' = fr \o Tail(L) /\ \A u \in User : stack'[u] = stack[u]
    BY <1>0, <1>2 DEF Continue, L
  <2> QED
    BY <2>1, <2>2 DEF ShapeInv, UsersNormal
<1>3. CASE UNCHANGED stack
  BY <1>3 DEF ShapeInv, UsersNormal, L
<1>4. ASSUME NEW u \in User, NEW f \in Normal(Socket), stack' = [stack EXCEPT ![u] = <<f>>]
      PROVE  ShapeInv'
  <2>1. L' = L /\ \A v \in User : stack'[v] = IF v = u THEN <<f>> ELSE stack[v]
    BY <1>0, <1>4 DEF L
  <2>2. <<f>> \in Seq(Normal(Socket))
    OBVIOUS
  <2> QED
    BY <2>1, <2>2 DEF ShapeInv, UsersNormal
<1>5. ASSUME NEW t \in Thread, NEW fr \in Seq(Normal(Socket)), stack[t] # << >>,
             Continue(t, fr)
      PROVE  ShapeInv'
  <2>1. CASE t = Loop
    BY <1>0, <1>2, <1>5, <2>1, FrameShapes DEF L
  <2>2. CASE t # Loop
    <3>1. t \in User /\ stack[t] \in Seq(Normal(Socket))
      BY <2>2 DEF Thread, ShapeInv, UsersNormal
    <3>2. fr \o Tail(stack[t]) \in Seq(Normal(Socket))
      BY <1>5, <3>1, HeadTailProperties, ConcatProperties
    <3>3. L' = L /\ \A v \in User : stack'[v] = IF v = t THEN fr \o Tail(stack[t])
                                                         ELSE stack[v]
      BY <1>0, <1>5, <2>2 DEF Continue, L
    <3> QED
      BY <3>2, <3>3 DEF ShapeInv, UsersNormal
  <2> QED
    BY <2>1, <2>2
<1>6. ASSUME NEW c \in Conn, LoopCalls(<<<<"conn.Connected", {c}>>>>) PROVE ShapeInv'
  BY <1>1, <1>6, FrameShapes DEF Final
<1>7. ASSUME NEW c \in Conn, NEW n \in Nat,
             LoopCalls(Answers(c, n) \o <<<<"close_cb", {c}>>>>)
      PROVE  ShapeInv'
  BY <1>1, <1>7, AnswersShape DEF Socket
<1>8. CASE LoopCalls(<<<<"close_cb", {Listener}>>>>)
  BY <1>1, <1>8, FrameShapes DEF Final
<1>9. ASSUME NEW s, NEW f \in Frame, Top(Loop, "close_cb", {s}), Continue(Loop, <<f>>),
             FinalLast(<<f>>), Chained(<<f>>)
      PROVE  ShapeInv'
  <2>1. <<f>> \in Seq(Frame)
    OBVIOUS
  <2>2. L' = <<f>> /\ \A u \in User : stack'[u] = stack[u]
    BY <1>0, <1>9, <2>1, FinalAlone DEF Final, Continue
  <2> QED
    BY <1>9, <2>2 DEF ShapeInv, UsersNormal
<1>10. /\ <<"Closed", {}>> \in Normal(Socket) /\ <<"Closed", {}>> \in Frame
       /\ \A c \in Conn : <<"conn.Closed", {c}>> \in Frame
  BY DEF Normal, NormalOp, ServerState, Frame, Op, SetConn, Socket
<1>11. FinalLast(<<<<"Closed", {}>>>>) /\ Chained(<<<<"Closed", {}>>>>)
  <2>1. <<<<"Closed", {}>>>> \in Seq(Normal(Socket))
    BY <1>10
  <2> QED
    BY <2>1, FrameShapes
<1>12. \A c : FinalLast(<<<<"conn.Closed", {c}>>>>) /\ Chained(<<<<"conn.Closed", {c}>>>>)
  BY FrameShapes DEF Final
<1> QED
  BY <1>0, <1>1, <1>2, <1>3, <1>4, <1>5, <1>6, <1>7, <1>8, <1>9, <1>10, <1>11, <1>12,
     FrameShapes DEF Moves

-----------------------------------------------------------------------------
(* Requests.  Once the close callback of a connection is on the stack, its *)
(* requests were answered and nothing adds another: a closing connection   *)
(* refuses writes and is no longer read from.                              *)

CloseCbInv ==
  \A c \in Conn : In(<<"close_cb", {c}>>, L) =>
    socket[c] = "closing" /\ writes[c] = 0 /\ c \notin shutdown_req

Same(c) == /\ socket'[c] = socket[c]
           /\ writes'[c] = writes[c]
           /\ (c \in shutdown_req') = (c \in shutdown_req)

(* What a step may do to a connection and its requests. *)
SocketMove(c) ==
  \/ Same(c)
  \/ socket[c] = "none" /\ socket'[c] # "none" /\ socket'[c] # "closing" /\ writes'[c] = writes[c]
     /\ (c \in shutdown_req') = (c \in shutdown_req)
  \/ socket[c] = "open" /\ socket'[c] = "shut" /\ writes'[c] = writes[c]
  \/ Found(c) /\ socket'[c] = "closing" /\ writes'[c] = writes[c]
     /\ (c \in shutdown_req') = (c \in shutdown_req)
  \/ socket[c] = "open" /\ socket'[c] = "open"
     /\ (c \in shutdown_req') = (c \in shutdown_req)
  \/ L = << >> /\ Found(c) /\ socket'[c] = socket[c]
     /\ (c \in shutdown_req' => c \in shutdown_req)
  \/ /\ socket[c] = "closing" /\ socket'[c] = "closing"
     /\ writes'[c] = 0 /\ c \notin shutdown_req'
  \/ /\ OnClose /\ Top(Loop, "close_cb", {c}) /\ socket'[c] = "closed"
     /\ writes'[c] = writes[c] /\ (c \in shutdown_req') = (c \in shutdown_req)

(* Every step moves every connection in one of these ways. *)
LEMMA SocketMoves ==
  ASSUME TypeOK, [Next]_vars, NEW c \in Conn
  PROVE  SocketMove(c)
<1>0. /\ c \in Socket /\ c # Listener /\ socket \in [Socket -> Phase]
      /\ writes \in [Conn -> Nat] /\ shutdown_req \subseteq Conn
  BY TypeFacts
<1>1. ASSUME UNCHANGED socketVars PROVE SocketMove(c)
  BY <1>1 DEF SocketMove, Same, socketVars
<1>2. ASSUME NEW t \in Thread, ThreadStep(t) PROVE SocketMove(c)
  BY <1>1, <1>2 DEF ThreadStep, Listen, Close, Write, WriteAll, SetState, SetConnState,
     ServerImpl, ServerImplWrite
<1>3. CASE (\E u \in User : UserCall(u)) \/ Drain \/ RunTask \/ OnReadData
  BY <1>1, <1>3 DEF UserCall, Drain, RunTask, OnReadData
<1>4. CASE ListenOnEvent \/ CloseOnEvent
  BY <1>0, <1>4 DEF ListenOnEvent, CloseOnEvent, Ends, SocketMove, Same
<1>5. CASE WriteOnEvent
  <2>1. PICK d \in Conn : \/ UNCHANGED writes
                          \/ socket[d] = "open" /\ writes' = [writes EXCEPT ![d] = @ + 1]
    BY <1>5 DEF WriteOnEvent
  <2>2. UNCHANGED <<socket, shutdown_req>>
    BY <1>5 DEF WriteOnEvent
  <2> QED
    BY <1>0, <2>1, <2>2 DEF SocketMove, Same
<1>6. CASE CloseConnOnEvent
  <2>1. PICK d \in Conn :
          socket' = [socket EXCEPT ![d] = IF Found(d) THEN "closing" ELSE @]
    BY <1>6 DEF CloseConnOnEvent
  <2>2. UNCHANGED <<writes, shutdown_req>>
    BY <1>6 DEF CloseConnOnEvent
  <2> QED
    BY <1>0, <2>1, <2>2 DEF SocketMove, Same
<1>7. CASE OnConnection
  <2>1. CASE Ends("null_id")
    BY <2>1 DEF Ends, SocketMove, Same
  <2>2. CASE ~Ends("null_id")
    <3>1. PICK d \in Conn, s \in {"open", "closed"} :
            socket[d] = "none" /\ socket' = [socket EXCEPT ![d] = s]
      BY <1>7, <2>2 DEF OnConnection
    <3>2. UNCHANGED <<writes, shutdown_req>>
      BY <1>7, <2>2 DEF OnConnection
    <3> QED
      BY <1>0, <3>1, <3>2 DEF SocketMove, Same
  <2> QED
    BY <2>1, <2>2
<1>8. CASE OnReadEof
  <2>1. PICK d \in Conn : /\ socket[d] = "open" /\ socket' = [socket EXCEPT ![d] = "shut"]
                          /\ shutdown_req' = shutdown_req \cup {d}
    BY <1>8 DEF OnReadEof
  <2>2. UNCHANGED writes
    BY <1>8 DEF OnReadEof
  <2> QED
    BY <1>0, <2>1, <2>2 DEF SocketMove, Same
<1>9. CASE OnReadError
  <2>1. PICK d \in Conn : socket[d] = "open" /\ socket' = [socket EXCEPT ![d] = "shut"]
    BY <1>9 DEF OnReadError
  <2>2. UNCHANGED <<writes, shutdown_req>>
    BY <1>9 DEF OnReadError
  <2> QED
    BY <1>0, <2>1, <2>2 DEF SocketMove, Same
<1>10. CASE OnShutdown
  <2>1. PICK d \in shutdown_req : socket[d] = "shut" /\ shutdown_req' = shutdown_req \ {d}
    BY <1>10 DEF OnShutdown
  <2>2. UNCHANGED <<socket, writes>> /\ L = << >>
    BY <1>10 DEF OnShutdown, LoopIdle, LoopFree
  <2> QED
    BY <1>0, <2>1, <2>2 DEF SocketMove, Same, Found
<1>11. ASSUME NEW ok \in BOOLEAN, OnWrite(ok) PROVE SocketMove(c)
  <2>1. PICK d \in Conn :
          socket[d] \in {"open", "shut"} /\ writes' = [writes EXCEPT ![d] = @ - 1]
    BY <1>11 DEF OnWrite
  <2>2. UNCHANGED <<socket, shutdown_req>> /\ L = << >>
    BY <1>11 DEF OnWrite, LoopIdle, LoopFree
  <2> QED
    BY <1>0, <2>1, <2>2 DEF SocketMove, Same, Found
<1>12. CASE EndIteration
  <2>1. UNCHANGED socket /\ (UNCHANGED <<writes, shutdown_req>> \/ \E s \in Socket : FinishClose(s))
    BY <1>12 DEF EndIteration
  <2>2. CASE UNCHANGED <<writes, shutdown_req>>
    BY <2>1, <2>2 DEF SocketMove, Same
  <2>3. ASSUME NEW s \in Socket, FinishClose(s) PROVE SocketMove(c)
    <3>1. CASE s = Listener
      BY <2>1, <2>3, <3>1 DEF FinishClose, SocketMove, Same
    <3>2. CASE s # Listener
      <4>1. /\ socket[s] = "closing" /\ writes' = [writes EXCEPT ![s] = 0]
            /\ shutdown_req' = shutdown_req \ {s}
        BY <2>3, <3>2 DEF FinishClose
      <4> QED
        BY <1>0, <2>1, <4>1 DEF SocketMove, Same
    <3> QED
      BY <3>1, <3>2
  <2> QED
    BY <2>1, <2>2, <2>3
<1>13. CASE OnClose
  <2>1. PICK s \in Socket : /\ Top(Loop, "close_cb", {s})
                            /\ socket' = [socket EXCEPT ![s] = "closed"]
    BY <1>13 DEF OnClose
  <2>2. UNCHANGED <<writes, shutdown_req>>
    BY <1>13 DEF OnClose
  <2> QED
    BY <1>0, <1>13, <2>1, <2>2 DEF SocketMove, Same
<1>14. CASE UNCHANGED vars
  BY <1>1, <1>14 DEF vars, socketVars
<1> QED
  BY <1>2, <1>3, <1>4, <1>5, <1>6, <1>7, <1>8, <1>9, <1>10, <1>11, <1>12, <1>13, <1>14
     DEF Next, LoopStep

(* A close callback comes from the end of an iteration. *)
LEMMA CloseCbSource ==
  ASSUME TypeOK, ShapeInv, [Next]_vars, NEW c \in Conn, In(<<"close_cb", {c}>>, L')
  PROVE  In(<<"close_cb", {c}>>, L) \/ (EndIteration /\ FinishClose(c))
<1> DEFINE cb == <<"close_cb", {c}>>
           Goal == In(cb, L) \/ (EndIteration /\ FinishClose(c))
<1>0. /\ Moves(Socket) /\ Loop \in Thread /\ User \subseteq Thread /\ Loop \notin User
      /\ stack \in [Thread -> Seq(Frame)] /\ L \in Seq(Frame)
      /\ \A fr \in Seq(Normal(Socket)) : fr \in Seq(Frame)
      /\ \A d \in Conn : ShutdownAndClose(d) \in Seq(Frame)
      /\ c # Listener
  <2>1. \A d \in Conn : ShutdownAndClose(d) \in Seq(Frames(Socket))
    <3>1. 0 \in Nat
      OBVIOUS
    <3> QED
      BY <3>1, FailWritesType DEF Socket
  <2> QED
    BY <2>1, TypeFacts, StackMoves, NormalSeqs, ThreadAssumption
    DEF Thread, TypeOK, Frame, Frames, L
<1>1. ASSUME NEW fr, NoFinal(fr) PROVE ~In(cb, fr)
  BY <1>1 DEF NoFinal, In, Final
<1>2. ASSUME NEW fr \in Seq(Frame), L # << >>, Continue(Loop, fr), NoFinal(fr), Chained(fr)
      PROVE  Goal
  <2>1. L' = fr \o Tail(L)
    BY <1>0, <1>2 DEF Continue, L
  <2> QED
    BY <1>0, <1>1, <1>2, <2>1, PopShape DEF ShapeInv
<1>3. ASSUME NEW fr, LoopCalls(fr) PROVE In(cb, fr)
  BY <1>0, <1>3 DEF LoopCalls, L
<1>4. ASSUME L' = L PROVE Goal
  BY <1>4
<1>5. ASSUME NEW f, f[1] \in Final, In(cb, <<f>>) PROVE f = cb
  BY <1>5, FrameShapes
<1>6. ASSUME NEW t \in Thread, NEW fr \in Seq(Normal(Socket)), stack[t] # << >>,
             Continue(t, fr)
      PROVE  Goal
  <2>1. CASE t = Loop
    BY <1>0, <1>2, <1>6, <2>1, FrameShapes DEF L
  <2>2. CASE t # Loop
    BY <1>0, <1>4, <1>6, <2>2 DEF Continue, L
  <2> QED
    BY <2>1, <2>2
<1>7. ASSUME NEW u \in User, NEW f, stack' = [stack EXCEPT ![u] = <<f>>] PROVE Goal
  BY <1>0, <1>4, <1>7 DEF L
<1>8. ASSUME NEW d \in Conn, EndIteration, FinishClose(d), NEW n \in Nat,
             LoopCalls(Answers(d, n) \o <<<<"close_cb", {d}>>>>)
      PROVE  Goal
  <2>1. In(cb, Answers(d, n) \o <<<<"close_cb", {d}>>>>)
    BY <1>3, <1>8
  <2>2. cb = <<"close_cb", {d}>>
    BY <2>1, AnswersShape DEF Socket, Final
  <2>3. c = d
    BY <2>2
  <2> QED
    BY <1>8, <2>3
<1>9. ASSUME NEW S, NEW f \in Frame, Top(Loop, "close_cb", S), Continue(Loop, <<f>>)
      PROVE  L' = <<f>>
  <2>1. <<f>> \in Seq(Frame)
    OBVIOUS
  <2> QED
    BY <1>9, <2>1, FinalAlone DEF Final
<1>10. /\ ~In(cb, <<<<"close_cb", {Listener}>>>>)
       /\ \A d : ~In(cb, <<<<"conn.Connected", {d}>>>>) /\ ~In(cb, <<<<"conn.Closed", {d}>>>>)
  <2>1. <<"close_cb", {Listener}>> # cb
    BY <1>0
  <2>2. \A d : <<"conn.Connected", {d}>> # cb /\ <<"conn.Closed", {d}>> # cb
    OBVIOUS
  <2> QED
    BY <2>1, <2>2 DEF In
<1>11. ~In(cb, <<<<"Closed", {}>>>>)
  BY DEF In
<1>12. <<"Closed", {}>> \in Frame /\ \A d \in Conn : <<"conn.Closed", {d}>> \in Frame
  BY DEF ServerState, Frame, Op, SetConn, Socket
<1>13. CASE UNCHANGED stack
  BY <1>4, <1>13 DEF L
<1> QED
  BY <1>0, <1>1, <1>2, <1>3, <1>6, <1>7, <1>8, <1>9, <1>10, <1>11, <1>12, <1>13,
     FrameShapes DEF Moves, Top, L

(* No close callback at first. *)
LEMMA InitCloseCb == Init => CloseCbInv /\ RequestsAnswered
BY DEF Init, CloseCbInv, RequestsAnswered, In, L, Thread, Socket

(* Every step keeps the requests answered. *)
LEMMA NextCloseCb ==
  TypeOK /\ ShapeInv /\ CloseCbInv /\ RequestsAnswered /\ [Next]_vars
     => CloseCbInv' /\ RequestsAnswered'
<1> SUFFICES ASSUME TypeOK, ShapeInv, CloseCbInv, RequestsAnswered, [Next]_vars
             PROVE  CloseCbInv' /\ RequestsAnswered'
  OBVIOUS
<1>1. ASSUME NEW c \in Conn, OnClose, Top(Loop, "close_cb", {c})
      PROVE  L' = <<<<"conn.Closed", {c}>>>> /\ In(<<"close_cb", {c}>>, L)
  <2>1. PICK s \in Socket :
          /\ Top(Loop, "close_cb", {s})
          /\ Continue(Loop, IF s = Listener THEN <<<<"Closed", {}>>>>
                                            ELSE <<<<"conn.Closed", {s}>>>>)
    BY <1>1 DEF OnClose
  <2>2. s = c /\ s # Listener
    BY <1>1, <2>1, SocketAssumption DEF Top
  <2>3. <<<<"conn.Closed", {c}>>>> \in Seq(Frame)
    BY DEF Frame, Op, SetConn, Socket
  <2>4. L' = <<<<"conn.Closed", {c}>>>> /\ L = <<<<"close_cb", {c}>>>>
    BY <2>1, <2>2, <2>3, FinalAlone DEF Final
  <2> QED
    BY <2>4 DEF In
<1>2. ASSUME NEW c \in Conn, In(<<"close_cb", {c}>>, L')
      PROVE  socket'[c] = "closing" /\ writes'[c] = 0 /\ c \notin shutdown_req'
  <2>1. CASE EndIteration /\ FinishClose(c)
    <3>1. c # Listener /\ c \in Socket
      BY TypeFacts
    <3> QED
      BY <2>1, <3>1 DEF EndIteration, FinishClose, TypeOK
  <2>2. CASE In(<<"close_cb", {c}>>, L)
    <3>1. socket[c] = "closing" /\ writes[c] = 0 /\ c \notin shutdown_req
      BY <2>2 DEF CloseCbInv
    <3>2. L # << >>
      BY <2>2 DEF In
    <3>3. ~(OnClose /\ Top(Loop, "close_cb", {c}))
      BY <1>1, <1>2, FrameShapes DEF Final
    <3> QED
      BY <3>1, <3>2, <3>3, SocketMoves DEF SocketMove, Same
  <2> QED
    BY <1>2, <2>1, <2>2, CloseCbSource
<1>3. ASSUME NEW c \in Conn
      PROVE  /\ socket'[c] \in {"none", "closed"} => writes'[c] = 0
             /\ c \in shutdown_req' => socket'[c] \in {"shut", "closing"}
  <2>1. /\ socket[c] \in {"none", "closed"} => writes[c] = 0
        /\ c \in shutdown_req => socket[c] \in {"shut", "closing"}
    BY DEF RequestsAnswered
  <2>2. OnClose /\ Top(Loop, "close_cb", {c})
           => socket[c] = "closing" /\ writes[c] = 0 /\ c \notin shutdown_req
    BY <1>1 DEF CloseCbInv
  <2> QED
    BY <2>1, <2>2, SocketMoves DEF SocketMove, Same, Found
<1> QED
  BY <1>2, <1>3 DEF CloseCbInv, RequestsAnswered

(* Whatever threads and callbacks do, every write and shutdown of a        *)
(* connection is answered before its close callback runs, and no request   *)
(* is attached to a connection that is gone.                               *)
THEOREM EveryRequestAnswered == Spec => []RequestsAnswered
BY InitType, NextType, InitShape, NextShape, InitCloseCb, NextCloseCb, PTL DEF Spec

-----------------------------------------------------------------------------
(* Calls in progress and operations queued are about connections that were *)
(* accepted, and only those have entries.                                  *)

Seen == {c \in Conn : socket[c] # "none"}
Known == Seen \cup {Listener}

SeenInv == /\ stack \in [Thread -> Seq(Frames(Known))]
           /\ tasks \in Seq(Events(Known))
           /\ \A c \in Conn \ Seen : connStates[c] = "none"

(* A sequence over a set is one over a larger set. *)
LEMMA LargerSeq ==
  ASSUME NEW S, NEW T, S \subseteq T, NEW s \in Seq(S)
  PROVE  s \in Seq(T)
<1>1. Len(s) \in Nat /\ s \in [1..Len(s) -> S]
  BY LenProperties
<1>2. s \in [1..Len(s) -> T]
  BY <1>1
<1> QED
  BY <1>1, <1>2, SeqDef

(* Nothing is known at first. *)
LEMMA InitSeen == Init => SeenInv
<1> SUFFICES ASSUME Init PROVE SeenInv
  OBVIOUS
<1>1. << >> \in Seq(Frames(Known)) /\ << >> \in Seq(Events(Known))
  OBVIOUS
<1> QED
  BY <1>1 DEF Init, SeenInv

(* Every step keeps SeenInv: a connection once accepted stays known. *)
LEMMA NextSeen == TypeOK /\ SeenInv /\ [Next]_vars => SeenInv'
<1> SUFFICES ASSUME TypeOK, SeenInv, [Next]_vars PROVE SeenInv'
  OBVIOUS
<1>1. Seen \subseteq Seen'
  <2>1. ASSUME NEW c \in Conn, socket[c] # "none" PROVE socket'[c] # "none"
    BY <2>1, SocketMoves DEF SocketMove, Same, Found
  <2> QED
    BY <2>1 DEF Seen
<1>2. PICK M : M = Known'
  OBVIOUS
<1>3. /\ M \in SUBSET Socket /\ Listener \in M /\ Known \subseteq M
      /\ \A c \in Conn : socket[c] # "none" \/ socket'[c] # "none" => c \in M
  BY <1>1, <1>2 DEF Known, Seen, Socket
<1>4. GetConns("Connected") \subseteq M
  BY <1>3 DEF GetConns, SeenInv, Known
<1>5. stack \in [Thread -> Seq(Frames(M))] /\ tasks \in Seq(Events(M))
  <2>1. Frames(Known) \subseteq Frames(M) /\ Events(Known) \subseteq Events(M)
    BY <1>3 DEF Frames, Events
  <2>2. \A s \in Seq(Frames(Known)) : s \in Seq(Frames(M))
    BY <2>1, LargerSeq
  <2>3. tasks \in Seq(Events(M))
    BY <2>1, LargerSeq DEF SeenInv
  <2> QED
    BY <2>2, <2>3 DEF SeenInv
<1>6. stack' \in [Thread -> Seq(Frames(M))]
  <2>1. Moves(M)
    BY <1>3, <1>4, <1>5, TypeFacts, StackMoves
  <2> QED
    BY <1>3, <1>5, <2>1, MovesType
<1>7. tasks' \in Seq(Events(M))
  BY <1>3, <1>5, TypeFacts, TasksStep
<1>8. ASSUME NEW c \in Conn, socket'[c] = "none" PROVE connStates'[c] = "none"
  <2>1. socket[c] = "none" /\ connStates[c] = "none"
    BY <1>1, <1>8 DEF Seen, SeenInv
  <2>2. ASSUME NEW t \in Thread, SetConnState(t) PROVE connStates'[c] = "none"
    <3>1. PICK op \in SetConn, d \in Conn :
            /\ Top(t, op, {d})
            /\ connStates' = [connStates EXCEPT ![d] =
                        CASE op = "conn.Connected" -> "Connected"
                          [] op = "conn.Shutdown"  -> "Shutdown"
                          [] op = "conn.Closed"    -> "none"]
      BY <2>2 DEF SetConnState
    <3>2. Head(stack[t]) \in Frames(Known)
      BY <3>1, HeadTailProperties DEF Top, SeenInv
    <3>3. d \in Seen
      <4>1. {d} \in SUBSET Known
        BY <3>1, <3>2 DEF Top, Frames
      <4>2. d \in Known /\ d # Listener
        BY <4>1, TypeFacts
      <4> QED
        BY <4>2 DEF Known
    <3>4. d # c
      BY <2>1, <3>3 DEF Seen
    <3> QED
      BY <2>1, <3>1, <3>4 DEF TypeOK
  <2>3. ASSUME NEW t \in Thread, ThreadStep(t) PROVE connStates'[c] = "none"
    BY <2>1, <2>2, <2>3 DEF ThreadStep, Listen, Close, Write, WriteAll, SetState,
       ServerImpl, ServerImplWrite, stateVars
  <2>4. CASE LoopStep
    BY <2>1, <2>4 DEF LoopStep, Drain, RunTask, ListenOnEvent, WriteOnEvent,
       CloseConnOnEvent, CloseOnEvent, OnShutdown, EndIteration, OnClose, Ends, stateVars
  <2>5. CASE \/ OnConnection \/ OnReadData \/ OnReadEof \/ OnReadError
             \/ \E ok \in BOOLEAN : OnWrite(ok)
    BY <2>1, <2>5 DEF OnConnection, OnReadData, OnReadEof, OnReadError, OnWrite, Ends,
       stateVars
  <2>6. CASE (\E u \in User : UserCall(u)) \/ UNCHANGED vars
    BY <2>1, <2>6 DEF UserCall, vars, stateVars
  <2> QED
    BY <2>3, <2>4, <2>5, <2>6 DEF Next
<1> QED
  BY <1>2, <1>6, <1>7, <1>8 DEF SeenInv, Seen

-----------------------------------------------------------------------------
(* Entries.  An accepted connection has an entry from OnNewConn until      *)
(* OnCloseConn erases it; and an open one without the entry Connected is   *)
(* reported next, or its close is ahead on the network thread's stack.     *)

Reporting(c) == L = <<<<"conn.Connected", {c}>>>>
CloseAhead(c) == \/ In(<<"server.Close", {c}>>, L)
                 \/ In(<<"CloseOnEvent", {c}>>, L)

EntryInv ==
  /\ \A c \in Conn : Found(c) => connStates[c] # "none" \/ Reporting(c)
  /\ \A c \in Conn : Top(Loop, "conn.Closed", {c}) =>
       connStates[c] # "none" /\ socket[c] = "closed"
  /\ fault = "none" => \A c \in Conn : socket[c] = "open" =>
       connStates[c] = "Connected" \/ Reporting(c) \/ CloseAhead(c)

(* No connection at first. *)
LEMMA InitEntry == Init => EntryInv
BY DEF Init, EntryInv, Found, Top, Thread, Socket

(* A call on the network thread that leaves the entries alone keeps them   *)
(* true unless it opens a connection or forgets a close.                   *)
LEMMA PopEntry ==
  ASSUME TypeOK, ShapeInv, EntryInv, L # << >>, Head(L)[1] \notin Final,
         NEW fr \in Seq(Frame), NoFinal(fr), Chained(fr), Continue(Loop, fr),
         UNCHANGED <<connStates, fault>>,
         \A c \in Conn : Found(c)' => Found(c),
         \A c \in Conn : socket'[c] = "open" =>
           /\ socket[c] = "open"
           /\ Head(L) \in {<<"server.Close", {c}>>, <<"CloseOnEvent", {c}>>}
                => In(<<"CloseOnEvent", {c}>>, fr)
  PROVE  EntryInv'
<1>0. L \in Seq(Frame) /\ L' = fr \o Tail(L)
  BY DEF TypeOK, Continue, L, Thread
<1>1. /\ \A f : In(f, fr) => In(f, L')
      /\ \A f : In(f, L) /\ f # Head(L) => In(f, L')
      /\ \A i \in 1..Len(L') : L'[i][1] \notin {"conn.Connected", "conn.Closed"}
  BY <1>0, PopShape DEF ShapeInv
<1>2. \A c : ~Reporting(c)
  BY DEF Reporting, Final
<1>3. \A c : ~Top(Loop, "conn.Closed", {c})'
  <2>1. ASSUME NEW c, Top(Loop, "conn.Closed", {c})' PROVE FALSE
    <3>1. L' \in Seq(Frame) /\ L' # << >> /\ Head(L') = <<"conn.Closed", {c}>>
      <4>1. Tail(L) \in Seq(Frame)
        BY <1>0, TailElements
      <4>2. L' \in Seq(Frame)
        BY <1>0, <4>1, ConcatProperties
      <4> QED
        BY <2>1, <4>2 DEF Top, L
    <3>2. 1 \in 1..Len(L') /\ L'[1] = <<"conn.Closed", {c}>>
      BY <3>1, TailElements
    <3> QED
      BY <1>1, <3>2
  <2> QED
    BY <2>1
<1>4. ASSUME NEW c \in Conn, Found(c)' PROVE connStates'[c] # "none"
  BY <1>2, <1>4 DEF EntryInv
<1>5. ASSUME fault' = "none", NEW c \in Conn, socket'[c] = "open"
      PROVE  connStates'[c] = "Connected" \/ CloseAhead(c)'
  <2>1. connStates[c] = "Connected" \/ CloseAhead(c)
    BY <1>2, <1>5 DEF EntryInv
  <2>2. CloseAhead(c) => CloseAhead(c)'
    BY <1>1, <1>5 DEF CloseAhead
  <2> QED
    BY <2>1, <2>2
<1> QED
  BY <1>3, <1>4, <1>5 DEF EntryInv

(* A callback of the idle network thread keeps the entries true when it    *)
(* reports the connection it opens.                                        *)
LEMMA IdleEntry ==
  ASSUME EntryInv, LoopFree, UNCHANGED connStates,
         \A c : ~Top(Loop, "conn.Closed", {c})',
         \A c \in Conn : Found(c)' => Found(c) \/ Reporting(c)',
         \A c \in Conn : socket'[c] = "open" => socket[c] = "open" \/ Reporting(c)'
  PROVE  EntryInv'
<1>1. L = << >> /\ fault = "none"
  BY DEF LoopFree
<1>2. \A c : ~Reporting(c) /\ ~CloseAhead(c)
  BY <1>1 DEF Reporting, CloseAhead, In
<1> QED
  BY <1>1, <1>2 DEF EntryInv

(* Every step keeps the entries true. *)
LEMMA NextEntry ==
  TypeOK /\ ShapeInv /\ CloseCbInv /\ EntryInv /\ [Next]_vars => EntryInv'
<1> SUFFICES ASSUME TypeOK, ShapeInv, CloseCbInv, EntryInv, [Next]_vars PROVE EntryInv'
  OBVIOUS
<1>0. /\ Loop \in Thread /\ User \subseteq Thread /\ Loop \notin User
      /\ stack \in [Thread -> Seq(Frame)] /\ L \in Seq(Frame)
      /\ socket \in [Socket -> Phase] /\ Conn \subseteq Socket /\ Listener \notin Conn
      /\ << >> \in Seq(Frame) /\ NoFinal(<< >>) /\ Chained(<< >>)
      /\ \A c \in Conn : /\ ShutdownAndClose(c) \in Seq(Frame)
                         /\ NoFinal(ShutdownAndClose(c)) /\ Chained(ShutdownAndClose(c))
  <2>1. \A c \in Conn : ShutdownAndClose(c) \in Seq(Frames(Socket))
    <3>1. 0 \in Nat
      OBVIOUS
    <3> QED
      BY <3>1, FailWritesType DEF Socket
  <2> QED
    BY <2>1, TypeFacts, FrameShapes, ThreadAssumption
    DEF Thread, TypeOK, Frame, Frames, L, NoFinal, Chained
<1>1. ASSUME UNCHANGED <<L, connStates, socket, fault>> PROVE EntryInv'
  BY <1>1 DEF EntryInv, Found, Reporting, CloseAhead, Top, L
<1>2. ASSUME NEW t \in Thread, ThreadStep(t), ~SetConnState(t)
      PROVE  UNCHANGED <<connStates, socketVars>>
  BY <1>2 DEF ThreadStep, Listen, Close, Write, WriteAll, SetState, ServerImpl,
     ServerImplWrite, stateVars
<1>3. ASSUME NEW t \in User, ThreadStep(t) PROVE EntryInv'
  <2>1. ~SetConnState(t)
    <3>1. ASSUME NEW op \in SetConn, NEW c \in Conn, Top(t, op, {c}) PROVE FALSE
      <4>1. stack[t] \in Seq(Normal(Socket)) /\ stack[t] # << >>
        BY <3>1 DEF ShapeInv, UsersNormal, Top
      <4>2. Head(stack[t]) \in Normal(Socket)
        BY <4>1, HeadTailProperties
      <4> QED
        BY <3>1, <4>2, OpNames DEF Top, Normal
    <3> QED
      BY <3>1 DEF SetConnState
  <2>2. L' = L
    <3>1. t \in Thread /\ t # Loop
      BY <1>0
    <3>2. \E fr : Continue(t, fr)
      BY <1>3, <3>1, TypeFacts, ThreadCalls
    <3> QED
      BY <1>0, <3>1, <3>2 DEF Continue, L
  <2> QED
    BY <1>0, <1>1, <1>2, <1>3, <2>1, <2>2 DEF socketVars
<1>4. CASE ServerImpl(Loop)
  <2>1. PICK s \in Socket :
          \/ Top(Loop, "server.Listen", {s}) /\ Runs(Loop, <<"ListenOnEvent", {s}>>, << >>)
          \/ Top(Loop, "server.Close", {s}) /\ Runs(Loop, <<"CloseOnEvent", {s}>>, << >>)
    BY <1>4 DEF ServerImpl
  <2>2. PICK op \in EventCall :
          /\ Continue(Loop, <<<<op, {s}>>>> \o << >>)
          /\ Top(Loop, "server.Listen", {s})
               \/ (Top(Loop, "server.Close", {s}) /\ op = "CloseOnEvent")
    BY <2>1 DEF Runs, EventCall
  <2>3. <<<<op, {s}>>>> \in Seq(Normal(Socket))
    BY OpNames DEF Normal
  <2>4. /\ <<<<op, {s}>>>> \o << >> = <<<<op, {s}>>>>
        /\ <<<<op, {s}>>>> \in Seq(Frame)
        /\ NoFinal(<<<<op, {s}>>>>) /\ Chained(<<<<op, {s}>>>>)
    BY <2>3, ConcatEmptySeq, FrameShapes, NormalSeqs DEF Frame, Frames
  <2>5. L # << >> /\ Head(L)[1] \notin Final
    BY <2>2 DEF Top, L, Final
  <2>6. ASSUME NEW c \in Conn,
               Head(L) \in {<<"server.Close", {c}>>, <<"CloseOnEvent", {c}>>}
        PROVE  In(<<"CloseOnEvent", {c}>>, <<<<op, {s}>>>>)
    BY <2>2, <2>6 DEF Top, L, In
  <2>7. UNCHANGED <<connStates, socketVars>>
    BY <1>4 DEF ServerImpl, stateVars
  <2> QED
    BY <2>2, <2>4, <2>5, <2>6, <2>7, PopEntry DEF Found, socketVars
<1>5. ASSUME ThreadStep(Loop), ~SetConnState(Loop), ~ServerImpl(Loop) PROVE EntryInv'
  <2>1. PICK fr \in Seq(Normal(Socket)) : stack[Loop] # << >> /\ Continue(Loop, fr)
    BY <1>0, <1>5, TypeFacts, ThreadCalls
  <2>2. fr \in Seq(Frame) /\ NoFinal(fr) /\ Chained(fr)
    BY FrameShapes, NormalSeqs DEF Frame, Frames
  <2>3. PICK op \in {"call.Listen", "call.Close", "call.Write", "call.WriteAll",
                     "GetConns", "server.Write"} \cup ServerState,
            S \in SUBSET Socket : Top(Loop, op, S)
    BY <1>5, <1>0 DEF ThreadStep, Listen, Close, Write, WriteAll, SetState, ServerImplWrite
  <2>4. /\ Head(L)[1] \notin Final
        /\ \A c : Head(L) \notin {<<"server.Close", {c}>>, <<"CloseOnEvent", {c}>>}
    BY <2>3 DEF Top, L, Final, ServerState
  <2>5. UNCHANGED <<connStates, socketVars>>
    BY <1>0, <1>2, <1>5
  <2> QED
    BY <2>1, <2>2, <2>4, <2>5, PopEntry DEF Found, socketVars, L
<1>6. CASE SetConnState(Loop)
  <2>1. PICK op \in SetConn, c \in Conn :
          /\ Top(Loop, op, {c})
          /\ connStates' = [connStates EXCEPT ![c] =
                        CASE op = "conn.Connected" -> "Connected"
                          [] op = "conn.Shutdown"  -> "Shutdown"
                          [] op = "conn.Closed"    -> "none"]
          /\ \E call \in Callback(StatesCalls, {c}) : Continue(Loop, call)
          /\ UNCHANGED socketVars
    BY <1>6 DEF SetConnState
  <2>2. PICK fr \in Seq(Normal(Socket)) : Continue(Loop, fr)
    BY <2>1, CallbackType, CallsAssumption, <1>0
  <2>3. fr \in Seq(Frame) /\ NoFinal(fr) /\ Chained(fr)
    BY FrameShapes, NormalSeqs DEF Frame, Frames
  <2>4. /\ L # << >> /\ Head(L) = <<op, {c}>> /\ UNCHANGED <<socket, fault>>
        /\ \A d \in Conn : Found(d)' = Found(d)
    BY <2>1 DEF Top, L, socketVars, Found
  <2>5. \A d : ~Top(Loop, "conn.Closed", {d})' /\ ~Reporting(d)'
    <3>1. L' = fr \o Tail(L) /\ L' \in Seq(Frame)
      BY <1>0, <2>2, <2>3, <2>4, TailElements, ConcatProperties DEF Continue, L
    <3>2. \A i \in 1..Len(L') : L'[i][1] \notin {"conn.Connected", "conn.Closed"}
      BY <1>0, <2>3, <2>4, <3>1, PopShape DEF ShapeInv
    <3>3. L' # << >> => 1 \in 1..Len(L') /\ Head(L') = L'[1]
      BY <3>1, TailElements
    <3>4. L' # << >> => Head(L')[1] \notin {"conn.Connected", "conn.Closed"}
      BY <3>2, <3>3
    <3>5. \A d : ~Top(Loop, "conn.Closed", {d})'
      BY <3>4 DEF Top, L
    <3>6. ASSUME NEW d, Reporting(d)' PROVE FALSE
      <4>1. L' = <<<<"conn.Connected", {d}>>>>
        BY <3>6 DEF Reporting
      <4>2. L' # << >> /\ Head(L')[1] = "conn.Connected"
        BY <4>1
      <4> QED
        BY <3>4, <4>2
    <3> QED
      BY <3>5, <3>6
  <2>6. CASE op = "conn.Shutdown"
    <3>1. connStates' = [connStates EXCEPT ![c] = "Shutdown"]
      BY <2>1, <2>6
    <3>2. \A d : ~Reporting(d)
      BY <2>4, <2>6 DEF Reporting
    <3>3. \A f : In(f, L) /\ f # Head(L) => In(f, L')
      BY <1>0, <2>2, <2>3, <2>4, PopShape DEF ShapeInv, Continue, L
    <3>4. CloseAhead(c)
      <4>1. 1 \in 1..Len(L) /\ L[1] = <<"conn.Shutdown", {c}>> /\ Len(L) \in Nat
        BY <1>0, <2>4, <2>6, TailElements
      <4>2. 1 < Len(L) /\ L[2] = <<"server.Close", {c}>>
        BY <4>1 DEF ShapeInv, Chained
      <4>3. 2 \in 1..Len(L)
        BY <4>1, <4>2
      <4> QED
        BY <4>2, <4>3 DEF CloseAhead, In
    <3>5. \A d : CloseAhead(d) => CloseAhead(d)'
      BY <2>4, <2>6, <3>3 DEF CloseAhead
    <3> QED
      BY <2>4, <2>5, <3>1, <3>2, <3>4, <3>5 DEF EntryInv, TypeOK
  <2>7. CASE op = "conn.Connected"
    <3>1. connStates' = [connStates EXCEPT ![c] = "Connected"]
      BY <2>1, <2>7
    <3>2. L = <<<<"conn.Connected", {c}>>>>
      BY <2>1, <2>7, FinalAlone DEF Final
    <3>3. \A d \in Conn : d # c => ~Reporting(d)
      BY <3>2 DEF Reporting
    <3>4. \A d : ~CloseAhead(d)
      BY <3>2 DEF CloseAhead, In
    <3> QED
      BY <2>4, <2>5, <3>1, <3>3, <3>4 DEF EntryInv, TypeOK
  <2>8. CASE op = "conn.Closed"
    <3>1. connStates' = [connStates EXCEPT ![c] = "none"]
      BY <2>1, <2>8
    <3>2. L = <<<<"conn.Closed", {c}>>>> /\ socket[c] = "closed"
      BY <2>1, <2>8, FinalAlone DEF Final, EntryInv
    <3>3. \A d : ~Reporting(d) /\ ~CloseAhead(d)
      BY <3>2 DEF Reporting, CloseAhead, In
    <3>4. \A d \in Conn : Found(d) \/ socket[d] = "open" => d # c
      BY <3>2 DEF Found
    <3> QED
      BY <2>4, <2>5, <3>1, <3>3, <3>4 DEF EntryInv, TypeOK
  <2> QED
    BY <2>6, <2>7, <2>8 DEF SetConn
<1>7. CASE Drain
  BY <1>1, <1>7 DEF Drain, stateVars, socketVars, L
<1>8. ASSUME LoopFree, UNCHANGED <<connStates, socket>>, NEW fr,
             L' = fr, \A c : fr # << >> => Head(fr) # <<"conn.Closed", {c}>>
      PROVE  EntryInv'
  BY <1>8, IdleEntry DEF Top, L, Found
<1>9. CASE RunTask
  <2>1. Head(tasks) \in Events(Socket)
    BY <1>9, TypeFacts, EmptySeq, HeadTailProperties DEF RunTask
  <2>2. Head(tasks)[1] \in EventCall
    BY <2>1 DEF Events
  <2>3. \A c : Head(<<Head(tasks)>>) # <<"conn.Closed", {c}>>
    BY <2>2 DEF EventCall
  <2> QED
    BY <1>0, <1>8, <1>9, <2>3 DEF RunTask, stateVars, socketVars, L
<1>10. ASSUME NEW f \in {"misuse", "null_id"}, Ends(f), \A c : ~Reporting(c)
       PROVE  EntryInv'
  <2>1. L' = << >> /\ fault' # "none" /\ UNCHANGED <<connStates, socket>>
    BY <1>0, <1>10 DEF Ends, LoopCalls, L, stateVars
  <2> QED
    BY <1>10, <2>1 DEF EntryInv, Top, L, Found
<1>11. CASE ListenOnEvent
  <2>1. L # << >> /\ Head(L) = <<"ListenOnEvent", {Listener}>>
    BY <1>11 DEF ListenOnEvent, Top, L
  <2>2. CASE Ends("misuse")
    BY <1>10, <2>1, <2>2 DEF Reporting
  <2>3. CASE ~Ends("misuse")
    <3>1. PICK op \in ServerState : Continue(Loop, <<<<op, {}>>>>)
      BY <1>11, <2>3 DEF ListenOnEvent, ServerState
    <3>2. <<<<op, {}>>>> \in Seq(Normal(Socket))
      BY OpNames DEF Normal
    <3>3. /\ <<<<op, {}>>>> \in Seq(Frame)
          /\ NoFinal(<<<<op, {}>>>>) /\ Chained(<<<<op, {}>>>>)
      BY <3>2, FrameShapes, NormalSeqs DEF Frame, Frames
    <3>4. /\ UNCHANGED <<connStates, fault>> /\ \A c \in Conn : socket'[c] = socket[c]
      BY <1>0, <1>11, <2>3 DEF ListenOnEvent, stateVars
    <3>5. /\ Head(L)[1] \notin Final
          /\ \A c : Head(L) \notin {<<"server.Close", {c}>>, <<"CloseOnEvent", {c}>>}
      BY <2>1 DEF Final
    <3>6. \A c \in Conn : Found(c)' => Found(c)
      BY <3>4 DEF Found
    <3> QED
      BY <2>1, <3>1, <3>3, <3>4, <3>5, <3>6, PopEntry
  <2> QED
    BY <2>2, <2>3
<1>12. CASE WriteOnEvent
  <2>1. PICK c \in Conn :
          /\ Top(Loop, "WriteOnEvent", {c})
          /\ Continue(Loop, << >>) \/ Continue(Loop, ShutdownAndClose(c))
    BY <1>12 DEF WriteOnEvent, Return
  <2>2. UNCHANGED <<connStates, fault, socket>>
    BY <1>12 DEF WriteOnEvent, stateVars
  <2>3. /\ L # << >> /\ Head(L)[1] \notin Final
        /\ \A d : Head(L) \notin {<<"server.Close", {d}>>, <<"CloseOnEvent", {d}>>}
    BY <2>1 DEF Top, L, Final
  <2> QED
    BY <1>0, <2>1, <2>2, <2>3, PopEntry DEF Found
<1>13. CASE CloseConnOnEvent
  <2>1. PICK c \in Conn :
          /\ Top(Loop, "CloseOnEvent", {c})
          /\ socket' = [socket EXCEPT ![c] = IF Found(c) THEN "closing" ELSE @]
    BY <1>13 DEF CloseConnOnEvent
  <2>2. UNCHANGED <<connStates, fault>> /\ Continue(Loop, << >>)
    BY <1>13 DEF CloseConnOnEvent, stateVars, Return
  <2>3. /\ L # << >> /\ Head(L) = <<"CloseOnEvent", {c}>> /\ Head(L)[1] \notin Final
    BY <2>1 DEF Top, L, Final
  <2>4. \A d \in Conn : Found(d)' => Found(d)
    BY <1>0, <2>1 DEF Found
  <2>5. socket'[c] # "open"
    BY <1>0, <2>1 DEF Found
  <2>6. \A d \in Conn : d # c => socket'[d] = socket[d]
    BY <1>0, <2>1
  <2>7. \A d \in Conn : d # c => <<"CloseOnEvent", {d}>> # Head(L)
    BY <2>3
  <2>8. \A d \in Conn : <<"server.Close", {d}>> # Head(L)
    BY <2>3
  <2> QED
    BY <1>0, <2>2, <2>3, <2>4, <2>5, <2>6, <2>7, <2>8, PopEntry
<1>14. CASE CloseOnEvent
  <2>1. L # << >> /\ Head(L) = <<"CloseOnEvent", {Listener}>>
    BY <1>14 DEF CloseOnEvent, Top, L
  <2>2. CASE Ends("misuse")
    BY <1>10, <2>1, <2>2 DEF Reporting
  <2>3. CASE ~Ends("misuse")
    <3>1. /\ Continue(Loop, << >>) /\ UNCHANGED <<connStates, fault>>
          /\ \A c \in Conn : socket'[c] = socket[c]
      BY <1>0, <1>14, <2>3 DEF CloseOnEvent, Return, stateVars
    <3>2. ASSUME NEW c \in Conn, <<"CloseOnEvent", {c}>> = Head(L) PROVE FALSE
      <4>1. <<"CloseOnEvent", {c}>>[2] = <<"CloseOnEvent", {Listener}>>[2]
        BY <2>1, <3>2
      <4>2. {c} = {Listener}
        BY <4>1
      <4> QED
        BY <1>0, <4>2
    <3>3. Head(L)[1] \notin Final /\ \A c \in Conn : <<"server.Close", {c}>> # Head(L)
      BY <2>1 DEF Final
    <3>4. \A c \in Conn : Found(c)' => Found(c)
      BY <3>1 DEF Found
    <3> QED
      BY <1>0, <2>1, <3>1, <3>2, <3>3, <3>4, PopEntry
  <2> QED
    BY <2>2, <2>3
<1>15. \A c, d : ShutdownAndClose(c) # << >> => Head(ShutdownAndClose(c)) # <<"conn.Closed", {d}>>
  BY DEF ShutdownAndClose
<1>16. CASE OnShutdown
  <2>1. PICK c : L' = ShutdownAndClose(c)
    BY <1>0, <1>16 DEF OnShutdown, LoopCalls, L
  <2> QED
    BY <1>8, <1>15, <1>16, <2>1 DEF OnShutdown, LoopIdle, stateVars
<1>17. CASE EndIteration
  <2>1. LoopFree /\ UNCHANGED <<connStates, socket>> /\ L = << >>
    BY <1>17 DEF EndIteration, LoopIdle, LoopFree, stateVars
  <2>2. CASE UNCHANGED stack
    BY <1>8, <2>1, <2>2 DEF L
  <2>3. CASE FinishClose(Listener)
    <3>1. L' = <<<<"close_cb", {Listener}>>>>
      BY <1>0, <2>3 DEF FinishClose, LoopCalls, L
    <3>2. \A c : Head(<<<<"close_cb", {Listener}>>>>) # <<"conn.Closed", {c}>>
      OBVIOUS
    <3> QED
      BY <1>8, <2>1, <3>1, <3>2
  <2>4. ASSUME NEW s \in Conn, FinishClose(s) PROVE EntryInv'
    <3>1. s # Listener /\ s \in Socket
      BY <1>0
    <3>2. PICK n \in 0..writes[s] :
            LoopCalls(FailWrites(s, n)
                      \o (IF s \in shutdown_req THEN ShutdownAndClose(s) ELSE << >>)
                      \o <<<<"close_cb", {s}>>>>)
      BY <2>4, <3>1 DEF FinishClose
    <3> DEFINE r == Answers(s, n) \o <<<<"close_cb", {s}>>>>
    <3>3. n \in Nat /\ L' = r
      BY <1>0, <3>2 DEF LoopCalls, L, Answers
    <3>4. r \in Seq(Frames(Socket))
      BY <3>1, <3>3, AnswersType
    <3>5. \A f : In(f, r) /\ f[1] \in Final => f = <<"close_cb", {s}>>
      BY <3>1, <3>3, AnswersShape
    <3> HIDE DEF r
    <3>6. r # << >> => In(Head(r), r)
      BY <3>4, TailElements DEF In
    <3>7. \A c : r # << >> => Head(r) # <<"conn.Closed", {c}>>
      BY <3>5, <3>6 DEF Final
    <3> QED
      BY <1>8, <2>1, <3>3, <3>7
  <2> QED
    BY <1>17, <2>2, <2>3, <2>4 DEF EndIteration, Socket
<1>18. CASE OnClose
  <2>1. PICK s \in Socket :
          /\ Top(Loop, "close_cb", {s})
          /\ socket' = [socket EXCEPT ![s] = "closed"]
          /\ Continue(Loop, IF s = Listener THEN <<<<"Closed", {}>>>>
                                            ELSE <<<<"conn.Closed", {s}>>>>)
          /\ UNCHANGED <<connStates, fault>>
    BY <1>18 DEF OnClose, stateVars
  <2>2. L = <<<<"close_cb", {s}>>>>
    BY <2>1, FinalAlone DEF Final
  <2>3. \A c : ~Reporting(c) /\ ~CloseAhead(c)
    BY <2>2 DEF Reporting, CloseAhead, In
  <2>4. /\ \A c \in Conn : Found(c) => connStates[c] # "none"
        /\ fault = "none" => \A c \in Conn : socket[c] = "open" => connStates[c] = "Connected"
    BY <2>3 DEF EntryInv
  <2>5. \A c \in Conn : socket'[c] = IF c = s THEN "closed" ELSE socket[c]
    BY <1>0, <2>1
  <2>6. \A c \in Conn : Top(Loop, "conn.Closed", {c})' =>
                          connStates'[c] # "none" /\ socket'[c] = "closed"
    <3>1. CASE s = Listener
      <4>1. <<<<"Closed", {}>>>> \in Seq(Frame)
        BY DEF Frame, Op, ServerState
      <4>2. L' = <<<<"Closed", {}>>>>
        BY <2>1, <3>1, <4>1, FinalAlone DEF Final
      <4> QED
        BY <4>2 DEF Top, L
    <3>2. CASE s # Listener
      <4>1. s \in Conn
        BY <2>1, <3>2 DEF Socket
      <4>2. <<<<"conn.Closed", {s}>>>> \in Seq(Frame)
        BY <4>1 DEF Frame, Op, SetConn, Socket
      <4>3. L' = <<<<"conn.Closed", {s}>>>>
        BY <2>1, <3>2, <4>2, FinalAlone DEF Final
      <4>4. \A c : Top(Loop, "conn.Closed", {c})' => c = s
        BY <4>3 DEF Top, L
      <4>5. socket[s] = "closing"
        BY <2>2, <4>1 DEF CloseCbInv, In
      <4>6. connStates'[s] # "none" /\ socket'[s] = "closed"
        BY <2>1, <2>4, <2>5, <4>1, <4>5 DEF Found
      <4> QED
        BY <4>4, <4>6
    <3> QED
      BY <3>1, <3>2
  <2> QED
    BY <2>1, <2>4, <2>5, <2>6 DEF EntryInv, Found
<1>19. CASE OnConnection
  <2>1. L = << >>
    BY <1>19 DEF OnConnection, LoopIdle, LoopFree
  <2>2. CASE Ends("null_id")
    BY <1>10, <2>1, <2>2 DEF Reporting
  <2>3. CASE ~Ends("null_id")
    <3>1. PICK c \in Conn, s \in {"open", "closed"} :
            /\ socket' = [socket EXCEPT ![c] = s]
            /\ LoopCalls(<<<<"conn.Connected", {c}>>>>)
      BY <1>19, <2>3 DEF OnConnection
    <3>2. L' = <<<<"conn.Connected", {c}>>>>
      BY <1>0, <3>1 DEF LoopCalls, L
    <3>3. Reporting(c)' /\ \A d : ~Top(Loop, "conn.Closed", {d})'
      BY <3>2 DEF Reporting, Top, L
    <3>4. \A d \in Conn : d # c => socket'[d] = socket[d]
      BY <1>0, <3>1
    <3>5. UNCHANGED connStates /\ LoopFree
      BY <1>19, <2>3 DEF OnConnection, LoopIdle, stateVars
    <3> QED
      BY <3>3, <3>4, <3>5, IdleEntry DEF Found
  <2> QED
    BY <2>2, <2>3
<1>20. CASE OnReadData
  <2>1. PICK c \in Conn : \E call \in Callback(ReadCalls, {c}) : LoopCalls(call)
    BY <1>20 DEF OnReadData
  <2>2. PICK fr \in Seq(Normal(Socket)) : LoopCalls(fr)
    BY <1>0, <2>1, CallbackType, CallsAssumption
  <2>3. \A d : fr # << >> => Head(fr) # <<"conn.Closed", {d}>>
    <3>1. fr # << >> => Head(fr) \in Normal(Socket)
      BY HeadTailProperties
    <3> QED
      BY <3>1, OpNames DEF Normal, SetConn
  <2>4. L' = fr
    BY <1>0, <2>2 DEF LoopCalls, L
  <2> QED
    BY <1>8, <1>20, <2>3, <2>4 DEF OnReadData, LoopIdle, stateVars, socketVars
<1>21. CASE OnReadEof
  <2>1. PICK c \in Conn : socket[c] = "open" /\ socket' = [socket EXCEPT ![c] = "shut"]
    BY <1>21 DEF OnReadEof
  <2>2. LoopFree /\ UNCHANGED <<connStates, stack>> /\ L = << >>
    BY <1>21 DEF OnReadEof, LoopIdle, LoopFree, stateVars
  <2>3. \A d \in Conn : socket'[d] = IF d = c THEN "shut" ELSE socket[d]
    BY <1>0, <2>1
  <2>4. \A d : ~Top(Loop, "conn.Closed", {d})'
    BY <2>2 DEF Top, L
  <2> QED
    BY <2>1, <2>2, <2>3, <2>4, IdleEntry DEF Found
<1>22. CASE OnReadError
  <2>1. PICK c \in Conn : /\ socket[c] = "open" /\ socket' = [socket EXCEPT ![c] = "shut"]
                          /\ LoopCalls(ShutdownAndClose(c))
    BY <1>22 DEF OnReadError
  <2>2. LoopFree /\ UNCHANGED connStates
    BY <1>22 DEF OnReadError, LoopIdle, stateVars
  <2>3. \A d \in Conn : socket'[d] = IF d = c THEN "shut" ELSE socket[d]
    BY <1>0, <2>1
  <2>4. \A d : ~Top(Loop, "conn.Closed", {d})'
    BY <1>0, <1>15, <2>1 DEF Top, LoopCalls
  <2> QED
    BY <2>1, <2>2, <2>3, <2>4, IdleEntry DEF Found
<1>23. ASSUME NEW ok \in BOOLEAN, OnWrite(ok) PROVE EntryInv'
  <2>1. LoopFree /\ UNCHANGED <<connStates, socket>> /\ L = << >>
    BY <1>23 DEF OnWrite, LoopIdle, LoopFree, stateVars
  <2>2. L' = L \/ \E c : L' = ShutdownAndClose(c)
    BY <1>0, <1>23 DEF OnWrite, LoopCalls, L
  <2> QED
    BY <1>8, <1>15, <2>1, <2>2
<1>24. CASE \E u \in User : UserCall(u)
  <2>1. L' = L
    BY <1>0, <1>24 DEF UserCall, L
  <2> QED
    BY <1>1, <1>24, <2>1 DEF UserCall, stateVars, socketVars
<1>25. CASE UNCHANGED vars
  BY <1>1, <1>25 DEF vars, L
<1>26. ASSUME NEW t \in Thread, ThreadStep(t) PROVE EntryInv'
  BY <1>3, <1>4, <1>5, <1>6, <1>26 DEF Thread
<1> QED
  BY <1>7, <1>9, <1>11, <1>12, <1>13, <1>14, <1>16, <1>17, <1>18, <1>19, <1>20, <1>21,
     <1>22, <1>23, <1>24, <1>25, <1>26 DEF Next, LoopStep

(* The invariant of the server. *)
ServerInv == TypeOK /\ ShapeInv /\ CloseCbInv /\ SeenInv /\ EntryInv

(* ServerInv holds always. *)
LEMMA ServerInvariant == Spec => []ServerInv
<1>1. Init => ServerInv
  BY InitType, InitShape, InitCloseCb, InitSeen, InitEntry DEF ServerInv
<1>2. RequestsAnswered /\ ServerInv /\ [Next]_vars => ServerInv'
  BY NextType, NextShape, NextCloseCb, NextSeen, NextEntry DEF ServerInv
<1> QED
  BY <1>1, <1>2, EveryRequestAnswered, PTL DEF Spec

(* When OnCloseConn erases the entry of a connection, the entry is there,  *)
(* whatever other threads wrote and whatever the handlers called: the      *)
(* iterator tcp_server.h:126 erases is never end().                        *)
THEOREM ErasesWhatIsThere == Spec => []ErasesPresent
<1>1. ServerInv => ErasesPresent
  BY DEF ServerInv, EntryInv, ErasesPresent
<1> QED
  BY <1>1, ServerInvariant, PTL

(* Between callbacks no connection is just being reported or closed. *)
LEMMA IdleEntries == ServerInv => EntriesTrue
<1> SUFFICES ASSUME ServerInv, LoopIdle, NEW c \in Conn
             PROVE  /\ socket[c] = "open" => connStates[c] = "Connected"
                    /\ socket[c] \in {"shut", "closing"} => connStates[c] # "none"
                    /\ socket[c] = "none" => connStates[c] = "none"
  BY DEF EntriesTrue
<1>1. L = << >> /\ fault = "none"
  BY DEF LoopIdle, LoopFree
<1>2. ~Reporting(c) /\ ~CloseAhead(c)
  BY <1>1 DEF Reporting, CloseAhead, In
<1> QED
  BY <1>1, <1>2 DEF ServerInv, EntryInv, SeenInv, Seen, Found

(* Between callbacks the map of states tells the truth: what is read from  *)
(* is Connected, what is not closed yet has an entry, and what was never   *)
(* accepted has none.                                                      *)
THEOREM EntriesTellTheTruth == Spec => []EntriesTrue
BY IdleEntries, ServerInvariant, PTL

-----------------------------------------------------------------------------
(* A polite application: the listening socket.                             *)

(* There are two threads, the user and the network thread. *)
LEMMA PoliteThreads ==
  ASSUME PoliteApp
  PROVE  /\ User = {TheUser} /\ TheUser # Loop
         /\ Thread = {TheUser, Loop} /\ TheUser \in Thread /\ Loop \in Thread
<1>1. PICK u \in User : User = {u}
  BY DEF PoliteApp
<1>2. TheUser = u
  BY <1>1 DEF TheUser
<1> QED
  BY <1>1, <1>2, ThreadAssumption DEF Thread

(* Sequences of one and of two calls. *)
LEMMA OneOrTwo ==
  /\ \A f : <<f>> # << >> /\ Head(<<f>>) = f /\ Tail(<<f>>) = << >>
  /\ \A f, g : <<f>> = <<g>> => f = g
  /\ \A f, g : <<f, g>> # << >> /\ Head(<<f, g>>) = f /\ Tail(<<f, g>>) = <<g>>
  /\ \A f, g, h : <<f, g>> # <<h>>
  /\ \A f, g, h, k : <<f, g>> = <<h, k>> => f = h
OBVIOUS

(* The forms of the user's stack differ. *)
LEMMA UserForms ==
  /\ << >> \notin {ListenCalled, ListenSets, ListenPosts, CloseCalled, CloseSets, ClosePosts}
  /\ ListenCalled \notin {ListenSets, ListenPosts, CloseCalled, CloseSets, ClosePosts}
  /\ ListenSets \notin {ListenPosts, CloseCalled, CloseSets, ClosePosts}
  /\ ListenPosts \notin {CloseCalled, CloseSets, ClosePosts}
  /\ CloseCalled \notin {CloseSets, ClosePosts}
  /\ CloseSets # ClosePosts
<1>1. /\ <<"call.Listen", {}>> # <<"call.Close", {}>>
      /\ <<"Listen", {}>> # <<"Closing", {}>>
      /\ \A S : /\ <<"call.Listen", {}>> # <<"server.Listen", S>>
                /\ <<"call.Listen", {}>> # <<"server.Close", S>>
                /\ <<"call.Close", {}>> # <<"server.Listen", S>>
                /\ <<"call.Close", {}>> # <<"server.Close", S>>
                /\ <<"server.Listen", S>> # <<"server.Close", S>>
  OBVIOUS
<1> QED
  BY <1>1, OneOrTwo DEF ListenCalled, ListenSets, ListenPosts, CloseCalled, CloseSets,
     ClosePosts, Event

(* The forms of the network thread's stack differ from each other and from *)
(* calls about connections.                                                *)
ListenerForms == {RunsListen, RunsClose, SetsListening, SetsFailed, RunsCloseCb, SetsClosed}
(* The forms are different from each other. *)
LEMMA LoopForms ==
  /\ RunsListen \notin {RunsClose, SetsListening, SetsFailed, RunsCloseCb, SetsClosed}
  /\ RunsClose \notin {SetsListening, SetsFailed, RunsCloseCb, SetsClosed}
  /\ SetsListening \notin {SetsFailed, RunsCloseCb, SetsClosed}
  /\ SetsFailed \notin {RunsCloseCb, SetsClosed}
  /\ RunsCloseCb # SetsClosed
  /\ << >> \in Seq(ConnFrame)
  /\ \A s \in ListenerForms : s \notin Seq(ConnFrame)
  /\ Event("ListenOnEvent") # Event("CloseOnEvent")
<1>1. \A o, p, S, T : <<o, S>> = <<p, T>> => o = p /\ S = T
  OBVIOUS
<1>2. \A f : <<f>> \in Seq(ConnFrame) => f \in ConnFrame
  <2>1. ASSUME NEW f, <<f>> \in Seq(ConnFrame) PROVE f \in ConnFrame
    <3>1. Head(<<f>>) \in ConnFrame
      BY <2>1, OneOrTwo, HeadTailProperties
    <3> QED
      BY <3>1, OneOrTwo
  <2> QED
    BY <2>1
<1>3. \A o, S : <<o, S>> \in ConnFrame => o \in ConnOp /\ S \subseteq Conn
  BY DEF ConnFrame
<1>4. {"ListenOnEvent", "Listening", "ListenFailed", "Closed"} \cap ConnOp = {}
  BY DEF ConnOp, SetConn
<1>5. ~({Listener} \subseteq Conn)
  BY SocketAssumption
<1>6. \A s \in ListenerForms : s \notin Seq(ConnFrame)
  BY <1>2, <1>3, <1>4, <1>5 DEF ListenerForms, RunsListen, RunsClose, SetsListening,
     SetsFailed, RunsCloseCb, SetsClosed, Event
<1> QED
  BY <1>1, <1>6, OneOrTwo DEF RunsListen, RunsClose, SetsListening, SetsFailed, RunsCloseCb,
     SetsClosed, Event

(* Handlers of states make no call. *)
LEMMA SilentStates ==
  ASSUME PoliteApp, NEW conns
  PROVE  Callback(StatesCalls, conns) = {<< >>}
BY DEF PoliteApp, Callback, CallsOf

(* The step of one of the two threads leaves the other's stack alone.      *)
LEMMA OneStack ==
  ASSUME PoliteApp, TypeOK
  PROVE  /\ \A fr : Continue(TheUser, fr) => U' = fr \o Tail(U) /\ L' = L
         /\ \A fr : Continue(Loop, fr) => L' = fr \o Tail(L) /\ U' = U
         /\ \A fr : LoopCalls(fr) => L' = fr /\ U' = U
         /\ UNCHANGED stack => U' = U /\ L' = L
BY PoliteThreads DEF TypeOK, Continue, LoopCalls, U, L

(* The calls the user and the network thread make are sequences of calls.  *)
LEMMA CallSeqs ==
  /\ << >> \in Seq(Frame)
  /\ {ListenCalled, ListenSets, ListenPosts, CloseCalled, CloseSets, ClosePosts}
       \subseteq Seq(Frame)
  /\ ListenerForms \subseteq Seq(Frame)
  /\ \A s \in Seq(Frame) : << >> \o s = s /\ s \o << >> = s
<1>1. /\ \A o \in Op : <<o, {}>> \in Frame
      /\ \A o \in Op : Event(o) \in Frame
  BY DEF Frame, Event, Socket
<1>2. {"call.Listen", "Listen", "server.Listen", "call.Close", "Closing", "server.Close",
       "ListenOnEvent", "CloseOnEvent", "Listening", "ListenFailed", "close_cb", "Closed"}
        \subseteq Op
  BY DEF Op, AppCall, ServerState, ServerCall, EventCall
<1>3. /\ \A o \in Op : <<<<o, {}>>>> \in Seq(Frame) /\ <<Event(o)>> \in Seq(Frame)
      /\ \A o, p \in Op : <<<<o, {}>>, Event(p)>> \in Seq(Frame)
      /\ << >> \in Seq(Frame)
  <2>1. ASSUME NEW f \in Frame, NEW g \in Frame
        PROVE  <<f>> \in Seq(Frame) /\ <<f, g>> \in Seq(Frame)
    OBVIOUS
  <2>2. << >> \in Seq(Frame)
    OBVIOUS
  <2>3. \A o \in Op : <<<<o, {}>>>> \in Seq(Frame) /\ <<Event(o)>> \in Seq(Frame)
    BY <1>1, <2>1
  <2>4. \A o, p \in Op : <<<<o, {}>>, Event(p)>> \in Seq(Frame)
    BY <1>1, <2>1
  <2> QED
    BY <2>2, <2>3, <2>4
<1>4. \A s \in Seq(Frame) : << >> \o s = s /\ s \o << >> = s
  BY ConcatEmptySeq
<1>5. /\ ListenCalled \in Seq(Frame) /\ ListenSets \in Seq(Frame)
      /\ ListenPosts \in Seq(Frame)
  BY <1>2, <1>3 DEF ListenCalled, ListenSets, ListenPosts
<1>6. /\ CloseCalled \in Seq(Frame) /\ CloseSets \in Seq(Frame)
      /\ ClosePosts \in Seq(Frame)
  BY <1>2, <1>3 DEF CloseCalled, CloseSets, ClosePosts
<1>7. ListenerForms \subseteq Seq(Frame)
  BY <1>2, <1>3 DEF ListenerForms, RunsListen, RunsClose, SetsListening, SetsFailed,
     RunsCloseCb, SetsClosed
<1> QED
  BY <1>3, <1>4, <1>5, <1>6, <1>7

-----------------------------------------------------------------------------
(* What the user does. *)

(* A test, or a change of the state. *)
UserTurns ==
  /\ UNCHANGED tasks
  /\ \/ U \in {ListenCalled, CloseCalled} /\ U' = << >> /\ UNCHANGED state
     \/ U = ListenCalled /\ U' = ListenSets /\ UNCHANGED state
     \/ U = ListenSets /\ U' = ListenPosts /\ state' = "Listen"
     \/ /\ U = CloseCalled /\ U' = CloseSets /\ UNCHANGED state
        /\ state \notin {"Closed", "Closing"}
     \/ U = CloseSets /\ U' = ClosePosts /\ state' = "Closing"

(* The operation is posted. *)
UserPosts ==
  /\ U' = << >> /\ UNCHANGED state
  /\ \/ U = ListenPosts /\ tasks' = Append(tasks, Event("ListenOnEvent"))
     \/ U = ClosePosts /\ tasks' = Append(tasks, Event("CloseOnEvent"))

UserMove == UserTurns \/ UserPosts

(* The user's calls go through Listen() and Close() step by step. *)
LEMMA UserStep ==
  ASSUME PoliteApp, TypeOK, UserStacks, ThreadStep(TheUser)
  PROVE  UserMove /\ L' = L /\ UNCHANGED <<connStates, socketVars>>
<1> DEFINE Goal == UserMove /\ L' = L /\ UNCHANGED <<connStates, socketVars>>
<1>0. ASSUME NEW f, Head(U) = f, NEW op, NEW S, Top(TheUser, op, S)
      PROVE  f = <<op, S>>
  BY <1>0 DEF Top, U
<1>00. \A o, p, S, T : <<o, S>> = <<p, T>> => o = p /\ S = T
  OBVIOUS
<1>01. \E op, S : Top(TheUser, op, S)
  BY DEF ThreadStep, Listen, Close, Write, WriteAll, SetState, SetConnState, ServerImpl,
     ServerImplWrite
<1>02. U # << >>
  BY <1>01 DEF Top, U
<1>03. \A fr : fr \o << >> = fr => (Continue(TheUser, fr) /\ Tail(U) = << >> => U' = fr)
  BY OneStack
<1>04. TheUser # Loop
  BY PoliteThreads
<1>1. CASE U = ListenCalled
  <2>1. Head(U) = <<"call.Listen", {}>> /\ Tail(U) = << >>
    BY <1>1, OneOrTwo DEF ListenCalled
  <2>2. \A op, S : Top(TheUser, op, S) => op = "call.Listen"
    BY <1>0, <1>00, <2>1
  <2>3. Listen(TheUser)
    BY <2>2 DEF ThreadStep, Close, Write, WriteAll, SetState, SetConnState, ServerImpl,
       ServerImplWrite, ServerState, SetConn
  <2>4. /\ Continue(TheUser, << >>) \/ Continue(TheUser, ListenSets)
        /\ UNCHANGED <<state, connStates, tasks, socketVars>>
    BY <2>3 DEF Listen, Return, ListenSets, Event, stateVars, queueVars
  <2>5. L' = L /\ U' \in {<< >>, ListenSets}
    BY <2>1, <2>4, OneStack, CallSeqs
  <2> QED
    BY <1>1, <2>4, <2>5 DEF UserMove, UserTurns, UserPosts
<1>2. CASE U = ListenSets
  <2>1. Head(U) = <<"Listen", {}>> /\ Tail(U) = ListenPosts
    BY <1>2, OneOrTwo DEF ListenSets, ListenPosts
  <2>2. \A op, S : Top(TheUser, op, S) => op = "Listen"
    BY <1>0, <1>00, <2>1
  <2>3. SetState(TheUser)
    BY <2>2 DEF ThreadStep, Listen, Close, Write, WriteAll, SetConnState, ServerImpl,
       ServerImplWrite, SetConn
  <2>4. /\ Continue(TheUser, << >>) /\ state' = "Listen"
        /\ UNCHANGED <<connStates, tasks, socketVars>>
    BY <2>2, <2>3, SilentStates DEF SetState, queueVars
  <2>5. L' = L /\ U' = ListenPosts
    BY <2>1, <2>4, OneStack, CallSeqs
  <2> QED
    BY <1>2, <2>4, <2>5 DEF UserMove, UserTurns, UserPosts
<1>3. CASE U = ListenPosts
  <2>1. Head(U) = <<"server.Listen", {Listener}>> /\ Tail(U) = << >>
    BY <1>3, OneOrTwo DEF ListenPosts, Event
  <2>2. \A op, S : Top(TheUser, op, S) => op = "server.Listen" /\ S = {Listener}
    BY <1>0, <1>00, <2>1
  <2>3. ServerImpl(TheUser)
    <3>1. \A op, S : Top(TheUser, op, S) => op = "server.Listen"
      BY <2>2
    <3> QED
      BY <3>1 DEF ThreadStep, Listen, Close, Write, WriteAll, SetState, SetConnState,
         ServerImplWrite, SetConn, ServerState
  <2>4. PICK s \in Socket : /\ Top(TheUser, "server.Listen", {s})
                            /\ Runs(TheUser, <<"ListenOnEvent", {s}>>, << >>)
    <3>1. \A op, S : Top(TheUser, op, S) => op = "server.Listen"
      BY <2>2
    <3>2. PICK s \in Socket :
            \/ /\ Top(TheUser, "server.Listen", {s})
               /\ Runs(TheUser, <<"ListenOnEvent", {s}>>, << >>)
            \/ /\ Top(TheUser, "server.Close", {s})
               /\ Runs(TheUser, <<"CloseOnEvent", {s}>>, << >>)
      BY <2>3 DEF ServerImpl
    <3> QED
      BY <3>1, <3>2
  <2>5. {s} = {Listener}
    BY <2>2, <2>4
  <2>6. /\ Continue(TheUser, << >>) /\ tasks' = Append(tasks, Event("ListenOnEvent"))
        /\ UNCHANGED <<state, connStates, socketVars>>
    BY <1>04, <2>3, <2>4, <2>5 DEF Runs, ServerImpl, Event, stateVars
  <2>7. L' = L /\ U' = << >>
    BY <2>1, <2>6, OneStack, CallSeqs
  <2> QED
    BY <1>3, <2>6, <2>7 DEF UserMove, UserTurns, UserPosts
<1>4. CASE U = CloseCalled
  <2>1. Head(U) = <<"call.Close", {}>> /\ Tail(U) = << >>
    BY <1>4, OneOrTwo DEF CloseCalled
  <2>2. \A op, S : Top(TheUser, op, S) => op = "call.Close"
    BY <1>0, <1>00, <2>1
  <2>3. Close(TheUser)
    BY <2>2 DEF ThreadStep, Listen, Write, WriteAll, SetState, SetConnState, ServerImpl,
       ServerImplWrite, ServerState, SetConn
  <2>4. /\ \/ Continue(TheUser, << >>)
           \/ Continue(TheUser, CloseSets) /\ state \notin {"Closed", "Closing"}
        /\ UNCHANGED <<state, connStates, tasks, socketVars>>
    BY <2>3 DEF Close, Return, CloseSets, Event, stateVars, queueVars
  <2>5. L' = L /\ (U' = << >> \/ (U' = CloseSets /\ state \notin {"Closed", "Closing"}))
    BY <2>1, <2>4, OneStack, CallSeqs
  <2> QED
    BY <1>4, <2>4, <2>5 DEF UserMove, UserTurns, UserPosts
<1>5. CASE U = CloseSets
  <2>1. Head(U) = <<"Closing", {}>> /\ Tail(U) = ClosePosts
    BY <1>5, OneOrTwo DEF CloseSets, ClosePosts
  <2>2. \A op, S : Top(TheUser, op, S) => op = "Closing"
    BY <1>0, <1>00, <2>1
  <2>3. SetState(TheUser)
    BY <2>2 DEF ThreadStep, Listen, Close, Write, WriteAll, SetConnState, ServerImpl,
       ServerImplWrite, SetConn
  <2>4. /\ Continue(TheUser, << >>) /\ state' = "Closing"
        /\ UNCHANGED <<connStates, tasks, socketVars>>
    BY <2>2, <2>3, SilentStates DEF SetState, queueVars
  <2>5. L' = L /\ U' = ClosePosts
    BY <2>1, <2>4, OneStack, CallSeqs
  <2> QED
    BY <1>5, <2>4, <2>5 DEF UserMove, UserTurns, UserPosts
<1>6. CASE U = ClosePosts
  <2>1. Head(U) = <<"server.Close", {Listener}>> /\ Tail(U) = << >>
    BY <1>6, OneOrTwo DEF ClosePosts, Event
  <2>2. \A op, S : Top(TheUser, op, S) => op = "server.Close" /\ S = {Listener}
    BY <1>0, <1>00, <2>1
  <2>3. ServerImpl(TheUser)
    <3>1. \A op, S : Top(TheUser, op, S) => op = "server.Close"
      BY <2>2
    <3> QED
      BY <3>1 DEF ThreadStep, Listen, Close, Write, WriteAll, SetState, SetConnState,
         ServerImplWrite, SetConn, ServerState
  <2>4. PICK s \in Socket : /\ Top(TheUser, "server.Close", {s})
                            /\ Runs(TheUser, <<"CloseOnEvent", {s}>>, << >>)
    <3>1. \A op, S : Top(TheUser, op, S) => op = "server.Close"
      BY <2>2
    <3>2. PICK s \in Socket :
            \/ /\ Top(TheUser, "server.Listen", {s})
               /\ Runs(TheUser, <<"ListenOnEvent", {s}>>, << >>)
            \/ /\ Top(TheUser, "server.Close", {s})
               /\ Runs(TheUser, <<"CloseOnEvent", {s}>>, << >>)
      BY <2>3 DEF ServerImpl
    <3> QED
      BY <3>1, <3>2
  <2>5. {s} = {Listener}
    BY <2>2, <2>4
  <2>6. /\ Continue(TheUser, << >>) /\ tasks' = Append(tasks, Event("CloseOnEvent"))
        /\ UNCHANGED <<state, connStates, socketVars>>
    BY <1>04, <2>3, <2>4, <2>5 DEF Runs, ServerImpl, Event, stateVars
  <2>7. L' = L /\ U' = << >>
    BY <2>1, <2>6, OneStack, CallSeqs
  <2> QED
    BY <1>6, <2>6, <2>7 DEF UserMove, UserTurns, UserPosts
<1> QED
  BY <1>02, <1>1, <1>2, <1>3, <1>4, <1>5, <1>6 DEF UserStacks, UserListens
-----------------------------------------------------------------------------
(* The queue. *)

(* Posting an event. *)
LEMMA QueueAppends ==
  ASSUME PostedEvents, NEW e \in {Event("ListenOnEvent"), Event("CloseOnEvent")},
         tasks' = Append(tasks, e)
  PROVE  /\ PostedEvents'
         /\ Len(tasks) \in Nat /\ Len(tasks') = Len(tasks) + 1
         /\ \A i \in 1..Len(tasks) : i \in 1..Len(tasks') /\ tasks'[i] = tasks[i]
         /\ tasks'[Len(tasks) + 1] = e
         /\ tasks = << >> => Len(tasks) = 0
         /\ \A op : Queued(op)' <=> Queued(op) \/ e = Event(op)
<1>1. /\ Len(tasks) \in Nat /\ Len(tasks') = Len(tasks) + 1
      /\ \A i \in 1..Len(tasks) : tasks'[i] = tasks[i]
      /\ tasks'[Len(tasks) + 1] = e
      /\ tasks' \in Seq({Event("ListenOnEvent"), Event("CloseOnEvent")})
  BY AppendProperties, LenProperties DEF PostedEvents
<1>2. \A i \in 1..Len(tasks') : i \in 1..Len(tasks) \/ i = Len(tasks) + 1
  BY <1>1
<1>3. \A i \in 1..Len(tasks) : i \in 1..Len(tasks')
  BY <1>1
<1>4. ASSUME NEW op PROVE Queued(op)' <=> Queued(op) \/ e = Event(op)
  <2>1. Len(tasks) + 1 \in 1..Len(tasks')
    BY <1>1
  <2> QED
    BY <1>1, <1>2, <1>3, <2>1 DEF Queued
<1>5. tasks = << >> => Len(tasks) = 0
  OBVIOUS
<1> QED
  BY <1>1, <1>3, <1>4, <1>5 DEF PostedEvents

(* Taking the oldest event. *)
LEMMA QueueTakes ==
  ASSUME PostedEvents, tasks # << >>, tasks' = Tail(tasks)
  PROVE  /\ PostedEvents'
         /\ Head(tasks) \in {Event("ListenOnEvent"), Event("CloseOnEvent")}
         /\ Head(tasks) = tasks[1] /\ 1 \in 1..Len(tasks)
         /\ \A i \in 1..Len(tasks') :
              /\ i + 1 \in 1..Len(tasks) /\ tasks'[i] = tasks[i + 1]
              /\ i + 1 # 1 /\ i \in Nat
         /\ \A op : Queued(op)' => Queued(op)
         /\ \A op : Queued(op) => Queued(op)' \/ Head(tasks) = Event(op)
<1> DEFINE E == {Event("ListenOnEvent"), Event("CloseOnEvent")}
<1>0. tasks \in Seq(E)
  BY DEF PostedEvents
<1>1. /\ Tail(tasks) \in Seq(E) /\ Head(tasks) = tasks[1] /\ 1 \in 1..Len(tasks)
      /\ \A i \in 1..Len(Tail(tasks)) :
           i + 1 \in 1..Len(tasks) /\ Tail(tasks)[i] = tasks[i + 1]
      /\ \A i \in 1..Len(tasks) : i = 1 \/ i - 1 \in 1..Len(Tail(tasks))
  BY <1>0, TailElements
<1>2. Head(tasks) \in E
  BY <1>0, HeadTailProperties
<1>3. \A i \in 1..Len(tasks) : (i - 1) + 1 = i
  OBVIOUS
<1>4. \A i \in 1..Len(tasks') : i + 1 # 1 /\ i \in Nat
  OBVIOUS
<1>5. ASSUME NEW op, Queued(op) PROVE Queued(op)' \/ Head(tasks) = Event(op)
  <2>1. PICK i \in 1..Len(tasks) : tasks[i] = Event(op)
    BY <1>5 DEF Queued
  <2>2. CASE i = 1
    BY <1>1, <2>1, <2>2
  <2>3. CASE i # 1
    <3>1. i - 1 \in 1..Len(tasks')
      BY <1>1, <2>3
    <3>2. tasks'[i - 1] = tasks[i]
      BY <1>1, <1>3, <3>1
    <3> QED
      BY <2>1, <3>1, <3>2 DEF Queued
  <2> QED
    BY <2>2, <2>3
<1>6. \A op : Queued(op)' => Queued(op)
  BY <1>1 DEF Queued
<1> QED
  BY <1>1, <1>2, <1>4, <1>5, <1>6 DEF PostedEvents

-----------------------------------------------------------------------------
(* The steps of the user keep ListenerInv. *)

UserCalled ==
  /\ U = << >> /\ UNCHANGED <<state, tasks>>
  /\ U' = CloseCalled \/ (U' = ListenCalled /\ state = "Closed")

(* A call is made: Listen in state Closed only, when the socket is free.   *)
LEMMA CalledKeeps ==
  ASSUME ListenerInv, UserCalled, L' = L, UNCHANGED socketVars
  PROVE  ListenerInv'
<1> USE UserForms, LoopForms DEF UserCalled
<1>0. /\ ListenerPhase' /\ UserStacks /\ LoopStack /\ PostedEvents /\ OneListen /\ FirstListen
      /\ ClosedIsReleased /\ StateFollows /\ NeverFaults
      /\ socket' = socket /\ fault' = fault
  BY DEF ListenerInv, socketVars, ListenerPhase
<1>1. UserStacks'
  BY DEF UserStacks, UserListens
<1>2. LoopStack' /\ PostedEvents' /\ NeverFaults' /\ ClosedIsReleased'
  BY <1>0 DEF LoopStack, PostedEvents, NeverFaults, ClosedIsReleased
<1>3. OneListen'
  <2>1. \A op : Queued(op)' <=> Queued(op)
    BY DEF Queued
  <2>2. Posted' <=> Posted
    BY <2>1 DEF Posted
  <2>3. state = "Closed" => ~Posted
    BY <1>0 DEF OneListen
  <2>4. ~UserListens' \/ (U' = ListenCalled /\ state = "Closed")
    BY DEF UserListens
  <2>5. state = "Closed" => socket[Listener] \in {"none", "closed"} /\ L # SetsClosed
    BY <1>0 DEF ClosedIsReleased, LoopStack, ListenerForms
  <2> QED
    BY <1>0, <2>1, <2>2, <2>3, <2>4, <2>5 DEF OneListen
<1>4. FirstListen'
  BY <1>0 DEF FirstListen
<1>5. StateFollows'
  <2>1. \A op : Queued(op)' <=> Queued(op)
    BY DEF Queued
  <2>2. (Posted' <=> Posted) /\ (Closes => Closes')
    BY <2>1 DEF Posted, Closes
  <2> QED
    BY <1>0, <2>2 DEF StateFollows
<1> QED
  BY <1>0, <1>1, <1>2, <1>3, <1>4, <1>5 DEF ListenerInv

(* Listen() and Close() go on: a listen is only posted while the socket is *)
(* free, and a close only after Closing was set.                           *)
LEMMA UserMoveKeeps ==
  ASSUME ListenerInv, UserMove, L' = L, UNCHANGED socketVars
  PROVE  ListenerInv'
<1> USE UserForms, LoopForms
<1>0. /\ ListenerPhase' /\ UserStacks /\ LoopStack /\ PostedEvents /\ OneListen /\ FirstListen
      /\ ClosedIsReleased /\ StateFollows /\ NeverFaults
      /\ socket' = socket /\ fault' = fault
  BY DEF ListenerInv, socketVars, ListenerPhase
<1>1. UserStacks' /\ LoopStack' /\ NeverFaults' /\ ClosedIsReleased'
  <2>1. UserStacks'
    BY DEF UserMove, UserTurns, UserPosts, UserStacks, UserListens
  <2>2. LoopStack'
    BY <1>0 DEF UserMove, UserTurns, UserPosts, LoopStack
  <2> QED
    BY <1>0, <2>1, <2>2 DEF UserMove, UserTurns, UserPosts, NeverFaults, ClosedIsReleased
<1>2. CASE UserTurns
  <2>1. PostedEvents' /\ \A op : Queued(op)' <=> Queued(op)
    BY <1>0, <1>2 DEF PostedEvents, Queued, UserTurns
  <2>2. Posted' <=> Posted
    BY <2>1 DEF Posted
  <2>3. /\ UserListens' => UserListens
        /\ U' = ListenPosts => UserListens /\ state' = "Listen"
        /\ Closes => Closes'
    BY <2>1, <1>2 DEF UserTurns, UserListens, Closes
  <2>4. OneListen'
    BY <1>0, <1>2, <2>1, <2>2, <2>3 DEF OneListen, UserTurns
  <2>5. FirstListen'
    BY <1>0, <1>2 DEF FirstListen, UserTurns
  <2>6. StateFollows'
    BY <1>0, <1>2, <2>2, <2>3 DEF StateFollows, UserTurns, OneListen, UserListens, Closes
  <2> QED
    BY <1>0, <1>1, <2>1, <2>4, <2>5, <2>6 DEF ListenerInv
<1>3. CASE /\ U = ListenPosts /\ U' = << >> /\ UNCHANGED state
           /\ tasks' = Append(tasks, Event("ListenOnEvent"))
  <2>0. Append(tasks, Event("ListenOnEvent")) = tasks'
    BY <1>3
  <2>1. /\ PostedEvents'
        /\ Len(tasks) \in Nat /\ Len(tasks') = Len(tasks) + 1
        /\ \A i \in 1..Len(tasks) : i \in 1..Len(tasks') /\ tasks'[i] = tasks[i]
        /\ tasks'[Len(tasks) + 1] = Event("ListenOnEvent")
        /\ tasks = << >> => Len(tasks) = 0
        /\ \A op : Queued(op)' <=> Queued(op) \/ Event("ListenOnEvent") = Event(op)
    BY <1>0, <1>3, QueueAppends
  <2>2. UserListens /\ ~Posted /\ ~UserListens'
    BY <1>0, <1>3 DEF OneListen, UserListens
  <2>3. Posted' /\ (Closes' <=> Closes)
    BY <1>3, <2>1 DEF Posted, Closes
  <2>4. \A i, j \in 1..Len(tasks') :
          tasks'[i] = Event("ListenOnEvent") /\ tasks'[j] = Event("ListenOnEvent") => i = j
    <3>1. \A i \in 1..Len(tasks') : i \in 1..Len(tasks) \/ i = Len(tasks) + 1
      BY <2>1
    <3>2. \A i \in 1..Len(tasks) : tasks[i] # Event("ListenOnEvent")
      BY <2>2 DEF Posted, Queued
    <3> QED
      BY <2>1, <3>1, <3>2
  <2>5. OneListen'
    BY <1>0, <1>3, <2>2, <2>3, <2>4 DEF OneListen, Posted
  <2>6. FirstListen'
    <3>1. CASE tasks = << >>
      <4>1. tasks'[1] = Event("ListenOnEvent") /\ tasks' # << >>
        BY <2>1, <3>1
      <4> QED
        BY <1>0, <1>3, <4>1 DEF FirstListen
    <3>2. CASE tasks # << >>
      <4>1. 1 \in 1..Len(tasks)
        BY <1>0, <3>2, TailElements DEF PostedEvents
      <4>2. tasks'[1] = tasks[1] /\ tasks' # << >>
        BY <2>1, <4>1
      <4> QED
        BY <1>0, <3>2, <4>2 DEF FirstListen
    <3> QED
      BY <3>1, <3>2
  <2>7. StateFollows'
    BY <1>0, <1>3, <2>3 DEF StateFollows
  <2> QED
    BY <1>0, <1>1, <2>1, <2>5, <2>6, <2>7 DEF ListenerInv
<1>4. CASE /\ U = ClosePosts /\ U' = << >> /\ UNCHANGED state
           /\ tasks' = Append(tasks, Event("CloseOnEvent"))
  <2>1. /\ PostedEvents'
        /\ Len(tasks) \in Nat /\ Len(tasks') = Len(tasks) + 1
        /\ \A i \in 1..Len(tasks) : i \in 1..Len(tasks') /\ tasks'[i] = tasks[i]
        /\ tasks'[Len(tasks) + 1] = Event("CloseOnEvent")
        /\ tasks = << >> => Len(tasks) = 0
        /\ \A op : Queued(op)' <=> Queued(op) \/ Event("CloseOnEvent") = Event(op)
    BY <1>0, <1>4, QueueAppends
  <2>2. ~UserListens /\ ~UserListens'
    BY <1>4 DEF UserListens
  <2>3. (Posted' <=> Posted) /\ Closes' /\ (Queued("ListenOnEvent")' <=> Queued("ListenOnEvent"))
    BY <1>4, <2>1 DEF Posted, Closes
  <2>4. \A i, j \in 1..Len(tasks') :
          tasks'[i] = Event("ListenOnEvent") /\ tasks'[j] = Event("ListenOnEvent") => i = j
    <3>1. \A i \in 1..Len(tasks') : i \in 1..Len(tasks) \/ i = Len(tasks) + 1
      BY <2>1
    <3>2. \A i, j \in 1..Len(tasks) :
            tasks[i] = Event("ListenOnEvent") /\ tasks[j] = Event("ListenOnEvent") => i = j
      BY <1>0 DEF OneListen
    <3> QED
      BY <2>1, <3>1, <3>2
  <2>5. OneListen'
    BY <1>0, <1>4, <2>2, <2>3, <2>4 DEF OneListen
  <2>6. FirstListen'
    <3>1. ASSUME socket[Listener] = "none", L # RunsListen
          PROVE  L # RunsClose /\ tasks' # << >> /\ tasks'[1] = Event("ListenOnEvent")
      <4>1. L # RunsClose /\ tasks # << >> /\ tasks[1] = Event("ListenOnEvent")
        BY <1>0, <1>4, <3>1 DEF FirstListen
      <4>2. 1 \in 1..Len(tasks)
        BY <1>0, <4>1, TailElements DEF PostedEvents
      <4>3. tasks'[1] = tasks[1] /\ tasks' # << >>
        BY <2>1, <4>2
      <4> QED
        BY <4>1, <4>3
    <3> QED
      BY <1>0, <3>1 DEF FirstListen
  <2>7. StateFollows'
    BY <1>0, <1>4, <2>3 DEF StateFollows
  <2> QED
    BY <1>0, <1>1, <2>1, <2>5, <2>6, <2>7 DEF ListenerInv
<1> QED
  BY <1>2, <1>3, <1>4 DEF UserMove, UserTurns, UserPosts

-----------------------------------------------------------------------------
(* The steps of the network thread keep ListenerInv. *)

(* A call about a connection. *)
ConnMove ==
  /\ L \in Seq(ConnFrame) /\ L' \in Seq(ConnFrame)
  /\ socket'[Listener] = socket[Listener] /\ UNCHANGED <<state, tasks>>

(* The oldest task is run. *)
TaskMove ==
  /\ L = << >> /\ tasks # << >> /\ L' = <<Head(tasks)>> /\ tasks' = Tail(tasks)
  /\ socket'[Listener] = socket[Listener] /\ UNCHANGED state

(* The socket is opened. *)
OpenMove ==
  /\ L = RunsListen
  /\ \/ socket'[Listener] = "listening" /\ L' = SetsListening
     \/ socket'[Listener] = "init" /\ L' = SetsFailed
  /\ UNCHANGED <<state, tasks>>

(* uv_close is called. *)
CloseMove ==
  /\ L = RunsClose /\ L' = << >>
  /\ socket'[Listener] = IF socket[Listener] = "closed" THEN "closed" ELSE "closing"
  /\ UNCHANGED <<state, tasks>>

(* What happened to the socket becomes the state. *)
SetMove ==
  /\ \/ L = SetsListening /\ state' = "Listening"
     \/ L = SetsFailed /\ state' = "ListenFailed"
     \/ L = SetsClosed /\ state' = "Closed"
  /\ L' = << >>
  /\ socket'[Listener] = socket[Listener] /\ UNCHANGED tasks

(* The close callback of the socket, and its end. *)
ClosedMove ==
  /\ \/ /\ L = << >> /\ socket[Listener] = "closing" /\ L' = RunsCloseCb
        /\ socket'[Listener] = "closing"
     \/ L = RunsCloseCb /\ L' = SetsClosed /\ socket'[Listener] = "closed"
  /\ UNCHANGED <<state, tasks>>

LoopMove == ConnMove \/ TaskMove \/ OpenMove \/ CloseMove \/ SetMove \/ ClosedMove

(* Nothing about the user or the queue changes. *)
LEMMA SameQueue ==
  ASSUME tasks' = tasks, U' = U
  PROVE  /\ UserStacks => UserStacks'
         /\ PostedEvents => PostedEvents'
         /\ UserListens' <=> UserListens
         /\ \A op : Queued(op)' <=> Queued(op)
BY DEF UserStacks, PostedEvents, UserListens, Queued

(* A step about a connection keeps the invariant. *)
LEMMA ConnMoveKeeps ==
  ASSUME ListenerInv, ConnMove, U' = U, fault' = fault
  PROVE  ListenerInv'
<1> USE LoopForms DEF ListenerForms
<1>0. /\ ListenerPhase' /\ UserStacks /\ LoopStack /\ PostedEvents /\ OneListen /\ FirstListen
      /\ ClosedIsReleased /\ StateFollows /\ NeverFaults
      /\ tasks' = tasks /\ state' = state /\ socket'[Listener] = socket[Listener]
      /\ L \notin ListenerForms /\ L' \notin ListenerForms /\ L' \in Seq(ConnFrame)
  BY DEF ListenerInv, ConnMove, ListenerPhase
<1>1. /\ UserStacks' /\ PostedEvents' /\ (UserListens' <=> UserListens)
      /\ \A op : Queued(op)' <=> Queued(op)
  BY <1>0, SameQueue
<1>2. (Posted' <=> Posted) /\ (Closes' <=> Closes)
  BY <1>0, <1>1 DEF Posted, Closes
<1>3. LoopStack' /\ ClosedIsReleased' /\ NeverFaults'
  BY <1>0 DEF LoopStack, ClosedIsReleased, NeverFaults
<1>4. OneListen'
  BY <1>0, <1>1, <1>2 DEF OneListen
<1>5. FirstListen'
  BY <1>0 DEF FirstListen
<1>6. StateFollows'
  BY <1>0, <1>2 DEF StateFollows
<1> QED
  BY <1>0, <1>1, <1>3, <1>4, <1>5, <1>6 DEF ListenerInv

(* Taking a posted call keeps the invariant. *)
LEMMA TaskMoveKeeps ==
  ASSUME ListenerInv, TaskMove, U' = U, fault' = fault
  PROVE  ListenerInv'
<1> USE LoopForms DEF ListenerForms
<1>0. /\ ListenerPhase' /\ UserStacks /\ LoopStack /\ PostedEvents /\ OneListen /\ FirstListen
      /\ ClosedIsReleased /\ StateFollows /\ NeverFaults
      /\ tasks # << >> /\ tasks' = Tail(tasks)
      /\ L = << >> /\ L' = <<Head(tasks)>>
      /\ state' = state /\ socket'[Listener] = socket[Listener]
  BY DEF ListenerInv, TaskMove, ListenerPhase
<1>1. /\ PostedEvents'
      /\ Head(tasks) \in {Event("ListenOnEvent"), Event("CloseOnEvent")}
      /\ Head(tasks) = tasks[1] /\ 1 \in 1..Len(tasks)
      /\ \A i \in 1..Len(tasks') :
           /\ i + 1 \in 1..Len(tasks) /\ tasks'[i] = tasks[i + 1]
           /\ i + 1 # 1 /\ i \in Nat
      /\ \A op : Queued(op)' => Queued(op)
      /\ \A op : Queued(op) => Queued(op)' \/ Head(tasks) = Event(op)
  BY <1>0, QueueTakes
<1>2. \/ L' = RunsListen /\ tasks[1] = Event("ListenOnEvent")
      \/ L' = RunsClose /\ tasks[1] = Event("CloseOnEvent")
  <2>1. CASE Head(tasks) = Event("ListenOnEvent")
    BY <1>0, <1>1, <2>1 DEF RunsListen
  <2>2. CASE Head(tasks) = Event("CloseOnEvent")
    BY <1>0, <1>1, <2>2 DEF RunsClose
  <2> QED
    BY <1>1, <2>1, <2>2
<1>3. /\ L \notin ListenerForms
      /\ UserStacks' /\ (UserListens' <=> UserListens)
  BY <1>0 DEF UserStacks, UserListens
<1>4. /\ Posted' <=> Posted
      /\ Closes => Closes'
  <2>1. Queued("ListenOnEvent") => Queued("ListenOnEvent")' \/ L' = RunsListen
    BY <1>1, <1>2
  <2>2. Queued("CloseOnEvent") => Queued("CloseOnEvent")' \/ L' = RunsClose
    BY <1>1, <1>2
  <2>3. L' = RunsListen => Queued("ListenOnEvent")
    BY <1>1, <1>2 DEF Queued
  <2>4. Queued("ListenOnEvent")' => Queued("ListenOnEvent")
    BY <1>1
  <2> QED
    BY <1>0, <1>3, <2>1, <2>2, <2>3, <2>4 DEF Posted, Closes
<1>5. LoopStack' /\ ClosedIsReleased' /\ NeverFaults'
  BY <1>0, <1>2 DEF LoopStack, ClosedIsReleased, NeverFaults
<1>6. OneListen'
  <2>1. \A i, j \in 1..Len(tasks) :
          tasks[i] = Event("ListenOnEvent") /\ tasks[j] = Event("ListenOnEvent") => i = j
    BY <1>0 DEF OneListen
  <2>2. L' = RunsListen => ~Queued("ListenOnEvent")'
    BY <1>1, <1>2, <2>1 DEF Queued
  <2>3. ASSUME NEW i \in 1..Len(tasks'), NEW j \in 1..Len(tasks'),
               tasks'[i] = Event("ListenOnEvent"), tasks'[j] = Event("ListenOnEvent")
        PROVE  i = j
    <3>1. i + 1 = j + 1
      BY <1>1, <2>1, <2>3
    <3>2. i \in Nat /\ j \in Nat
      BY <1>1
    <3> QED
      BY <3>1, <3>2
  <2>4. L' # SetsClosed
    BY <1>2
  <2> QED
    BY <1>0, <1>3, <1>4, <2>2, <2>3, <2>4 DEF OneListen
<1>7. FirstListen'
  BY <1>0, <1>2, <1>3 DEF FirstListen
<1>8. StateFollows'
  BY <1>0, <1>3, <1>4 DEF StateFollows
<1> QED
  BY <1>0, <1>1, <1>3, <1>5, <1>6, <1>7, <1>8 DEF ListenerInv

(* Listening, or failing to, keeps the invariant. *)
LEMMA OpenMoveKeeps ==
  ASSUME ListenerInv, OpenMove, U' = U, fault' = fault
  PROVE  ListenerInv'
<1> USE LoopForms DEF ListenerForms
<1>0. /\ ListenerPhase' /\ UserStacks /\ LoopStack /\ PostedEvents /\ OneListen /\ NeverFaults
      /\ tasks' = tasks /\ state' = state /\ L = RunsListen
      /\ \/ socket'[Listener] = "listening" /\ L' = SetsListening
         \/ socket'[Listener] = "init" /\ L' = SetsFailed
  BY DEF ListenerInv, OpenMove, ListenerPhase
<1>1. /\ UserStacks' /\ PostedEvents' /\ (UserListens' <=> UserListens)
      /\ \A op : Queued(op)' <=> Queued(op)
  BY <1>0, SameQueue
<1>2. ~UserListens' /\ ~Posted' /\ state' # "Closed" /\ U' # ListenPosts
  BY <1>0, <1>1 DEF OneListen, Posted, UserListens
<1>3. LoopStack' /\ ClosedIsReleased' /\ NeverFaults'
  BY <1>0, <1>2 DEF LoopStack, ClosedIsReleased, NeverFaults
<1>4. OneListen'
  BY <1>0, <1>1, <1>2 DEF OneListen, Posted
<1>5. FirstListen'
  BY <1>0 DEF FirstListen
<1>6. StateFollows'
  BY <1>0, <1>2 DEF StateFollows
<1> QED
  BY <1>0, <1>1, <1>3, <1>4, <1>5, <1>6 DEF ListenerInv

(* Closing the listening socket keeps the invariant. *)
LEMMA CloseMoveKeeps ==
  ASSUME ListenerInv, CloseMove, U' = U, fault' = fault
  PROVE  ListenerInv'
<1> USE LoopForms DEF ListenerForms
<1>0. /\ ListenerPhase' /\ UserStacks /\ LoopStack /\ PostedEvents /\ OneListen /\ FirstListen
      /\ ClosedIsReleased /\ StateFollows /\ NeverFaults
      /\ tasks' = tasks /\ state' = state /\ L = RunsClose /\ L' = << >>
      /\ socket[Listener] # "none"
      /\ socket'[Listener] = IF socket[Listener] = "closed" THEN "closed" ELSE "closing"
  BY DEF ListenerInv, CloseMove, FirstListen, ListenerPhase
<1>1. /\ UserStacks' /\ PostedEvents' /\ (UserListens' <=> UserListens)
      /\ \A op : Queued(op)' <=> Queued(op)
  BY <1>0, SameQueue
<1>2. Posted' <=> Posted
  BY <1>0, <1>1 DEF Posted
<1>3. LoopStack' /\ ClosedIsReleased' /\ NeverFaults'
  BY <1>0 DEF LoopStack, ClosedIsReleased, NeverFaults
<1>4. OneListen'
  BY <1>0, <1>1, <1>2 DEF OneListen
<1>5. FirstListen'
  BY <1>0 DEF FirstListen
<1>6. StateFollows'
  BY <1>0, <1>2 DEF StateFollows
<1> QED
  BY <1>0, <1>1, <1>3, <1>4, <1>5, <1>6 DEF ListenerInv

(* Setting the state from what happened to the socket keeps the invariant. *)
LEMMA SetMoveKeeps ==
  ASSUME ListenerInv, SetMove, U' = U, fault' = fault
  PROVE  ListenerInv'
<1> USE LoopForms DEF ListenerForms
<1>0. /\ ListenerPhase' /\ UserStacks /\ LoopStack /\ PostedEvents /\ OneListen
      /\ NeverFaults
      /\ tasks' = tasks /\ L' = << >> /\ socket'[Listener] = socket[Listener]
      /\ \/ L = SetsListening /\ state' = "Listening" /\ socket[Listener] = "listening"
         \/ L = SetsFailed /\ state' = "ListenFailed" /\ socket[Listener] = "init"
         \/ L = SetsClosed /\ state' = "Closed" /\ socket[Listener] = "closed"
  BY DEF ListenerInv, SetMove, LoopStack, ListenerPhase
<1>1. /\ UserStacks' /\ PostedEvents' /\ (UserListens' <=> UserListens)
      /\ \A op : Queued(op)' <=> Queued(op)
  BY <1>0, SameQueue
<1>2. /\ Posted' <=> Posted
      /\ ~UserListens /\ ~Posted /\ U' # ListenPosts
  BY <1>0, <1>1 DEF Posted, OneListen, UserListens
<1>3. LoopStack' /\ ClosedIsReleased' /\ NeverFaults'
  BY <1>0 DEF LoopStack, ClosedIsReleased, NeverFaults
<1>4. OneListen'
  BY <1>0, <1>1, <1>2 DEF OneListen
<1>5. FirstListen'
  BY <1>0 DEF FirstListen
<1>6. StateFollows'
  BY <1>0 DEF StateFollows
<1> QED
  BY <1>0, <1>1, <1>3, <1>4, <1>5, <1>6 DEF ListenerInv

(* The close callback of the listening socket keeps the invariant. *)
LEMMA ClosedMoveKeeps ==
  ASSUME ListenerInv, ClosedMove, U' = U, fault' = fault
  PROVE  ListenerInv'
<1> USE LoopForms DEF ListenerForms
<1>0. /\ ListenerPhase' /\ UserStacks /\ LoopStack /\ PostedEvents /\ OneListen
      /\ ClosedIsReleased /\ NeverFaults
      /\ tasks' = tasks /\ state' = state /\ socket[Listener] = "closing"
      /\ \/ L = << >> /\ L' = RunsCloseCb /\ socket'[Listener] = "closing"
         \/ L = RunsCloseCb /\ L' = SetsClosed /\ socket'[Listener] = "closed"
  BY DEF ListenerInv, ClosedMove, LoopStack, ListenerPhase
<1>1. /\ UserStacks' /\ PostedEvents' /\ (UserListens' <=> UserListens)
      /\ \A op : Queued(op)' <=> Queued(op)
  BY <1>0, SameQueue
<1>2. /\ Posted' <=> Posted
      /\ ~UserListens /\ ~Posted /\ U' # ListenPosts /\ state # "Closed"
  BY <1>0, <1>1 DEF Posted, OneListen, UserListens, ClosedIsReleased
<1>3. LoopStack' /\ ClosedIsReleased' /\ NeverFaults'
  BY <1>0, <1>2 DEF LoopStack, ClosedIsReleased, NeverFaults
<1>4. OneListen'
  BY <1>0, <1>1, <1>2 DEF OneListen
<1>5. FirstListen'
  BY <1>0 DEF FirstListen
<1>6. StateFollows'
  BY <1>0 DEF StateFollows
<1> QED
  BY <1>0, <1>1, <1>3, <1>4, <1>5, <1>6 DEF ListenerInv

(* What the network thread does about the socket and the queue. *)
LEMMA LoopMoveKeeps ==
  ASSUME ListenerInv, LoopMove, U' = U, fault' = fault
  PROVE  ListenerInv'
BY ConnMoveKeeps, TaskMoveKeeps, OpenMoveKeeps, CloseMoveKeeps, SetMoveKeeps,
   ClosedMoveKeeps DEF LoopMove

-----------------------------------------------------------------------------
(* What the network thread does is one of these moves.                     *)

(* Sequences of calls about connections. *)
LEMMA ConnSeqs ==
  /\ << >> \in Seq(ConnFrame)
  /\ \A o \in ConnOp, S \in SUBSET Conn : <<<<o, S>>>> \in Seq(ConnFrame)
  /\ \A c \in Conn : ShutdownAndClose(c) \in Seq(ConnFrame)
  /\ \A c \in Conn, n \in Nat : FailWrites(c, n) \in Seq(ConnFrame)
  /\ \A a, b \in Seq(ConnFrame) : a \o b \in Seq(ConnFrame)
<1>1. \A o \in ConnOp, S \in SUBSET Conn : <<o, S>> \in ConnFrame
  BY DEF ConnFrame
<1>2. \A c \in Conn : <<"conn.Shutdown", {c}>> \in ConnFrame
                        /\ <<"server.Close", {c}>> \in ConnFrame
  BY <1>1 DEF ConnOp, SetConn
<1>3. ASSUME NEW c \in Conn, NEW n \in Nat PROVE FailWrites(c, n) \in Seq(ConnFrame)
  <2>1. 2 * n \in Nat
    OBVIOUS
  <2>2. FailWrites(c, n) \in [1..2 * n -> ConnFrame]
    BY <1>2 DEF FailWrites
  <2> QED
    BY <2>1, <2>2, SeqDef
<1>4. \A f, g \in ConnFrame : <<f>> \in Seq(ConnFrame) /\ <<f, g>> \in Seq(ConnFrame)
  OBVIOUS
<1>5. \A o \in ConnOp, S \in SUBSET Conn : <<<<o, S>>>> \in Seq(ConnFrame)
  BY <1>1, <1>4
<1>6. \A c \in Conn : ShutdownAndClose(c) \in Seq(ConnFrame)
  BY <1>2, <1>4 DEF ShutdownAndClose
<1>7. \A a, b \in Seq(ConnFrame) : a \o b \in Seq(ConnFrame)
  BY ConcatProperties
<1>8. << >> \in Seq(ConnFrame)
  OBVIOUS
<1> QED
  BY <1>3, <1>5, <1>6, <1>7, <1>8

(* A call on a stack of calls about connections.                           *)
LEMMA ConnCall ==
  ASSUME PoliteApp, TypeOK, L \in Seq(ConnFrame)
  PROVE  /\ \A op, S : Top(Loop, op, S) => op \in ConnOp /\ S \subseteq Conn /\ L # << >>
         /\ \A fr \in Seq(ConnFrame) :
              L # << >> /\ Continue(Loop, fr) => L' \in Seq(ConnFrame) /\ U' = U
         /\ \A fr \in Seq(ConnFrame) : LoopCalls(fr) => L' \in Seq(ConnFrame) /\ U' = U
<1>1. ASSUME NEW op, NEW S, Top(Loop, op, S)
      PROVE  op \in ConnOp /\ S \subseteq Conn /\ L # << >>
  <2>1. L # << >> /\ Head(L) = <<op, S>>
    BY <1>1 DEF Top, L
  <2>2. Head(L) \in ConnFrame
    BY <2>1, HeadTailProperties
  <2> QED
    BY <2>1, <2>2 DEF ConnFrame
<1>2. L # << >> => Tail(L) \in Seq(ConnFrame)
  BY HeadTailProperties
<1>3. \A fr \in Seq(ConnFrame) :
        L # << >> /\ Continue(Loop, fr) => L' \in Seq(ConnFrame) /\ U' = U
  BY <1>2, OneStack, ConnSeqs
<1>4. \A fr \in Seq(ConnFrame) : LoopCalls(fr) => L' \in Seq(ConnFrame) /\ U' = U
  BY OneStack
<1> QED
  BY <1>1, <1>3, <1>4

(* A call about the listening socket stands alone. *)
LEMMA ListenerCall ==
  ASSUME PoliteApp, TypeOK, NEW f, L = <<f>>
  PROVE  /\ \A op, S : Top(Loop, op, S) => f = <<op, S>>
         /\ \A fr \in Seq(Frame) : Continue(Loop, fr) => L' = fr /\ U' = U
<1>1. Head(L) = f /\ Tail(L) = << >>
  BY OneOrTwo
<1>2. \A op, S : Top(Loop, op, S) => f = <<op, S>>
  BY <1>1 DEF Top, L
<1>3. \A fr \in Seq(Frame) : Continue(Loop, fr) => L' = fr /\ U' = U
  BY <1>1, OneStack, CallSeqs
<1> QED
  BY <1>2, <1>3

(* The calls the network thread makes about connections. *)
LEMMA ConnThreadStep ==
  ASSUME PoliteApp, TypeOK, L \in Seq(ConnFrame), ThreadStep(Loop)
  PROVE  ConnMove /\ U' = U /\ fault' = fault
<1> DEFINE Goal == ConnMove /\ U' = U /\ fault' = fault
<1>0. /\ \A op, S : Top(Loop, op, S) => op \in ConnOp /\ S \subseteq Conn /\ L # << >>
      /\ \A fr \in Seq(ConnFrame) :
           L # << >> /\ Continue(Loop, fr) => L' \in Seq(ConnFrame) /\ U' = U
  BY ConnCall
<1>1. ASSUME NEW op, NEW S, Top(Loop, op, S),
             NEW fr \in Seq(ConnFrame), Continue(Loop, fr),
             UNCHANGED <<state, tasks, socketVars>>
      PROVE  Goal
  BY <1>0, <1>1 DEF ConnMove, socketVars
<1>2. {"call.Listen", "call.Close", "server.Listen"} \cap ConnOp = {}
        /\ ServerState \cap ConnOp = {}
  BY DEF ConnOp, SetConn, ServerState
<1>3. {"server.Write", "GetConns", "CloseOnEvent", "WriteOnEvent"} \subseteq ConnOp
  BY DEF ConnOp
<1>4. ~Listen(Loop) /\ ~Close(Loop) /\ ~SetState(Loop)
  BY <1>0, <1>2 DEF Listen, Close, SetState
<1>5. CASE Write(Loop)
  <2>1. PICK c \in Conn : /\ Top(Loop, "call.Write", {c})
                          /\ \/ Continue(Loop, <<<<"server.Write", {c}>>>>)
                             \/ Continue(Loop, << >>)
    BY <1>5 DEF Write, Return
  <2>2. <<<<"server.Write", {c}>>>> \in Seq(ConnFrame)
    BY <1>3, ConnSeqs
  <2>3. UNCHANGED <<state, tasks, socketVars>>
    BY <1>5 DEF Write, stateVars, queueVars
  <2> QED
    BY <1>1, <2>1, <2>2, <2>3, ConnSeqs
<1>6. CASE WriteAll(Loop)
  <2>1. PICK op \in {"call.WriteAll", "GetConns"} :
          /\ Top(Loop, op, {})
          /\ \/ Continue(Loop, <<<<"GetConns", {}>>>>)
             \/ Continue(Loop, << >>)
             \/ Continue(Loop, <<<<"server.Write", GetConns("Connected")>>>>)
    BY <1>6 DEF WriteAll, Return
  <2>2. /\ <<<<"GetConns", {}>>>> \in Seq(ConnFrame)
        /\ <<<<"server.Write", GetConns("Connected")>>>> \in Seq(ConnFrame)
    BY <1>3, ConnSeqs DEF GetConns
  <2>3. UNCHANGED <<state, tasks, socketVars>>
    BY <1>6 DEF WriteAll, stateVars, queueVars
  <2> QED
    BY <1>1, <2>1, <2>2, <2>3, ConnSeqs
<1>7. CASE SetConnState(Loop)
  <2>1. PICK op \in SetConn, c \in Conn :
          Top(Loop, op, {c}) /\ \E call \in Callback(StatesCalls, {c}) : Continue(Loop, call)
    BY <1>7 DEF SetConnState
  <2>2. Continue(Loop, << >>)
    BY <2>1, SilentStates
  <2>3. UNCHANGED <<state, tasks, socketVars>>
    BY <1>7 DEF SetConnState, queueVars
  <2> QED
    BY <1>1, <2>1, <2>2, <2>3, ConnSeqs
<1>8. CASE ServerImpl(Loop)
  <2>1. PICK s \in Socket :
          \/ Top(Loop, "server.Listen", {s})
          \/ Top(Loop, "server.Close", {s}) /\ Runs(Loop, <<"CloseOnEvent", {s}>>, << >>)
    BY <1>8 DEF ServerImpl
  <2>2. /\ Top(Loop, "server.Close", {s}) /\ {s} \subseteq Conn
        /\ Continue(Loop, <<<<"CloseOnEvent", {s}>>>> \o << >>) /\ UNCHANGED tasks
    BY <1>0, <1>2, <2>1 DEF Runs
  <2>3. /\ <<<<"CloseOnEvent", {s}>>>> \in Seq(ConnFrame)
        /\ <<<<"CloseOnEvent", {s}>>>> \o << >> \in Seq(ConnFrame)
    BY <1>3, <2>2, ConnSeqs
  <2>4. UNCHANGED <<state, tasks, socketVars>>
    BY <1>8, <2>2 DEF ServerImpl, stateVars
  <2> QED
    BY <1>1, <2>2, <2>3, <2>4
<1>9. CASE ServerImplWrite(Loop)
  <2>1. PICK S \in SUBSET Conn :
          /\ Top(Loop, "server.Write", S)
          /\ \/ Continue(Loop, << >>) /\ UNCHANGED tasks
             \/ \E c \in S : Runs(Loop, <<"WriteOnEvent", {c}>>, <<<<"server.Write", S \ {c}>>>>)
    BY <1>9 DEF ServerImplWrite, Return
  <2>2. UNCHANGED <<state, socketVars>>
    BY <1>9 DEF ServerImplWrite, stateVars
  <2>3. CASE Continue(Loop, << >>) /\ UNCHANGED tasks
    BY <1>1, <2>1, <2>2, <2>3, ConnSeqs
  <2>4. ASSUME NEW c \in S,
               Runs(Loop, <<"WriteOnEvent", {c}>>, <<<<"server.Write", S \ {c}>>>>)
        PROVE  Goal
    <3>1. /\ Continue(Loop, <<<<"WriteOnEvent", {c}>>>> \o <<<<"server.Write", S \ {c}>>>>)
          /\ UNCHANGED tasks
      BY <2>4 DEF Runs
    <3>2. /\ <<<<"WriteOnEvent", {c}>>>> \in Seq(ConnFrame)
          /\ <<<<"server.Write", S \ {c}>>>> \in Seq(ConnFrame)
      BY <1>3, ConnSeqs
    <3>3. <<<<"WriteOnEvent", {c}>>>> \o <<<<"server.Write", S \ {c}>>>> \in Seq(ConnFrame)
      BY <3>2, ConnSeqs
    <3> QED
      BY <1>1, <2>1, <2>2, <3>1, <3>3
  <2> QED
    BY <2>1, <2>3, <2>4
<1> QED
  BY <1>4, <1>5, <1>6, <1>7, <1>8, <1>9 DEF ThreadStep

(* The calls it makes about the listening socket: the state is set.        *)
LEMMA ListenerThreadStep ==
  ASSUME PoliteApp, TypeOK, LoopStack, L \notin Seq(ConnFrame), ThreadStep(Loop)
  PROVE  SetMove /\ U' = U /\ fault' = fault
<1>1. \A op, S : Top(Loop, op, S) =>
        /\ op \in {"ListenOnEvent", "CloseOnEvent", "close_cb", "Listening", "ListenFailed",
                   "Closed"}
        /\ op = "Listening" => L = SetsListening
        /\ op = "ListenFailed" => L = SetsFailed
        /\ op = "Closed" => L = SetsClosed
  <2>1. ASSUME NEW op, NEW S, Top(Loop, op, S)
        PROVE  <<op, S>> \in {Event("ListenOnEvent"), Event("CloseOnEvent"), Event("close_cb"),
                              <<"Listening", {}>>, <<"ListenFailed", {}>>, <<"Closed", {}>>}
               /\ L = <<<<op, S>>>>
    BY <2>1, ListenerCall DEF LoopStack, RunsListen, RunsClose, SetsListening,
       SetsFailed, RunsCloseCb, SetsClosed
  <2>2. ASSUME NEW op, NEW S, Top(Loop, op, S)
        PROVE  /\ \/ op \in {"ListenOnEvent", "CloseOnEvent", "close_cb"}
                  \/ op \in {"Listening", "ListenFailed", "Closed"} /\ S = {}
               /\ L = <<<<op, S>>>>
    BY <2>1, <2>2 DEF Event
  <2> QED
    BY <2>2 DEF SetsListening, SetsFailed, SetsClosed
<1>2. SetState(Loop)
  <2>1. \A op \in AppCall \cup ServerCall \cup SetConn \cup {"GetConns"} :
          \A S : ~Top(Loop, op, S)
    BY <1>1 DEF AppCall, ServerCall, SetConn
  <2>2. /\ \A S : ~Top(Loop, "call.Listen", S) /\ ~Top(Loop, "call.Close", S)
        /\ \A S : ~Top(Loop, "call.Write", S) /\ ~Top(Loop, "call.WriteAll", S)
        /\ \A S : ~Top(Loop, "server.Listen", S) /\ ~Top(Loop, "server.Close", S)
        /\ \A S : ~Top(Loop, "server.Write", S) /\ ~Top(Loop, "GetConns", S)
    BY <2>1 DEF AppCall, ServerCall
  <2>3. ~Listen(Loop) /\ ~Close(Loop) /\ ~Write(Loop) /\ ~WriteAll(Loop)
    BY <2>2 DEF Listen, Close, Write, WriteAll
  <2>4. ~SetConnState(Loop)
    BY <2>1 DEF SetConnState
  <2>5. ~ServerImpl(Loop) /\ ~ServerImplWrite(Loop)
    BY <2>2 DEF ServerImpl, ServerImplWrite
  <2> QED
    BY <2>3, <2>4, <2>5 DEF ThreadStep
<1>3. PICK s \in ServerState :
        /\ Top(Loop, s, {}) /\ state' = s
        /\ \E call \in Callback(StatesCalls, {}) : Continue(Loop, call)
        /\ UNCHANGED <<tasks, socketVars>>
  BY <1>2 DEF SetState, queueVars
<1>4. Continue(Loop, << >>)
  BY <1>3, SilentStates
<1>5. /\ s \in {"Listening", "ListenFailed", "Closed"}
      /\ s = "Listening" => L = SetsListening
      /\ s = "ListenFailed" => L = SetsFailed
      /\ s = "Closed" => L = SetsClosed
  BY <1>1, <1>3 DEF ServerState
<1>6. \E f : L = <<f>>
  BY <1>5 DEF SetsListening, SetsFailed, SetsClosed
<1>7. L' = << >> /\ U' = U
  BY <1>4, <1>6, ListenerCall, CallSeqs
<1> QED
  BY <1>3, <1>5, <1>7 DEF SetMove, socketVars

(* The operations and callbacks of connections. *)
LEMMA ConnLoopStep ==
  ASSUME PoliteApp, TypeOK, LoopStack,
         \/ WriteOnEvent \/ CloseConnOnEvent \/ OnShutdown \/ OnConnection \/ OnReadData
         \/ OnReadEof \/ OnReadError \/ (\E ok \in BOOLEAN : OnWrite(ok)) \/ Drain
         \/ \E c \in Conn : EndIteration /\ FinishClose(c)
         \/ EndIteration /\ UNCHANGED stack
         \/ \E c \in Conn : OnClose /\ Top(Loop, "close_cb", {c})
  PROVE  ConnMove /\ U' = U /\ fault' = fault
<1> DEFINE Goal == ConnMove /\ U' = U /\ fault' = fault
<1>0. Listener \notin Conn /\ socket \in [Socket -> Phase] /\ Conn \subseteq Socket
      /\ writes \in [Conn -> Nat]
  BY SocketAssumption DEF TypeOK, Socket
<1>1. /\ LoopIdle => L \in Seq(ConnFrame)
      /\ \A c \in Conn : \A op : Top(Loop, op, {c}) => L \in Seq(ConnFrame) /\ L # << >>
  <2>1. ASSUME NEW c \in Conn, NEW op, Top(Loop, op, {c}), L \notin Seq(ConnFrame)
        PROVE  FALSE
    <3>1. \E f : L = <<f>> /\ \A o : f # <<o, {c}>>
      <4>1. \A o, p, S, T : <<o, S>> = <<p, T>> => S = T
        OBVIOUS
      <4>2. {c} # {} /\ {c} # {Listener}
        BY <1>0
      <4> QED
        BY <2>1, <4>1, <4>2 DEF LoopStack, RunsListen, RunsClose, SetsListening,
           SetsFailed, RunsCloseCb, SetsClosed, Event
    <3> QED
      BY <2>1, <3>1, ListenerCall
  <2> QED
    BY <2>1, ConnSeqs DEF LoopIdle, LoopFree, Top, L
<1>2. ASSUME NEW fr \in Seq(ConnFrame), L \in Seq(ConnFrame),
             LoopCalls(fr) \/ (L # << >> /\ Continue(Loop, fr)) \/ UNCHANGED stack,
             socket'[Listener] = socket[Listener], UNCHANGED <<state, tasks, fault>>
      PROVE  Goal
  <2>1. L' \in Seq(ConnFrame) /\ U' = U
    BY <1>2, ConnCall, OneStack
  <2> QED
    BY <1>2, <2>1 DEF ConnMove
<1>3. \A c \in Conn : /\ ShutdownAndClose(c) \in Seq(ConnFrame)
                      /\ <<<<"conn.Connected", {c}>>>> \in Seq(ConnFrame)
                      /\ <<<<"conn.Closed", {c}>>>> \in Seq(ConnFrame)
                      /\ <<<<"close_cb", {c}>>>> \in Seq(ConnFrame)
  BY ConnSeqs DEF ConnOp, SetConn
<1>4. << >> \in Seq(ConnFrame)
  BY ConnSeqs
<1>5. ASSUME NEW c \in Conn, NEW v, socket' = [socket EXCEPT ![c] = v]
      PROVE  socket'[Listener] = socket[Listener]
  BY <1>0, <1>5
<1>6. CASE WriteOnEvent
  <2>1. PICK c \in Conn : /\ Top(Loop, "WriteOnEvent", {c})
                          /\ Continue(Loop, << >>) \/ Continue(Loop, ShutdownAndClose(c))
    BY <1>6 DEF WriteOnEvent, Return
  <2>2. UNCHANGED <<state, tasks, fault, socket>>
    BY <1>6 DEF WriteOnEvent, stateVars, queueVars
  <2> QED
    BY <1>1, <1>2, <1>3, <1>4, <2>1, <2>2
<1>7. CASE CloseConnOnEvent
  <2>1. PICK c \in Conn : \E v : /\ Top(Loop, "CloseOnEvent", {c})
                                 /\ socket' = [socket EXCEPT ![c] = v]
    BY <1>7 DEF CloseConnOnEvent
  <2>2. Continue(Loop, << >>) /\ UNCHANGED <<state, tasks, fault>>
    BY <1>7 DEF CloseConnOnEvent, stateVars, queueVars, Return
  <2> QED
    BY <1>1, <1>2, <1>4, <1>5, <2>1, <2>2
<1>8. CASE OnShutdown
  <2>1. PICK c \in Conn : LoopCalls(ShutdownAndClose(c))
    BY <1>8 DEF OnShutdown, TypeOK
  <2>2. LoopIdle /\ UNCHANGED <<state, tasks, fault, socket>>
    BY <1>8 DEF OnShutdown, stateVars, queueVars
  <2> QED
    BY <1>1, <1>2, <1>3, <2>1, <2>2
<1>9. CASE OnConnection
  <2>1. AcceptErrors = {}
    BY DEF PoliteApp
  <2>2. PICK c \in Conn : \E v : /\ socket' = [socket EXCEPT ![c] = v]
                                 /\ LoopCalls(<<<<"conn.Connected", {c}>>>>)
                                 /\ UNCHANGED <<state, tasks, fault>>
    BY <1>9, <2>1 DEF OnConnection, stateVars, queueVars
  <2>3. LoopIdle
    BY <1>9 DEF OnConnection
  <2> QED
    BY <1>1, <1>2, <1>3, <1>5, <2>2, <2>3
<1>10. CASE OnReadData
  <2>1. PICK c \in Conn : \E call \in Callback(ReadCalls, {c}) : LoopCalls(call)
    BY <1>10 DEF OnReadData
  <2>2. PICK call \in Callback(ReadCalls, {c}) : LoopCalls(call)
    BY <2>1
  <2>3. call \in Seq(ConnFrame)
    <3>1. CASE call = << >>
      BY <1>4, <3>1
    <3>2. ASSUME NEW f \in CallsOf(ReadCalls, {c}), call = <<f>> PROVE call \in Seq(ConnFrame)
      <4>1. PICK op \in ReadCalls, S \in {{}, {c}} : f = <<op, S>>
        BY <3>2 DEF CallsOf
      <4>2. op \in ConnOp /\ S \in SUBSET Conn
        BY <4>1 DEF PoliteApp, ConnOp
      <4> QED
        BY <3>2, <4>1, <4>2, ConnSeqs
    <3> QED
      BY <2>2, <3>1, <3>2 DEF Callback
  <2>4. LoopIdle /\ UNCHANGED <<state, tasks, fault, socket>>
    BY <1>10 DEF OnReadData, stateVars, queueVars, socketVars
  <2> QED
    BY <1>1, <1>2, <2>2, <2>3, <2>4
<1>11. CASE OnReadEof
  <2>1. PICK c \in Conn : \E v : socket' = [socket EXCEPT ![c] = v]
    BY <1>11 DEF OnReadEof
  <2>2. LoopIdle /\ UNCHANGED <<state, tasks, fault, stack>>
    BY <1>11 DEF OnReadEof, stateVars, queueVars
  <2> QED
    BY <1>1, <1>2, <1>4, <1>5, <2>1, <2>2
<1>12. CASE OnReadError
  <2>1. PICK c \in Conn : \E v : /\ socket' = [socket EXCEPT ![c] = v]
                                 /\ LoopCalls(ShutdownAndClose(c))
    BY <1>12 DEF OnReadError
  <2>2. LoopIdle /\ UNCHANGED <<state, tasks, fault>>
    BY <1>12 DEF OnReadError, stateVars, queueVars
  <2> QED
    BY <1>1, <1>2, <1>3, <1>5, <2>1, <2>2
<1>13. ASSUME NEW ok \in BOOLEAN, OnWrite(ok) PROVE Goal
  <2>1. PICK c \in Conn : UNCHANGED stack \/ LoopCalls(ShutdownAndClose(c))
    BY <1>13 DEF OnWrite
  <2>2. LoopIdle /\ UNCHANGED <<state, tasks, fault, socket>>
    BY <1>13 DEF OnWrite, stateVars, queueVars
  <2> QED
    BY <1>1, <1>2, <1>3, <2>1, <2>2
<1>14. CASE Drain \/ (EndIteration /\ UNCHANGED stack)
  <2>1. LoopIdle /\ UNCHANGED <<state, tasks, fault, socket, stack>>
    BY <1>14 DEF Drain, EndIteration, stateVars, socketVars
  <2> QED
    BY <1>1, <1>2, <1>4, <2>1
<1>15. ASSUME NEW c \in Conn, EndIteration, FinishClose(c) PROVE Goal
  <2>1. PICK n \in 0..writes[c] : LoopCalls(Answers(c, n) \o <<<<"close_cb", {c}>>>>)
    BY <1>0, <1>15 DEF FinishClose, Answers
  <2>2. Answers(c, n) \o <<<<"close_cb", {c}>>>> \in Seq(ConnFrame)
    <3>1. n \in Nat
      BY <1>0
    <3>2. (IF c \in shutdown_req THEN ShutdownAndClose(c) ELSE << >>) \in Seq(ConnFrame)
      BY <1>3, <1>4
    <3> QED
      BY <1>3, <3>1, <3>2, ConnSeqs DEF Answers
  <2>3. LoopIdle /\ UNCHANGED <<state, tasks, fault, socket>>
    BY <1>15 DEF EndIteration, stateVars
  <2> QED
    BY <1>1, <1>2, <2>1, <2>2, <2>3
<1>16. ASSUME NEW c \in Conn, OnClose, Top(Loop, "close_cb", {c}) PROVE Goal
  <2>1. PICK s \in Socket : /\ Top(Loop, "close_cb", {s})
                            /\ socket' = [socket EXCEPT ![s] = "closed"]
                            /\ Continue(Loop, IF s = Listener THEN <<<<"Closed", {}>>>>
                                                      ELSE <<<<"conn.Closed", {s}>>>>)
    BY <1>16 DEF OnClose
  <2>2. s = c
    BY <1>16, <2>1 DEF Top
  <2>3. UNCHANGED <<state, tasks, fault>>
    BY <1>16 DEF OnClose, stateVars, queueVars
  <2> QED
    BY <1>0, <1>1, <1>2, <1>3, <1>5, <2>1, <2>2, <2>3
<1> QED
  BY <1>6, <1>7, <1>8, <1>9, <1>10, <1>11, <1>12, <1>13, <1>14, <1>15, <1>16

(* The operations and callbacks of the listening socket.                   *)
LEMMA ListenerLoopStep ==
  ASSUME PoliteApp, TypeOK, ListenerInv,
         \/ RunTask \/ ListenOnEvent \/ CloseOnEvent
         \/ EndIteration /\ FinishClose(Listener)
         \/ OnClose /\ Top(Loop, "close_cb", {Listener})
  PROVE  LoopMove /\ U' = U /\ fault' = fault
<1> DEFINE Goal == LoopMove /\ U' = U /\ fault' = fault
<1> USE LoopForms DEF ListenerForms
<1>0. /\ LoopStack /\ OneListen /\ FirstListen
      /\ Listener \in Socket /\ socket \in [Socket -> Phase]
      /\ \A v : socket' = [socket EXCEPT ![Listener] = v] => socket'[Listener] = v
  BY DEF ListenerInv, TypeOK, Socket
<1>1. \A op : Top(Loop, op, {Listener}) =>
        /\ L = <<Event(op)>>
        /\ op = "ListenOnEvent" => L = RunsListen
        /\ op = "CloseOnEvent" => L = RunsClose
        /\ op = "close_cb" => L = RunsCloseCb
  <2>1. ASSUME NEW op, Top(Loop, op, {Listener}) PROVE L = <<Event(op)>>
    <3>1. L \notin Seq(ConnFrame)
      BY <2>1, ConnCall, SocketAssumption
    <3>2. PICK f : L = <<f>>
      BY <1>0, <3>1 DEF LoopStack, RunsListen, RunsClose, SetsListening, SetsFailed,
         RunsCloseCb, SetsClosed
    <3> QED
      BY <2>1, <3>2, ListenerCall DEF Event
  <2> QED
    BY <2>1 DEF RunsListen, RunsClose, RunsCloseCb
<1>2. /\ {SetsListening, SetsFailed, RunsCloseCb, SetsClosed, << >>} \subseteq Seq(Frame)
      /\ \A fr \in Seq(Frame) : (\E f : L = <<f>>) /\ Continue(Loop, fr) => L' = fr /\ U' = U
      /\ \A fr : LoopCalls(fr) => L' = fr /\ U' = U
  BY CallSeqs, ListenerCall, OneStack
<1>3. CASE RunTask
  <2>1. L = << >> /\ LoopCalls(<<Head(tasks)>>) /\ tasks' = Tail(tasks) /\ tasks # << >>
    <3>1. batch \in 0..Len(tasks) /\ batch > 0
      BY <1>3 DEF RunTask, TypeOK
    <3> QED
      BY <1>3, <3>1, EmptySeq DEF RunTask, LoopFree, LoopCalls
  <2>2. UNCHANGED <<state, socket, fault>>
    BY <1>3 DEF RunTask, stateVars, socketVars
  <2> QED
    BY <1>2, <2>1, <2>2 DEF LoopMove, TaskMove
<1>4. CASE ListenOnEvent
  <2>1. L = RunsListen /\ socket[Listener] \in {"none", "closed"}
    BY <1>0, <1>1, <1>4 DEF ListenOnEvent, OneListen, Posted
  <2>2. /\ \/ /\ socket' = [socket EXCEPT ![Listener] = "listening"]
              /\ Continue(Loop, SetsListening)
           \/ /\ socket' = [socket EXCEPT ![Listener] = "init"]
              /\ Continue(Loop, SetsFailed)
        /\ UNCHANGED <<state, tasks, fault>>
    BY <1>4, <2>1 DEF ListenOnEvent, SetsListening, SetsFailed, stateVars, queueVars
  <2>3. \E f : L = <<f>>
    BY <2>1 DEF RunsListen
  <2> QED
    BY <1>0, <1>2, <2>1, <2>2, <2>3 DEF LoopMove, OpenMove
<1>5. CASE CloseOnEvent
  <2>1. L = RunsClose /\ socket[Listener] # "none"
    BY <1>0, <1>1, <1>5 DEF CloseOnEvent, FirstListen
  <2>2. /\ socket' = [socket EXCEPT ![Listener] = IF @ = "closed" THEN @ ELSE "closing"]
        /\ Continue(Loop, << >>)
        /\ UNCHANGED <<state, tasks, fault>>
    BY <1>5, <2>1 DEF CloseOnEvent, Return, stateVars, queueVars
  <2>3. \E f : L = <<f>>
    BY <2>1 DEF RunsClose
  <2>4. socket'[Listener] = IF socket[Listener] = "closed" THEN "closed" ELSE "closing"
    BY <1>0, <2>2
  <2> QED
    BY <1>2, <2>1, <2>2, <2>3, <2>4 DEF LoopMove, CloseMove
<1>6. CASE EndIteration /\ FinishClose(Listener)
  <2>1. /\ socket[Listener] = "closing" /\ LoopCalls(RunsCloseCb) /\ L = << >>
        /\ UNCHANGED <<state, tasks, fault, socket>>
    BY <1>6 DEF EndIteration, FinishClose, RunsCloseCb, Event, stateVars, LoopIdle, LoopFree
  <2> QED
    BY <1>2, <2>1 DEF LoopMove, ClosedMove
<1>7. CASE OnClose /\ Top(Loop, "close_cb", {Listener})
  <2>1. PICK s \in Socket : /\ Top(Loop, "close_cb", {s})
                            /\ socket' = [socket EXCEPT ![s] = "closed"]
                            /\ Continue(Loop, IF s = Listener THEN <<<<"Closed", {}>>>>
                                                      ELSE <<<<"conn.Closed", {s}>>>>)
    BY <1>7 DEF OnClose
  <2>2. s = Listener
    <3>1. <<"close_cb", {s}>> = <<"close_cb", {Listener}>>
      BY <1>7, <2>1 DEF Top
    <3> QED
      BY <3>1
  <2>3. UNCHANGED <<state, tasks, fault>>
    BY <1>7 DEF OnClose, stateVars, queueVars
  <2>4. L = RunsCloseCb /\ Continue(Loop, SetsClosed)
    BY <1>1, <1>7, <2>1, <2>2 DEF SetsClosed
  <2>5. \E f : L = <<f>>
    BY <2>4 DEF RunsCloseCb
  <2> QED
    BY <1>0, <1>2, <2>1, <2>2, <2>3, <2>4, <2>5 DEF LoopMove, ClosedMove
<1> QED
  BY <1>3, <1>4, <1>5, <1>6, <1>7

(* A call by the application. *)
LEMMA UserCallStep ==
  ASSUME PoliteApp, TypeOK, UserCall(TheUser)
  PROVE  UserCalled /\ L' = L /\ UNCHANGED socketVars
<1>1. PICK f \in CallsOf(UserCalls, {c \in Conn : socket[c] # "none"}) :
        stack' = [stack EXCEPT ![TheUser] = <<f>>]
  BY DEF UserCall
<1>2. U = << >> /\ U' = <<f>> /\ L' = L
  BY <1>1, PoliteThreads DEF UserCall, TypeOK, U, L
<1>3. UNCHANGED <<state, tasks, socketVars>>
  BY DEF UserCall, stateVars, queueVars, socketVars
<1>4. \/ f = <<"call.Close", {}>>
      \/ f = <<"call.Listen", {}>> /\ state = "Closed"
  <2>1. UserCalls \cap {"call.Write"} = {} /\ UserCalls \subseteq {"call.Listen", "call.Close"}
        /\ ListenFrom = {"Closed"}
    BY DEF PoliteApp
  <2> QED
    BY <1>1, <2>1 DEF CallsOf
<1> QED
  BY <1>2, <1>3, <1>4 DEF UserCalled, CloseCalled, ListenCalled

(* Nothing was called yet. *)
LEMMA InitListener ==
  ASSUME PoliteApp, Init
  PROVE  ListenerInv
<1>1. /\ U = << >> /\ L = << >> /\ tasks = << >> /\ state = "Closed" /\ fault = "none"
      /\ socket[Listener] = "none"
  BY PoliteThreads DEF Init, U, L, Socket
<1>2. /\ tasks \in Seq({Event("ListenOnEvent"), Event("CloseOnEvent")})
      /\ 1..Len(tasks) = {}
  BY <1>1
<1>3. UserStacks /\ LoopStack /\ PostedEvents
  BY <1>1, <1>2, LoopForms DEF UserStacks, LoopStack, PostedEvents
<1>4. ~UserListens /\ ~Posted /\ (\A op : ~Queued(op)) /\ L \notin ListenerForms
      /\ U # ListenPosts
  BY <1>1, <1>2, UserForms, LoopForms DEF UserListens, Posted, Queued, ListenerForms
<1>5. OneListen /\ FirstListen
  BY <1>1, <1>2, <1>4 DEF OneListen, FirstListen, ListenerForms
<1>6. ListenerPhase /\ ClosedIsReleased /\ StateFollows /\ NeverFaults
  BY <1>1 DEF ListenerPhase, ClosedIsReleased, StateFollows, NeverFaults
<1> QED
  BY <1>3, <1>5, <1>6 DEF ListenerInv

(* Every step keeps ListenerInv. *)
LEMMA NextListener ==
  ASSUME PoliteApp, TypeOK, ListenerInv, [Next]_vars
  PROVE  ListenerInv'
<1>0. /\ LoopStack /\ UserStacks
      /\ User = {TheUser} /\ Thread = {TheUser, Loop}
      /\ Socket = Conn \cup {Listener}
  BY PoliteThreads DEF ListenerInv, Socket
<1>1. ASSUME NEW u \in User, UserCall(u) PROVE ListenerInv'
  BY <1>0, <1>1, UserCallStep, CalledKeeps
<1>2. CASE ThreadStep(TheUser)
  BY <1>0, <1>2, UserStep, UserMoveKeeps
<1>3. CASE ThreadStep(Loop)
  <2>1. LoopMove /\ U' = U /\ fault' = fault
    BY <1>0, <1>3, ConnThreadStep, ListenerThreadStep DEF LoopMove
  <2> QED
    BY <2>1, LoopMoveKeeps
<1>4. CASE \/ WriteOnEvent \/ CloseConnOnEvent \/ OnShutdown \/ OnConnection \/ OnReadData
           \/ OnReadEof \/ OnReadError \/ (\E ok \in BOOLEAN : OnWrite(ok)) \/ Drain
  BY <1>0, <1>4, ConnLoopStep, LoopMoveKeeps DEF LoopMove
<1>5. CASE RunTask \/ ListenOnEvent \/ CloseOnEvent
  BY <1>5, ListenerLoopStep, LoopMoveKeeps
<1>6. CASE EndIteration
  <2>1. \/ UNCHANGED stack
        \/ FinishClose(Listener)
        \/ \E c \in Conn : FinishClose(c)
    BY <1>0, <1>6 DEF EndIteration
  <2>2. CASE UNCHANGED stack
    BY <1>0, <1>6, <2>2, ConnLoopStep, LoopMoveKeeps DEF LoopMove
  <2>3. CASE FinishClose(Listener)
    BY <1>6, <2>3, ListenerLoopStep, LoopMoveKeeps
  <2>4. CASE \E c \in Conn : FinishClose(c)
    BY <1>0, <1>6, <2>4, ConnLoopStep, LoopMoveKeeps DEF LoopMove
  <2> QED
    BY <2>1, <2>2, <2>3, <2>4
<1>7. CASE OnClose
  <2>1. PICK s \in Socket : Top(Loop, "close_cb", {s})
    BY <1>7 DEF OnClose
  <2>2. CASE s = Listener
    BY <1>7, <2>1, <2>2, ListenerLoopStep, LoopMoveKeeps
  <2>3. CASE s \in Conn
    BY <1>0, <1>7, <2>1, <2>3, ConnLoopStep, LoopMoveKeeps DEF LoopMove
  <2> QED
    BY <1>0, <2>2, <2>3
<1>8. CASE UNCHANGED vars
  <2>1. /\ UNCHANGED <<state, tasks, socket, stack, fault>> /\ U' = U /\ L' = L
    BY <1>8 DEF vars, U, L
  <2>2. /\ UserStacks' /\ PostedEvents' /\ (UserListens' <=> UserListens)
        /\ \A op : Queued(op)' <=> Queued(op)
    BY <1>0, <2>1, SameQueue DEF ListenerInv
  <2>3. (Posted' <=> Posted) /\ (Closes' <=> Closes)
    BY <2>1, <2>2 DEF Posted, Closes
  <2>4. LoopStack' /\ ClosedIsReleased' /\ NeverFaults' /\ FirstListen' /\ ListenerPhase'
    BY <2>1 DEF ListenerInv, LoopStack, ClosedIsReleased, NeverFaults, FirstListen,
       ListenerPhase
  <2>5. OneListen' /\ StateFollows'
    BY <2>1, <2>2, <2>3 DEF ListenerInv, OneListen, StateFollows
  <2> QED
    BY <2>2, <2>4, <2>5 DEF ListenerInv
<1> QED
  BY <1>0, <1>1, <1>2, <1>3, <1>4, <1>5, <1>6, <1>7, <1>8 DEF Next, LoopStep

(* In the hands of a polite application ListenerInv holds. *)
LEMMA ListenerInvariant ==
  ASSUME PoliteApp
  PROVE  Spec => [](TypeOK /\ ListenerInv)
<1>1. Init => TypeOK /\ ListenerInv
  BY InitType, InitListener
<1>2. TypeOK /\ ListenerInv /\ [Next]_vars => (TypeOK /\ ListenerInv)'
  BY NextType, NextListener
<1> QED
  BY <1>1, <1>2, PTL DEF Spec

(* Used by one thread, which listens in state Closed only, the server      *)
(* makes no libuv call its listening socket does not allow, however the    *)
(* thread's posted calls and the close callbacks interleave: it never     *)
(* initialises a handle in use, nor closes one never initialised.  Of      *)
(* connections it says nothing, and accept does not fail (PoliteApp).      *)
THEOREM PoliteServerNeverFaults ==
  ASSUME PoliteApp
  PROVE  Spec => []NeverFaults
<1>1. TypeOK /\ ListenerInv => NeverFaults
  BY DEF ListenerInv
<1> QED
  BY <1>1, ListenerInvariant, PTL

(* Once every call and callback has returned, the server's state tells the *)
(* phase of the listening socket: Listening exactly while it listens,      *)
(* ListenFailed exactly after a listen that failed, Closed or Closing when *)
(* it is not in use, and Closed before it ever was.                        *)
THEOREM PoliteServerStateIsTrue ==
  ASSUME PoliteApp
  PROVE  Spec => []QuietStateIsTrue
<1>1. TypeOK /\ ListenerInv => QuietStateIsTrue
  <2> SUFFICES ASSUME TypeOK, ListenerInv, Quiet
               PROVE  /\ state = "Listening" <=> socket[Listener] = "listening"
                      /\ state = "ListenFailed" <=> socket[Listener] = "init"
                      /\ state \in {"Closed", "Closing"}
                           <=> socket[Listener] \in {"none", "closed"}
                      /\ socket[Listener] = "none" => state = "Closed"
    BY DEF QuietStateIsTrue
  <2>1. U = << >> /\ L = << >> /\ tasks = << >> /\ socket[Listener] # "closing"
    BY PoliteThreads DEF Quiet, U, L
  <2>2. U \notin {ListenPosts, ClosePosts} /\ L \notin ListenerForms
    BY <2>1, UserForms, LoopForms
  <2>3. ~Posted /\ ~Closes
    <3>1. Len(tasks) = 0
      BY <2>1
    <3>2. \A op : ~Queued(op)
      BY <3>1 DEF Queued
    <3> QED
      BY <2>2, <3>2 DEF Posted, Closes, ListenerForms
  <2>4. /\ socket[Listener] = "listening" => state = "Listening"
        /\ socket[Listener] = "init" => state = "ListenFailed"
        /\ socket[Listener] \in {"none", "closed"} => state \in {"Closed", "Closing"}
    BY <2>2, <2>3 DEF ListenerInv, StateFollows, ListenerForms
  <2>5. socket[Listener] \in {"none", "closed", "listening", "init"}
    BY <2>1 DEF ListenerInv, ListenerPhase
  <2>6. socket[Listener] = "none" => state = "Closed"
    <3>1. L # RunsListen /\ U # ListenPosts
      BY <2>2 DEF ListenerForms
    <3> QED
      BY <2>1, <3>1 DEF ListenerInv, FirstListen
  <2> QED
    BY <2>4, <2>5, <2>6
<1> QED
  BY <1>1, ListenerInvariant, PTL

-----------------------------------------------------------------------------
(* A polite application: what it hears of connections.                     *)

(* The two conditions on calls, at once. *)
Fits(s, entries, reported) ==
  AboutEntries(s, entries) /\ ClosesAfterReport(s, reported)

(* Replacing the innermost call. *)
LEMMA PopFits ==
  ASSUME NEW S, NEW s \in Seq(S), s # << >>, NEW fr \in Seq(S),
         NEW E, NEW E1, E \subseteq E1, NEW R, NEW R1, R \subseteq R1,
         Fits(s, E, R), Fits(fr, E1, R1),
         \A c \in Conn : Head(s) = <<"conn.Shutdown", {c}>> => c \in R1
  PROVE  Fits(fr \o Tail(s), E1, R1)
<1> DEFINE t == Tail(s)
           r == fr \o t
           n == Len(fr)
<1>0. t \in Seq(S)
  BY TailElements
<1>1. /\ t \in Seq(S) /\ Len(s) \in Nat \ {0} /\ Len(t) = Len(s) - 1
      /\ Head(s) = s[1]
      /\ \A i \in 1..Len(t) : i + 1 \in 1..Len(s) /\ t[i] = s[i + 1]
  BY TailElements
<1> HIDE DEF t
<1>2. /\ n \in Nat /\ Len(t) \in Nat /\ Len(r) = n + Len(t)
      /\ \A i \in 1..n : r[i] = fr[i]
      /\ \A i \in 1..Len(t) : r[n + i] = t[i]
      /\ \A i \in 1..Len(r) : i \in 1..n \/ \E j \in 1..Len(t) : i = n + j
  <2>1. /\ n \in Nat /\ Len(t) \in Nat /\ Len(r) = n + Len(t)
        /\ \A i \in 1..n : r[i] = fr[i]
        /\ \A i \in 1..Len(t) : r[n + i] = t[i]
    BY <1>0, ConcatElements
  <2> HIDE DEF r, n
  <2> QED
    BY <2>1, SplitIndex
<1> HIDE DEF r, n
<1>3. AboutEntries(r, E1)
  <2>1. ASSUME NEW i \in 1..Len(r),
               r[i][1] \in {"call.Write", "server.Write", "WriteOnEvent", "conn.Shutdown"}
        PROVE  r[i][2] \subseteq E1
    <3>1. CASE i \in 1..n
      BY <1>2, <2>1, <3>1 DEF Fits, AboutEntries, n
    <3>2. ASSUME NEW j \in 1..Len(t), i = n + j PROVE r[i][2] \subseteq E1
      <4>1. j + 1 \in 1..Len(s) /\ r[i] = s[j + 1]
        BY <1>1, <1>2, <3>2
      <4> QED
        BY <2>1, <4>1 DEF Fits, AboutEntries
    <3> QED
      BY <1>2, <3>1, <3>2
  <2> QED
    BY <2>1 DEF AboutEntries
<1>4. ClosesAfterReport(r, R1)
  <2>1. ASSUME NEW i \in 1..Len(r), NEW c \in Conn,
               r[i] \in {<<"server.Close", {c}>>, <<"CloseOnEvent", {c}>>}
        PROVE  c \in R1 \/ (i > 1 /\ r[i - 1] = <<"conn.Shutdown", {c}>>)
    <3>1. CASE i \in 1..n
      <4>1. c \in R1 \/ (i > 1 /\ fr[i - 1] = <<"conn.Shutdown", {c}>>)
        BY <1>2, <2>1, <3>1 DEF Fits, ClosesAfterReport, n
      <4>2. i > 1 => i - 1 \in 1..n
        BY <1>2, <3>1
      <4> QED
        BY <1>2, <4>1, <4>2
    <3>2. ASSUME NEW j \in 1..Len(t), i = n + j
          PROVE  c \in R1 \/ (i > 1 /\ r[i - 1] = <<"conn.Shutdown", {c}>>)
      <4>1. j + 1 \in 1..Len(s) /\ r[i] = s[j + 1]
        BY <1>1, <1>2, <3>2
      <4>2. c \in R \/ s[(j + 1) - 1] = <<"conn.Shutdown", {c}>>
        BY <2>1, <4>1 DEF Fits, ClosesAfterReport
      <4>3. (j + 1) - 1 = j
        OBVIOUS
      <4>4. c \in R \/ s[j] = <<"conn.Shutdown", {c}>>
        BY <4>2, <4>3
      <4>5. CASE j = 1
        BY <1>1, <4>4, <4>5
      <4>6. CASE j # 1
        <5>1. j - 1 \in 1..Len(t) /\ i - 1 = n + (j - 1) /\ i > 1 /\ (j - 1) + 1 = j
          BY <1>2, <3>2, <4>6
        <5>2. r[i - 1] = t[j - 1] /\ t[j - 1] = s[j]
          BY <1>1, <1>2, <5>1
        <5> QED
          BY <4>4, <5>1, <5>2
      <4> QED
        BY <4>5, <4>6
    <3> QED
      BY <1>2, <3>1, <3>2
  <2> QED
    BY <2>1 DEF ClosesAfterReport
<1> QED
  BY <1>3, <1>4 DEF Fits, r, t

(* Calls after calls. *)
LEMMA ConcatFits ==
  ASSUME NEW S, NEW a \in Seq(S), NEW b \in Seq(S), NEW E, NEW R,
         Fits(a, E, R), Fits(b, E, R)
  PROVE  Fits(a \o b, E, R)
<1> DEFINE r == a \o b
           n == Len(a)
<1>1. /\ n \in Nat /\ Len(b) \in Nat /\ Len(r) = n + Len(b)
      /\ \A i \in 1..n : r[i] = a[i]
      /\ \A i \in 1..Len(b) : r[n + i] = b[i]
      /\ \A i \in 1..Len(r) : i \in 1..n \/ \E j \in 1..Len(b) : i = n + j
  <2>1. /\ n \in Nat /\ Len(b) \in Nat /\ Len(r) = n + Len(b)
        /\ \A i \in 1..n : r[i] = a[i]
        /\ \A i \in 1..Len(b) : r[n + i] = b[i]
    BY ConcatElements
  <2> HIDE DEF r, n
  <2> QED
    BY <2>1, SplitIndex
<1> HIDE DEF r, n
<1>2. AboutEntries(r, E)
  <2>1. ASSUME NEW i \in 1..Len(r),
               r[i][1] \in {"call.Write", "server.Write", "WriteOnEvent", "conn.Shutdown"}
        PROVE  r[i][2] \subseteq E
    <3>1. CASE i \in 1..n
      BY <1>1, <2>1, <3>1 DEF Fits, AboutEntries, n
    <3>2. ASSUME NEW j \in 1..Len(b), i = n + j PROVE r[i][2] \subseteq E
      BY <1>1, <2>1, <3>2 DEF Fits, AboutEntries
    <3> QED
      BY <1>1, <3>1, <3>2
  <2> QED
    BY <2>1 DEF AboutEntries
<1>3. ClosesAfterReport(r, R)
  <2>1. ASSUME NEW i \in 1..Len(r), NEW c \in Conn,
               r[i] \in {<<"server.Close", {c}>>, <<"CloseOnEvent", {c}>>}
        PROVE  c \in R \/ (i > 1 /\ r[i - 1] = <<"conn.Shutdown", {c}>>)
    <3>1. CASE i \in 1..n
      <4>1. c \in R \/ (i > 1 /\ a[i - 1] = <<"conn.Shutdown", {c}>>)
        BY <1>1, <2>1, <3>1 DEF Fits, ClosesAfterReport, n
      <4>2. i > 1 => i - 1 \in 1..n
        BY <1>1, <3>1
      <4> QED
        BY <1>1, <4>1, <4>2
    <3>2. ASSUME NEW j \in 1..Len(b), i = n + j
          PROVE  c \in R \/ (i > 1 /\ r[i - 1] = <<"conn.Shutdown", {c}>>)
      <4>1. c \in R \/ (j > 1 /\ b[j - 1] = <<"conn.Shutdown", {c}>>)
        BY <1>1, <2>1, <3>2 DEF Fits, ClosesAfterReport
      <4>2. j > 1 => j - 1 \in 1..Len(b) /\ i - 1 = n + (j - 1) /\ i > 1
        BY <1>1, <3>2
      <4> QED
        BY <1>1, <4>1, <4>2
    <3> QED
      BY <1>1, <3>1, <3>2
  <2> QED
    BY <2>1 DEF ClosesAfterReport
<1> QED
  BY <1>2, <1>3 DEF Fits, r

(* What steps put on the network thread's stack fits. *)
LEMMA FrameFits ==
  ASSUME NEW E, NEW R
  PROVE  /\ Fits(<< >>, E, R)
         /\ \A o \in {"call.WriteAll", "GetConns", "Listening", "ListenFailed", "Closed",
                      "ListenOnEvent", "close_cb", "conn.Connected", "conn.Closed"} :
              \A S : Fits(<<<<o, S>>>>, E, R)
         /\ \A o \in {"call.Write", "server.Write", "WriteOnEvent"}, S \in SUBSET E :
              Fits(<<<<o, S>>>>, E, R)
         /\ \A c \in E : Fits(ShutdownAndClose(c), E, R)
         /\ \A c \in R : Fits(<<<<"CloseOnEvent", {c}>>>>, E, R)
         /\ Fits(<<<<"CloseOnEvent", {Listener}>>>>, E, R)
<1>1. \A f : Len(<<f>>) = 1 /\ <<f>>[1] = f
  OBVIOUS
<1>2. \A f, g : Len(<<f, g>>) = 2 /\ <<f, g>>[1] = f /\ <<f, g>>[2] = g
  OBVIOUS
<1>3. 1..1 = {1} /\ 1..2 = {1, 2} /\ 2 - 1 = 1 /\ 2 > 1
  OBVIOUS
<1>4. \A o, S : <<o, S>>[1] = o /\ <<o, S>>[2] = S
  OBVIOUS
<1>5. \A o, p, S, T : <<o, S>> = <<p, T>> => o = p /\ S = T
  OBVIOUS
<1>6. Fits(<< >>, E, R)
  BY DEF Fits, AboutEntries, ClosesAfterReport
<1>7. ASSUME NEW f,
             f[1] \in {"call.Write", "server.Write", "WriteOnEvent", "conn.Shutdown"}
               => f[2] \subseteq E,
             \A c \in Conn :
               f \in {<<"server.Close", {c}>>, <<"CloseOnEvent", {c}>>} => c \in R
      PROVE  Fits(<<f>>, E, R)
  BY <1>1, <1>3, <1>7 DEF Fits, AboutEntries, ClosesAfterReport
<1>8. ASSUME NEW f, NEW g,
             \A h \in {f, g} :
               h[1] \in {"call.Write", "server.Write", "WriteOnEvent", "conn.Shutdown"}
                 => h[2] \subseteq E,
             \A c \in Conn : f \notin {<<"server.Close", {c}>>, <<"CloseOnEvent", {c}>>},
             \A c \in Conn : g \in {<<"server.Close", {c}>>, <<"CloseOnEvent", {c}>>}
               => f = <<"conn.Shutdown", {c}>>
      PROVE  Fits(<<f, g>>, E, R)
  BY <1>2, <1>3, <1>8 DEF Fits, AboutEntries, ClosesAfterReport
<1>9. ASSUME NEW o \in {"call.WriteAll", "GetConns", "Listening", "ListenFailed", "Closed",
                        "ListenOnEvent", "close_cb", "conn.Connected", "conn.Closed"}, NEW S
      PROVE  Fits(<<<<o, S>>>>, E, R)
  BY <1>4, <1>5, <1>7
<1>10. ASSUME NEW o \in {"call.Write", "server.Write", "WriteOnEvent"}, NEW S \in SUBSET E
       PROVE  Fits(<<<<o, S>>>>, E, R)
  BY <1>4, <1>5, <1>7
<1>12. ASSUME NEW c \in E PROVE Fits(ShutdownAndClose(c), E, R)
  <2>1. \A d \in Conn : <<"server.Close", {c}>> \in
                          {<<"server.Close", {d}>>, <<"CloseOnEvent", {d}>>} => c = d
    BY <1>5
  <2>2. {c} \subseteq E
    BY <1>12
  <2>3. Fits(<<<<"conn.Shutdown", {c}>>, <<"server.Close", {c}>>>>, E, R)
    BY <1>4, <1>5, <1>8, <2>1, <2>2
  <2> QED
    BY <2>3 DEF ShutdownAndClose
<1>13. ASSUME NEW c \in R PROVE Fits(<<<<"CloseOnEvent", {c}>>>>, E, R)
  <2>1. \A d \in Conn : <<"CloseOnEvent", {c}>> \in
                          {<<"server.Close", {d}>>, <<"CloseOnEvent", {d}>>} => c = d
    BY <1>5
  <2> QED
    BY <1>4, <1>7, <1>13, <2>1
<1>14. Fits(<<<<"CloseOnEvent", {Listener}>>>>, E, R)
  <2>1. \A d \in Conn : <<"CloseOnEvent", {Listener}>> \notin
                          {<<"server.Close", {d}>>, <<"CloseOnEvent", {d}>>}
    <3>1. \A d \in Conn : {Listener} # {d}
      BY SocketAssumption
    <3> QED
      BY <1>5, <3>1
  <2> QED
    BY <1>4, <1>7, <2>1
<1> QED
  BY <1>6, <1>9, <1>10, <1>12, <1>13, <1>14

(* The answers to the requests of a connection with an entry fit. *)
LEMMA AnswersFit ==
  ASSUME NEW E, NEW R, NEW c \in E \cap Conn, NEW n \in Nat
  PROVE  Fits(Answers(c, n) \o <<<<"close_cb", {c}>>>>, E, R)
<1> DEFINE a == FailWrites(c, n)
           b == IF c \in shutdown_req THEN ShutdownAndClose(c) ELSE << >>
           cb == <<<<"close_cb", {c}>>>>
<1>0. c \in Socket
  BY DEF Socket
<1>1. /\ a \in Seq(Frames(Socket)) /\ b \in Seq(Frames(Socket))
      /\ cb \in Seq(Frames(Socket)) /\ Len(a) = 2 * n
  BY <1>0, FailWritesType DEF Frames, Op
<1>2. ASSUME NEW i \in 1..2 * n
      PROVE  /\ i % 2 = 1 => a[i] = <<"conn.Shutdown", {c}>>
             /\ i % 2 # 1 => a[i] = <<"server.Close", {c}>> /\ i > 1
                               /\ a[i - 1] = <<"conn.Shutdown", {c}>>
  <2>1. CASE i % 2 = 1
    BY <2>1 DEF FailWrites
  <2>2. CASE i % 2 # 1
    <3>1. i > 1 /\ i - 1 \in 1..2 * n /\ (i - 1) % 2 = 1
      BY <2>2
    <3> QED
      BY <2>2, <3>1 DEF FailWrites
  <2> QED
    BY <2>1, <2>2
<1>3. Fits(a, E, R)
  <2>0. \A i \in 1..Len(a) : i \in 1..2 * n
    BY <1>1
  <2>1. AboutEntries(a, E)
    <3>1. ASSUME NEW i \in 1..Len(a) PROVE a[i][2] = {c}
      <4>1. a[i] \in {<<"conn.Shutdown", {c}>>, <<"server.Close", {c}>>}
        BY <1>2, <2>0
      <4> QED
        BY <4>1
    <3>2. {c} \subseteq E
      OBVIOUS
    <3> QED
      BY <3>1, <3>2 DEF AboutEntries
  <2>2. ClosesAfterReport(a, R)
    <3>1. ASSUME NEW i \in 1..Len(a), NEW d \in Conn,
                 a[i] \in {<<"server.Close", {d}>>, <<"CloseOnEvent", {d}>>}
          PROVE  i > 1 /\ a[i - 1] = <<"conn.Shutdown", {d}>>
      <4>1. i % 2 # 1
        BY <1>2, <2>0, <3>1
      <4>2. a[i] = <<"server.Close", {c}>> /\ i > 1 /\ a[i - 1] = <<"conn.Shutdown", {c}>>
        BY <1>2, <2>0, <4>1
      <4>3. c = d
        BY <3>1, <4>2
      <4> QED
        BY <4>2, <4>3
    <3> QED
      BY <3>1 DEF ClosesAfterReport
  <2> QED
    BY <2>1, <2>2 DEF Fits
<1>4. Fits(b, E, R) /\ Fits(cb, E, R)
  BY FrameFits
<1> HIDE DEF a, b, cb
<1>5. a \o b \in Seq(Frames(Socket)) /\ Fits(a \o b, E, R)
  BY <1>1, <1>3, <1>4, ConcatFits, ConcatProperties
<1>6. Fits((a \o b) \o cb, E, R)
  BY <1>1, <1>4, <1>5, ConcatFits
<1> QED
  BY <1>6 DEF Answers, a, b, cb

(* What is known of every reachable state of the polite server. *)
PoliteServerInv == ServerInv /\ ListenerInv /\ ReportInv

(* Only the network thread's own calls touch the map and the sockets, and  *)
(* they do so in few ways.                                                 *)
LEMMA PoliteSockets ==
  ASSUME PoliteApp, TypeOK, ListenerInv, [Next]_vars, NEW c \in Conn
  PROVE  /\ connStates' = connStates \/ SetConnState(Loop)
         /\ socket[c] = "closed" => socket'[c] = "closed"
         /\ socket[c] # "closed" /\ socket'[c] = "closed" =>
              OnClose /\ Top(Loop, "close_cb", {c})
         /\ socket[c] \notin {"closing", "closed"} /\ socket'[c] = "closing" =>
              CloseConnOnEvent /\ Top(Loop, "CloseOnEvent", {c})
<1> DEFINE Goal ==
      /\ connStates' = connStates \/ SetConnState(Loop)
      /\ socket[c] = "closed" => socket'[c] = "closed"
      /\ socket[c] # "closed" /\ socket'[c] = "closed" =>
           OnClose /\ Top(Loop, "close_cb", {c})
      /\ socket[c] \notin {"closing", "closed"} /\ socket'[c] = "closing" =>
           CloseConnOnEvent /\ Top(Loop, "CloseOnEvent", {c})
<1>0. /\ UserStacks /\ User = {TheUser} /\ Thread = {TheUser, Loop}
      /\ c \in Socket /\ c # Listener /\ socket \in [Socket -> Phase]
      /\ AcceptErrors = {} /\ Conn \subseteq Socket
  BY PoliteThreads, SocketAssumption DEF ListenerInv, TypeOK, Socket, PoliteApp
<1>1. ASSUME UNCHANGED <<connStates, socket>> PROVE Goal
  BY <1>1
<1>2. CASE \E u \in User : UserCall(u)
  BY <1>1, <1>2 DEF UserCall, stateVars, socketVars
<1>3. CASE ThreadStep(TheUser)
  BY <1>0, <1>1, <1>3, UserStep DEF socketVars
<1>4. CASE ThreadStep(Loop)
  BY <1>4 DEF ThreadStep, Listen, Close, Write, WriteAll, SetState, SetConnState, ServerImpl,
     ServerImplWrite, stateVars, socketVars
<1>5. CASE Drain \/ RunTask \/ OnReadData \/ (\E ok \in BOOLEAN : OnWrite(ok)) \/ WriteOnEvent
           \/ OnShutdown \/ EndIteration \/ UNCHANGED vars
  BY <1>1, <1>5 DEF Drain, RunTask, OnReadData, OnWrite, WriteOnEvent, OnShutdown,
     EndIteration, stateVars, socketVars, vars
<1>6. CASE ListenOnEvent \/ CloseOnEvent
  BY <1>0, <1>6 DEF ListenOnEvent, CloseOnEvent, Ends, stateVars
<1>7. CASE CloseConnOnEvent
  <2>1. PICK d \in Conn : /\ Top(Loop, "CloseOnEvent", {d})
                          /\ socket' = [socket EXCEPT ![d] = IF Found(d) THEN "closing" ELSE @]
                          /\ UNCHANGED connStates
    BY <1>7 DEF CloseConnOnEvent, stateVars
  <2> QED
    BY <1>0, <1>7, <2>1 DEF Found
<1>8. CASE OnConnection
  <2>1. PICK d \in Conn : /\ socket[d] = "none" /\ socket' = [socket EXCEPT ![d] = "open"]
                          /\ UNCHANGED connStates
    BY <1>0, <1>8 DEF OnConnection, stateVars
  <2> QED
    BY <1>0, <2>1
<1>9. CASE OnReadEof \/ OnReadError
  <2>1. PICK d \in Conn : /\ socket[d] = "open" /\ socket' = [socket EXCEPT ![d] = "shut"]
                          /\ UNCHANGED connStates
    BY <1>9 DEF OnReadEof, OnReadError, stateVars
  <2> QED
    BY <1>0, <2>1
<1>10. CASE OnClose
  <2>1. PICK s \in Socket : /\ Top(Loop, "close_cb", {s})
                            /\ socket' = [socket EXCEPT ![s] = "closed"]
                            /\ UNCHANGED connStates
    BY <1>10 DEF OnClose, stateVars
  <2> QED
    BY <1>0, <1>10, <2>1
<1> QED
  BY <1>0, <1>2, <1>3, <1>4, <1>5, <1>6, <1>7, <1>8, <1>9, <1>10 DEF Next, LoopStep

(* The call on top is about connections with an entry, or closes one that  *)
(* was reported.                                                           *)
LEMMA TopFits ==
  ASSUME TypeOK, ReportInv
  PROVE  /\ \A op \in {"call.Write", "server.Write", "WriteOnEvent", "conn.Shutdown"} : \A S :
              Top(Loop, op, S) => S \subseteq Entries
         /\ \A op \in {"server.Close", "CloseOnEvent"}, c \in Conn :
              Top(Loop, op, {c}) => c \in ShutDown
<1>1. ASSUME NEW op, NEW S, Top(Loop, op, S) PROVE L[1] = <<op, S>> /\ 1 \in 1..Len(L)
  <2>1. L \in Seq(Frame) /\ L # << >> /\ Head(L) = <<op, S>>
    BY <1>1 DEF Top, L, TypeOK, Thread
  <2> QED
    BY <2>1, TailElements
<1>2. ASSUME NEW op \in {"call.Write", "server.Write", "WriteOnEvent", "conn.Shutdown"}, NEW S,
             Top(Loop, op, S)
      PROVE  S \subseteq Entries
  <2>1. L[1][1] = op /\ L[1][2] = S /\ 1 \in 1..Len(L)
    BY <1>1, <1>2
  <2> QED
    BY <2>1 DEF ReportInv, AboutEntries
<1>3. ASSUME NEW op \in {"server.Close", "CloseOnEvent"}, NEW c \in Conn, Top(Loop, op, {c})
      PROVE  c \in ShutDown
  <2>1. L[1] = <<op, {c}>> /\ 1 \in 1..Len(L) /\ ~(1 > 1)
    BY <1>1, <1>3
  <2> QED
    BY <2>1 DEF ReportInv, ClosesAfterReport
<1> QED
  BY <1>2, <1>3

Reports == AboutEntries(L, Entries) /\ ClosesAfterReport(L, ShutDown) /\ ReportsNew

(* What keeps Reports when the map stays as it is: a call is replaced, ... *)
LEMMA PopReports ==
  ASSUME TypeOK, ShapeInv, ReportInv, UNCHANGED connStates,
         NEW op, NEW S, Top(Loop, op, S), op # "conn.Shutdown",
         NEW fr \in Seq(Frame), Continue(Loop, fr), NoFinal(fr), Chained(fr),
         Fits(fr, Entries, ShutDown)
  PROVE  Reports'
<1>1. L \in Seq(Frame) /\ L # << >> /\ Head(L) = <<op, S>> /\ L' = fr \o Tail(L)
  BY DEF Top, L, TypeOK, Thread, Continue
<1>2. Entries' = Entries /\ ShutDown' = ShutDown
  BY DEF Entries, ShutDown
<1>3. Fits(L, Entries, ShutDown)
  BY DEF Fits, ReportInv
<1>4. \A c \in Conn : Head(L) # <<"conn.Shutdown", {c}>>
  BY <1>1
<1>5. Fits(fr \o Tail(L), Entries, ShutDown)
  BY <1>1, <1>3, <1>4, PopFits
<1>6. \A i \in 1..Len(L') : L'[i][1] # "conn.Connected"
  BY <1>1, PopShape DEF ShapeInv
<1>7. ReportsNew'
  <2>1. ASSUME NEW c \in Conn, L' = <<<<"conn.Connected", {c}>>>> PROVE FALSE
    <3>1. 1 \in 1..Len(L') /\ L'[1][1] = "conn.Connected"
      BY <2>1
    <3> QED
      BY <1>6, <3>1
  <2> QED
    BY <2>1 DEF ReportsNew
<1> QED
  BY <1>1, <1>2, <1>5, <1>7 DEF Reports, Fits

(* ... or calls that fit stand alone on the stack. *)
LEMMA AloneReports ==
  ASSUME UNCHANGED connStates, NEW fr, L' = fr, Fits(fr, Entries, ShutDown),
         \A c \in Conn : fr # <<<<"conn.Connected", {c}>>>>
  PROVE  Reports'
BY DEF Reports, Fits, Entries, ShutDown, ReportsNew

(* Every step keeps Reports. *)
LEMMA NextReports ==
  ASSUME PoliteApp, PoliteServerInv, [Next]_vars
  PROVE  Reports'
<1>0. /\ TypeOK /\ ShapeInv /\ ReportInv /\ ListenerInv /\ EntryInv /\ CloseCbInv
      /\ UserStacks /\ LoopStack /\ PostedEvents
      /\ User = {TheUser} /\ Thread = {TheUser, Loop}
      /\ Conn \subseteq Socket /\ Listener \in Socket /\ Listener \notin Conn
      /\ stack \in [Thread -> Seq(Frame)] /\ Loop \in Thread
      /\ socket \in [Socket -> Phase]
  BY PoliteThreads, SocketAssumption DEF PoliteServerInv, ServerInv, ListenerInv, Socket, TypeOK
<1>1. LoopIdle => \A c \in Conn :
        /\ socket[c] = "open" => connStates[c] = "Connected"
        /\ socket[c] \in {"shut", "closing"} => connStates[c] # "none"
        /\ socket[c] = "none" => connStates[c] = "none"
  BY IdleEntries DEF PoliteServerInv, EntriesTrue
<1>2. ASSUME NEW E, NEW R
      PROVE  /\ Fits(<< >>, E, R)
             /\ \A o \in {"call.WriteAll", "GetConns", "Listening", "ListenFailed", "Closed",
                          "ListenOnEvent", "close_cb", "conn.Connected", "conn.Closed"} : \A S :
                  Fits(<<<<o, S>>>>, E, R)
             /\ \A o \in {"call.Write", "server.Write", "WriteOnEvent"}, S \in SUBSET E :
                  Fits(<<<<o, S>>>>, E, R)
             /\ \A c \in E : Fits(ShutdownAndClose(c), E, R)
             /\ \A c \in R : Fits(<<<<"CloseOnEvent", {c}>>>>, E, R)
             /\ Fits(<<<<"CloseOnEvent", {Listener}>>>>, E, R)
  BY FrameFits
<1>3. /\ \A op \in {"call.Write", "server.Write", "WriteOnEvent", "conn.Shutdown"} : \A S :
           Top(Loop, op, S) => S \subseteq Entries
      /\ \A op \in {"server.Close", "CloseOnEvent"}, c \in Conn :
           Top(Loop, op, {c}) => c \in ShutDown
  BY <1>0, TopFits
<1>4. /\ << >> \in Seq(Frame) /\ NoFinal(<< >>) /\ Chained(<< >>)
      /\ \A o \in NormalOp, S \in SUBSET Socket :
           <<<<o, S>>>> \in Seq(Frame) /\ NoFinal(<<<<o, S>>>>) /\ Chained(<<<<o, S>>>>)
      /\ \A o, p \in NormalOp, S, T \in SUBSET Socket :
           /\ <<<<o, S>>>> \o <<<<p, T>>>> \in Seq(Frame)
           /\ NoFinal(<<<<o, S>>>> \o <<<<p, T>>>>) /\ Chained(<<<<o, S>>>> \o <<<<p, T>>>>)
      /\ \A c \in Conn : /\ ShutdownAndClose(c) \in Seq(Frame)
                         /\ NoFinal(ShutdownAndClose(c)) /\ Chained(ShutdownAndClose(c))
  <2>1. /\ << >> \in Seq(Normal(Socket))
        /\ \A o \in NormalOp, S \in SUBSET Socket : <<<<o, S>>>> \in Seq(Normal(Socket))
    BY DEF Normal
  <2>2. \A fr \in Seq(Normal(Socket)) : fr \in Seq(Frame) /\ NoFinal(fr) /\ Chained(fr)
    BY FrameShapes, NormalSeqs DEF Frame, Frames
  <2>3. ASSUME NEW c \in Conn PROVE ShutdownAndClose(c) \in Seq(Frame)
    <3>1. 0 \in Nat /\ c \in Socket
      BY DEF Socket
    <3> QED
      BY <3>1, FailWritesType DEF Frame, Frames
  <2>4. \A o, p \in NormalOp, S, T \in SUBSET Socket :
          <<<<o, S>>>> \o <<<<p, T>>>> \in Seq(Normal(Socket))
    BY <2>1, ConcatProperties
  <2> QED
    BY <2>1, <2>2, <2>3, <2>4, FrameShapes
<1>5. ASSUME L' = L, UNCHANGED <<connStates, socket>> PROVE Reports'
  BY <1>0, <1>5 DEF ReportInv, Reports, Entries, ShutDown, ReportsNew
<1>6. ASSUME UNCHANGED connStates, NEW op, NEW S, Top(Loop, op, S), op # "conn.Shutdown",
             NEW fr \in Seq(Frame), Continue(Loop, fr), NoFinal(fr), Chained(fr),
             Fits(fr, Entries, ShutDown)
      PROVE  Reports'
  BY <1>0, <1>6, PopReports
<1>7. ASSUME UNCHANGED connStates, NEW fr, LoopCalls(fr), Fits(fr, Entries, ShutDown),
             \A c \in Conn : fr # <<<<"conn.Connected", {c}>>>>
      PROVE  Reports'
  <2>1. L' = fr
    BY <1>0, <1>7 DEF LoopCalls, L
  <2> QED
    BY <1>7, <2>1, AloneReports
<1>8. ASSUME UNCHANGED connStates, LoopCalls(<< >>) PROVE Reports'
  <2>1. \A c \in Conn : << >> # <<<<"conn.Connected", {c}>>>>
    OBVIOUS
  <2> QED
    BY <1>2, <1>7, <1>8, <2>1
<1>9. /\ ShutDown \subseteq Conn /\ Entries \subseteq Conn
      /\ NormalOp = AppCall \cup ServerState \cup ServerCall \cup EventCall \cup {"GetConns"}
  BY DEF ShutDown, Entries, NormalOp
<1>10. CASE \E u \in User : UserCall(u)
  <2>1. UserCall(TheUser)
    BY <1>0, <1>10
  <2>2. L' = L /\ UNCHANGED socketVars
    BY <1>0, <2>1, UserCallStep
  <2>3. UNCHANGED connStates
    BY <2>1 DEF UserCall, stateVars
  <2> QED
    BY <1>5, <2>2, <2>3 DEF socketVars
<1>11. CASE ThreadStep(TheUser)
  BY <1>0, <1>5, <1>11, UserStep DEF socketVars
<1>12. ASSUME NEW op, NEW S, Top(Loop, op, S) PROVE op \notin {"call.Listen", "call.Close"}
  <2>1. CASE L \in Seq(ConnFrame)
    <3>1. op \in ConnOp
      BY <1>0, <1>12, <2>1, ConnCall
    <3> QED
      BY <3>1 DEF ConnOp, SetConn
  <2>2. CASE L \notin Seq(ConnFrame)
    <3>1. PICK f : /\ L = <<f>>
                   /\ f \in {Event("ListenOnEvent"), Event("CloseOnEvent"), Event("close_cb"),
                             <<"Listening", {}>>, <<"ListenFailed", {}>>, <<"Closed", {}>>}
      BY <1>0, <2>2 DEF LoopStack, RunsListen, RunsClose, SetsListening, SetsFailed,
         RunsCloseCb, SetsClosed
    <3>2. f = <<op, S>>
      BY <1>0, <1>12, <3>1, ListenerCall
    <3> QED
      BY <3>1, <3>2 DEF Event
  <2> QED
    BY <2>1, <2>2
<1>13. CASE Listen(Loop) \/ Close(Loop)
  BY <1>12, <1>13 DEF Listen, Close
<1>14. CASE Write(Loop)
  <2>1. PICK c \in Conn : /\ Top(Loop, "call.Write", {c})
                          /\ \/ Continue(Loop, <<<<"server.Write", {c}>>>>)
                             \/ Continue(Loop, << >>)
    BY <1>14 DEF Write, Return
  <2>2. {c} \in SUBSET Entries /\ {c} \in SUBSET Socket
    BY <1>0, <1>3, <2>1
  <2>3. Fits(<<<<"server.Write", {c}>>>>, Entries, ShutDown) /\ Fits(<< >>, Entries, ShutDown)
    BY <1>2, <2>2
  <2>4. "server.Write" \in NormalOp /\ UNCHANGED connStates
    BY <1>9, <1>14 DEF ServerCall, Write, stateVars
  <2> QED
    BY <1>4, <1>6, <2>1, <2>2, <2>3, <2>4
<1>15. CASE WriteAll(Loop)
  <2>1. PICK op \in {"call.WriteAll", "GetConns"} :
          /\ Top(Loop, op, {})
          /\ \/ Continue(Loop, <<<<"GetConns", {}>>>>)
             \/ Continue(Loop, << >>)
             \/ Continue(Loop, <<<<"server.Write", GetConns("Connected")>>>>)
    BY <1>15 DEF WriteAll, Return
  <2>2. GetConns("Connected") \in SUBSET Entries /\ GetConns("Connected") \in SUBSET Socket
    BY <1>0 DEF GetConns, Entries
  <2>3. /\ Fits(<<<<"server.Write", GetConns("Connected")>>>>, Entries, ShutDown)
        /\ Fits(<< >>, Entries, ShutDown) /\ Fits(<<<<"GetConns", {}>>>>, Entries, ShutDown)
    BY <1>2, <2>2
  <2>4. {"server.Write", "GetConns"} \subseteq NormalOp /\ UNCHANGED connStates
    BY <1>9, <1>15 DEF ServerCall, WriteAll, stateVars
  <2> QED
    BY <1>4, <1>6, <2>1, <2>2, <2>3, <2>4
<1>16. CASE SetState(Loop)
  <2>1. PICK s \in ServerState :
          Top(Loop, s, {}) /\ \E call \in Callback(StatesCalls, {}) : Continue(Loop, call)
    BY <1>16 DEF SetState
  <2>2. Continue(Loop, << >>) /\ UNCHANGED connStates /\ s # "conn.Shutdown"
    BY <1>16, <2>1, SilentStates DEF SetState, ServerState
  <2> QED
    BY <1>2, <1>4, <1>6, <2>1, <2>2
<1>17. CASE ServerImpl(Loop)
  <2>1. PICK s \in Socket :
          \/ Top(Loop, "server.Listen", {s}) /\ Runs(Loop, <<"ListenOnEvent", {s}>>, << >>)
          \/ Top(Loop, "server.Close", {s}) /\ Runs(Loop, <<"CloseOnEvent", {s}>>, << >>)
    BY <1>17 DEF ServerImpl
  <2>2. /\ \A o \in EventCall :
             /\ <<<<o, {s}>>>> \in Seq(Frame)
             /\ NoFinal(<<<<o, {s}>>>>) /\ Chained(<<<<o, {s}>>>>)
             /\ <<<<o, {s}>>>> \o << >> = <<<<o, {s}>>>>
        /\ UNCHANGED connStates
    <3>1. \A o \in EventCall : o \in NormalOp /\ {s} \in SUBSET Socket
      BY <1>9
    <3>2. \A o \in EventCall :
            /\ <<<<o, {s}>>>> \in Seq(Frame)
            /\ NoFinal(<<<<o, {s}>>>>) /\ Chained(<<<<o, {s}>>>>)
      BY <1>4, <3>1
    <3>3. \A o \in EventCall : <<<<o, {s}>>>> \o << >> = <<<<o, {s}>>>>
      BY <3>2, ConcatEmptySeq
    <3> QED
      BY <1>17, <3>2, <3>3 DEF ServerImpl, stateVars
  <2>3. CASE Top(Loop, "server.Listen", {s}) /\ Runs(Loop, <<"ListenOnEvent", {s}>>, << >>)
    <3>1. Continue(Loop, <<<<"ListenOnEvent", {s}>>>>) /\ "ListenOnEvent" \in EventCall
      BY <2>2, <2>3 DEF Runs, EventCall
    <3> QED
      BY <1>2, <1>6, <2>2, <2>3, <3>1
  <2>4. CASE Top(Loop, "server.Close", {s}) /\ Runs(Loop, <<"CloseOnEvent", {s}>>, << >>)
    <3>1. Continue(Loop, <<<<"CloseOnEvent", {s}>>>>) /\ "CloseOnEvent" \in EventCall
      BY <2>2, <2>4 DEF Runs, EventCall
    <3>2. s = Listener \/ s \in ShutDown
      BY <1>3, <2>4 DEF Socket
    <3>3. Fits(<<<<"CloseOnEvent", {s}>>>>, Entries, ShutDown)
      BY <1>2, <3>2
    <3> QED
      BY <1>6, <2>2, <2>4, <3>1, <3>3
  <2> QED
    BY <2>1, <2>3, <2>4
<1>18. CASE ServerImplWrite(Loop)
  <2>1. PICK S \in SUBSET Conn :
          /\ Top(Loop, "server.Write", S)
          /\ \/ Continue(Loop, << >>)
             \/ \E c \in S : Runs(Loop, <<"WriteOnEvent", {c}>>, <<<<"server.Write", S \ {c}>>>>)
    BY <1>18 DEF ServerImplWrite, Return
  <2>2. UNCHANGED connStates /\ S \in SUBSET Entries /\ {"WriteOnEvent", "server.Write"} \subseteq NormalOp
    BY <1>3, <1>9, <1>18, <2>1 DEF ServerImplWrite, stateVars, EventCall, ServerCall
  <2>3. CASE Continue(Loop, << >>)
    BY <1>2, <1>4, <1>6, <2>1, <2>2, <2>3
  <2>4. ASSUME NEW c \in S,
               Runs(Loop, <<"WriteOnEvent", {c}>>, <<<<"server.Write", S \ {c}>>>>)
        PROVE  Reports'
    <3>1. Continue(Loop, <<<<"WriteOnEvent", {c}>>>> \o <<<<"server.Write", S \ {c}>>>>)
      BY <2>4 DEF Runs
    <3>2. {c} \in SUBSET Entries /\ S \ {c} \in SUBSET Entries
          /\ {c} \in SUBSET Socket /\ S \ {c} \in SUBSET Socket
      BY <1>0, <2>1, <2>2
    <3>3. /\ Fits(<<<<"WriteOnEvent", {c}>>>>, Entries, ShutDown)
          /\ Fits(<<<<"server.Write", S \ {c}>>>>, Entries, ShutDown)
      BY <1>2, <3>2
    <3>4. /\ <<<<"WriteOnEvent", {c}>>>> \in Seq(Frame)
          /\ <<<<"server.Write", S \ {c}>>>> \in Seq(Frame)
      BY <1>4, <2>2, <3>2
    <3>5. Fits(<<<<"WriteOnEvent", {c}>>>> \o <<<<"server.Write", S \ {c}>>>>, Entries, ShutDown)
      BY <3>3, <3>4, ConcatFits
    <3> QED
      BY <1>4, <1>6, <2>1, <2>2, <3>1, <3>2, <3>5
  <2> QED
    BY <2>1, <2>3, <2>4
<1>19. CASE SetConnState(Loop)
  <2>1. PICK op \in SetConn, c \in Conn :
          /\ Top(Loop, op, {c})
          /\ connStates' = [connStates EXCEPT ![c] =
                        CASE op = "conn.Connected" -> "Connected"
                          [] op = "conn.Shutdown"  -> "Shutdown"
                          [] op = "conn.Closed"    -> "none"]
          /\ \E call \in Callback(StatesCalls, {c}) : Continue(Loop, call)
    BY <1>19 DEF SetConnState
  <2>2. Continue(Loop, << >>)
    BY <2>1, SilentStates
  <2>3. CASE op = "conn.Shutdown"
    <3>1. /\ L \in Seq(Frame) /\ L # << >> /\ Head(L) = <<"conn.Shutdown", {c}>>
          /\ L' = << >> \o Tail(L)
      BY <1>0, <2>1, <2>2, <2>3 DEF Top, L, Continue
    <3>2. c \in Entries
      BY <1>3, <2>1, <2>3
    <3>3. connStates' = [connStates EXCEPT ![c] = "Shutdown"]
      BY <2>1, <2>3
    <3>4. Entries \subseteq Entries' /\ ShutDown \subseteq ShutDown' /\ c \in ShutDown'
      BY <1>0, <3>2, <3>3 DEF Entries, ShutDown, TypeOK
    <3>5. \A d \in Conn : Head(L) = <<"conn.Shutdown", {d}>> => d \in ShutDown'
      BY <3>1, <3>4
    <3>6. Fits(L, Entries, ShutDown) /\ Fits(<< >>, Entries', ShutDown')
      BY <1>0, <1>2 DEF ReportInv, Fits
    <3>7. Fits(<< >> \o Tail(L), Entries', ShutDown')
      BY <1>4, <3>1, <3>4, <3>5, <3>6, PopFits
    <3>8. \A i \in 1..Len(L') : L'[i][1] # "conn.Connected"
      BY <1>0, <1>4, <3>1, PopShape DEF ShapeInv
    <3>9. \A d \in Conn : L' # <<<<"conn.Connected", {d}>>>>
      <4>1. ASSUME NEW d \in Conn, L' = <<<<"conn.Connected", {d}>>>> PROVE FALSE
        <5>1. 1 \in 1..Len(L') /\ L'[1][1] = "conn.Connected"
          BY <4>1
        <5> QED
          BY <3>8, <5>1
      <4> QED
        BY <4>1
    <3> QED
      BY <3>1, <3>7, <3>9 DEF Reports, Fits, ReportsNew
  <2>4. CASE op \in {"conn.Connected", "conn.Closed"}
    <3>1. L' = << >>
      BY <1>0, <1>4, <2>1, <2>2, <2>4, FinalAlone DEF Final
    <3>2. Fits(<< >>, Entries', ShutDown')
      BY <1>2
    <3>3. \A d \in Conn : << >> # <<<<"conn.Connected", {d}>>>>
      OBVIOUS
    <3> QED
      BY <3>1, <3>2, <3>3 DEF Reports, Fits, ReportsNew
  <2> QED
    BY <2>1, <2>3, <2>4 DEF SetConn
<1>20. CASE ThreadStep(Loop)
  BY <1>13, <1>14, <1>15, <1>16, <1>17, <1>18, <1>19, <1>20 DEF ThreadStep
<1>21. CASE Drain \/ (EndIteration /\ UNCHANGED stack) \/ UNCHANGED vars
  BY <1>5, <1>21 DEF Drain, EndIteration, vars, stateVars, socketVars, L
<1>22. CASE RunTask
  <2>1. LoopCalls(<<Head(tasks)>>) /\ UNCHANGED connStates /\ tasks' = Tail(tasks)
        /\ tasks # << >>
    <3>1. batch \in 0..Len(tasks) /\ batch > 0
      BY <1>0, <1>22 DEF RunTask, TypeOK
    <3> QED
      BY <1>22, <3>1, EmptySeq DEF RunTask, LoopCalls, stateVars
  <2>2. Head(tasks) \in {<<"ListenOnEvent", {Listener}>>, <<"CloseOnEvent", {Listener}>>}
    BY <1>0, <2>1, QueueTakes DEF Event
  <2>3. Fits(<<Head(tasks)>>, Entries, ShutDown)
    BY <1>2, <2>2
  <2>4. \A c \in Conn : <<Head(tasks)>> # <<<<"conn.Connected", {c}>>>>
    BY <2>2
  <2> QED
    BY <1>7, <2>1, <2>3, <2>4
<1>23. CASE ListenOnEvent
  <2>1. Top(Loop, "ListenOnEvent", {Listener}) /\ UNCHANGED connStates
    BY <1>23 DEF ListenOnEvent, Ends, stateVars
  <2>2. CASE Ends("misuse")
    BY <1>8, <2>1, <2>2 DEF Ends
  <2>3. CASE ~Ends("misuse")
    <3>1. PICK o \in {"Listening", "ListenFailed"} : Continue(Loop, <<<<o, {}>>>>)
      BY <1>23, <2>3 DEF ListenOnEvent
    <3>2. o \in NormalOp
      BY <1>9 DEF ServerState
    <3> QED
      BY <1>2, <1>4, <1>6, <2>1, <3>1, <3>2
  <2> QED
    BY <2>2, <2>3
<1>24. CASE CloseOnEvent
  <2>1. /\ Top(Loop, "CloseOnEvent", {Listener}) /\ UNCHANGED connStates
        /\ LoopCalls(<< >>) \/ Continue(Loop, << >>)
    BY <1>24 DEF CloseOnEvent, Ends, Return, stateVars
  <2> QED
    BY <1>2, <1>4, <1>6, <1>8, <2>1
<1>25. CASE WriteOnEvent
  <2>1. PICK c \in Conn : /\ Top(Loop, "WriteOnEvent", {c})
                          /\ Continue(Loop, << >>) \/ Continue(Loop, ShutdownAndClose(c))
    BY <1>25 DEF WriteOnEvent, Return
  <2>2. c \in Entries /\ UNCHANGED connStates
    BY <1>3, <1>25, <2>1 DEF WriteOnEvent, stateVars
  <2> QED
    BY <1>2, <1>4, <1>6, <2>1, <2>2
<1>26. CASE CloseConnOnEvent
  <2>1. PICK c \in Conn : Top(Loop, "CloseOnEvent", {c})
    BY <1>26 DEF CloseConnOnEvent
  <2>2. Continue(Loop, << >>) /\ UNCHANGED connStates
    BY <1>26 DEF CloseConnOnEvent, Return, stateVars
  <2> QED
    BY <1>2, <1>4, <1>6, <2>1, <2>2
<1>27. ASSUME NEW c \in Conn, LoopCalls(ShutdownAndClose(c)), LoopIdle,
              socket[c] \in {"open", "shut"}, UNCHANGED connStates
       PROVE  Reports'
  <2>1. c \in Entries
    BY <1>1, <1>27 DEF Entries
  <2>2. \A d \in Conn : ShutdownAndClose(c) # <<<<"conn.Connected", {d}>>>>
    BY OneOrTwo DEF ShutdownAndClose
  <2> QED
    BY <1>2, <1>7, <1>27, <2>1, <2>2
<1>28. CASE OnShutdown
  <2>1. PICK c \in Conn : socket[c] = "shut" /\ LoopCalls(ShutdownAndClose(c))
    BY <1>0, <1>28 DEF OnShutdown, TypeOK
  <2> QED
    BY <1>27, <1>28, <2>1 DEF OnShutdown, stateVars
<1>29. CASE OnReadError
  BY <1>27, <1>29 DEF OnReadError, stateVars
<1>30. ASSUME NEW ok \in BOOLEAN, OnWrite(ok) PROVE Reports'
  <2>1. PICK c \in Conn : /\ socket[c] \in {"open", "shut"}
                          /\ UNCHANGED stack \/ LoopCalls(ShutdownAndClose(c))
    BY <1>30 DEF OnWrite
  <2>2. LoopIdle /\ UNCHANGED <<connStates, socket>>
    BY <1>30 DEF OnWrite, stateVars
  <2> QED
    BY <1>5, <1>27, <2>1, <2>2 DEF L
<1>31. CASE OnReadEof
  <2>1. L' = L /\ UNCHANGED connStates /\ L = << >>
    BY <1>31 DEF OnReadEof, stateVars, L, LoopIdle, LoopFree
  <2>2. \A c \in Conn : L' # <<<<"conn.Connected", {c}>>>>
    BY <2>1
  <2> QED
    BY <1>2, <2>1, <2>2, AloneReports
<1>32. CASE OnReadData
  <2>1. PICK c \in Conn : /\ socket[c] = "open"
                          /\ \E call \in Callback(ReadCalls, {c}) : LoopCalls(call)
    BY <1>32 DEF OnReadData
  <2>2. PICK call \in Callback(ReadCalls, {c}) : LoopCalls(call)
    BY <2>1
  <2>3. LoopIdle /\ UNCHANGED connStates
    BY <1>32 DEF OnReadData, stateVars
  <2>4. {c} \in SUBSET Entries
    BY <1>1, <2>1, <2>3 DEF Entries
  <2>5. CASE call = << >>
    BY <1>8, <2>2, <2>3, <2>5
  <2>6. ASSUME NEW f \in CallsOf(ReadCalls, {c}), call = <<f>> PROVE Reports'
    <3>1. f = <<"call.Write", {c}>> \/ f = <<"call.WriteAll", {}>>
      <4>1. ReadCalls \subseteq {"call.Write", "call.WriteAll"}
        BY DEF PoliteApp
      <4> QED
        BY <2>6, <4>1 DEF CallsOf
    <3>2. Fits(<<f>>, Entries, ShutDown)
      BY <1>2, <2>4, <3>1
    <3>3. \A d \in Conn : <<f>> # <<<<"conn.Connected", {d}>>>>
      BY <3>1
    <3> QED
      BY <1>7, <2>2, <2>3, <2>6, <3>2, <3>3
  <2> QED
    BY <2>2, <2>5, <2>6 DEF Callback
<1>33. CASE OnConnection
  <2>1. AcceptErrors = {}
    BY DEF PoliteApp
  <2>2. PICK c \in Conn : /\ socket[c] = "none" /\ socket' = [socket EXCEPT ![c] = "open"]
                          /\ LoopCalls(<<<<"conn.Connected", {c}>>>>)
    BY <1>33, <2>1 DEF OnConnection
  <2>3. LoopIdle /\ UNCHANGED connStates
    BY <1>33, <2>1 DEF OnConnection, stateVars
  <2>4. connStates'[c] = "none" /\ socket'[c] = "open"
    BY <1>0, <1>1, <2>2, <2>3
  <2>5. L' = <<<<"conn.Connected", {c}>>>>
    BY <1>0, <2>2 DEF LoopCalls, L
  <2>6. \A d \in Conn : L' = <<<<"conn.Connected", {d}>>>> => d = c
    <3>1. ASSUME NEW d \in Conn, L' = <<<<"conn.Connected", {d}>>>> PROVE d = c
      <4>1. <<"conn.Connected", {d}>> = <<"conn.Connected", {c}>>
        BY <2>5, <3>1, OneOrTwo
      <4> QED
        BY <4>1
    <3> QED
      BY <3>1
  <2>7. Fits(L', Entries', ShutDown')
    BY <1>2, <2>5
  <2> QED
    BY <2>4, <2>6, <2>7 DEF Reports, Fits, ReportsNew
<1>34. ASSUME EndIteration, NEW s \in Socket, FinishClose(s) PROVE Reports'
  <2>1. LoopIdle /\ UNCHANGED connStates
    BY <1>34 DEF EndIteration, stateVars
  <2>2. CASE s = Listener
    <3>1. LoopCalls(<<<<"close_cb", {Listener}>>>>)
      BY <1>34, <2>2 DEF FinishClose
    <3>2. \A c \in Conn : <<<<"close_cb", {Listener}>>>> # <<<<"conn.Connected", {c}>>>>
      OBVIOUS
    <3> QED
      BY <1>2, <1>7, <2>1, <3>1, <3>2
  <2>3. CASE s \in Conn
    <3>0. writes[s] \in Nat
      BY <1>0, <2>3 DEF TypeOK
    <3>1. /\ socket[s] = "closing"
          /\ \E n \in 0..writes[s] : LoopCalls(Answers(s, n) \o <<<<"close_cb", {s}>>>>)
      BY <1>0, <1>34, <2>3 DEF FinishClose, Answers
    <3>2. PICK n \in 0..writes[s] : LoopCalls(Answers(s, n) \o <<<<"close_cb", {s}>>>>)
      BY <3>1
    <3>3. n \in Nat /\ s \in Entries
      BY <1>1, <2>1, <2>3, <3>0, <3>1 DEF Entries
    <3>4. Fits(Answers(s, n) \o <<<<"close_cb", {s}>>>>, Entries, ShutDown)
      BY <2>3, <3>3, AnswersFit
    <3>5. \A f : In(f, Answers(s, n) \o <<<<"close_cb", {s}>>>>) /\ f[1] \in Final =>
            f = <<"close_cb", {s}>>
      BY <3>3, AnswersShape
    <3>6. ASSUME NEW c \in Conn,
                 Answers(s, n) \o <<<<"close_cb", {s}>>>> = <<<<"conn.Connected", {c}>>>>
          PROVE  FALSE
      <4>1. In(<<"conn.Connected", {c}>>, <<<<"conn.Connected", {c}>>>>)
        BY DEF In
      <4>2. In(<<"conn.Connected", {c}>>, Answers(s, n) \o <<<<"close_cb", {s}>>>>)
        BY <3>6, <4>1
      <4> QED
        BY <3>5, <4>2 DEF Final
    <3> QED
      BY <1>7, <2>1, <3>2, <3>4, <3>6
  <2> QED
    BY <2>2, <2>3 DEF Socket
<1>35. CASE OnClose
  <2>1. PICK s \in Socket : /\ Top(Loop, "close_cb", {s})
                            /\ Continue(Loop, IF s = Listener THEN <<<<"Closed", {}>>>>
                                                      ELSE <<<<"conn.Closed", {s}>>>>)
    BY <1>35 DEF OnClose
  <2>2. PICK f \in {<<"Closed", {}>>, <<"conn.Closed", {s}>>} : Continue(Loop, <<f>>)
    BY <2>1
  <2>3. <<f>> \in Seq(Frame)
    BY DEF ServerState, Frame, Op, SetConn, Socket
  <2>4. L' = <<f>> /\ UNCHANGED connStates
    BY <1>0, <1>35, <2>1, <2>2, <2>3, FinalAlone DEF Final, OnClose, stateVars
  <2>5. Fits(<<f>>, Entries, ShutDown)
    BY <1>2
  <2>6. \A c \in Conn : <<f>> # <<<<"conn.Connected", {c}>>>>
    OBVIOUS
  <2> QED
    BY <2>4, <2>5, <2>6, AloneReports
<1>36. CASE EndIteration
  BY <1>21, <1>34, <1>36 DEF EndIteration
<1> QED
  BY <1>0, <1>10, <1>11, <1>20, <1>21, <1>22, <1>23, <1>24, <1>25, <1>26, <1>28, <1>29, <1>30,
     <1>31, <1>32, <1>33, <1>35, <1>36 DEF Next, LoopStep

(* What a step of SetConnState does to the map: a connection is reported   *)
(* once it was accepted, shut down while it has an entry, and forgotten    *)
(* when it is closed and was shut down.                                    *)
LEMMA PoliteReport ==
  ASSUME PoliteApp, PoliteServerInv, SetConnState(Loop)
  PROVE  \E c \in Conn :
           /\ UNCHANGED socket
           /\ \/ /\ connStates[c] = "none" /\ socket[c] = "open"
                 /\ connStates' = [connStates EXCEPT ![c] = "Connected"]
              \/ /\ connStates[c] \in {"Connected", "Shutdown"}
                 /\ connStates' = [connStates EXCEPT ![c] = "Shutdown"]
              \/ /\ connStates[c] = "Shutdown" /\ socket[c] = "closed"
                 /\ connStates' = [connStates EXCEPT ![c] = "none"]
<1>0. TypeOK /\ ShapeInv /\ ReportInv /\ EntryInv
  BY DEF PoliteServerInv, ServerInv
<1>1. PICK op \in SetConn, c \in Conn :
        /\ Top(Loop, op, {c})
        /\ connStates' = [connStates EXCEPT ![c] =
                        CASE op = "conn.Connected" -> "Connected"
                          [] op = "conn.Shutdown"  -> "Shutdown"
                          [] op = "conn.Closed"    -> "none"]
        /\ UNCHANGED socket
  BY DEF SetConnState, socketVars
<1>2. connStates[c] \in {"none", "Connected", "Shutdown"}
  BY <1>0 DEF TypeOK
<1>3. CASE op = "conn.Connected"
  <2>1. L = <<<<"conn.Connected", {c}>>>>
    BY <1>0, <1>1, <1>3, FinalAlone DEF Final
  <2>2. connStates[c] = "none" /\ socket[c] = "open"
    BY <1>0, <2>1 DEF ReportInv, ReportsNew
  <2>3. connStates' = [connStates EXCEPT ![c] = "Connected"]
    BY <1>1, <1>3
  <2> QED
    BY <1>1, <2>2, <2>3
<1>4. CASE op = "conn.Shutdown"
  <2>1. {c} \subseteq Entries
    BY <1>0, <1>1, <1>4, TopFits
  <2>2. connStates[c] \in {"Connected", "Shutdown"}
    BY <1>2, <2>1 DEF Entries
  <2>3. connStates' = [connStates EXCEPT ![c] = "Shutdown"]
    BY <1>1, <1>4
  <2> QED
    BY <1>1, <2>2, <2>3
<1>5. CASE op = "conn.Closed"
  <2>1. connStates[c] # "none" /\ socket[c] = "closed"
    BY <1>0, <1>1, <1>5 DEF EntryInv
  <2>2. connStates[c] = "Shutdown"
    BY <1>0, <1>2, <2>1 DEF ReportInv, ClosedIsReported
  <2>3. connStates' = [connStates EXCEPT ![c] = "none"]
    BY <1>1, <1>5
  <2> QED
    BY <1>1, <2>1, <2>2, <2>3
<1> QED
  BY <1>3, <1>4, <1>5 DEF SetConn

(* Every step keeps ReportInv. *)
LEMMA NextReport ==
  ASSUME PoliteApp, PoliteServerInv, [Next]_vars
  PROVE  ReportInv'
<1>0. /\ TypeOK /\ ListenerInv /\ ReportInv /\ CloseCbInv
      /\ connStates \in [Conn -> {"none", "Connected", "Shutdown"}]
  BY DEF PoliteServerInv, ServerInv, TypeOK
<1>1. ASSUME NEW c \in Conn, socket'[c] \in {"closing", "closed"}
      PROVE  connStates'[c] # "Connected"
  <2>1. CASE SetConnState(Loop)
    <3>1. PICK d \in Conn :
            /\ UNCHANGED socket
            /\ \/ /\ socket[d] = "open"
                  /\ connStates' = [connStates EXCEPT ![d] = "Connected"]
               \/ connStates' = [connStates EXCEPT ![d] = "Shutdown"]
               \/ connStates' = [connStates EXCEPT ![d] = "none"]
      BY <2>1, PoliteReport
    <3>2. connStates[c] # "Connected" /\ socket[c] # "open"
      BY <1>0, <1>1, <3>1 DEF ReportInv, ClosedIsReported
    <3> QED
      BY <1>0, <3>1, <3>2
  <2>2. CASE connStates' = connStates
    <3>1. CASE socket[c] \in {"closing", "closed"}
      BY <1>0, <2>2, <3>1 DEF ReportInv, ClosedIsReported
    <3>2. CASE socket[c] \notin {"closing", "closed"} /\ socket'[c] = "closing"
      <4>1. Top(Loop, "CloseOnEvent", {c})
        BY <1>0, <3>2, PoliteSockets
      <4>2. c \in ShutDown
        BY <1>0, <4>1, TopFits
      <4> QED
        BY <2>2, <4>2 DEF ShutDown
    <3>3. CASE socket[c] \notin {"closing", "closed"} /\ socket'[c] = "closed"
      <4>1. Top(Loop, "close_cb", {c})
        BY <1>0, <3>3, PoliteSockets
      <4>2. In(<<"close_cb", {c}>>, L)
        <5>1. L \in Seq(Frame) /\ L # << >> /\ Head(L) = <<"close_cb", {c}>>
          BY <1>0, <4>1 DEF Top, L, TypeOK, Thread
        <5> QED
          BY <5>1, TailElements DEF In
      <4> QED
        BY <1>0, <3>3, <4>2 DEF CloseCbInv
    <3> QED
      BY <1>1, <3>1, <3>2, <3>3
  <2> QED
    BY <1>0, <2>1, <2>2, PoliteSockets
<1>2. ClosedIsReported'
  BY <1>1 DEF ClosedIsReported
<1> QED
  BY <1>2, NextReports DEF ReportInv, Reports

(* Nothing was reported at first. *)
LEMMA InitReport == Init => ReportInv
<1> SUFFICES ASSUME Init PROVE ReportInv
  OBVIOUS
<1>1. L = << >> /\ \A c \in Conn : socket[c] = "none" /\ \A f : << >> # <<f>>
  BY DEF Init, L, Thread, Socket
<1> QED
  BY <1>1 DEF ReportInv, AboutEntries, ClosesAfterReport, ReportsNew, ClosedIsReported

(* In the hands of a polite application PoliteServerInv holds. *)
LEMMA PoliteServerInvariant ==
  ASSUME PoliteApp
  PROVE  Spec => []PoliteServerInv
<1>1. Init => ReportInv
  BY InitReport
<1>2. PoliteServerInv /\ [Next]_vars => ReportInv'
  BY NextReport
<1> QED
  BY <1>1, <1>2, ServerInvariant, ListenerInvariant, PTL DEF Spec, PoliteServerInv

(* Nothing was told at first. *)
LEMMA InitLifecycle == Init => Lifecycle!Init
BY DEF Init, Told, Socket, Lifecycle!Init

(* Every step tells nothing or what ConnLifecycle lets it tell. *)
LEMMA NextLifecycle ==
  ASSUME PoliteApp, PoliteServerInv, [Next]_vars
  PROVE  Lifecycle!Next \/ UNCHANGED Told
<1>0. /\ TypeOK /\ ListenerInv /\ EntryInv /\ CloseCbInv
      /\ connStates \in [Conn -> {"none", "Connected", "Shutdown"}]
  BY DEF PoliteServerInv, ServerInv, TypeOK
<1> DEFINE Tells(c) == IF connStates[c] # "none" THEN connStates[c]
                       ELSE IF socket[c] = "closed" THEN "Closed" ELSE "new"
<1>1. Told = [c \in Conn |-> Tells(c)] /\ Told' = [c \in Conn |-> Tells(c)']
  BY DEF Told
<1>2. CASE SetConnState(Loop)
  <2>1. PICK c \in Conn :
           /\ UNCHANGED socket
           /\ \/ /\ connStates[c] = "none" /\ socket[c] = "open"
                 /\ connStates' = [connStates EXCEPT ![c] = "Connected"]
              \/ /\ connStates[c] \in {"Connected", "Shutdown"}
                 /\ connStates' = [connStates EXCEPT ![c] = "Shutdown"]
              \/ /\ connStates[c] = "Shutdown" /\ socket[c] = "closed"
                 /\ connStates' = [connStates EXCEPT ![c] = "none"]
    BY <1>2, PoliteReport
  <2>2. \A d \in Conn : d # c => Tells(d)' = Tells(d)
    BY <1>0, <2>1
  <2>3. Told' = [Told EXCEPT ![c] = Tells(c)']
    BY <1>1, <2>2
  <2>4. Told[c] = Tells(c)
    BY <1>1
  <2>5. \/ Tells(c) = "new" /\ Tells(c)' = "Connected"
        \/ Tells(c) \in {"Connected", "Shutdown"} /\ Tells(c)' = "Shutdown"
        \/ Tells(c) = "Shutdown" /\ Tells(c)' = "Closed"
    BY <1>0, <2>1
  <2> HIDE DEF Tells
  <2>6. CASE Tells(c) = "Shutdown" /\ Tells(c)' = "Shutdown"
    <3>1. Told' = Told
      BY <1>1, <2>2, <2>6
    <3> QED
      BY <3>1
  <2> QED
    BY <2>3, <2>4, <2>5, <2>6
    DEF Lifecycle!Next, Lifecycle!Accept, Lifecycle!Fail, Lifecycle!Finish
<1>3. CASE connStates' = connStates
  <2>1. ASSUME NEW c \in Conn PROVE Tells(c)' = Tells(c)
    <3>1. CASE socket[c] # "closed" /\ socket'[c] = "closed"
      <4>1. Top(Loop, "close_cb", {c})
        BY <1>0, <3>1, PoliteSockets
      <4>2. L \in Seq(Frame) /\ L # << >> /\ Head(L) = <<"close_cb", {c}>>
        BY <1>0, <4>1 DEF Top, L, TypeOK, Thread
      <4>3. In(<<"close_cb", {c}>>, L)
        BY <4>2, TailElements DEF In
      <4>4. Found(c) /\ ~Reporting(c)
        BY <1>0, <4>2, <4>3, OneOrTwo DEF CloseCbInv, Found, Reporting
      <4>5. connStates[c] # "none"
        BY <1>0, <4>4 DEF EntryInv
      <4> QED
        BY <1>3, <4>5
    <3>2. CASE socket'[c] = "closed" => socket[c] = "closed"
      <4>1. socket[c] = "closed" <=> socket'[c] = "closed"
        BY <1>0, <3>2, PoliteSockets
      <4> QED
        BY <1>3, <4>1
    <3> QED
      BY <3>1, <3>2
  <2> QED
    BY <1>1, <2>1
<1>4. connStates' = connStates \/ SetConnState(Loop) \/ Conn = {}
  BY <1>0, PoliteSockets
<1>5. CASE Conn = {}
  BY <1>1, <1>5
<1> QED
  BY <1>2, <1>3, <1>4, <1>5

(* The application hears of every connection what ConnLifecycle promises,  *)
(* in this order and never twice: Connected when it was accepted, Shutdown *)
(* before it is closed, Closed at last.  (That it does hear of the end is  *)
(* the fairness of KeepsLifecycle, which TLC checks.)                      *)
THEOREM RefinesLifecycle ==
  ASSUME PoliteApp
  PROVE  Spec => Lifecycle!Init /\ [][Lifecycle!Next]_Told
<1>1. Init => Lifecycle!Init
  BY InitLifecycle
<1>2. PoliteServerInv /\ [Next]_vars => [Lifecycle!Next]_Told
  BY NextLifecycle
<1> QED
  BY <1>1, <1>2, PoliteServerInvariant, PTL DEF Spec
=============================================================================
