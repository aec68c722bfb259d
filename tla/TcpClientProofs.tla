-------------------------- MODULE TcpClientProofs --------------------------
(***************************************************************************)
(* What holds of TcpClient whatever the application does: any number of    *)
(* threads, any calls, from anywhere.  Then, from "A polite application"   *)
(* on, what holds of PoliteTcpClient: the client never re-initialises a    *)
(* handle in use, keeps libuv's contract, shows Closed only when the       *)
(* handle is released, tells the truth about the connection when it is     *)
(* quiet and is told nothing of an earlier connection, for every number of *)
(* calls and however the network thread, the peer and the caller           *)
(* interleave.                                                             *)
(***************************************************************************)
EXTENDS PoliteTcpClient, SequenceTheorems, TLAPS

-----------------------------------------------------------------------------
(* Stacks. *)

(* A call that makes other calls keeps the type of the stacks. *)
LEMMA ContinueType ==
  ASSUME stack \in [Thread -> Seq(Frame)], NEW t \in Thread, stack[t] # << >>,
         NEW frames \in Seq(Frame), Continue(t, frames)
  PROVE  stack' \in [Thread -> Seq(Frame)]
<1>1. Tail(stack[t]) \in Seq(Frame)
  BY HeadTailProperties
<1>2. frames \o Tail(stack[t]) \in Seq(Frame)
  BY <1>1, ConcatProperties
<1> QED
  BY <1>2 DEF Continue

(* A call that returns keeps the type of the stacks. *)
LEMMA ReturnType ==
  ASSUME stack \in [Thread -> Seq(Frame)], NEW t \in Thread, stack[t] # << >>,
         Return(t)
  PROVE  stack' \in [Thread -> Seq(Frame)]
<1>1. << >> \in Seq(Frame)
  OBVIOUS
<1> QED
  BY <1>1, ContinueType DEF Return

(* The calls about failed writes are a sequence of calls. *)
LEMMA FailWritesType ==
  ASSUME NEW n \in Nat
  PROVE  FailWrites(n) \in Seq(Frame)
<1>1. "Shutdown" \in Frame /\ "client.Close" \in Frame
  BY DEF Frame, ConnectionState, ClientCall
<1>2. 2 * n \in Nat
  OBVIOUS
<1>3. FailWrites(n) \in [1..2 * n -> Frame]
  BY <1>1 DEF FailWrites
<1> QED
  BY <1>2, <1>3, SeqDef

(* Short sequences of calls. *)
LEMMA FrameSeqs ==
  /\ << >> \in Seq(Frame)
  /\ ShutdownAndClose \in Seq(Frame)
  /\ \A f \in Frame : <<f>> \in Seq(Frame)
  /\ \A f, g \in Frame : <<f, g>> \in Seq(Frame)
<1>1. "Shutdown" \in Frame /\ "client.Close" \in Frame
  BY DEF Frame, ConnectionState, ClientCall
<1> QED
  BY <1>1 DEF ShutdownAndClose

(* The names of calls. *)
LEMMA FrameNames ==
  /\ {"Connecting", "Closing", "Connected", "ConnFailed", "Closed"} \subseteq Frame
  /\ ClientCall \subseteq Frame /\ EventCall \subseteq Frame /\ Call \subseteq Frame
  /\ ConnectionState \subseteq Frame
  /\ "flush_writes" \in Frame /\ "close_cb" \in Frame
BY DEF Frame, ConnectionState, Call, ClientCall, EventCall

(* A callback makes at most one call. *)
LEMMA CallbackType ==
  ASSUME NEW allowed \in SUBSET Call, NEW s, NEW c \in Callback(allowed, s)
  PROVE  c \in Seq(Frame) /\ Len(c) \in {0, 1}
<1>1. CASE c = << >>
  BY <1>1, FrameSeqs
<1>2. ASSUME NEW d \in allowed, c = <<d>> PROVE c \in Seq(Frame) /\ Len(c) \in {0, 1}
  BY <1>2, FrameSeqs, FrameNames
<1> QED
  BY <1>1, <1>2 DEF Callback

-----------------------------------------------------------------------------
(* Type correctness. *)

(* The constructor gives every variable its type. *)
LEMMA InitType == Init => TypeOK
<1> SUFFICES ASSUME Init PROVE TypeOK
  OBVIOUS
<1>1. << >> \in Seq(Frame) /\ << >> \in Seq(EventCall) /\ Len(<< >>) = 0
  OBVIOUS
<1>2. stack \in [Thread -> Seq(Frame)]
  BY <1>1 DEF Init
<1>3. calls \in 0..MaxCalls /\ batch \in 0..Len(tasks)
  BY <1>1, BoundAssumption DEF Init
<1>4. state \in ConnectionState /\ handle \in Handle
  BY DEF Init, ConnectionState, Handle
<1> QED
  BY <1>1, <1>2, <1>3, <1>4 DEF Init, TypeOK

(* Every step keeps the types. *)
LEMMA NextType == TypeOK /\ [Next]_vars => TypeOK'
<1> SUFFICES ASSUME TypeOK, [Next]_vars PROVE TypeOK'
  OBVIOUS
<1> USE BoundAssumption
<1>0. stack \in [Thread -> Seq(Frame)] /\ Loop \in Thread
  BY DEF TypeOK, Thread
<1>1. ASSUME NEW u \in User, NEW c \in UserCalls, UserCall(u, c) PROVE TypeOK'
  <2>1. <<c>> \in Seq(Frame)
    BY <1>1, FrameSeqs, FrameNames, CallsAssumption
  <2>2. stack' \in [Thread -> Seq(Frame)]
    BY <1>0, <1>1, <2>1 DEF UserCall
  <2> QED
    BY <1>1, <2>2 DEF UserCall, TypeOK, queueVars, socketVars
<1>2. ASSUME NEW t \in Thread, Connect(t) PROVE TypeOK'
  <2>1. <<"Connecting", "client.Connect">> \in Seq(Frame)
    BY FrameSeqs, FrameNames DEF ClientCall
  <2>2. stack' \in [Thread -> Seq(Frame)]
    BY <1>0, <1>2, <2>1, ContinueType, ReturnType DEF Connect, Top
  <2> QED
    BY <1>2, <2>2 DEF Connect, TypeOK, queueVars, socketVars
<1>3. ASSUME NEW t \in Thread, Close(t) PROVE TypeOK'
  <2>1. <<"Closing", "client.Close">> \in Seq(Frame)
    BY FrameSeqs, FrameNames DEF ClientCall
  <2>2. stack' \in [Thread -> Seq(Frame)]
    BY <1>0, <1>3, <2>1, ContinueType, ReturnType DEF Close, Top
  <2> QED
    BY <1>3, <2>2 DEF Close, TypeOK, queueVars, socketVars
<1>4. ASSUME NEW t \in Thread, Write(t) PROVE TypeOK'
  <2>1. <<"client.Write">> \in Seq(Frame)
    BY FrameSeqs, FrameNames DEF ClientCall
  <2>2. stack' \in [Thread -> Seq(Frame)]
    BY <1>0, <1>4, <2>1, ContinueType, ReturnType DEF Write, Top
  <2> QED
    BY <1>4, <2>2 DEF Write, TypeOK, queueVars, socketVars
<1>5. ASSUME NEW t \in Thread, SetState(t) PROVE TypeOK'
  <2>0. PICK s \in ConnectionState :
          /\ Top(t, s) /\ state' = s
          /\ \E call \in Callback(StatesCalls, s) :
               /\ calls + Len(call) <= MaxCalls /\ calls' = calls + Len(call)
               /\ Continue(t, call)
    BY <1>5 DEF SetState
  <2>1. PICK call \in Callback(StatesCalls, s) :
          /\ calls + Len(call) <= MaxCalls /\ calls' = calls + Len(call)
          /\ Continue(t, call)
    BY <2>0
  <2>2. call \in Seq(Frame) /\ Len(call) \in {0, 1}
    BY CallbackType, CallsAssumption
  <2>3. stack' \in [Thread -> Seq(Frame)]
    BY <1>0, <2>0, <2>1, <2>2, ContinueType DEF Top
  <2>4. calls' \in 0..MaxCalls
    BY <2>1, <2>2 DEF TypeOK
  <2> QED
    BY <1>5, <2>0, <2>3, <2>4 DEF SetState, TypeOK, queueVars, socketVars
<1>6. ASSUME NEW t \in Thread, ClientImpl(t) PROVE TypeOK'
  <2>1. PICK c \in ClientCall :
          /\ Top(t, c)
          /\ IF t = Loop
             THEN Continue(t, <<OnEvent[c]>>) /\ UNCHANGED tasks
             ELSE Return(t) /\ tasks' = Append(tasks, OnEvent[c])
    BY <1>6 DEF ClientImpl
  <2>2. OnEvent[c] \in EventCall
    BY DEF OnEvent, EventCall, ClientCall
  <2>3. <<OnEvent[c]>> \in Seq(Frame)
    BY <2>2, FrameSeqs, FrameNames
  <2>4. stack' \in [Thread -> Seq(Frame)]
    BY <1>0, <2>1, <2>3, ContinueType, ReturnType DEF Top
  <2>5. tasks' \in Seq(EventCall) /\ batch \in 0..Len(tasks')
    BY <2>1, <2>2, AppendProperties, LenProperties DEF TypeOK
  <2> QED
    BY <1>6, <2>4, <2>5 DEF ClientImpl, TypeOK, socketVars
<1>7. CASE Drain
  BY <1>7, LenProperties DEF Drain, TypeOK, socketVars
<1>8. CASE RunTask
  <2>1. tasks # << >>
    BY <1>8 DEF RunTask, TypeOK
  <2>2. /\ Head(tasks) \in EventCall /\ Tail(tasks) \in Seq(EventCall)
        /\ Len(Tail(tasks)) = Len(tasks) - 1
    BY <2>1, HeadTailProperties DEF TypeOK
  <2>3. <<Head(tasks)>> \in Seq(Frame)
    BY <2>2, FrameSeqs, FrameNames
  <2>4. stack' \in [Thread -> Seq(Frame)]
    BY <1>0, <1>8, <2>3 DEF RunTask
  <2>5. batch' \in 0..Len(tasks')
    BY <1>8, <2>2, LenProperties DEF RunTask, TypeOK
  <2> QED
    BY <1>8, <2>2, <2>4, <2>5 DEF RunTask, TypeOK, socketVars
<1>9. CASE ConnectOnEvent
  <2>1. <<"ConnFailed">> \in Seq(Frame)
    BY FrameSeqs, FrameNames
  <2>2. stack' \in [Thread -> Seq(Frame)]
    BY <1>0, <1>9, <2>1, FrameSeqs, ContinueType, ReturnType
       DEF ConnectOnEvent, Misuse, LoopCalls, Top
  <2> QED
    BY <1>9, <2>2 DEF ConnectOnEvent, Misuse, TypeOK, queueVars, Handle
<1>10. CASE WriteOnEvent
  <2>1. stack' \in [Thread -> Seq(Frame)]
    BY <1>0, <1>10, FrameSeqs, ContinueType, ReturnType
       DEF WriteOnEvent, Misuse, LoopCalls, Top
  <2> QED
    BY <1>10, <2>1 DEF WriteOnEvent, Misuse, TypeOK, queueVars, Handle
<1>11. CASE CloseOnEvent
  <2>1. stack' \in [Thread -> Seq(Frame)]
    BY <1>0, <1>11, FrameSeqs, ReturnType DEF CloseOnEvent, Misuse, LoopCalls, Top
  <2> QED
    BY <1>11, <2>1 DEF CloseOnEvent, Misuse, TypeOK, queueVars, Handle
<1>12. ASSUME NEW ok \in BOOLEAN, OnConnection(ok) PROVE TypeOK'
  <2>1. <<"Connected">> \in Seq(Frame) /\ <<"ConnFailed", "flush_writes">> \in Seq(Frame)
    BY FrameSeqs, FrameNames
  <2>2. stack' \in [Thread -> Seq(Frame)]
    BY <1>0, <1>12, <2>1 DEF OnConnection, LoopCalls
  <2> QED
    BY <1>12, <2>2 DEF OnConnection, TypeOK, queueVars, Handle
<1>13. CASE FlushWrites
  <2>1. FailWrites(writes) \in Seq(Frame)
    BY FailWritesType DEF TypeOK
  <2>2. stack' \in [Thread -> Seq(Frame)]
    BY <1>0, <1>13, <2>1, ContinueType, ReturnType DEF FlushWrites, Top
  <2> QED
    BY <1>13, <2>2 DEF FlushWrites, TypeOK, queueVars
<1>14. CASE OnReadData
  <2>1. PICK call \in Callback(ReadCalls, state) :
          /\ calls + Len(call) <= MaxCalls /\ calls' = calls + Len(call)
          /\ LoopCalls(call)
    BY <1>14 DEF OnReadData
  <2>2. call \in Seq(Frame) /\ Len(call) \in {0, 1}
    BY CallbackType, CallsAssumption
  <2>3. stack' \in [Thread -> Seq(Frame)]
    BY <1>0, <2>1, <2>2 DEF LoopCalls
  <2>4. calls' \in 0..MaxCalls
    BY <2>1, <2>2 DEF TypeOK
  <2> QED
    BY <1>14, <2>3, <2>4 DEF OnReadData, TypeOK, queueVars, socketVars
<1>15. CASE OnReadEof
  BY <1>15 DEF OnReadEof, TypeOK, queueVars, Handle
<1>16. CASE OnShutdown
  <2>1. stack' \in [Thread -> Seq(Frame)]
    BY <1>0, <1>16, FrameSeqs DEF OnShutdown, LoopCalls
  <2> QED
    BY <1>16, <2>1 DEF OnShutdown, TypeOK, queueVars
<1>17. CASE OnReadError
  <2>1. stack' \in [Thread -> Seq(Frame)]
    BY <1>0, <1>17, FrameSeqs DEF OnReadError, LoopCalls
  <2> QED
    BY <1>17, <2>1 DEF OnReadError, TypeOK, queueVars, Handle
<1>18. ASSUME NEW ok \in BOOLEAN, OnWrite(ok) PROVE TypeOK'
  <2>1. stack' \in [Thread -> Seq(Frame)]
    BY <1>0, <1>18, FrameSeqs DEF OnWrite, LoopCalls
  <2>2. writes' \in Nat
    BY <1>18 DEF OnWrite, TypeOK
  <2> QED
    BY <1>18, <2>1, <2>2 DEF OnWrite, TypeOK, queueVars
<1>19. CASE EndIteration
  <2>1. CASE handle = "closing"
    <3>1. PICK n \in IF connect_req THEN {writes} ELSE 0..writes :
            LoopCalls((IF connect_req THEN <<"ConnFailed">> ELSE << >>)
                      \o FailWrites(n)
                      \o (IF shutdown_req THEN ShutdownAndClose ELSE << >>)
                      \o <<"close_cb">>)
      BY <1>19, <2>1 DEF EndIteration
    <3> DEFINE a == IF connect_req THEN <<"ConnFailed">> ELSE << >>
               b == IF shutdown_req THEN ShutdownAndClose ELSE << >>
    <3>2. n \in Nat
      BY DEF TypeOK
    <3>3. /\ a \in Seq(Frame) /\ b \in Seq(Frame) /\ <<"close_cb">> \in Seq(Frame)
          /\ FailWrites(n) \in Seq(Frame)
      BY <3>2, FrameSeqs, FrameNames, FailWritesType
    <3>4. a \o FailWrites(n) \in Seq(Frame)
      BY <3>3, ConcatProperties
    <3>5. a \o FailWrites(n) \o b \in Seq(Frame)
      BY <3>3, <3>4, ConcatProperties
    <3>6. a \o FailWrites(n) \o b \o <<"close_cb">> \in Seq(Frame)
      BY <3>3, <3>5, ConcatProperties
    <3>7. stack' \in [Thread -> Seq(Frame)]
      BY <1>0, <3>1, <3>6 DEF LoopCalls
    <3>8. /\ connect_req' = FALSE /\ writes' = 0 /\ shutdown_req' = FALSE
          /\ drained' = FALSE /\ UNCHANGED <<state, tasks, batch, handle, calls>>
      BY <1>19, <2>1 DEF EndIteration
    <3> QED
      BY <3>7, <3>8 DEF TypeOK
  <2>2. CASE handle # "closing"
    BY <1>19, <2>2 DEF EndIteration, TypeOK
  <2> QED
    BY <2>1, <2>2
<1>20. CASE OnClose
  <2>1. <<"Closed">> \in Seq(Frame)
    BY FrameSeqs, FrameNames
  <2>2. stack' \in [Thread -> Seq(Frame)]
    BY <1>0, <1>20, <2>1, ContinueType DEF OnClose, Top
  <2> QED
    BY <1>20, <2>2 DEF OnClose, TypeOK, queueVars, Handle
<1>21. CASE UNCHANGED vars
  BY <1>21 DEF vars, TypeOK
<1> QED
  BY <1>1, <1>2, <1>3, <1>4, <1>5, <1>6, <1>7, <1>8, <1>9, <1>10, <1>11,
     <1>12, <1>13, <1>14, <1>15, <1>16, <1>17, <1>18, <1>19, <1>20, <1>21
     DEF Next, LoopStep, ThreadStep

(* Whatever the application does, the variables keep their types; every    *)
(* thread runs calls the code has.                                         *)
THEOREM TypeCorrect == Spec => []TypeOK
BY InitType, NextType, PTL DEF Spec

-----------------------------------------------------------------------------
(* Requests.  The close callback is the last call on the network thread's  *)
(* stack, and once it is there all requests were answered and nothing can  *)
(* add another: uv_write refuses a closing handle.                         *)

NoRequest == ~connect_req /\ writes = 0 /\ ~shutdown_req

CbLast(s) == \A i \in 1..Len(s) : s[i] = "close_cb" => i = Len(s)
HasCb(s) == \E i \in 1..Len(s) : s[i] = "close_cb"

CloseCbInv ==
  /\ CbLast(L)
  /\ HasCb(L) => handle = "closing" /\ NoRequest

(* Replacing the innermost call keeps the close callback last. *)
LEMMA PopKeepsCb ==
  ASSUME NEW s \in Seq(Frame), s # << >>, NEW fr \in Seq(Frame), ~HasCb(fr),
         CbLast(s)
  PROVE  /\ CbLast(fr \o Tail(s))
         /\ HasCb(fr \o Tail(s)) => HasCb(s)
<1> DEFINE r == fr \o Tail(s)
<1>1. /\ Tail(s) \in Seq(Frame) /\ Len(Tail(s)) = Len(s) - 1
      /\ \A i \in 1..Len(Tail(s)) : Tail(s)[i] = s[i + 1]
  BY HeadTailProperties
<1>2. Len(s) \in Nat \ {0} /\ Len(fr) \in Nat
  BY EmptySeq, LenProperties
<1>3. /\ Len(r) = Len(fr) + Len(s) - 1
      /\ \A i \in 1..Len(r) : r[i] = IF i <= Len(fr) THEN fr[i]
                                     ELSE Tail(s)[i - Len(fr)]
  BY <1>1, <1>2, ConcatProperties
<1>4. ASSUME NEW i \in 1..Len(r), r[i] = "close_cb"
      PROVE  /\ i - Len(fr) + 1 \in 1..Len(s)
             /\ s[i - Len(fr) + 1] = "close_cb"
             /\ i = Len(r)
  <2>1. ~(i <= Len(fr))
    BY <1>2, <1>3, <1>4 DEF HasCb
  <2>2. i - Len(fr) \in 1..Len(Tail(s))
    BY <2>1, <1>1, <1>2, <1>3
  <2>3. s[i - Len(fr) + 1] = "close_cb" /\ i - Len(fr) + 1 \in 1..Len(s)
    BY <2>1, <2>2, <1>1, <1>2, <1>3, <1>4
  <2>4. i - Len(fr) + 1 = Len(s)
    BY <2>3 DEF CbLast
  <2>5. i = Len(r)
    <3>1. Len(r) = Len(fr) + Len(s) - 1 /\ Len(r) \in Nat
      BY <1>2, <1>3
    <3>2. i \in Int
      BY <1>4, <3>1
    <3> HIDE DEF r
    <3> QED
      BY <2>4, <3>1, <3>2, <1>2
  <2> QED
    BY <2>3, <2>5
<1> QED
  BY <1>4 DEF CbLast, HasCb

(* No close callback appears from nowhere. *)
LEMMA ConcatHasCb ==
  ASSUME NEW s \in Seq(Frame), NEW t \in Seq(Frame), ~HasCb(s), ~HasCb(t)
  PROVE  s \o t \in Seq(Frame) /\ ~HasCb(s \o t)
<1>1. /\ s \o t \in Seq(Frame)
      /\ Len(s \o t) = Len(s) + Len(t)
      /\ \A i \in 1..Len(s) + Len(t) : (s \o t)[i] =
            IF i <= Len(s) THEN s[i] ELSE t[i - Len(s)]
  BY ConcatProperties
<1>2. Len(s) \in Nat /\ Len(t) \in Nat
  BY LenProperties
<1>3. ASSUME NEW i \in 1..Len(s) + Len(t) PROVE (s \o t)[i] # "close_cb"
  <2>1. CASE i <= Len(s)
    BY <1>1, <1>2, <2>1 DEF HasCb
  <2>2. CASE ~(i <= Len(s))
    <3>1. i - Len(s) \in 1..Len(t)
      BY <1>2, <2>2
    <3> QED
      BY <1>1, <2>2, <3>1 DEF HasCb
  <2> QED
    BY <2>1, <2>2
<1> QED
  BY <1>1, <1>3 DEF HasCb

(* The close callback comes after the answers to requests. *)
LEMMA AppendCbLast ==
  ASSUME NEW s \in Seq(Frame), ~HasCb(s)
  PROVE  CbLast(s \o <<"close_cb">>)
<1>1. <<"close_cb">> \in Seq(Frame) /\ Len(<<"close_cb">>) = 1
  BY FrameSeqs, FrameNames
<1>2. /\ Len(s \o <<"close_cb">>) = Len(s) + 1
      /\ \A i \in 1..Len(s) + 1 : i <= Len(s) => (s \o <<"close_cb">>)[i] = s[i]
  BY <1>1, ConcatProperties
<1>3. Len(s) \in Nat
  BY LenProperties
<1>4. ASSUME NEW i \in 1..Len(s) + 1, (s \o <<"close_cb">>)[i] = "close_cb"
      PROVE  i = Len(s) + 1
  <2>1. i \notin 1..Len(s)
    BY <1>2, <1>3, <1>4 DEF HasCb
  <2> QED
    BY <1>3, <2>1
<1> QED
  BY <1>2, <1>4 DEF CbLast

(* What is not a close callback. *)
LEMMA NoCbFrames ==
  /\ ~HasCb(<< >>) /\ ~HasCb(ShutdownAndClose)
  /\ \A f : f # "close_cb" => ~HasCb(<<f>>) /\ CbLast(<<f>>)
  /\ \A f, g : f # "close_cb" /\ g # "close_cb" => ~HasCb(<<f, g>>)
  /\ \A n \in Nat : ~HasCb(FailWrites(n))
<1>2. ASSUME NEW n \in Nat PROVE ~HasCb(FailWrites(n))
  <2>1. Len(FailWrites(n)) = 2 * n
    <3>1. 2 * n \in Nat
      OBVIOUS
    <3>2. DOMAIN FailWrites(n) = 1..2 * n
      BY DEF FailWrites
    <3>3. Len(FailWrites(n)) \in Nat /\ DOMAIN FailWrites(n) = 1..Len(FailWrites(n))
      BY FailWritesType, LenProperties
    <3> QED
      BY <3>1, <3>2, <3>3
  <2>2. \A i \in 1..2 * n : FailWrites(n)[i] # "close_cb"
    BY DEF FailWrites
  <2> QED
    BY <2>1, <2>2 DEF HasCb
<1> QED
  BY <1>2 DEF HasCb, CbLast, ShutdownAndClose

(* A step of the network thread that only returns from or adds calls       *)
(* keeps CloseCbInv as long as handle and requests stay as they are.       *)
LEMMA ContinueKeepsCb ==
  ASSUME TypeOK, CloseCbInv, L # << >>, NEW fr \in Seq(Frame), ~HasCb(fr),
         Continue(Loop, fr)
  PROVE  CbLast(L') /\ (HasCb(L') => HasCb(L))
<1>1. L \in Seq(Frame) /\ L' = fr \o Tail(L)
  BY DEF TypeOK, Continue, L, Thread
<1> QED
  BY <1>1, PopKeepsCb DEF CloseCbInv

(* No close callback at first. *)
LEMMA InitCloseCb == Init => CloseCbInv
BY NoCbFrames DEF Init, CloseCbInv, CbLast, L, Thread, NoRequest

(* Every step keeps CloseCbInv. *)
LEMMA NextCloseCb == TypeOK /\ CloseCbInv /\ [Next]_vars => CloseCbInv'
<1> SUFFICES ASSUME TypeOK, CloseCbInv, [Next]_vars PROVE CloseCbInv'
  OBVIOUS
<1>0. /\ Loop \in Thread /\ stack \in [Thread -> Seq(Frame)]
      /\ L \in Seq(Frame)
      /\ << >> \in Seq(Frame) /\ ShutdownAndClose \in Seq(Frame)
      /\ \A f \in Frame : <<f>> \in Seq(Frame)
  BY FrameSeqs DEF TypeOK, Thread, L
<1>1. ASSUME UNCHANGED <<L, socketVars>> PROVE CloseCbInv'
  BY <1>1 DEF CloseCbInv, CbLast, HasCb, NoRequest, socketVars
<1>2. ASSUME CbLast(L'), HasCb(L') => HasCb(L),
             HasCb(L) => UNCHANGED socketVars
      PROVE  CloseCbInv'
  BY <1>2 DEF CloseCbInv, HasCb, NoRequest, socketVars
<1>3. ASSUME ~HasCb(L') PROVE CloseCbInv'
  BY <1>3 DEF CloseCbInv, HasCb, CbLast
<1>4. ASSUME NEW t \in Thread, t # Loop, NEW fr, Continue(t, fr)
      PROVE  L' = L
  BY <1>0, <1>4 DEF Continue, L
<1>5. ASSUME NEW t \in Thread, NEW fr \in Seq(Frame), ~HasCb(fr), stack[t] # << >>,
             Continue(t, fr), UNCHANGED socketVars
      PROVE  CloseCbInv'
  <2>1. CASE t = Loop
    BY <1>2, <1>5, <2>1, ContinueKeepsCb DEF L
  <2>2. CASE t # Loop
    BY <1>1, <1>4, <1>5, <2>2
  <2> QED
    BY <2>1, <2>2
<1>6. ASSUME NEW u \in User, NEW c \in UserCalls, UserCall(u, c) PROVE CloseCbInv'
  BY <1>0, <1>1, <1>6, ThreadAssumption DEF UserCall, L, Thread
<1>7. ASSUME NEW t \in Thread, Connect(t) PROVE CloseCbInv'
  <2>1. /\ <<"Connecting", "client.Connect">> \in Seq(Frame)
        /\ ~HasCb(<<"Connecting", "client.Connect">>)
    BY FrameSeqs, FrameNames, NoCbFrames DEF ClientCall
  <2> QED
    BY <1>0, <1>5, <1>7, <2>1, NoCbFrames DEF Connect, Return, Top
<1>8. ASSUME NEW t \in Thread, Close(t) PROVE CloseCbInv'
  <2>1. /\ <<"Closing", "client.Close">> \in Seq(Frame)
        /\ ~HasCb(<<"Closing", "client.Close">>)
    BY FrameSeqs, FrameNames, NoCbFrames DEF ClientCall
  <2> QED
    BY <1>0, <1>5, <1>8, <2>1, NoCbFrames DEF Close, Return, Top
<1>9. ASSUME NEW t \in Thread, Write(t) PROVE CloseCbInv'
  <2>1. <<"client.Write">> \in Seq(Frame) /\ ~HasCb(<<"client.Write">>)
    BY FrameSeqs, FrameNames, NoCbFrames DEF ClientCall
  <2> QED
    BY <1>0, <1>5, <1>9, <2>1, NoCbFrames DEF Write, Return, Top
<1>10. ASSUME NEW allowed \in SUBSET Call, NEW s, NEW c \in Callback(allowed, s)
       PROVE  c \in Seq(Frame) /\ ~HasCb(c)
  <2>1. CASE c = << >>
    BY <2>1, NoCbFrames, FrameSeqs
  <2>2. ASSUME NEW d \in allowed, c = <<d>> PROVE c \in Seq(Frame) /\ ~HasCb(c)
    BY <2>2, NoCbFrames, FrameSeqs, FrameNames DEF Call
  <2> QED
    BY <2>1, <2>2 DEF Callback
<1>11. ASSUME NEW t \in Thread, SetState(t) PROVE CloseCbInv'
  <2>1. PICK s \in ConnectionState :
          /\ Top(t, s)
          /\ \E call \in Callback(StatesCalls, s) : Continue(t, call)
    BY <1>11 DEF SetState
  <2>2. PICK call \in Callback(StatesCalls, s) : Continue(t, call)
    BY <2>1
  <2> QED
    BY <1>5, <1>10, <1>11, <2>1, <2>2, CallsAssumption DEF SetState, Top
<1>12. ASSUME NEW t \in Thread, ClientImpl(t) PROVE CloseCbInv'
  <2>1. PICK c \in ClientCall :
          /\ Top(t, c)
          /\ IF t = Loop
             THEN Continue(t, <<OnEvent[c]>>) ELSE Return(t)
    BY <1>12 DEF ClientImpl
  <2>2. OnEvent[c] \in EventCall
    BY DEF OnEvent, EventCall, ClientCall
  <2>3. <<OnEvent[c]>> \in Seq(Frame) /\ ~HasCb(<<OnEvent[c]>>)
    BY <2>2, FrameSeqs, FrameNames, NoCbFrames DEF EventCall
  <2> QED
    BY <1>0, <1>5, <1>12, <2>1, <2>3, NoCbFrames DEF ClientImpl, Return, Top
<1>13. CASE Drain
  BY <1>1, <1>13 DEF Drain, L
<1>14. CASE RunTask
  <2>1. Head(tasks) \in EventCall
    BY <1>14, HeadTailProperties DEF RunTask, TypeOK
  <2>2. L' = <<Head(tasks)>>
    BY <1>0, <1>14 DEF RunTask, L
  <2> QED
    BY <1>3, <2>1, <2>2, NoCbFrames DEF EventCall
<1>15. CASE ConnectOnEvent
  <2>1. CASE Misuse
    BY <1>0, <1>3, <2>1, NoCbFrames DEF Misuse, LoopCalls, L
  <2>2. CASE ~Misuse
    <3>1. handle \in {"none", "closed"} /\ L # << >>
      BY <1>15, <2>2 DEF ConnectOnEvent, Top, L
    <3>2. Continue(Loop, <<"ConnFailed">>) \/ Continue(Loop, << >>)
      BY <1>15, <2>2 DEF ConnectOnEvent, Return
    <3>3. <<"ConnFailed">> \in Seq(Frame) /\ ~HasCb(<<"ConnFailed">>)
      BY <1>0, FrameNames, NoCbFrames
    <3>4. CbLast(L') /\ (HasCb(L') => HasCb(L))
      BY <1>0, <3>1, <3>2, <3>3, ContinueKeepsCb, NoCbFrames
    <3>5. ~HasCb(L)
      BY <3>1 DEF CloseCbInv
    <3> QED
      BY <1>2, <3>4, <3>5
  <2> QED
    BY <2>1, <2>2
<1>16. CASE WriteOnEvent
  <2>1. CASE Misuse
    BY <1>0, <1>3, <2>1, NoCbFrames DEF Misuse, LoopCalls, L
  <2>2. CASE ~Misuse
    <3>1. L # << >> /\ (Continue(Loop, ShutdownAndClose) \/ Continue(Loop, << >>))
      BY <1>16, <2>2 DEF WriteOnEvent, Return, Top, L
    <3>2. CbLast(L') /\ (HasCb(L') => HasCb(L))
      BY <1>0, <3>1, ContinueKeepsCb, NoCbFrames
    <3>3. HasCb(L) => UNCHANGED socketVars
      BY <1>16, <2>2 DEF WriteOnEvent, CloseCbInv, socketVars
    <3> QED
      BY <1>2, <3>2, <3>3
  <2> QED
    BY <2>1, <2>2
<1>17. CASE CloseOnEvent
  <2>1. CASE Misuse
    BY <1>0, <1>3, <2>1, NoCbFrames DEF Misuse, LoopCalls, L
  <2>2. CASE ~Misuse
    <3>1. L # << >> /\ Continue(Loop, << >>)
      BY <1>17, <2>2 DEF CloseOnEvent, Return, Top, L
    <3>2. CbLast(L') /\ (HasCb(L') => HasCb(L))
      BY <1>0, <3>1, ContinueKeepsCb, NoCbFrames
    <3>3. HasCb(L) => UNCHANGED socketVars
      BY <1>17, <2>2 DEF CloseOnEvent, CloseCbInv, socketVars
    <3> QED
      BY <1>2, <3>2, <3>3
  <2> QED
    BY <2>1, <2>2
<1>18. ASSUME NEW ok \in BOOLEAN, OnConnection(ok) PROVE CloseCbInv'
  <2>1. L' = <<"Connected">> \/ L' = <<"ConnFailed", "flush_writes">>
    BY <1>0, <1>18 DEF OnConnection, LoopCalls, L
  <2> QED
    BY <1>3, <2>1, NoCbFrames
<1>19. CASE FlushWrites
  <2>1. /\ L # << >>
        /\ Continue(Loop, FailWrites(writes)) \/ Continue(Loop, << >>)
    BY <1>19 DEF FlushWrites, Return, Top, L
  <2>2. FailWrites(writes) \in Seq(Frame) /\ ~HasCb(FailWrites(writes))
    BY FailWritesType, NoCbFrames DEF TypeOK
  <2>3. CbLast(L') /\ (HasCb(L') => HasCb(L))
    BY <1>0, <2>1, <2>2, ContinueKeepsCb, NoCbFrames
  <2>4. HasCb(L) => UNCHANGED socketVars
    BY <1>19 DEF FlushWrites, CloseCbInv, socketVars
  <2> QED
    BY <1>2, <2>3, <2>4
<1>20. CASE OnReadData
  <2>1. PICK call \in Callback(ReadCalls, state) : L' = call
    BY <1>0, <1>20 DEF OnReadData, LoopCalls, L
  <2> QED
    BY <1>3, <1>10, <2>1, CallsAssumption
<1>21. CASE OnReadEof
  BY <1>3, <1>21, NoCbFrames DEF OnReadEof, LoopIdle, LoopFree, L
<1>22. CASE OnShutdown \/ OnReadError
  <2>1. L' = ShutdownAndClose
    BY <1>0, <1>22 DEF OnShutdown, OnReadError, LoopCalls, L
  <2> QED
    BY <1>3, <2>1, NoCbFrames
<1>23. ASSUME NEW ok \in BOOLEAN, OnWrite(ok) PROVE CloseCbInv'
  <2>1. L' = ShutdownAndClose \/ L' = << >>
    BY <1>0, <1>23 DEF OnWrite, LoopCalls, LoopIdle, LoopFree, L
  <2> QED
    BY <1>3, <2>1, NoCbFrames
<1>24. CASE EndIteration
  <2>1. CASE handle = "closing"
    <3>1. PICK n \in IF connect_req THEN {writes} ELSE 0..writes :
            LoopCalls((IF connect_req THEN <<"ConnFailed">> ELSE << >>)
                      \o FailWrites(n)
                      \o (IF shutdown_req THEN ShutdownAndClose ELSE << >>)
                      \o <<"close_cb">>)
      BY <1>24, <2>1 DEF EndIteration
    <3> DEFINE a == IF connect_req THEN <<"ConnFailed">> ELSE << >>
               b == IF shutdown_req THEN ShutdownAndClose ELSE << >>
               f == FailWrites(n)
               c == (a \o f) \o b
    <3>2. n \in Nat
      BY DEF TypeOK
    <3>3. /\ a \in Seq(Frame) /\ b \in Seq(Frame) /\ f \in Seq(Frame)
          /\ ~HasCb(a) /\ ~HasCb(b) /\ ~HasCb(f)
      BY <1>0, <3>2, FrameNames, FailWritesType, NoCbFrames
    <3> HIDE DEF a, b, f
    <3>4. a \o f \in Seq(Frame) /\ ~HasCb(a \o f)
      BY <3>3, ConcatHasCb
    <3>5. c \in Seq(Frame) /\ ~HasCb(c)
      BY <3>3, <3>4, ConcatHasCb
    <3>6. L' = c \o <<"close_cb">>
      BY <1>0, <3>1 DEF LoopCalls, L, a, b, f
    <3> HIDE DEF c
    <3>7. CbLast(L')
      BY <3>5, <3>6, AppendCbLast
    <3>8. handle' = "closing" /\ NoRequest'
      BY <1>24, <2>1 DEF EndIteration, NoRequest
    <3> QED
      BY <3>7, <3>8 DEF CloseCbInv
  <2>2. CASE handle # "closing"
    BY <1>1, <1>24, <2>2 DEF EndIteration, L, socketVars
  <2> QED
    BY <2>1, <2>2
<1>25. CASE OnClose
  <2>1. L # << >> /\ L[1] = "close_cb" /\ Len(L) \in Nat \ {0}
    BY <1>0, <1>25, EmptySeq DEF OnClose, Top, L
  <2>2. Len(L) = 1
    <3>1. 1 \in 1..Len(L)
      BY <2>1
    <3> QED
      BY <2>1, <3>1 DEF CloseCbInv, CbLast
  <2>3. Tail(L) \in Seq(Frame) /\ Len(Tail(L)) = 0
    BY <1>0, <2>1, <2>2, HeadTailProperties
  <2>4. Tail(L) = << >>
    BY <2>3, EmptySeq
  <2>5. <<"Closed">> \in Seq(Frame)
    BY FrameNames, FrameSeqs
  <2>6. L' = <<"Closed">> \o Tail(L)
    BY <1>0, <1>25 DEF OnClose, Continue, L
  <2>7. L' = <<"Closed">>
    BY <2>4, <2>5, <2>6, ConcatEmptySeq
  <2> QED
    BY <1>3, <2>7, NoCbFrames
<1>26. CASE UNCHANGED vars
  BY <1>1, <1>26 DEF vars, L, socketVars
<1> QED
  BY <1>6, <1>7, <1>8, <1>9, <1>11, <1>12, <1>13, <1>14, <1>15, <1>16, <1>17,
     <1>18, <1>19, <1>20, <1>21, <1>22, <1>23, <1>24, <1>25, <1>26
     DEF Next, LoopStep, ThreadStep

(* No request at first. *)
LEMMA InitRequests == Init => RequestsAnswered
BY DEF Init, RequestsAnswered

(* Every step keeps the requests answered. *)
LEMMA NextRequests ==
  TypeOK /\ CloseCbInv /\ RequestsAnswered /\ [Next]_vars => RequestsAnswered'
<1> SUFFICES ASSUME TypeOK, CloseCbInv, RequestsAnswered, [Next]_vars
             PROVE  RequestsAnswered'
  OBVIOUS
<1> USE DEF RequestsAnswered
<1>1. ASSUME UNCHANGED socketVars PROVE RequestsAnswered'
  BY <1>1 DEF socketVars
<1>2. ASSUME NEW u \in User, NEW c \in UserCalls, UserCall(u, c)
      PROVE  RequestsAnswered'
  BY <1>1, <1>2 DEF UserCall
<1>3. ASSUME NEW t \in Thread, ThreadStep(t) PROVE RequestsAnswered'
  BY <1>1, <1>3 DEF ThreadStep, Connect, Close, Write, SetState, ClientImpl
<1>4. CASE Drain \/ RunTask \/ OnReadData
  BY <1>1, <1>4 DEF Drain, RunTask, OnReadData
<1>5. CASE ConnectOnEvent
  BY <1>5 DEF ConnectOnEvent, Misuse
<1>6. CASE WriteOnEvent
  BY <1>6 DEF WriteOnEvent, Misuse
<1>7. CASE CloseOnEvent
  BY <1>7 DEF CloseOnEvent, Misuse
<1>8. ASSUME NEW ok \in BOOLEAN, OnConnection(ok) PROVE RequestsAnswered'
  BY <1>8 DEF OnConnection
<1>9. CASE FlushWrites
  BY <1>9 DEF FlushWrites
<1>10. CASE OnReadEof
  BY <1>10 DEF OnReadEof
<1>11. CASE OnShutdown \/ OnReadError
  BY <1>11 DEF OnShutdown, OnReadError
<1>12. ASSUME NEW ok \in BOOLEAN, OnWrite(ok) PROVE RequestsAnswered'
  BY <1>12 DEF OnWrite, TypeOK
<1>13. CASE EndIteration
  BY <1>13 DEF EndIteration
<1>14. CASE OnClose
  <2>1. HasCb(L)
    <3>1. Len(L) \in Nat \ {0} /\ L[1] = "close_cb"
      BY <1>14, EmptySeq DEF OnClose, Top, L, TypeOK, Thread
    <3>2. 1 \in 1..Len(L)
      BY <3>1
    <3> QED
      BY <3>1, <3>2 DEF HasCb
  <2> QED
    BY <1>14, <2>1 DEF OnClose, CloseCbInv, NoRequest
<1>15. CASE UNCHANGED vars
  BY <1>1, <1>15 DEF vars, socketVars
<1> QED
  BY <1>2, <1>3, <1>4, <1>5, <1>6, <1>7, <1>8, <1>9, <1>10, <1>11, <1>12,
     <1>13, <1>14, <1>15 DEF Next, LoopStep

(* Whatever threads and callbacks do, libuv answers every request of the   *)
(* connection before it reports the handle closed, and no request is       *)
(* attached to a handle without a connection.                              *)
THEOREM EveryRequestAnswered == Spec => []RequestsAnswered
BY InitType, NextType, InitCloseCb, NextCloseCb, InitRequests, NextRequests,
   PTL DEF Spec

-----------------------------------------------------------------------------
(* A polite application. *)

(* There are two threads, the user and the network thread. *)
LEMMA Threads ==
  ASSUME PoliteApp
  PROVE  /\ User = {TheUser} /\ TheUser # Loop
         /\ Thread = {TheUser, Loop} /\ TheUser \in Thread /\ Loop \in Thread
<1>1. PICK u \in User : User = {u}
  BY DEF PoliteApp
<1>2. TheUser = u
  BY <1>1 DEF TheUser
<1> QED
  BY <1>1, <1>2, ThreadAssumption DEF Thread

(* Sequences of one element. *)
LEMMA Singleton ==
  ASSUME NEW S, NEW s \in Seq(S), Len(s) = 1
  PROVE  s # << >> /\ s = <<s[1]>> /\ Head(s) = s[1] /\ Tail(s) = << >>
<1>1. s # << >>
  BY EmptySeq
<1>2. Tail(s) \in Seq(S) /\ Len(Tail(s)) = 0
  BY <1>1, HeadTailProperties
<1>3. Tail(s) = << >>
  BY <1>2, EmptySeq
<1>4. s[1] \in S
  BY ElementOfSeq
<1>5. <<s[1]>> \in Seq(S) /\ Len(<<s[1]>>) = 1 /\ <<s[1]>>[1] = s[1]
  BY <1>4
<1>6. s = <<s[1]>>
  BY <1>5, SeqEqual
<1> QED
  BY <1>1, <1>3, <1>6

(* The innermost call of the network thread. *)
LEMMA TopOfLoop ==
  ASSUME PoliteApp, TypeOK, NEW f, Top(Loop, f)
  PROVE  /\ L \in Seq(Frame) /\ L # << >> /\ L[1] = f
         /\ Len(L) \in Nat \ {0} /\ 1 \in 1..Len(L)
<1>1. L \in Seq(Frame) /\ L # << >> /\ Head(L) = f
  BY Threads DEF TypeOK, Top, L
<1>2. Len(L) \in Nat \ {0}
  BY <1>1, EmptySeq
<1> QED
  BY <1>1, <1>2

(* A call that is not Ordinary and not close_cb is alone on its stack.     *)
LEMMA AloneOnLoop ==
  ASSUME PoliteApp, TypeOK, LoopStack, NEW f, Top(Loop, f), f \notin Ordinary, f # "close_cb"
  PROVE  L = <<f>> /\ f \in {"ConnectOnEvent", "Closed"}
<1>1. Len(L) = 1 /\ L[1] \in {"ConnectOnEvent", "Closed"}
  BY TopOfLoop DEF LoopStack
<1> QED
  BY <1>1, TopOfLoop, Singleton

(* Returning from the innermost call and making ordinary calls instead     *)
(* keeps the shape of the network thread's stack.                          *)
LEMMA ContinueKeepsLoopStack ==
  ASSUME PoliteApp, TypeOK, LoopStack, L # << >>, NEW fr \in Seq(Frame),
         \A i \in 1..Len(fr) : fr[i] \in Ordinary,
         Continue(Loop, fr),
         handle = "closing" => handle' = "closing"
  PROVE  LoopStack' /\ L' # <<"Closed">> /\ L' # <<"ConnectOnEvent">>
<1>1. L \in Seq(Frame) /\ L' = fr \o Tail(L)
  BY Threads DEF TypeOK, Continue, L
<1>2. /\ Tail(L) \in Seq(Frame) /\ Len(Tail(L)) = Len(L) - 1
      /\ \A i \in 1..Len(Tail(L)) : Tail(L)[i] = L[i + 1]
  BY <1>1, HeadTailProperties
<1>3. Len(L) \in Nat \ {0} /\ Len(fr) \in Nat
  BY <1>1, EmptySeq, LenProperties
<1>4. /\ Len(L') = Len(fr) + Len(L) - 1
      /\ \A i \in 1..Len(L') : L'[i] = IF i <= Len(fr) THEN fr[i]
                                       ELSE Tail(L)[i - Len(fr)]
  BY <1>1, <1>2, <1>3, ConcatProperties
<1>5. ASSUME NEW i \in 1..Len(L')
      PROVE  \/ L'[i] \in Ordinary
             \/ L'[i] = "close_cb" /\ i = Len(L') /\ handle' = "closing"
  <2>1. CASE i <= Len(fr)
    BY <1>3, <1>4, <2>1
  <2>2. CASE ~(i <= Len(fr))
    <3> DEFINE j == i - Len(fr) + 1
    <3>1. i - Len(fr) \in 1..Len(Tail(L)) /\ j \in 1..Len(L) /\ j > 1
      BY <1>2, <1>3, <1>4, <2>2
    <3>2. L'[i] = L[j]
      BY <1>2, <1>4, <2>2, <3>1
    <3>3. L[j] \in Ordinary \/ (L[j] = "close_cb" /\ j = Len(L) /\ handle = "closing")
      BY <3>1, <1>3 DEF LoopStack
    <3>4. j = Len(L) => i = Len(L')
      BY <1>3, <1>4
    <3> QED
      BY <3>2, <3>3, <3>4
  <2> QED
    BY <2>1, <2>2
<1>6. LoopStack'
  BY <1>5 DEF LoopStack
<1>7. L' # <<"Closed">> /\ L' # <<"ConnectOnEvent">>
  <2>1. ASSUME NEW f, L' = <<f>> PROVE f \in Ordinary \/ f = "close_cb"
    <3>1. Len(L') = 1 /\ L'[1] = f
      BY <2>1
    <3> QED
      BY <1>5, <3>1
  <2> QED
    BY <2>1 DEF Ordinary
<1> QED
  BY <1>6, <1>7

(* The constructor establishes the invariant. *)
LEMMA InitPolite ==
  ASSUME PoliteApp
  PROVE  Init => PoliteInv
<1> SUFFICES ASSUME Init PROVE PoliteInv
  OBVIOUS
<1>1. U = << >> /\ L = << >> /\ tasks = << >> /\ state = "Closed" /\ handle = "none"
  BY Threads DEF Init, U, L
<1>2. LoopStack
  BY <1>1 DEF LoopStack
<1>3. ~UserConnects /\ ~Posted
  BY <1>1 DEF UserConnects, Posted
<1>4. OneConnect
  BY <1>1, <1>3 DEF OneConnect
<1> QED
  BY <1>1, <1>2, <1>4 DEF PoliteInv, UserStacks, FirstConnect,
                          ClosedIsReleased, NeverBroken

(* A step of the network thread that keeps the queue and the user, leaves  *)
(* a released handle alone and does not set Closed.                        *)
LEMMA LoopStepKeeps ==
  ASSUME TypeOK, PoliteInv, UNCHANGED tasks, U' = U, LoopStack',
         L' # <<"Closed">>, L' # <<"ConnectOnEvent">>,
         handle # "none", handle' \notin {"none", "broken"},
         handle = "closed" => handle' = "closed",
         handle' = "closed" => handle = "closed",
         state' = "Closed" => state = "Closed"
  PROVE  PoliteInv'
<1>1. /\ UserConnects' <=> UserConnects
      /\ Posted' => Posted
  BY DEF UserConnects, Posted
<1>2. OneConnect'
  BY <1>1 DEF PoliteInv, OneConnect
<1> QED
  BY <1>2 DEF PoliteInv, UserStacks, FirstConnect, ClosedIsReleased, NeverBroken

(* handleStates makes no call, handleRead no Connect. *)
LEMMA PoliteCallbacks ==
  ASSUME PoliteApp
  PROVE  /\ \A s : Callback(StatesCalls, s) = {<< >>}
         /\ \A s : \A c \in Callback(ReadCalls, s) : c \in {<< >>, <<"Close">>, <<"Write">>}
BY DEF PoliteApp, Callback

-----------------------------------------------------------------------------
(* Steps of the network thread. *)

(* The network thread calls only about an initialised handle. *)
LEMMA LoopHandle ==
  ASSUME PoliteInv, NEW f, L # << >>, L # <<"ConnectOnEvent">>
  PROVE  handle # "none"
BY DEF PoliteInv, FirstConnect

(* The innermost call of the network thread makes ordinary calls.          *)
LEMMA OrdinaryStep ==
  ASSUME PoliteApp, TypeOK, PoliteInv, NEW f \in Ordinary, Top(Loop, f),
         NEW fr \in Seq(Frame), \A i \in 1..Len(fr) : fr[i] \in Ordinary,
         Continue(Loop, fr), UNCHANGED tasks,
         \/ handle' = handle
         \/ handle' = "closing" /\ handle # "closed",
         state' = "Closed" => state = "Closed"
  PROVE  PoliteInv'
<1>1. L \in Seq(Frame) /\ L # << >> /\ L[1] = f
  BY TopOfLoop
<1>2. L # <<"ConnectOnEvent">>
  BY <1>1 DEF Ordinary
<1>3. handle # "none"
  BY <1>1, <1>2, LoopHandle
<1>4. LoopStack' /\ L' # <<"Closed">> /\ L' # <<"ConnectOnEvent">>
  BY <1>1, ContinueKeepsLoopStack DEF PoliteInv
<1>5. U' = U
  BY Threads DEF Continue, U, TypeOK
<1>6. handle # "broken"
  BY DEF PoliteInv, NeverBroken
<1> QED
  BY <1>3, <1>4, <1>5, <1>6, LoopStepKeeps

(* A callback of libuv on an idle network thread makes ordinary calls.     *)
LEMMA EventStep ==
  ASSUME PoliteApp, TypeOK, PoliteInv, NEW fr \in Seq(Frame),
         \A i \in 1..Len(fr) : fr[i] \in Ordinary,
         LoopCalls(fr), UNCHANGED <<tasks, state>>,
         handle \in {"socket", "stream", "shut"},
         handle' \in {"socket", "stream", "shut"}
  PROVE  PoliteInv'
<1>1. L' = fr /\ U' = U
  BY Threads DEF LoopCalls, L, U, TypeOK
<1>2. LoopStack'
  BY <1>1 DEF LoopStack
<1>3. ASSUME NEW f, L' = <<f>> PROVE f \in Ordinary
  <2>1. Len(fr) = 1 /\ fr[1] = f
    BY <1>1, <1>3
  <2> QED
    BY <2>1
<1>4. L' # <<"Closed">> /\ L' # <<"ConnectOnEvent">>
  BY <1>3 DEF Ordinary
<1> QED
  BY <1>1, <1>2, <1>4, LoopStepKeeps

(* Sequences of one and two ordinary calls are ordinary. *)
LEMMA OrdinaryFrames ==
  /\ \A f \in Ordinary : <<f>> \in Seq(Frame) /\ \A i \in 1..Len(<<f>>) : <<f>>[i] \in Ordinary
  /\ \A f, g \in Ordinary : /\ <<f, g>> \in Seq(Frame)
                            /\ \A i \in 1..Len(<<f, g>>) : <<f, g>>[i] \in Ordinary
  /\ << >> \in Seq(Frame) /\ \A i \in 1..Len(<< >>) : << >>[i] \in Ordinary
<1>1. Ordinary \subseteq Frame
  BY DEF Ordinary, Frame, Call, ConnectionState, ClientCall, EventCall
<1> QED
  BY <1>1

(* Failing writes only reports errors. *)
LEMMA FailWritesOrdinary ==
  ASSUME NEW n \in Nat
  PROVE  FailWrites(n) \in Seq(Frame) /\ \A i \in 1..Len(FailWrites(n)) : FailWrites(n)[i] \in Ordinary
<1>1. FailWrites(n) \in Seq(Frame)
  BY FailWritesType
<1>2. DOMAIN FailWrites(n) = 1..2 * n
  BY DEF FailWrites
<1>3. DOMAIN FailWrites(n) = 1..Len(FailWrites(n))
  BY <1>1, LenProperties
<1>4. \A i \in 1..2 * n : FailWrites(n)[i] \in {"Shutdown", "client.Close"}
  BY DEF FailWrites
<1> QED
  BY <1>1, <1>2, <1>3, <1>4 DEF Ordinary

(* A call of the application on the network thread keeps the invariant.    *)
LEMMA LoopThreadStep ==
  ASSUME PoliteApp, TypeOK, PoliteInv, ThreadStep(Loop)
  PROVE  PoliteInv'
<1>0. LoopStack
  BY DEF PoliteInv
<1>1. ASSUME NEW f, Top(Loop, f), f \notin Ordinary
      PROVE  f \in {"ConnectOnEvent", "Closed", "close_cb"}
  BY <1>0, <1>1, AloneOnLoop
<1>2. CASE Connect(Loop)
  BY <1>1, <1>2 DEF Connect, Ordinary
<1>3. CASE Close(Loop)
  <2>1. \/ Continue(Loop, <<"Closing", "client.Close">>)
        \/ Continue(Loop, << >>)
    BY <1>3 DEF Close, Return
  <2>2. "Closing" \in Ordinary /\ "client.Close" \in Ordinary /\ "Close" \in Ordinary
    BY DEF Ordinary
  <2> QED
    BY <1>3, <2>1, <2>2, OrdinaryFrames, OrdinaryStep
       DEF Close, queueVars, socketVars
<1>4. CASE Write(Loop)
  <2>1. Continue(Loop, <<"client.Write">>) \/ Continue(Loop, << >>)
    BY <1>4 DEF Write, Return
  <2>2. "client.Write" \in Ordinary /\ "Write" \in Ordinary
    BY DEF Ordinary
  <2> QED
    BY <1>4, <2>1, <2>2, OrdinaryFrames, OrdinaryStep
       DEF Write, queueVars, socketVars
<1>5. CASE SetState(Loop)
  <2>1. PICK s \in ConnectionState :
          /\ Top(Loop, s) /\ state' = s /\ Continue(Loop, << >>)
          /\ UNCHANGED <<queueVars, socketVars>>
    BY <1>5, PoliteCallbacks DEF SetState
  <2>2. CASE s = "Closed"
    <3>1. L = <<"Closed">> /\ L \in Seq(Frame) /\ Len(L) = 1
      BY <2>1, <2>2, <1>0, AloneOnLoop, TopOfLoop DEF Ordinary
    <3>2. handle = "closed"
      <4>1. 1 \in 1..Len(L) /\ L[1] = "Closed" /\ "Closed" \notin Ordinary
        BY <3>1 DEF Ordinary
      <4> QED
        BY <4>1, <1>0 DEF LoopStack
    <3>3. L' = << >> /\ U' = U
      <4>1. L' = << >> \o Tail(L) /\ U' = U
        BY <2>1, Threads DEF Continue, L, U, TypeOK
      <4>2. Tail(L) = << >>
        BY <3>1, Singleton
      <4> QED
        BY <4>1, <4>2, OrdinaryFrames, ConcatEmptySeq
    <3>4. ~UserConnects /\ ~Posted
      BY <3>1 DEF PoliteInv, OneConnect
    <3>5. handle' = "closed" /\ tasks' = tasks
      BY <2>1, <3>2 DEF queueVars, socketVars
    <3>6. ~UserConnects' /\ ~Posted'
      BY <3>3, <3>4, <3>5 DEF UserConnects, Posted
    <3>7. UserStacks'
      BY <3>3 DEF PoliteInv, UserStacks
    <3>8. LoopStack'
      BY <3>3 DEF LoopStack
    <3>9. U' # <<"client.Connect">>
      BY <3>6 DEF UserConnects
    <3>10. OneConnect'
      BY <3>3, <3>6, <3>9 DEF OneConnect, Posted
    <3> QED
      BY <3>5, <3>7, <3>8, <3>10
         DEF PoliteInv, FirstConnect, ClosedIsReleased, NeverBroken
  <2>3. CASE s # "Closed"
    <3>1. s \in Ordinary
      BY <1>1, <2>1, <2>3 DEF ConnectionState
    <3> QED
      BY <2>1, <2>3, <3>1, OrdinaryFrames, OrdinaryStep DEF queueVars, socketVars
  <2> QED
    BY <2>2, <2>3
<1>6. CASE ClientImpl(Loop)
  <2>1. PICK c \in ClientCall :
          /\ Top(Loop, c) /\ Continue(Loop, <<OnEvent[c]>>)
          /\ UNCHANGED <<state, tasks, socketVars>>
    BY <1>6 DEF ClientImpl
  <2>2. c \in Ordinary
    BY <1>1, <2>1 DEF ClientCall
  <2>3. OnEvent[c] \in Ordinary
    BY <2>2 DEF ClientCall, OnEvent, Ordinary
  <2> QED
    BY <2>1, <2>2, <2>3, OrdinaryFrames, OrdinaryStep DEF socketVars
<1> QED
  BY <1>2, <1>3, <1>4, <1>5, <1>6 DEF ThreadStep
-----------------------------------------------------------------------------
(* Steps of the user. *)

(* A step of the user leaves the stack of the network thread alone.        *)
LEMMA UserMoves ==
  ASSUME PoliteApp, TypeOK, NEW fr \in Seq(Frame), Continue(TheUser, fr)
  PROVE  U' = fr \o Tail(U) /\ L' = L
BY Threads DEF Continue, U, L, TypeOK

(* Where the user is when its innermost call is f. *)
LEMMA TopOfUser ==
  ASSUME UserStacks, NEW f, Top(TheUser, f)
  PROVE  \/ f \in Call \cup ClientCall /\ U = <<f>>
         \/ f = "Connecting" /\ U = <<f, "client.Connect">>
         \/ f = "Closing" /\ U = <<f, "client.Close">>
BY DEF UserStacks, Top, U, Call, ClientCall

(* Calls in progress that hold one call, or two, after the innermost one   *)
(* made the calls in fr.                                                   *)
LEMMA UserReturns ==
  ASSUME PoliteApp, TypeOK, NEW fr \in Seq(Frame), Continue(TheUser, fr), NEW f, U = <<f>>
  PROVE  U' = fr /\ L' = L
<1>1. Tail(<<f>>) = << >>
  OBVIOUS
<1>2. U' = fr \o << >> /\ L' = L
  BY <1>1, UserMoves
<1> QED
  BY <1>2, ConcatEmptySeq

(* The second of two calls becomes the innermost one. *)
LEMMA UserProceeds ==
  ASSUME PoliteApp, TypeOK, Continue(TheUser, << >>), NEW f \in Frame, NEW g \in Frame,
         U = <<f, g>>
  PROVE  U' = <<g>> /\ L' = L
<1>1. Tail(<<f, g>>) = <<g>>
  OBVIOUS
<1>2. U' = << >> \o <<g>> /\ L' = L
  BY <1>1, UserMoves, FrameSeqs
<1>3. << >> \o <<g>> = <<g>>
  BY ConcatEmptySeq, FrameSeqs
<1> QED
  BY <1>2, <1>3

(* A step of a user's call keeps the invariant. *)
LEMMA UserStep ==
  ASSUME PoliteApp, TypeOK, PoliteInv, ThreadStep(TheUser)
  PROVE  PoliteInv'
<1> USE DEF PoliteInv
<1>1. CASE Connect(TheUser)
  <2>1. U = <<"Connect">>
    BY <1>1, TopOfUser DEF Connect
  <2>2. U' \in {<< >>, <<"Connecting", "client.Connect">>} /\ L' = L
    <3>1. \/ Continue(TheUser, << >>)
          \/ Continue(TheUser, <<"Connecting", "client.Connect">>)
      BY <1>1 DEF Connect, Return
    <3>2. "Connecting" \in Frame /\ "client.Connect" \in Frame
      BY FrameNames DEF ClientCall
    <3> QED
      BY <2>1, <3>1, <3>2, UserReturns, FrameSeqs
  <2>3. UNCHANGED <<state, tasks, handle>>
    BY <1>1 DEF Connect, queueVars, socketVars
  <2>4. UserConnects /\ (Posted' <=> Posted)
    BY <2>1, <2>2, <2>3 DEF UserConnects, Posted
  <2>5. OneConnect'
    BY <2>2, <2>3, <2>4 DEF OneConnect
  <2>6. FirstConnect'
    BY <2>1, <2>2, <2>3 DEF FirstConnect
  <2> QED
    BY <2>2, <2>3, <2>5, <2>6
       DEF UserStacks, LoopStack, ClosedIsReleased, NeverBroken
<1>2. ASSUME Close(TheUser) \/ Write(TheUser) PROVE PoliteInv'
  <2>1. U \in {<<"Close">>, <<"Write">>}
    BY <1>2, TopOfUser DEF Close, Write
  <2>2. /\ \/ U' = << >>
           \/ /\ U' \in {<<"Closing", "client.Close">>, <<"client.Write">>}
              /\ state # "Closed"
        /\ L' = L
    <3>1. \/ Continue(TheUser, << >>)
          \/ Continue(TheUser, <<"Closing", "client.Close">>) /\ state # "Closed"
          \/ Continue(TheUser, <<"client.Write">>) /\ state # "Closed"
      BY <1>2 DEF Close, Write, Return, CheckIsRunning
    <3>2. "Closing" \in Frame /\ "client.Close" \in Frame /\ "client.Write" \in Frame
      BY FrameNames DEF ClientCall
    <3> QED
      BY <2>1, <3>1, <3>2, UserReturns, FrameSeqs
  <2>3. UNCHANGED <<state, tasks, handle>>
    BY <1>2 DEF Close, Write, queueVars, socketVars
  <2>4. ~UserConnects' /\ (Posted' <=> Posted)
    BY <2>2, <2>3 DEF UserConnects, Posted
  <2>5. U' # <<"client.Connect">>
    BY <2>4 DEF UserConnects
  <2>6. OneConnect'
    BY <2>2, <2>3, <2>4, <2>5 DEF OneConnect
  <2>7. FirstConnect'
    BY <2>1, <2>2, <2>3 DEF FirstConnect
  <2> QED
    BY <2>2, <2>3, <2>6, <2>7
       DEF UserStacks, LoopStack, ClosedIsReleased, NeverBroken
<1>3. CASE SetState(TheUser)
  <2>1. PICK s \in ConnectionState :
          /\ Top(TheUser, s) /\ state' = s /\ Continue(TheUser, << >>)
          /\ UNCHANGED <<queueVars, socketVars>>
    BY <1>3, PoliteCallbacks DEF SetState
  <2>2. \/ s = "Connecting" /\ U = <<s, "client.Connect">>
        \/ s = "Closing" /\ U = <<s, "client.Close">>
    BY <2>1, TopOfUser DEF ConnectionState, Call, ClientCall
  <2>3. \/ U = <<"Connecting", "client.Connect">> /\ U' = <<"client.Connect">>
        \/ U = <<"Closing", "client.Close">> /\ U' = <<"client.Close">>
    <3>1. "Connecting" \in Frame /\ "Closing" \in Frame
      BY FrameNames
    <3>2. "client.Connect" \in Frame /\ "client.Close" \in Frame
      BY FrameNames DEF ClientCall
    <3> QED
      BY <2>1, <2>2, <3>1, <3>2, UserProceeds
  <2>4. /\ L' = L /\ UNCHANGED <<tasks, handle>>
        /\ state' # "Closed"
    BY <2>1, <2>2, UserMoves, FrameSeqs DEF queueVars, socketVars
  <2>5. (UserConnects' <=> UserConnects) /\ (Posted' <=> Posted)
    BY <2>3, <2>4 DEF UserConnects, Posted
  <2>6. OneConnect'
    BY <2>4, <2>5 DEF OneConnect
  <2>7. FirstConnect'
    BY <2>3, <2>4 DEF FirstConnect
  <2> QED
    BY <2>3, <2>4, <2>6, <2>7
       DEF UserStacks, LoopStack, ClosedIsReleased, NeverBroken
<1>4. CASE ClientImpl(TheUser)
  <2>1. PICK c \in ClientCall :
          /\ Top(TheUser, c) /\ Continue(TheUser, << >>)
          /\ tasks' = Append(tasks, OnEvent[c])
          /\ UNCHANGED <<state, handle>>
    BY <1>4, Threads DEF ClientImpl, Return, socketVars
  <2>2. U = <<c>>
    BY <2>1, TopOfUser DEF ClientCall
  <2>3. U' = << >> /\ L' = L
    BY <2>1, <2>2, UserReturns, FrameSeqs
  <2>4. OnEvent[c] \in EventCall /\ (OnEvent[c] = "ConnectOnEvent" <=> c = "client.Connect")
    BY DEF OnEvent, ClientCall, EventCall
  <2>5. /\ tasks \in Seq(EventCall) /\ Len(tasks) \in Nat
        /\ Len(tasks') = Len(tasks) + 1
        /\ \A i \in 1..Len(tasks) : tasks'[i] = tasks[i]
        /\ tasks'[Len(tasks) + 1] = OnEvent[c]
    BY <2>1, <2>4, AppendProperties, LenProperties DEF TypeOK
  <2>6. CASE c = "client.Connect"
    <3>1. /\ UserConnects /\ ~Posted /\ state # "Closed" /\ L # <<"Closed">>
          /\ handle \in {"none", "closed"}
      BY <2>2, <2>6 DEF UserConnects, OneConnect
    <3>2. L # <<"ConnectOnEvent">> /\ \A i \in 1..Len(tasks) : tasks[i] # "ConnectOnEvent"
      BY <3>1 DEF Posted
    <3>3. \A i \in 1..Len(tasks') : tasks'[i] = "ConnectOnEvent" => i = Len(tasks')
      BY <2>5, <3>2
    <3>4. OneConnect'
      BY <2>1, <2>3, <3>1, <3>2, <3>3 DEF OneConnect, UserConnects
    <3>5. FirstConnect'
      <4>1. SUFFICES ASSUME handle = "none" PROVE FirstConnect'
        BY <2>1 DEF FirstConnect
      <4>2. L = << >> /\ tasks = << >>
        <5>1. tasks # << >> => 1 \in 1..Len(tasks)
          BY <2>5, EmptySeq
        <5> QED
          BY <4>1, <3>2, <5>1 DEF FirstConnect
      <4>3. tasks' # << >> /\ tasks'[1] = "ConnectOnEvent"
        <5>1. Len(tasks) = 0 /\ Len(tasks') = 1
          BY <4>2, <2>5
        <5> QED
          BY <5>1, <2>5, <2>4, <2>6
      <4> QED
        BY <4>2, <4>3, <2>3 DEF FirstConnect
    <3> QED
      BY <2>1, <2>3, <3>4, <3>5
         DEF UserStacks, LoopStack, ClosedIsReleased, NeverBroken
  <2>7. CASE c # "client.Connect"
    <3>1. \A i \in 1..Len(tasks') : tasks'[i] = "ConnectOnEvent" => i \in 1..Len(tasks)
      BY <2>4, <2>5, <2>7
    <3>2. (Posted' => Posted) /\ ~UserConnects' /\ U' # <<"client.Connect">>
      BY <2>3, <2>5, <3>1 DEF Posted, UserConnects
    <3>3. OneConnect'
      <4>1. L' = <<"ConnectOnEvent">> =>
              \A i \in 1..Len(tasks') : tasks'[i] # "ConnectOnEvent"
        BY <2>3, <2>5, <3>1 DEF OneConnect
      <4>2. \A i, j \in 1..Len(tasks') :
              tasks'[i] = "ConnectOnEvent" /\ tasks'[j] = "ConnectOnEvent" => i = j
        BY <2>5, <3>1 DEF OneConnect
      <4> QED
        BY <2>1, <2>3, <3>2, <4>1, <4>2 DEF OneConnect
    <3>4. FirstConnect'
      <4>1. U \in {<<"client.Close">>, <<"client.Write">>}
        BY <2>2, <2>7 DEF ClientCall
      <4>2. tasks # << >> => tasks' # << >> /\ tasks'[1] = tasks[1]
        <5>1. tasks # << >> => 1 \in 1..Len(tasks)
          BY <2>5, EmptySeq
        <5>2. tasks' # << >>
          BY <2>5
        <5> QED
          BY <5>1, <5>2, <2>5
      <4> QED
        BY <4>1, <4>2, <2>1, <2>3 DEF FirstConnect
    <3> QED
      BY <2>1, <2>3, <3>3, <3>4
         DEF UserStacks, LoopStack, ClosedIsReleased, NeverBroken
  <2> QED
    BY <2>6, <2>7
<1> QED
  BY <1>1, <1>2, <1>3, <1>4 DEF ThreadStep

(* A new call of the user keeps the invariant. *)
LEMMA UserCallStep ==
  ASSUME PoliteApp, TypeOK, PoliteInv, NEW u \in User, NEW c \in UserCalls, UserCall(u, c)
  PROVE  PoliteInv'
<1> USE DEF PoliteInv
<1>1. u = TheUser /\ c \in Call
  BY Threads, CallsAssumption
<1>2. U = << >> /\ U' = <<c>> /\ L' = L
  BY <1>1, Threads DEF UserCall, U, L, TypeOK
<1>3. UNCHANGED <<state, tasks, handle>>
  BY DEF UserCall, queueVars, socketVars
<1>4. c = "Connect" => state = "Closed"
  BY DEF PoliteApp, UserCall
<1>5. U' \in {<<"Connect">>, <<"Close">>, <<"Write">>}
  BY <1>1, <1>2 DEF Call
<1>6. UserConnects' => c = "Connect"
  BY <1>1, <1>2 DEF UserConnects, Call
<1>7. U' # <<"client.Connect">> /\ (Posted' <=> Posted)
  BY <1>2, <1>3, <1>5 DEF Posted
<1>8. c = "Connect" =>
        ~Posted /\ handle \in {"none", "closed"} /\ L # <<"Closed">>
  <2>1. L = <<"Closed">> => state # "Closed"
    <3>1. L = <<"Closed">> => 1 \in 1..Len(L) /\ L[1] = "Closed"
      OBVIOUS
    <3> QED
      BY <3>1 DEF LoopStack, Ordinary
  <2> QED
    BY <1>4, <2>1 DEF OneConnect, ClosedIsReleased
<1>9. OneConnect'
  BY <1>2, <1>3, <1>6, <1>7, <1>8 DEF OneConnect
<1>10. FirstConnect'
  BY <1>2, <1>3, <1>5 DEF FirstConnect
<1> QED
  BY <1>2, <1>3, <1>5, <1>9, <1>10
     DEF UserStacks, LoopStack, ClosedIsReleased, NeverBroken
-----------------------------------------------------------------------------
(* The other steps of the network thread. *)

(* Taking the next operation from the queue keeps the invariant.           *)
LEMMA RunTaskStep ==
  ASSUME PoliteApp, TypeOK, PoliteInv, RunTask
  PROVE  PoliteInv'
<1> USE DEF PoliteInv
<1>1. L = << >> /\ tasks # << >> /\ tasks \in Seq(EventCall) /\ Len(tasks) \in Nat \ {0}
  <2>1. tasks \in Seq(EventCall) /\ L = << >> /\ Len(tasks) \in Nat
    BY LenProperties DEF TypeOK, RunTask, LoopFree
  <2>2. Len(tasks) # 0
    BY <2>1 DEF TypeOK, RunTask
  <2> QED
    BY <2>1, <2>2, EmptySeq
<1>2. /\ tasks[1] \in EventCall /\ Head(tasks) = tasks[1]
      /\ tasks' \in Seq(EventCall) /\ Len(tasks') = Len(tasks) - 1
      /\ \A i \in 1..Len(tasks') : tasks'[i] = tasks[i + 1]
  BY <1>1, HeadTailProperties, ElementOfSeq DEF RunTask
<1>3. L' = <<tasks[1]>> /\ U' = U
  BY <1>2, Threads DEF RunTask, L, U, TypeOK
<1>4. UNCHANGED <<state, handle>>
  BY DEF RunTask, socketVars
<1>5. LoopStack'
  <2>1. tasks[1] \in Ordinary \/ tasks[1] = "ConnectOnEvent"
    BY <1>2 DEF EventCall, Ordinary
  <2>2. Len(L') = 1 /\ L'[1] = tasks[1]
    BY <1>3
  <2> QED
    BY <2>1, <2>2 DEF LoopStack
<1>6. L' # <<"Closed">> /\ (L' = <<"ConnectOnEvent">> => tasks[1] = "ConnectOnEvent")
  <2>1. \A f : L' = <<f>> => f = tasks[1]
    BY <1>3
  <2> QED
    BY <1>2, <2>1 DEF EventCall
<1>7. (Posted' => Posted) /\ (UserConnects' <=> UserConnects)
  <2>1. \A i \in 1..Len(tasks') : i + 1 \in 1..Len(tasks)
    BY <1>1, <1>2
  <2>2. 1 \in 1..Len(tasks)
    BY <1>1
  <2> QED
    BY <1>2, <1>3, <1>6, <2>1, <2>2 DEF Posted, UserConnects
<1>8. OneConnect'
  <2>1. \A i \in 1..Len(tasks') : i \in Nat \ {0} /\ i + 1 \in 1..Len(tasks)
    BY <1>1, <1>2
  <2>2. 1 \in 1..Len(tasks)
    BY <1>1
  <2>3. /\ L' = <<"ConnectOnEvent">> =>
             \A i \in 1..Len(tasks') : tasks'[i] # "ConnectOnEvent"
        /\ \A i, j \in 1..Len(tasks') :
             tasks'[i] = "ConnectOnEvent" /\ tasks'[j] = "ConnectOnEvent" => i = j
    BY <1>2, <1>6, <2>1, <2>2 DEF OneConnect
  <2> QED
    BY <1>3, <1>4, <1>6, <1>7, <2>3 DEF OneConnect
<1>9. FirstConnect'
  BY <1>1, <1>3, <1>4 DEF FirstConnect
<1> QED
  BY <1>3, <1>4, <1>5, <1>8, <1>9 DEF UserStacks, ClosedIsReleased, NeverBroken

(* The connect finds no handle in use and keeps the invariant. *)
LEMMA ConnectOnEventStep ==
  ASSUME PoliteApp, TypeOK, PoliteInv, ConnectOnEvent
  PROVE  PoliteInv'
<1> USE DEF PoliteInv
<1>1. L = <<"ConnectOnEvent">>
  BY AloneOnLoop DEF ConnectOnEvent, Ordinary
<1>2. Posted
  BY <1>1 DEF Posted
<1>3. /\ handle \in {"none", "closed"} /\ state # "Closed" /\ ~UserConnects
      /\ \A i \in 1..Len(tasks) : tasks[i] # "ConnectOnEvent"
  BY <1>1, <1>2 DEF OneConnect
<1>4. /\ Continue(Loop, << >>) \/ Continue(Loop, <<"ConnFailed">>)
      /\ handle' \in {"init", "socket"}
      /\ UNCHANGED <<state, tasks>>
  BY <1>3 DEF ConnectOnEvent, Return, queueVars
<1>5. Tail(L) = << >>
  BY <1>1
<1>6. L' \in {<< >>, <<"ConnFailed">>} /\ U' = U
  <2>1. <<"ConnFailed">> \in Seq(Frame)
    BY FrameSeqs, FrameNames
  <2>2. L' \in {<< >> \o Tail(L), <<"ConnFailed">> \o Tail(L)} /\ U' = U
    BY <1>4, Threads DEF Continue, L, U, TypeOK
  <2> QED
    BY <1>5, <2>1, <2>2, FrameSeqs, ConcatEmptySeq
<1>7. LoopStack'
  BY <1>6 DEF LoopStack, Ordinary
<1>8. L' # <<"Closed">> /\ L' # <<"ConnectOnEvent">>
  BY <1>6
<1>9. ~Posted' /\ ~UserConnects' /\ U' # <<"client.Connect">>
  BY <1>3, <1>4, <1>6, <1>8 DEF Posted, UserConnects
<1>10. OneConnect'
  BY <1>3, <1>4, <1>8, <1>9 DEF OneConnect
<1> QED
  BY <1>3, <1>4, <1>6, <1>7, <1>10
     DEF UserStacks, FirstConnect, ClosedIsReleased, NeverBroken

(* The other operations keep the invariant. *)
LEMMA OrdinaryEventStep ==
  ASSUME PoliteApp, TypeOK, PoliteInv, WriteOnEvent \/ CloseOnEvent \/ FlushWrites
  PROVE  PoliteInv'
<1>1. handle # "none"
  <2>1. ASSUME NEW f \in {"WriteOnEvent", "CloseOnEvent", "flush_writes"},
               Top(Loop, f)
        PROVE  handle # "none"
    <3>1. L # << >> /\ L[1] = f
      BY <2>1, TopOfLoop
    <3> QED
      BY <3>1, LoopHandle
  <2> QED
    BY <2>1 DEF WriteOnEvent, CloseOnEvent, FlushWrites
<1>2. {"WriteOnEvent", "CloseOnEvent", "flush_writes", "Shutdown", "client.Close"}
        \subseteq Ordinary
  BY DEF Ordinary
<1>3. CASE WriteOnEvent
  <2>1. Continue(Loop, << >>) \/ Continue(Loop, <<"Shutdown", "client.Close">>)
    BY <1>1, <1>3 DEF WriteOnEvent, Return, ShutdownAndClose
  <2> QED
    BY <1>1, <1>2, <1>3, <2>1, OrdinaryFrames, OrdinaryStep
       DEF WriteOnEvent, queueVars
<1>4. CASE CloseOnEvent
  <2>1. Continue(Loop, << >>)
    BY <1>1, <1>4 DEF CloseOnEvent, Return
  <2> QED
    BY <1>1, <1>2, <1>4, <2>1, OrdinaryFrames, OrdinaryStep
       DEF CloseOnEvent, queueVars
<1>5. CASE FlushWrites
  <2>1. Continue(Loop, << >>) \/ Continue(Loop, FailWrites(writes))
    BY <1>5 DEF FlushWrites, Return
  <2>2. writes \in Nat
    BY DEF TypeOK
  <2> QED
    BY <1>2, <1>5, <2>1, <2>2, OrdinaryFrames, FailWritesOrdinary, OrdinaryStep
       DEF FlushWrites, queueVars
<1> QED
  BY <1>3, <1>4, <1>5

(* libuv's callbacks on a socket in use. *)
LEMMA SocketCallbackStep ==
  ASSUME PoliteApp, TypeOK, PoliteInv,
         \/ \E ok \in BOOLEAN : OnConnection(ok) \/ OnWrite(ok)
         \/ OnReadData \/ OnReadEof \/ OnShutdown \/ OnReadError
  PROVE  PoliteInv'
<1>1. {"Connected", "ConnFailed", "flush_writes", "Shutdown", "client.Close",
       "Close", "Write"} \subseteq Ordinary
  BY DEF Ordinary
<1>2. ASSUME NEW ok \in BOOLEAN, OnConnection(ok) PROVE PoliteInv'
  <2>1. \/ LoopCalls(<<"Connected">>)
        \/ LoopCalls(<<"ConnFailed", "flush_writes">>)
    BY <1>2 DEF OnConnection
  <2>2. /\ handle \in {"socket", "stream", "shut"}
        /\ handle' \in {"socket", "stream", "shut"}
        /\ UNCHANGED <<tasks, state>>
    BY <1>2 DEF OnConnection, queueVars
  <2> QED
    BY <1>1, <2>1, <2>2, OrdinaryFrames, EventStep
<1>3. ASSUME NEW ok \in BOOLEAN, OnWrite(ok) PROVE PoliteInv'
  <2>1. LoopCalls(<< >>) \/ LoopCalls(<<"Shutdown", "client.Close">>)
    <3>1. L = << >>
      BY <1>3 DEF OnWrite, LoopIdle, LoopFree
    <3>2. stack = [stack EXCEPT ![Loop] = << >>]
      BY <3>1, Threads DEF TypeOK, L
    <3> QED
      BY <1>3, <3>2 DEF OnWrite, LoopCalls, ShutdownAndClose
  <2>2. /\ handle \in {"socket", "stream", "shut"}
        /\ handle' \in {"socket", "stream", "shut"}
        /\ UNCHANGED <<tasks, state>>
    BY <1>3 DEF OnWrite, queueVars
  <2> QED
    BY <1>1, <2>1, <2>2, OrdinaryFrames, EventStep
<1>4. CASE OnReadData
  <2>1. LoopCalls(<< >>) \/ LoopCalls(<<"Close">>) \/ LoopCalls(<<"Write">>)
    BY <1>4, PoliteCallbacks DEF OnReadData
  <2>2. /\ handle \in {"socket", "stream", "shut"} /\ handle' = handle
        /\ UNCHANGED <<tasks, state>>
    BY <1>4 DEF OnReadData, queueVars, socketVars
  <2> QED
    BY <1>1, <2>1, <2>2, OrdinaryFrames, EventStep
<1>5. CASE OnReadEof
  <2>1. LoopCalls(<< >>)
    <3>1. L = << >>
      BY <1>5 DEF OnReadEof, LoopIdle, LoopFree
    <3>2. stack = [stack EXCEPT ![Loop] = << >>]
      BY <3>1, Threads DEF TypeOK, L
    <3> QED
      BY <1>5, <3>2 DEF OnReadEof, LoopCalls
  <2> QED
    BY <1>5, <2>1, OrdinaryFrames, EventStep DEF OnReadEof, queueVars
<1>6. ASSUME OnShutdown \/ OnReadError PROVE PoliteInv'
  <2>1. LoopCalls(<<"Shutdown", "client.Close">>)
    BY <1>6 DEF OnShutdown, OnReadError, ShutdownAndClose
  <2>2. /\ handle \in {"socket", "stream", "shut"}
        /\ handle' \in {"socket", "stream", "shut"}
        /\ UNCHANGED <<tasks, state>>
    BY <1>6 DEF OnShutdown, OnReadError, queueVars
  <2> QED
    BY <1>1, <2>1, <2>2, OrdinaryFrames, EventStep
<1> QED
  BY <1>2, <1>3, <1>4, <1>5, <1>6

(* Ordinary calls before the close callback.                               *)
LEMMA CallsBeforeClose ==
  ASSUME NEW p \in Seq(Frame), \A i \in 1..Len(p) : p[i] \in Ordinary
  PROVE  LET s == p \o <<"close_cb">>
         IN  /\ \A i \in 1..Len(s) : \/ s[i] \in Ordinary
                                     \/ s[i] = "close_cb" /\ i = Len(s)
             /\ s # <<"Closed">> /\ s # <<"ConnectOnEvent">>
<1> DEFINE s == p \o <<"close_cb">>
<1>1. <<"close_cb">> \in Seq(Frame) /\ Len(p) \in Nat
  BY FrameSeqs, FrameNames, LenProperties
<1>2. /\ Len(s) = Len(p) + 1
      /\ \A i \in 1..Len(p) : s[i] = p[i]
      /\ s[Len(s)] = "close_cb"
  BY <1>1, ConcatProperties
<1>3. \A i \in 1..Len(s) : i \in 1..Len(p) \/ i = Len(s)
  BY <1>1, <1>2
<1>4. s # <<"Closed">> /\ s # <<"ConnectOnEvent">>
  <2>1. ASSUME NEW f, s = <<f>> PROVE f = "close_cb"
    <3> HIDE DEF s
    <3>1. Len(s) = 1 /\ s[1] = f
      BY <2>1
    <3> QED
      BY <1>2, <3>1
  <2> QED
    BY <2>1
<1> QED
  BY <1>2, <1>3, <1>4

(* Ordinary calls after ordinary calls are ordinary. *)
LEMMA ConcatOrdinary ==
  ASSUME NEW p \in Seq(Frame), \A i \in 1..Len(p) : p[i] \in Ordinary,
         NEW q \in Seq(Frame), \A i \in 1..Len(q) : q[i] \in Ordinary
  PROVE  p \o q \in Seq(Frame) /\ \A i \in 1..Len(p \o q) : (p \o q)[i] \in Ordinary
<1>1. Len(p) \in Nat /\ Len(q) \in Nat
  BY LenProperties
<1>2. /\ p \o q \in Seq(Frame) /\ Len(p \o q) = Len(p) + Len(q)
      /\ \A i \in 1..Len(p \o q) : (p \o q)[i] = IF i <= Len(p) THEN p[i]
                                                 ELSE q[i - Len(p)]
  BY ConcatProperties
<1>3. \A i \in 1..Len(p \o q) : i <= Len(p) => i \in 1..Len(p)
  BY <1>1, <1>2
<1>4. \A i \in 1..Len(p \o q) : ~(i <= Len(p)) => i - Len(p) \in 1..Len(q)
  BY <1>1, <1>2
<1> QED
  BY <1>2, <1>3, <1>4

(* Answering the requests of a closing handle keeps the invariant.         *)
LEMMA EndIterationStep ==
  ASSUME PoliteApp, TypeOK, PoliteInv, EndIteration
  PROVE  PoliteInv'
<1>1. L = << >> /\ UNCHANGED <<state, tasks, handle>>
  BY DEF EndIteration, LoopIdle, LoopFree
<1>2. CASE handle = "closing"
  <2>1. PICK n \in IF connect_req THEN {writes} ELSE 0..writes :
          LoopCalls((IF connect_req THEN <<"ConnFailed">> ELSE << >>)
                    \o FailWrites(n)
                    \o (IF shutdown_req THEN ShutdownAndClose ELSE << >>)
                    \o <<"close_cb">>)
    BY <1>2 DEF EndIteration
  <2> DEFINE a == IF connect_req THEN <<"ConnFailed">> ELSE << >>
             b == IF shutdown_req THEN ShutdownAndClose ELSE << >>
             p == a \o FailWrites(n) \o b
  <2>2. n \in Nat
    BY DEF TypeOK
  <2>3. {"ConnFailed", "Shutdown", "client.Close"} \subseteq Ordinary
    BY DEF Ordinary
  <2>4. a \in Seq(Frame) /\ \A i \in 1..Len(a) : a[i] \in Ordinary
    BY <2>3, OrdinaryFrames
  <2>5. b \in Seq(Frame) /\ \A i \in 1..Len(b) : b[i] \in Ordinary
    BY <2>3, OrdinaryFrames DEF ShutdownAndClose
  <2>6. p \in Seq(Frame) /\ \A i \in 1..Len(p) : p[i] \in Ordinary
    <3> DEFINE q == a \o FailWrites(n)
    <3>1. q \in Seq(Frame) /\ \A i \in 1..Len(q) : q[i] \in Ordinary
      BY <2>2, <2>4, FailWritesOrdinary, ConcatOrdinary
    <3> QED
      BY <2>5, <3>1, ConcatOrdinary
  <2>7. L' = p \o <<"close_cb">> /\ U' = U
    BY <2>1, Threads DEF LoopCalls, L, U, TypeOK
  <2>8. LoopStack' /\ L' # <<"Closed">> /\ L' # <<"ConnectOnEvent">>
    <3> HIDE DEF p
    <3> QED
      BY <1>1, <1>2, <2>6, <2>7, CallsBeforeClose DEF LoopStack
  <2> QED
    BY <1>1, <1>2, <2>7, <2>8, LoopStepKeeps
<1>3. CASE handle # "closing"
  <2>1. UNCHANGED stack
    BY <1>3 DEF EndIteration
  <2> QED
    BY <1>1, <2>1 DEF PoliteInv, UserStacks, LoopStack, OneConnect, FirstConnect,
                      UserConnects, Posted, ClosedIsReleased, NeverBroken, U, L
<1> QED
  BY <1>2, <1>3

(* The close callback releases the handle before Closed is set. *)
LEMMA OnCloseStep ==
  ASSUME PoliteApp, TypeOK, PoliteInv, OnClose
  PROVE  PoliteInv'
<1> USE DEF PoliteInv
<1>1. /\ L \in Seq(Frame) /\ L # << >> /\ L[1] = "close_cb"
      /\ Len(L) \in Nat \ {0} /\ 1 \in 1..Len(L)
  BY TopOfLoop DEF OnClose
<1>2. handle = "closing" /\ Len(L) = 1
  <2>1. "close_cb" \notin Ordinary
    BY DEF Ordinary
  <2> QED
    BY <1>1, <2>1 DEF LoopStack
<1>3. L' = <<"Closed">> /\ U' = U
  <2>1. Tail(L) = << >>
    BY <1>1, <1>2, Singleton
  <2>2. L' = <<"Closed">> \o Tail(L) /\ U' = U
    BY Threads DEF OnClose, Continue, L, U, TypeOK
  <2>3. <<"Closed">> \in Seq(Frame)
    BY FrameSeqs, FrameNames
  <2> QED
    BY <2>1, <2>2, <2>3, ConcatEmptySeq
<1>4. handle' = "closed" /\ UNCHANGED <<state, tasks>>
  BY DEF OnClose, queueVars
<1>5. state # "Closed"
  BY <1>2 DEF ClosedIsReleased
<1>6. ~UserConnects /\ ~Posted
  BY <1>2 DEF OneConnect
<1>7. LoopStack'
  <2>1. Len(L') = 1 /\ L'[1] = "Closed"
    BY <1>3
  <2> QED
    BY <1>4, <1>5, <2>1 DEF LoopStack
<1>8. L' # <<"ConnectOnEvent">>
  BY <1>3
<1>9. ~UserConnects' /\ ~Posted'
  BY <1>3, <1>4, <1>6, <1>8 DEF UserConnects, Posted
<1>10. OneConnect'
  BY <1>4, <1>5, <1>6, <1>8, <1>9 DEF OneConnect, Posted
<1> QED
  BY <1>3, <1>4, <1>7, <1>10
     DEF UserStacks, FirstConnect, ClosedIsReleased, NeverBroken

-----------------------------------------------------------------------------
(* Every step keeps the invariant. *)
LEMMA NextPolite ==
  ASSUME PoliteApp
  PROVE  TypeOK /\ PoliteInv /\ [Next]_vars => PoliteInv'
<1> SUFFICES ASSUME TypeOK, PoliteInv, [Next]_vars PROVE PoliteInv'
  OBVIOUS
<1>1. ASSUME UNCHANGED <<state, stack, tasks, handle>> PROVE PoliteInv'
  BY <1>1 DEF PoliteInv, UserStacks, LoopStack, OneConnect, FirstConnect,
              UserConnects, Posted, ClosedIsReleased, NeverBroken, U, L
<1>2. CASE UNCHANGED vars
  BY <1>1, <1>2 DEF vars
<1>3. CASE Drain
  BY <1>1, <1>3 DEF Drain, socketVars
<1>4. ASSUME NEW t \in Thread, ThreadStep(t) PROVE PoliteInv'
  BY <1>4, Threads, LoopThreadStep, UserStep
<1>5. CASE LoopStep
  BY <1>3, <1>5, RunTaskStep, ConnectOnEventStep, OrdinaryEventStep,
     SocketCallbackStep, EndIterationStep, OnCloseStep DEF LoopStep
<1> QED
  BY <1>2, <1>4, <1>5, UserCallStep, SocketCallbackStep DEF Next

(* A polite client never initialises a handle that libuv still knows: the  *)
(* check in Connect (tcp_client.h:114) is enough for one caller that waits *)
(* for Closed.                                                             *)
THEOREM NeverInitsLiveHandle ==
  ASSUME PoliteApp
  PROVE  Spec => []NoLiveInit
<1>1. TypeOK /\ PoliteInv => NoLiveInit
  <2> SUFFICES ASSUME TypeOK, PoliteInv, Top(Loop, "ConnectOnEvent")
               PROVE  handle \in {"none", "closed"}
    BY DEF NoLiveInit
  <2>1. L = <<"ConnectOnEvent">>
    BY AloneOnLoop DEF PoliteInv, Ordinary
  <2> QED
    BY <2>1 DEF PoliteInv, OneConnect, Posted
<1> QED
  BY <1>1, InitPolite, NextPolite, TypeCorrect, PTL DEF Spec

(* A polite client's Close and Write reach libuv only after the Connect    *)
(* they follow (libuv_tcp_client_impl.h:221, 253): no libuv call is made   *)
(* that the handle does not allow.                                         *)
THEOREM NeverMisusesLibuv ==
  ASSUME PoliteApp
  PROVE  Spec => []NeverBroken
<1>1. PoliteInv => NeverBroken
  BY DEF PoliteInv
<1> QED
  BY <1>1, InitPolite, NextPolite, TypeCorrect, PTL DEF Spec

(* A polite client reads Closed only when no socket is behind it           *)
(* (tcp_client.h:168-171): Connect may follow.                             *)
THEOREM ClosedMeansReleased ==
  ASSUME PoliteApp
  PROVE  Spec => []ClosedIsReleased
<1>1. PoliteInv => ClosedIsReleased
  BY DEF PoliteInv
<1> QED
  BY <1>1, InitPolite, NextPolite, TypeCorrect, PTL DEF Spec

-----------------------------------------------------------------------------
(* The steps of the client are steps of libuv's contract for its handle.   *)

(* What a step of the contract changes, in terms of the client's state.    *)
LEMMA ContractSteps ==
  ASSUME TypeOK, TypeOK', NeverBroken, NeverBroken'
  PROVE  /\ Phase \in {"fresh", "active", "closing", "closed"}
         /\ Requests \in Nat /\ Requests' \in Nat
         /\ Phase = "fresh" <=> handle = "none"
         /\ Phase = "active" <=> handle \in {"init", "socket", "stream", "shut"}
         /\ Phase = "closing" <=> handle = "closing"
         /\ Phase = "closed" <=> handle = "closed"
         /\ handle' = handle => Phase' = Phase
         /\ handle' \in {"init", "socket", "stream", "shut"} => Phase' = "active"
         /\ handle' = "closing" => Phase' = "closing"
         /\ handle' = "closed" => Phase' = "closed"
<1>1. \A b : One(b) \in {0, 1}
  BY DEF One
<1>2. /\ One(connect_req) \in {0, 1} /\ One(shutdown_req) \in {0, 1}
      /\ One(connect_req)' \in {0, 1} /\ One(shutdown_req)' \in {0, 1}
  BY <1>1
<1>3. writes \in Nat /\ writes' \in Nat
  BY DEF TypeOK
<1>4. Requests \in Nat /\ Requests' \in Nat
  BY <1>2, <1>3 DEF Requests
<1> QED
  BY <1>4 DEF TypeOK, Phase, Handle, NeverBroken

(* A step that only answers requests of a live or closing handle. *)
LEMMA AnswerStep ==
  ASSUME TypeOK, TypeOK', NeverBroken, NeverBroken', RequestsAnswered,
         \/ handle' = handle
         \/ /\ handle \in {"init", "socket", "stream", "shut"}
            /\ handle' \in {"init", "socket", "stream", "shut"},
         connect_req' => connect_req, writes' <= writes, shutdown_req' => shutdown_req
  PROVE  [Uv!Next]_(Uv!vars)
<1>1. Phase' = Phase
  BY ContractSteps
<1>2. Requests' \in Nat /\ Requests' <= Requests
  <2>1. /\ One(connect_req)' <= One(connect_req)
        /\ One(shutdown_req)' <= One(shutdown_req)
    BY DEF TypeOK, One
  <2>2. /\ One(connect_req) \in {0, 1} /\ One(shutdown_req) \in {0, 1}
        /\ One(connect_req)' \in {0, 1} /\ One(shutdown_req)' \in {0, 1}
    BY DEF One
  <2>3. writes \in Nat /\ writes' \in Nat
    BY DEF TypeOK
  <2>4. Requests' <= Requests
    BY <2>1, <2>2, <2>3 DEF Requests
  <2> QED
    BY <2>4, ContractSteps
<1>3. CASE Requests' = Requests
  BY <1>1, <1>3 DEF Uv!vars
<1>4. CASE Requests' # Requests
  <2>1. Requests' < Requests
    BY <1>2, <1>4, ContractSteps
  <2>2. Requests # 0
    BY <1>2, <2>1, ContractSteps
  <2>3. Phase \in {"active", "closing"}
    BY <2>2 DEF Phase, Requests, One, RequestsAnswered, TypeOK, Handle, NeverBroken
  <2> QED
    BY <1>1, <1>2, <2>1, <2>3 DEF Uv!Next, Uv!Answer
<1> QED
  BY <1>3, <1>4

(* Every step of the client is a step of the contract or none. *)
LEMMA NextContract ==
  ASSUME PoliteApp, TypeOK, TypeOK', PoliteInv, NeverBroken', CloseCbInv, RequestsAnswered,
         [Next]_vars
  PROVE  [Uv!Next]_(Uv!vars)
<1>0. NeverBroken /\ LoopStack
  BY DEF PoliteInv
<1>1. ASSUME UNCHANGED <<handle, connect_req, writes, shutdown_req>>
      PROVE  [Uv!Next]_(Uv!vars)
  BY <1>1 DEF Uv!vars, Phase, Requests, One
<1>2. ASSUME NEW u \in User, NEW c \in UserCalls, UserCall(u, c)
      PROVE  UNCHANGED <<handle, connect_req, writes, shutdown_req>>
  BY <1>2 DEF UserCall, socketVars
<1>3. ASSUME NEW t \in Thread, ThreadStep(t)
      PROVE  UNCHANGED <<handle, connect_req, writes, shutdown_req>>
  BY <1>3 DEF ThreadStep, Connect, Close, Write, SetState, ClientImpl, socketVars
<1>4. CASE Drain \/ RunTask
  BY <1>1, <1>4 DEF Drain, RunTask, socketVars
<1>5. CASE ConnectOnEvent
  <2>1. ~Misuse
    BY DEF Misuse, NeverBroken
  <2>2. /\ handle \in {"none", "closed"}
        /\ \/ handle' = "init" /\ UNCHANGED connect_req
           \/ handle' = "socket" /\ connect_req' = TRUE
        /\ UNCHANGED <<writes, shutdown_req>>
    BY <1>5, <2>1 DEF ConnectOnEvent
  <2>3. ~connect_req /\ writes = 0 /\ ~shutdown_req
    BY <2>2 DEF RequestsAnswered
  <2>4. Requests' \in {0, 1}
    BY <2>2, <2>3 DEF Requests, One
  <2>5. Phase \in {"fresh", "closed"} /\ Phase' = "active"
    BY <1>0, <2>2, ContractSteps
  <2> QED
    BY <2>4, <2>5 DEF Uv!Next, Uv!InitHandle
<1>6. CASE WriteOnEvent
  <2>1. ~Misuse
    BY DEF Misuse, NeverBroken
  <2>2. /\ IF handle \in {"socket", "stream"} THEN writes' = writes + 1 ELSE UNCHANGED writes
        /\ UNCHANGED <<handle, connect_req, shutdown_req>>
    BY <1>6, <2>1 DEF WriteOnEvent
  <2>3. CASE handle \in {"socket", "stream"}
    <3>1. Phase = "active" /\ Phase' = Phase
      BY <1>0, <2>2, <2>3, ContractSteps
    <3>2. Requests' = Requests + 1
      BY <2>2, <2>3 DEF Requests, One, TypeOK
    <3> QED
      BY <3>1, <3>2 DEF Uv!Next, Uv!Submit
  <2>4. CASE handle \notin {"socket", "stream"}
    BY <1>1, <2>2, <2>4
  <2> QED
    BY <2>3, <2>4
<1>7. CASE CloseOnEvent
  <2>1. ~Misuse
    BY DEF Misuse, NeverBroken
  <2>2. /\ handle # "none"
        /\ handle' = IF handle = "closed" THEN "closed" ELSE "closing"
        /\ UNCHANGED <<connect_req, writes, shutdown_req>>
    BY <1>7, <2>1 DEF CloseOnEvent
  <2>3. CASE handle' = handle
    BY <1>1, <2>2, <2>3
  <2>4. CASE handle' # handle
    <3>1. Phase = "active" /\ Phase' = "closing"
      BY <1>0, <2>2, <2>4, ContractSteps
    <3>2. Requests' = Requests
      BY <2>2 DEF Requests, One
    <3> QED
      BY <3>1, <3>2 DEF Uv!Next, Uv!CloseHandle
  <2> QED
    BY <2>3, <2>4
<1>8. CASE \E ok \in BOOLEAN : OnConnection(ok)
  <2>1. /\ handle = "socket" /\ handle' \in {"socket", "stream"}
        /\ connect_req' = FALSE /\ UNCHANGED <<writes, shutdown_req>>
    BY <1>8 DEF OnConnection
  <2> QED
    BY <1>0, <2>1, AnswerStep DEF TypeOK
<1>9. CASE FlushWrites
  <2>1. UNCHANGED <<handle, connect_req, shutdown_req>> /\ writes' \in {writes, 0}
    BY <1>9 DEF FlushWrites
  <2> QED
    BY <1>0, <2>1, AnswerStep DEF TypeOK
<1>10. CASE OnReadData
  BY <1>1, <1>10 DEF OnReadData, socketVars
<1>11. CASE OnReadEof
  <2>1. /\ handle = "stream" /\ handle' = "shut" /\ shutdown_req' = TRUE
        /\ UNCHANGED <<connect_req, writes>>
    BY <1>11 DEF OnReadEof
  <2>2. Phase = "active" /\ Phase' = Phase
    BY <1>0, <2>1, ContractSteps
  <2>3. Requests' = Requests + 1
    BY <2>1 DEF RequestsAnswered, Requests, One, TypeOK
  <2> QED
    BY <2>2, <2>3 DEF Uv!Next, Uv!Submit
<1>12. CASE OnShutdown
  <2>1. shutdown_req' = FALSE /\ UNCHANGED <<handle, connect_req, writes>>
    BY <1>12 DEF OnShutdown
  <2> QED
    BY <1>0, <2>1, AnswerStep DEF TypeOK
<1>13. CASE OnReadError
  <2>1. /\ handle = "stream" /\ handle' = "shut"
        /\ UNCHANGED <<connect_req, writes, shutdown_req>>
    BY <1>13 DEF OnReadError
  <2> QED
    BY <1>0, <2>1, AnswerStep DEF TypeOK
<1>14. CASE \E ok \in BOOLEAN : OnWrite(ok)
  <2>1. writes > 0 /\ writes' = writes - 1 /\ UNCHANGED <<handle, connect_req, shutdown_req>>
    BY <1>14 DEF OnWrite
  <2> QED
    BY <1>0, <2>1, AnswerStep DEF TypeOK
<1>15. CASE EndIteration
  <2>1. /\ UNCHANGED handle
        /\ \/ connect_req' = FALSE /\ writes' = 0 /\ shutdown_req' = FALSE
           \/ UNCHANGED <<connect_req, writes, shutdown_req>>
    BY <1>15 DEF EndIteration
  <2> QED
    BY <1>0, <2>1, AnswerStep DEF TypeOK
<1>16. CASE OnClose
  <2>1. /\ L[1] = "close_cb" /\ 1 \in 1..Len(L)
        /\ handle' = "closed" /\ UNCHANGED <<connect_req, writes, shutdown_req>>
    BY <1>16, TopOfLoop DEF OnClose
  <2>2. handle = "closing" /\ NoRequest
    BY <2>1 DEF CloseCbInv, HasCb
  <2>3. Phase = "closing" /\ Phase' = "closed"
    BY <1>0, <2>1, <2>2, ContractSteps
  <2>4. Requests = 0 /\ Requests' = Requests
    BY <2>1, <2>2 DEF NoRequest, Requests, One
  <2> QED
    BY <2>3, <2>4 DEF Uv!Next, Uv!CloseCallback
<1>17. CASE UNCHANGED vars
  BY <1>1, <1>17 DEF vars, socketVars
<1> QED
  BY <1>1, <1>2, <1>3, <1>4, <1>5, <1>6, <1>7, <1>8, <1>9, <1>10, <1>11, <1>12, <1>13,
     <1>14, <1>15, <1>16, <1>17 DEF Next, LoopStep

(* libuv's contract for the client's handle: initialised when fresh or     *)
(* closed, closed once, the close callback after every request (connect,   *)
(* write, shutdown) was answered.                                          *)
THEOREM KeepsContract ==
  ASSUME PoliteApp
  PROVE  Spec => KeepsUvContract
<1>1. Init => Uv!Init
  BY DEF Init, Uv!Init, Phase, Requests, One
<1>2. /\ TypeOK /\ TypeOK' /\ PoliteInv /\ PoliteInv' /\ CloseCbInv /\ RequestsAnswered
      /\ [Next]_vars
      => [Uv!Next]_(Uv!vars)
  BY NextContract DEF PoliteInv
<1> QED
  BY <1>1, <1>2, InitType, NextType, InitPolite, NextPolite, InitCloseCb, NextCloseCb,
     InitRequests, NextRequests, PTL DEF Spec, KeepsUvContract, Uv!Spec

-----------------------------------------------------------------------------
(* What the calls on the network thread's stack say about the state.       *)

NoConnect(s) == \A i \in 1..Len(s) : s[i] \notin ConnectCall

(* The innermost call and the others. *)
LEMMA HeadAndTail ==
  ASSUME NEW s \in Seq(Frame), s # << >>
  PROVE  /\ Tail(s) \in Seq(Frame) /\ Len(s) \in Nat \ {0}
         /\ Head(s) = s[1] /\ 1 \in 1..Len(s)
         /\ Len(Tail(s)) = Len(s) - 1
         /\ \A i \in 1..Len(Tail(s)) : Tail(s)[i] = s[i + 1] /\ i + 1 \in 1..Len(s)
         /\ \A i \in 1..Len(s) : i # 1 => /\ i - 1 \in 1..Len(Tail(s))
                                          /\ s[i] = Tail(s)[i - 1]
<1>1. /\ Tail(s) \in Seq(Frame) /\ Len(Tail(s)) = Len(s) - 1 /\ Head(s) = s[1]
      /\ \A i \in 1..Len(Tail(s)) : Tail(s)[i] = s[i + 1]
  BY HeadTailProperties
<1>2. Len(s) \in Nat \ {0}
  BY EmptySeq
<1>3. \A i \in 1..Len(Tail(s)) : i + 1 \in 1..Len(s)
  BY <1>1, <1>2
<1>4. ASSUME NEW i \in 1..Len(s), i # 1
      PROVE  i - 1 \in 1..Len(Tail(s)) /\ s[i] = Tail(s)[i - 1]
  <2>1. i - 1 \in 1..Len(Tail(s)) /\ (i - 1) + 1 = i
    BY <1>1, <1>2, <1>4
  <2> QED
    BY <1>1, <2>1
<1> QED
  BY <1>1, <1>2, <1>3, <1>4

(* The elements of a concatenation. *)
LEMMA Elements ==
  ASSUME NEW s \in Seq(Frame), NEW t \in Seq(Frame)
  PROVE  /\ s \o t \in Seq(Frame)
         /\ Len(s) \in Nat /\ Len(t) \in Nat /\ Len(s \o t) = Len(s) + Len(t)
         /\ \A i \in 1..Len(s) : i \in 1..Len(s \o t) /\ (s \o t)[i] = s[i]
         /\ \A i \in 1..Len(t) : /\ Len(s) + i \in 1..Len(s \o t)
                                 /\ (s \o t)[Len(s) + i] = t[i]
         /\ \A i \in 1..Len(s \o t) : i \in 1..Len(s) \/ i - Len(s) \in 1..Len(t)
<1>1. Len(s) \in Nat /\ Len(t) \in Nat
  BY LenProperties
<1>2. /\ s \o t \in Seq(Frame) /\ Len(s \o t) = Len(s) + Len(t)
      /\ \A i \in 1..Len(s) + Len(t) : (s \o t)[i] = IF i <= Len(s) THEN s[i]
                                                     ELSE t[i - Len(s)]
  BY ConcatProperties
<1>3. \A i \in 1..Len(s) : i \in 1..Len(s \o t) /\ (s \o t)[i] = s[i]
  BY <1>1, <1>2
<1>4. ASSUME NEW i \in 1..Len(t)
      PROVE  Len(s) + i \in 1..Len(s \o t) /\ (s \o t)[Len(s) + i] = t[i]
  <2>1. Len(s) + i \in 1..Len(s) + Len(t) /\ ~(Len(s) + i <= Len(s))
        /\ (Len(s) + i) - Len(s) = i
    BY <1>1, <1>4
  <2> QED
    BY <1>2, <2>1
<1>5. \A i \in 1..Len(s \o t) : i \in 1..Len(s) \/ i - Len(s) \in 1..Len(t)
  BY <1>1, <1>2
<1> QED
  BY <1>1, <1>2, <1>3, <1>4, <1>5

(* What holds of the calls under the innermost one. *)
LEMMA TailFits ==
  ASSUME NEW s \in Seq(Frame), s # << >>, Fits(s)
  PROVE  /\ Fits(Tail(s)) /\ NoConnect(Tail(s))
         /\ Head(s) \in {"Shutdown", "Closing"} => Holds(Tail(s), "client.Close")
         /\ \A f : f # Head(s) /\ Holds(s, f) => Holds(Tail(s), f)
<1>1. NoConnect(Tail(s))
  <2> SUFFICES ASSUME NEW i \in 1..Len(Tail(s))
               PROVE  Tail(s)[i] \notin ConnectCall
    BY DEF NoConnect
  <2>1. Tail(s)[i] = s[i + 1] /\ i + 1 \in 1..Len(s) /\ i + 1 # 1
    BY HeadAndTail
  <2> QED
    BY <2>1 DEF Fits
<1>2. ASSUME NEW i \in 1..Len(Tail(s)), Tail(s)[i] \in {"Shutdown", "Closing"}
      PROVE  i + 1 \in 1..Len(Tail(s)) /\ Tail(s)[i + 1] = "client.Close"
  <2>1. Tail(s)[i] = s[i + 1] /\ i + 1 \in 1..Len(s)
    BY HeadAndTail
  <2>2. (i + 1) + 1 \in 1..Len(s) /\ s[(i + 1) + 1] = "client.Close"
    BY <1>2, <2>1 DEF Fits
  <2>3. (i + 1) + 1 # 1 /\ ((i + 1) + 1) - 1 = i + 1
    BY <2>1
  <2>4. i + 1 \in 1..Len(Tail(s)) /\ s[(i + 1) + 1] = Tail(s)[i + 1]
    BY <2>2, <2>3, HeadAndTail
  <2> QED
    BY <2>2, <2>4
<1>3. Fits(Tail(s))
  BY <1>1, <1>2 DEF Fits, NoConnect
<1>4. ASSUME Head(s) \in {"Shutdown", "Closing"} PROVE Holds(Tail(s), "client.Close")
  <2>1. s[1] \in {"Shutdown", "Closing"} /\ 1 \in 1..Len(s)
    BY <1>4, HeadAndTail
  <2>2. 1 + 1 \in 1..Len(s) /\ s[1 + 1] = "client.Close"
    BY <2>1 DEF Fits
  <2>3. (1 + 1) - 1 \in 1..Len(Tail(s)) /\ s[1 + 1] = Tail(s)[(1 + 1) - 1]
    BY <2>2, HeadAndTail
  <2> QED
    BY <2>2, <2>3 DEF Holds
<1>5. ASSUME NEW f, f # Head(s), Holds(s, f) PROVE Holds(Tail(s), f)
  <2>1. PICK i \in 1..Len(s) : s[i] = f
    BY <1>5 DEF Holds
  <2>2. i - 1 \in 1..Len(Tail(s)) /\ Tail(s)[i - 1] = f
    BY <1>5, <2>1, HeadAndTail
  <2> QED
    BY <2>2 DEF Holds
<1> QED
  BY <1>1, <1>3, <1>4, <1>5

(* What holds of two sequences of calls, one after the other. *)
LEMMA ConcatFits ==
  ASSUME NEW s \in Seq(Frame), NEW t \in Seq(Frame), Fits(s), Fits(t), NoConnect(t)
  PROVE  /\ s \o t \in Seq(Frame) /\ Fits(s \o t)
         /\ NoConnect(s) => NoConnect(s \o t)
         /\ \A f : Holds(s \o t, f) <=> Holds(s, f) \/ Holds(t, f)
<1> DEFINE r == s \o t
<1>0. /\ r \in Seq(Frame)
      /\ Len(s) \in Nat /\ Len(t) \in Nat /\ Len(r) = Len(s) + Len(t)
      /\ \A i \in 1..Len(s) : i \in 1..Len(r) /\ r[i] = s[i]
      /\ \A i \in 1..Len(t) : Len(s) + i \in 1..Len(r) /\ r[Len(s) + i] = t[i]
      /\ \A i \in 1..Len(r) : i \in 1..Len(s) \/ i - Len(s) \in 1..Len(t)
  BY Elements
<1> HIDE DEF r
<1>1. ASSUME NEW i \in 1..Len(r)
      PROVE  \/ i \in 1..Len(s) /\ r[i] = s[i]
             \/ \E j \in 1..Len(t) : i = Len(s) + j /\ r[i] = t[j]
  <2>1. CASE i \in 1..Len(s)
    BY <1>0, <2>1
  <2>2. CASE i - Len(s) \in 1..Len(t)
    <3>1. i = Len(s) + (i - Len(s))
      BY <1>0
    <3> QED
      BY <1>0, <2>2, <3>1
  <2> QED
    BY <1>0, <2>1, <2>2
<1>2. ASSUME NEW i \in 1..Len(r), r[i] \in ConnectCall PROVE i = 1
  BY <1>1, <1>2 DEF Fits, NoConnect
<1>3. ASSUME NEW i \in 1..Len(r), r[i] \in {"Shutdown", "Closing"}
      PROVE  i + 1 \in 1..Len(r) /\ r[i + 1] = "client.Close"
  <2>1. CASE i \in 1..Len(s) /\ r[i] = s[i]
    <3>1. i + 1 \in 1..Len(s) /\ s[i + 1] = "client.Close"
      BY <1>3, <2>1 DEF Fits
    <3> QED
      BY <1>0, <3>1
  <2>2. ASSUME NEW j \in 1..Len(t), i = Len(s) + j, r[i] = t[j]
        PROVE  i + 1 \in 1..Len(r) /\ r[i + 1] = "client.Close"
    <3>1. j + 1 \in 1..Len(t) /\ t[j + 1] = "client.Close"
      BY <1>3, <2>2 DEF Fits
    <3>2. i + 1 = Len(s) + (j + 1)
      BY <1>0, <2>2
    <3> QED
      BY <1>0, <3>1, <3>2
  <2> QED
    BY <1>1, <2>1, <2>2
<1>4. Fits(r)
  BY <1>2, <1>3 DEF Fits
<1>5. NoConnect(s) => NoConnect(r)
  BY <1>1 DEF NoConnect
<1>6. ASSUME NEW f PROVE Holds(r, f) <=> Holds(s, f) \/ Holds(t, f)
  BY <1>0, <1>1 DEF Holds
<1> QED
  BY <1>0, <1>4, <1>5, <1>6 DEF r

(* The calls that steps of the network thread make. *)
LEMMA MadeCalls ==
  /\ << >> \in Seq(Frame) /\ Fits(<< >>) /\ NoConnect(<< >>) /\ \A f : ~Holds(<< >>, f)
  /\ \A f \in Frame : <<f>> \in Seq(Frame) /\ Holds(<<f>>, f)
  /\ \A f, g \in Frame : <<f, g>> \in Seq(Frame)
  /\ \A f : f \notin {"Shutdown", "Closing"} => Fits(<<f>>)
  /\ \A f : f \notin ConnectCall => NoConnect(<<f>>)
  /\ \A f \in {"Shutdown", "Closing"} :
       Fits(<<f, "client.Close">>) /\ NoConnect(<<f, "client.Close">>)
  /\ Fits(<<"ConnFailed", "flush_writes">>)
<1>1. \A f : Len(<<f>>) = 1 /\ <<f>>[1] = f
  OBVIOUS
<1>2. \A f, g : Len(<<f, g>>) = 2 /\ <<f, g>>[1] = f /\ <<f, g>>[2] = g
  OBVIOUS
<1>3. 1..1 = {1} /\ 1..2 = {1, 2}
  OBVIOUS
<1>4. Len(<< >>) = 0 /\ 1..0 = {}
  OBVIOUS
<1>5. Fits(<< >>) /\ NoConnect(<< >>) /\ \A f : ~Holds(<< >>, f)
  BY <1>4 DEF Fits, NoConnect, Holds
<1>6. \A f : f \notin {"Shutdown", "Closing"} => Fits(<<f>>)
  BY <1>1, <1>3 DEF Fits
<1>7. \A f : f \notin ConnectCall => NoConnect(<<f>>)
  BY <1>1, <1>3 DEF NoConnect
<1>8. \A f \in {"Shutdown", "Closing"} :
        Fits(<<f, "client.Close">>) /\ NoConnect(<<f, "client.Close">>)
  BY <1>2, <1>3 DEF Fits, NoConnect, ConnectCall
<1>9. Fits(<<"ConnFailed", "flush_writes">>)
  BY <1>2, <1>3 DEF Fits, ConnectCall
<1>10. \A f : Holds(<<f>>, f)
  BY <1>1, <1>3 DEF Holds
<1> QED
  BY <1>5, <1>6, <1>7, <1>8, <1>9, <1>10, FrameSeqs

(* Failing writes do not connect, and every Shutdown is followed by Close. *)
LEMMA FailWritesFit ==
  ASSUME NEW n \in Nat
  PROVE  FailWrites(n) \in Seq(Frame) /\ Fits(FailWrites(n)) /\ NoConnect(FailWrites(n))
<1>1. FailWrites(n) \in Seq(Frame)
  BY FailWritesType
<1>2. DOMAIN FailWrites(n) = 1..2 * n
  BY DEF FailWrites
<1>3. Len(FailWrites(n)) \in Nat /\ 1..Len(FailWrites(n)) = 1..2 * n
  BY <1>1, <1>2, LenProperties
<1>4. ASSUME NEW i \in 1..2 * n, FailWrites(n)[i] = "Shutdown"
      PROVE  i + 1 \in 1..2 * n /\ FailWrites(n)[i + 1] = "client.Close"
  <2>1. i % 2 = 1 /\ i \in Nat /\ 1 <= i /\ i <= 2 * n
    BY <1>4 DEF FailWrites
  <2>2. i # 2 * n
    BY <2>1
  <2>3. (i + 1) % 2 # 1
    BY <2>1
  <2>4. i + 1 \in 1..2 * n
    BY <2>1, <2>2
  <2> QED
    BY <2>3, <2>4 DEF FailWrites
<1>5. \A i \in 1..2 * n : FailWrites(n)[i] \in {"Shutdown", "client.Close"}
  BY DEF FailWrites
<1>6. Fits(FailWrites(n))
  BY <1>3, <1>4, <1>5 DEF Fits, ConnectCall
<1>7. NoConnect(FailWrites(n))
  BY <1>3, <1>5 DEF NoConnect, ConnectCall
<1> QED
  BY <1>1, <1>6, <1>7

-----------------------------------------------------------------------------
(* The kinds of steps: what they do to the state, the stacks, the queue    *)
(* and the handle.                                                         *)

Still == UNCHANGED <<state, U, L, tasks, handle, connect_req, shutdown_req>>

UserMove ==
  /\ UNCHANGED <<L, handle, connect_req, shutdown_req>>
  /\ \/ /\ U \notin {<<"client.Connect">>, <<"client.Close">>}
        /\ U' \notin {<<"client.Connect">>, <<"client.Close">>}
        /\ UNCHANGED <<state, tasks>>
     \/ /\ U = <<"Connecting", "client.Connect">> /\ U' = <<"client.Connect">>
        /\ state' = "Connecting"
        /\ UNCHANGED tasks
     \/ /\ U = <<"Closing", "client.Close">> /\ U' = <<"client.Close">>
        /\ state' = "Closing"
        /\ UNCHANGED tasks
     \/ /\ \E c \in ClientCall : U = <<c>> /\ tasks' = Append(tasks, OnEvent[c])
        /\ U' = << >>
        /\ UNCHANGED state

RunMove ==
  /\ L = << >> /\ tasks # << >>
  /\ L' = <<Head(tasks)>> /\ tasks' = Tail(tasks)
  /\ UNCHANGED <<state, U, handle, connect_req, shutdown_req>>

ConnectMove ==
  /\ L = <<"ConnectOnEvent">> /\ handle \in {"none", "closed"}
  /\ \/ handle' = "init" /\ L' = <<"ConnFailed">> /\ UNCHANGED connect_req
     \/ handle' = "socket" /\ L' = << >> /\ connect_req' = TRUE
  /\ UNCHANGED <<state, U, tasks>>

SetMove ==
  \E s \in {"Closing", "Connected", "ConnFailed", "Shutdown", "Closed"} :
    /\ Top(Loop, s)
    /\ state' = s
    /\ L' = Tail(L)
    /\ UNCHANGED <<U, tasks, handle, connect_req, shutdown_req>>

(* A call on the network thread that sets no state. *)
Plain == {"Close", "Write", "client.Close", "client.Write", "CloseOnEvent",
          "WriteOnEvent", "flush_writes"}
PopMove ==
  \E f \in Plain, fr \in Seq(Frame) :
    /\ Top(Loop, f)
    /\ L' = fr \o Tail(L)
    /\ Fits(fr) /\ NoConnect(fr)
    /\ f = "client.Close" => Holds(fr, "CloseOnEvent")
    /\ f = "CloseOnEvent" => handle' \in {"closing", "closed"}
    /\ f = "WriteOnEvent" /\ handle = "socket" => fr = << >>
    /\ \/ handle' = handle
       \/ f = "CloseOnEvent" /\ handle \notin {"none", "closed"} /\ handle' = "closing"
    /\ UNCHANGED <<state, U, tasks, connect_req, shutdown_req>>

ReleaseMove ==
  /\ L = <<"close_cb">> /\ L' = <<"Closed">>
  /\ handle = "closing" /\ handle' = "closed"
  /\ UNCHANGED <<state, U, tasks, connect_req>>

EventMove ==
  /\ L = << >> /\ Fits(L')
  /\ UNCHANGED <<state, U, tasks>>
  /\ \/ /\ handle = "socket" /\ connect_req /\ ~connect_req'
        /\ \/ handle' = "stream" /\ L' = <<"Connected">>
           \/ handle' = handle /\ L' = <<"ConnFailed", "flush_writes">>
     \/ /\ handle = "closing" /\ handle' = handle /\ ~connect_req'
        /\ ~Top(Loop, "ConnectOnEvent")' /\ ~Top(Loop, "Connected")'
        /\ Top(Loop, "ConnFailed")' => connect_req
     \/ /\ handle \in {"stream", "shut"} \/ (handle = "socket" /\ ~connect_req)
        /\ handle' = handle \/ (handle = "stream" /\ handle' = "shut")
        /\ handle' = "shut" => \/ handle = "shut" /\ UNCHANGED shutdown_req
                               \/ shutdown_req' \/ Holds(L', "client.Close")
        /\ NoConnect(L')
        /\ UNCHANGED connect_req

(* The user's steps. *)
LEMMA UserKinds ==
  ASSUME PoliteApp, TypeOK, PoliteInv,
         (\E u \in User, c \in UserCalls : UserCall(u, c)) \/ ThreadStep(TheUser)
  PROVE  UserMove
<1>0. UserStacks
  BY DEF PoliteInv
<1>1. ASSUME NEW u \in User, NEW c \in UserCalls, UserCall(u, c) PROVE UserMove
  <2>1. u = TheUser /\ c \in Call
    BY Threads, CallsAssumption
  <2>2. U = << >> /\ U' = <<c>> /\ L' = L
    BY <1>1, <2>1, Threads DEF UserCall, U, L, TypeOK
  <2>3. UNCHANGED <<state, tasks, handle, connect_req, shutdown_req>>
    BY <1>1 DEF UserCall, queueVars, socketVars
  <2>4. <<c>> \notin {<<"client.Connect">>, <<"client.Close">>}
    BY <2>1 DEF Call
  <2> QED
    BY <2>2, <2>3, <2>4 DEF UserMove
<1>2. CASE Connect(TheUser) \/ Close(TheUser) \/ Write(TheUser)
  <2>1. U \in {<<"Connect">>, <<"Close">>, <<"Write">>}
    BY <1>0, <1>2, TopOfUser DEF Connect, Close, Write
  <2>2. /\ U' \in {<< >>, <<"Connecting", "client.Connect">>,
                   <<"Closing", "client.Close">>, <<"client.Write">>}
        /\ L' = L
    <3>1. \/ Continue(TheUser, << >>)
          \/ Continue(TheUser, <<"Connecting", "client.Connect">>)
          \/ Continue(TheUser, <<"Closing", "client.Close">>)
          \/ Continue(TheUser, <<"client.Write">>)
      BY <1>2 DEF Connect, Close, Write, Return
    <3>2. {"Connecting", "Closing", "client.Connect", "client.Close", "client.Write"}
            \subseteq Frame
      BY FrameNames DEF ClientCall
    <3> QED
      BY <2>1, <3>1, <3>2, UserReturns, FrameSeqs
  <2>3. UNCHANGED <<state, tasks, handle, connect_req, shutdown_req>>
    BY <1>2 DEF Connect, Close, Write, queueVars, socketVars
  <2> QED
    BY <2>1, <2>2, <2>3 DEF UserMove
<1>3. CASE SetState(TheUser)
  <2>1. PICK s \in ConnectionState :
          /\ Top(TheUser, s) /\ state' = s /\ Continue(TheUser, << >>)
          /\ UNCHANGED <<queueVars, socketVars>>
    BY <1>3, PoliteCallbacks DEF SetState
  <2>2. \/ s = "Connecting" /\ U = <<s, "client.Connect">>
        \/ s = "Closing" /\ U = <<s, "client.Close">>
    BY <1>0, <2>1, TopOfUser DEF ConnectionState, Call, ClientCall
  <2>3. \/ s = "Connecting" /\ U = <<s, "client.Connect">> /\ U' = <<"client.Connect">>
        \/ s = "Closing" /\ U = <<s, "client.Close">> /\ U' = <<"client.Close">>
    <3>1. "Connecting" \in Frame /\ "Closing" \in Frame
      BY FrameNames
    <3>2. "client.Connect" \in Frame /\ "client.Close" \in Frame
      BY FrameNames DEF ClientCall
    <3> QED
      BY <2>1, <2>2, <3>1, <3>2, UserProceeds
  <2>4. L' = L /\ UNCHANGED <<tasks, handle, connect_req, shutdown_req>>
    BY <2>1, UserMoves, FrameSeqs DEF queueVars, socketVars
  <2> QED
    BY <2>1, <2>3, <2>4 DEF UserMove
<1>4. CASE ClientImpl(TheUser)
  <2>1. PICK c \in ClientCall :
          /\ Top(TheUser, c) /\ Continue(TheUser, << >>)
          /\ tasks' = Append(tasks, OnEvent[c])
          /\ UNCHANGED <<state, handle, connect_req, shutdown_req>>
    BY <1>4, Threads DEF ClientImpl, Return, socketVars
  <2>2. U = <<c>>
    BY <1>0, <2>1, TopOfUser DEF ClientCall
  <2>3. U' = << >> /\ L' = L
    BY <2>1, <2>2, UserReturns, FrameSeqs
  <2> QED
    BY <2>1, <2>2, <2>3 DEF UserMove
<1> QED
  BY <1>1, <1>2, <1>3, <1>4 DEF ThreadStep

(* A call of the network thread makes the calls in fr. *)
LEMMA LoopContinues ==
  ASSUME PoliteApp, TypeOK, NEW fr \in Seq(Frame), Continue(Loop, fr)
  PROVE  L' = fr \o Tail(L) /\ U' = U
BY Threads DEF Continue, U, L, TypeOK

(* Continuing a plain call that leaves the handle is a PopMove. *)
LEMMA PlainMove ==
  ASSUME PoliteApp, TypeOK, NEW f \in Plain, Top(Loop, f),
         NEW fr \in Seq(Frame), Fits(fr), NoConnect(fr), Continue(Loop, fr),
         f = "client.Close" => Holds(fr, "CloseOnEvent"),
         f = "CloseOnEvent" => handle' \in {"closing", "closed"},
         f = "WriteOnEvent" /\ handle = "socket" => fr = << >>,
         \/ handle' = handle
         \/ f = "CloseOnEvent" /\ handle \notin {"none", "closed"} /\ handle' = "closing",
         UNCHANGED <<state, tasks, connect_req, shutdown_req>>
  PROVE  PopMove
BY LoopContinues DEF PopMove

(* The application's calls on the network thread. *)
LEMMA LoopCallKinds ==
  ASSUME PoliteApp, TypeOK, PoliteInv, ThreadStep(Loop)
  PROVE  SetMove \/ PopMove
<1>0. LoopStack
  BY DEF PoliteInv
<1>1. ASSUME NEW f, Top(Loop, f), f \notin Ordinary
      PROVE  f \in {"ConnectOnEvent", "Closed", "close_cb"}
  BY <1>0, <1>1, AloneOnLoop
<1>2. CASE Connect(Loop)
  BY <1>1, <1>2 DEF Connect, Ordinary
<1>3. CASE Close(Loop)
  <2>1. Top(Loop, "Close") /\ "Close" \in Plain /\ UNCHANGED <<state, tasks, handle, connect_req, shutdown_req>>
    BY <1>3 DEF Close, queueVars, socketVars, Plain
  <2>2. Continue(Loop, <<"Closing", "client.Close">>) \/ Continue(Loop, << >>)
    BY <1>3 DEF Close, Return
  <2>3. <<"Closing", "client.Close">> \in Seq(Frame)
    BY FrameSeqs, FrameNames DEF ClientCall
  <2> QED
    BY <2>1, <2>2, <2>3, MadeCalls, PlainMove
<1>4. CASE Write(Loop)
  <2>1. Top(Loop, "Write") /\ "Write" \in Plain /\ UNCHANGED <<state, tasks, handle, connect_req, shutdown_req>>
    BY <1>4 DEF Write, queueVars, socketVars, Plain
  <2>2. Continue(Loop, <<"client.Write">>) \/ Continue(Loop, << >>)
    BY <1>4 DEF Write, Return
  <2>3. <<"client.Write">> \in Seq(Frame)
    BY FrameSeqs, FrameNames DEF ClientCall
  <2> QED
    BY <2>1, <2>2, <2>3, MadeCalls, PlainMove DEF ConnectCall
<1>5. CASE SetState(Loop)
  <2>1. PICK s \in ConnectionState :
          /\ Top(Loop, s) /\ state' = s /\ Continue(Loop, << >>)
          /\ UNCHANGED <<queueVars, socketVars>>
    BY <1>5, PoliteCallbacks DEF SetState
  <2>2. s \in {"Closing", "Connected", "ConnFailed", "Shutdown", "Closed"}
    BY <1>1, <2>1 DEF ConnectionState, Ordinary
  <2>3. L' = Tail(L) /\ U' = U
    <3>1. L' = << >> \o Tail(L) /\ U' = U
      BY <2>1, LoopContinues, FrameSeqs
    <3>2. L \in Seq(Frame) /\ L # << >>
      BY <2>1, TopOfLoop
    <3>3. Tail(L) \in Seq(Frame)
      BY <3>2, HeadAndTail
    <3> QED
      BY <3>1, <3>3, ConcatEmptySeq
  <2>4. SetMove
    BY <2>1, <2>2, <2>3 DEF SetMove, queueVars, socketVars
  <2> QED
    BY <2>4
<1>6. CASE ClientImpl(Loop)
  <2>1. PICK c \in ClientCall :
          /\ Top(Loop, c) /\ Continue(Loop, <<OnEvent[c]>>)
          /\ UNCHANGED <<state, tasks, socketVars>>
    BY <1>6 DEF ClientImpl
  <2>2. c \in {"client.Close", "client.Write"}
    BY <1>1, <2>1 DEF ClientCall, Ordinary
  <2>3. OnEvent[c] = IF c = "client.Close" THEN "CloseOnEvent" ELSE "WriteOnEvent"
    BY <2>2 DEF ClientCall, OnEvent
  <2>4. OnEvent[c] \in Frame
    BY <2>3, FrameNames DEF EventCall
  <2>5. /\ <<OnEvent[c]>> \in Seq(Frame) /\ Fits(<<OnEvent[c]>>) /\ NoConnect(<<OnEvent[c]>>)
        /\ c = "client.Close" => Holds(<<OnEvent[c]>>, "CloseOnEvent")
    BY <2>3, <2>4, MadeCalls DEF ConnectCall
  <2>6. c \in Plain /\ c # "CloseOnEvent" /\ c # "WriteOnEvent"
    BY <2>2 DEF Plain
  <2> QED
    BY <2>1, <2>5, <2>6, PlainMove DEF socketVars
<1> QED
  BY <1>2, <1>3, <1>4, <1>5, <1>6 DEF ThreadStep

(* Operations on the socket. *)
LEMMA OperationKinds ==
  ASSUME PoliteApp, TypeOK, PoliteInv, NeverBroken',
         RunTask \/ ConnectOnEvent \/ WriteOnEvent \/ CloseOnEvent \/ FlushWrites \/ OnClose
  PROVE  RunMove \/ ConnectMove \/ PopMove \/ ReleaseMove
<1>0. LoopStack /\ ~Misuse
  BY DEF PoliteInv, Misuse, NeverBroken
<1>1. CASE RunTask
  <2>1. L = << >>
    BY <1>1 DEF RunTask, LoopFree
  <2>2. L' = <<Head(tasks)>> /\ U' = U
    BY <1>1, Threads DEF RunTask, L, U, TypeOK
  <2>3. tasks # << >>
    <3>1. batch \in 0..Len(tasks) /\ batch > 0
      BY <1>1 DEF RunTask, TypeOK
    <3>2. Len(tasks) # 0
      BY <3>1
    <3> QED
      BY <3>2
  <2> QED
    BY <1>1, <2>1, <2>2, <2>3 DEF RunTask, socketVars, RunMove
<1>2. CASE ConnectOnEvent
  <2>1. /\ Top(Loop, "ConnectOnEvent") /\ handle \in {"none", "closed"}
        /\ \/ handle' = "init" /\ Continue(Loop, <<"ConnFailed">>) /\ UNCHANGED connect_req
           \/ handle' = "socket" /\ Continue(Loop, << >>) /\ connect_req' = TRUE
        /\ UNCHANGED <<state, tasks>>
    BY <1>0, <1>2 DEF ConnectOnEvent, Return, queueVars
  <2>2. L = <<"ConnectOnEvent">>
    BY <1>0, <2>1, AloneOnLoop DEF Ordinary
  <2>3. Tail(L) = << >>
    <3>1. Tail(<<"ConnectOnEvent">>) = << >>
      OBVIOUS
    <3> QED
      BY <2>2, <3>1
  <2>4. <<"ConnFailed">> \in Seq(Frame) /\ << >> \in Seq(Frame)
    BY FrameSeqs, FrameNames
  <2>5. \A fr \in Seq(Frame) : Continue(Loop, fr) => L' = fr /\ U' = U
    BY <2>3, LoopContinues, ConcatEmptySeq
  <2> QED
    BY <2>1, <2>2, <2>4, <2>5 DEF ConnectMove
<1>3. CASE WriteOnEvent
  <2>1. /\ Top(Loop, "WriteOnEvent")
        /\ IF handle \in {"socket", "stream"} THEN Continue(Loop, << >>)
           ELSE Continue(Loop, <<"Shutdown", "client.Close">>)
        /\ UNCHANGED <<state, tasks, handle, connect_req, shutdown_req>>
    BY <1>0, <1>3 DEF WriteOnEvent, Return, ShutdownAndClose, queueVars
  <2>2. "WriteOnEvent" \in Plain
    BY DEF Plain
  <2>3. <<"Shutdown", "client.Close">> \in Seq(Frame)
    BY FrameSeqs, FrameNames DEF ClientCall, ConnectionState
  <2> QED
    BY <2>1, <2>2, <2>3, MadeCalls, PlainMove
<1>4. CASE CloseOnEvent
  <2>1. /\ Top(Loop, "CloseOnEvent") /\ Continue(Loop, << >>) /\ handle # "none"
        /\ handle' = IF handle = "closed" THEN "closed" ELSE "closing"
        /\ UNCHANGED <<state, tasks, connect_req, shutdown_req>>
    BY <1>0, <1>4 DEF CloseOnEvent, Return, queueVars
  <2>2. "CloseOnEvent" \in Plain
    BY DEF Plain
  <2> QED
    BY <2>1, <2>2, MadeCalls, PlainMove
<1>5. CASE FlushWrites
  <2>1. /\ Top(Loop, "flush_writes")
        /\ Continue(Loop, << >>) \/ Continue(Loop, FailWrites(writes))
        /\ UNCHANGED <<state, tasks, handle, connect_req, shutdown_req>>
    BY <1>5 DEF FlushWrites, Return, queueVars
  <2>2. "flush_writes" \in Plain /\ writes \in Nat
    BY DEF Plain, TypeOK
  <2> QED
    BY <2>1, <2>2, MadeCalls, FailWritesFit, PlainMove
<1>6. CASE OnClose
  <2>1. /\ Top(Loop, "close_cb") /\ Continue(Loop, <<"Closed">>) /\ handle' = "closed"
        /\ UNCHANGED <<state, tasks, connect_req>>
    BY <1>6 DEF OnClose, queueVars
  <2>2. /\ L \in Seq(Frame) /\ L[1] = "close_cb" /\ Len(L) \in Nat \ {0} /\ 1 \in 1..Len(L)
    BY <2>1, TopOfLoop
  <2>3. handle = "closing" /\ Len(L) = 1
    BY <1>0, <2>2 DEF LoopStack, Ordinary
  <2>4. L = <<"close_cb">> /\ Tail(L) = << >>
    BY <2>2, <2>3, Singleton
  <2>5. <<"Closed">> \in Seq(Frame)
    BY FrameSeqs, FrameNames
  <2>6. L' = <<"Closed">> /\ U' = U
    BY <2>1, <2>4, <2>5, LoopContinues, ConcatEmptySeq
  <2> QED
    BY <2>1, <2>3, <2>4, <2>6 DEF ReleaseMove
<1> QED
  BY <1>1, <1>2, <1>3, <1>4, <1>5, <1>6

(* The innermost call of a stack without calls of a connect is none. *)
LEMMA TopNoConnect ==
  ASSUME NEW s \in Seq(Frame), NoConnect(s), s # << >>
  PROVE  Head(s) \notin ConnectCall
<1>1. Head(s) = s[1] /\ 1 \in 1..Len(s)
  BY HeadAndTail
<1> QED
  BY <1>1 DEF NoConnect

(* The callbacks of an iteration that ends with a handle being closed. *)
LEMMA ClosingIteration ==
  ASSUME PoliteApp, TypeOK, TypeOK', EndIteration, handle = "closing"
  PROVE  EventMove
<1>1. PICK n \in IF connect_req THEN {writes} ELSE 0..writes :
        LoopCalls((IF connect_req THEN <<"ConnFailed">> ELSE << >>)
                  \o FailWrites(n)
                  \o (IF shutdown_req THEN ShutdownAndClose ELSE << >>)
                  \o <<"close_cb">>)
  BY DEF EndIteration
<1>2. L = << >> /\ UNCHANGED <<state, tasks, handle>> /\ connect_req' = FALSE
  BY DEF EndIteration, LoopIdle, LoopFree
<1> DEFINE a == IF connect_req THEN <<"ConnFailed">> ELSE << >>
           b == IF shutdown_req THEN ShutdownAndClose ELSE << >>
           q == a \o FailWrites(n)
           p == q \o b
           s == p \o <<"close_cb">>
<1>3. n \in Nat
  BY DEF TypeOK
<1>4. /\ a \in Seq(Frame) /\ Fits(a)
      /\ ~connect_req => NoConnect(a)
      /\ connect_req => 1 \in 1..Len(a) /\ a[1] = "ConnFailed"
  <2>1. CASE connect_req
    <3>1. a = <<"ConnFailed">> /\ "ConnFailed" \in Frame
      BY <2>1, FrameNames
    <3>2. 1 \in 1..Len(<<"ConnFailed">>) /\ <<"ConnFailed">>[1] = "ConnFailed"
      OBVIOUS
    <3>3. <<"ConnFailed">> \in Seq(Frame) /\ Fits(<<"ConnFailed">>)
      BY <3>1, MadeCalls
    <3> HIDE DEF a
    <3> QED
      BY <2>1, <3>1, <3>2, <3>3
  <2>2. CASE ~connect_req
    <3>1. a = << >>
      BY <2>2
    <3> HIDE DEF a
    <3> QED
      BY <2>2, <3>1, MadeCalls
  <2> QED
    BY <2>1, <2>2
<1>5. b \in Seq(Frame) /\ Fits(b) /\ NoConnect(b)
  <2>1. <<"Shutdown", "client.Close">> \in Seq(Frame)
    BY FrameSeqs, FrameNames DEF ClientCall, ConnectionState
  <2> QED
    BY <2>1, MadeCalls DEF ShutdownAndClose
<1>6. <<"close_cb">> \in Seq(Frame) /\ Fits(<<"close_cb">>) /\ NoConnect(<<"close_cb">>)
  BY MadeCalls, FrameNames DEF ConnectCall
<1>7. L' = s /\ U' = U
  BY <1>1, Threads DEF LoopCalls, L, U, TypeOK
<1> HIDE DEF a, b
<1>8. /\ q \in Seq(Frame) /\ Fits(q)
      /\ ~connect_req => NoConnect(q)
      /\ connect_req => 1 \in 1..Len(q) /\ q[1] = "ConnFailed"
  BY <1>3, <1>4, FailWritesFit, ConcatFits, Elements
<1> HIDE DEF q
<1>9. /\ p \in Seq(Frame) /\ Fits(p)
      /\ ~connect_req => NoConnect(p)
      /\ connect_req => 1 \in 1..Len(p) /\ p[1] = "ConnFailed"
  BY <1>5, <1>8, ConcatFits, Elements
<1> HIDE DEF p
<1>10. /\ s \in Seq(Frame) /\ Fits(s)
       /\ ~connect_req => NoConnect(s)
       /\ connect_req => 1 \in 1..Len(s) /\ s[1] = "ConnFailed"
  BY <1>6, <1>9, ConcatFits, Elements
<1> HIDE DEF s
<1>11. s # << >> /\ ~connect_req => Head(s) \notin ConnectCall
  BY <1>10, TopNoConnect
<1>12. s # << >> /\ connect_req => Head(s) = "ConnFailed"
  BY <1>10, HeadAndTail
<1>13. \A f : Top(Loop, f)' => s # << >> /\ Head(s) = f
  BY <1>7 DEF Top, L
<1>14. /\ ~Top(Loop, "ConnectOnEvent")' /\ ~Top(Loop, "Connected")'
       /\ Top(Loop, "ConnFailed")' => connect_req
  BY <1>11, <1>12, <1>13 DEF ConnectCall
<1> QED
  BY <1>2, <1>7, <1>10, <1>14 DEF EventMove

(* libuv's callbacks and the ends of iterations. *)
LEMMA EventKinds ==
  ASSUME PoliteApp, TypeOK, TypeOK', PoliteInv,
         \/ \E ok \in BOOLEAN : OnConnection(ok) \/ OnWrite(ok)
         \/ OnReadData \/ OnReadEof \/ OnShutdown \/ OnReadError \/ Drain \/ EndIteration
  PROVE  EventMove \/ Still
<1>1. \A fr : LoopCalls(fr) => L' = fr /\ U' = U
  BY Threads DEF LoopCalls, L, U, TypeOK
<1>2. UNCHANGED stack => L' = L /\ U' = U
  BY DEF L, U
<1>3. <<"Shutdown", "client.Close">> \in Seq(Frame) /\ Fits(<<"Shutdown", "client.Close">>)
      /\ NoConnect(<<"Shutdown", "client.Close">>)
      /\ Holds(<<"Shutdown", "client.Close">>, "client.Close")
  <2>1. <<"Shutdown", "client.Close">> \in Seq(Frame) /\ "client.Close" \in Frame
    BY FrameSeqs, FrameNames DEF ClientCall, ConnectionState
  <2>2. Len(<<"Shutdown", "client.Close">>) = 2 /\ <<"Shutdown", "client.Close">>[2] = "client.Close"
    OBVIOUS
  <2>3. Holds(<<"Shutdown", "client.Close">>, "client.Close")
    BY <2>2 DEF Holds
  <2> QED
    BY <2>1, <2>3, MadeCalls
<1>4. ASSUME NEW ok \in BOOLEAN, OnConnection(ok) PROVE EventMove
  <2>1. /\ L = << >> /\ handle = "socket" /\ connect_req /\ connect_req' = FALSE
        /\ \/ handle' = "stream" /\ LoopCalls(<<"Connected">>)
           \/ handle' = handle /\ LoopCalls(<<"ConnFailed", "flush_writes">>)
        /\ UNCHANGED <<state, tasks>>
    BY <1>4 DEF OnConnection, LoopIdle, LoopFree, queueVars
  <2>2. Fits(<<"Connected">>) /\ Fits(<<"ConnFailed", "flush_writes">>)
    BY MadeCalls
  <2> QED
    BY <1>1, <2>1, <2>2 DEF EventMove
<1>5. ASSUME NEW ok \in BOOLEAN, OnWrite(ok) PROVE EventMove
  <2>1. /\ L = << >> /\ UNCHANGED <<state, tasks, handle, connect_req, shutdown_req>>
        /\ handle \in {"stream", "shut"} \/ (handle = "socket" /\ ~connect_req)
        /\ UNCHANGED stack \/ LoopCalls(<<"Shutdown", "client.Close">>)
    BY <1>5 DEF OnWrite, LoopIdle, LoopFree, queueVars, ShutdownAndClose
  <2>2. L' \in {<< >>, <<"Shutdown", "client.Close">>} /\ U' = U
    BY <1>1, <1>2, <2>1
  <2> QED
    BY <1>3, <2>1, <2>2, MadeCalls DEF EventMove
<1>6. CASE OnReadData
  <2>1. PICK call \in Callback(ReadCalls, state) : LoopCalls(call)
    BY <1>6 DEF OnReadData
  <2>2. call \in {<< >>, <<"Close">>, <<"Write">>}
    BY <2>1, PoliteCallbacks
  <2>3. Fits(call) /\ NoConnect(call)
    BY <2>2, MadeCalls DEF ConnectCall
  <2>4. L = << >> /\ handle = "stream" /\ UNCHANGED <<state, tasks, handle, connect_req>>
    BY <1>6 DEF OnReadData, LoopIdle, LoopFree, queueVars, socketVars
  <2> QED
    BY <1>1, <2>1, <2>3, <2>4 DEF EventMove
<1>7. CASE OnReadEof
  <2>1. /\ L = << >> /\ handle = "stream" /\ handle' = "shut" /\ shutdown_req'
        /\ UNCHANGED <<state, stack, tasks, connect_req>>
    BY <1>7 DEF OnReadEof, LoopIdle, LoopFree, queueVars
  <2> QED
    BY <1>2, <2>1, MadeCalls DEF EventMove
<1>8. CASE OnShutdown \/ OnReadError
  <2>1. /\ L = << >> /\ LoopCalls(<<"Shutdown", "client.Close">>)
        /\ handle \in {"stream", "shut"}
        /\ handle' = handle \/ (handle = "stream" /\ handle' = "shut")
        /\ UNCHANGED <<state, tasks, connect_req>>
    BY <1>8 DEF OnShutdown, OnReadError, LoopIdle, LoopFree, queueVars, ShutdownAndClose
  <2> QED
    BY <1>1, <1>3, <2>1 DEF EventMove, Holds
<1>9. CASE Drain
  BY <1>2, <1>9 DEF Drain, socketVars, Still
<1>10. CASE EndIteration
  <2>1. CASE handle = "closing"
    BY <1>10, <2>1, ClosingIteration
  <2>2. CASE handle # "closing"
    BY <1>2, <1>10, <2>2 DEF EndIteration, Still
  <2> QED
    BY <2>1, <2>2
<1> QED
  BY <1>4, <1>5, <1>6, <1>7, <1>8, <1>9, <1>10

(* Every step is of one of these kinds. *)
LEMMA NextKinds ==
  ASSUME PoliteApp, TypeOK, TypeOK', PoliteInv, NeverBroken', [Next]_vars
  PROVE  \/ Still \/ UserMove \/ RunMove \/ ConnectMove \/ SetMove \/ PopMove
         \/ ReleaseMove \/ EventMove
<1>1. ASSUME NEW t \in Thread, ThreadStep(t)
      PROVE  ThreadStep(TheUser) \/ ThreadStep(Loop)
  BY <1>1, Threads
<1>2. CASE UNCHANGED vars
  BY <1>2 DEF vars, queueVars, socketVars, Still, U, L
<1> QED
  BY <1>1, <1>2, UserKinds, LoopCallKinds, OperationKinds, EventKinds DEF Next, LoopStep

-----------------------------------------------------------------------------
(* Every kind of step keeps StateInv. *)

(* Appending to and taking from the queue. *)
LEMMA QueueAppend ==
  ASSUME NEW s \in Seq(EventCall), NEW c \in EventCall
  PROVE  /\ \A f : Holds(Append(s, c), f) <=> Holds(s, f) \/ c = f
         /\ ClosesAhead(s) /\ c = "WriteOnEvent" => ClosesAhead(Append(s, c))
         /\ ~Holds(s, "ConnectOnEvent") /\ c = "ConnectOnEvent" => ClosesAhead(Append(s, c))
<1> DEFINE r == Append(s, c)
<1>1. /\ Len(s) \in Nat /\ Len(r) = Len(s) + 1
      /\ \A i \in 1..Len(s) : r[i] = s[i]
      /\ r[Len(s) + 1] = c
  BY LenProperties, AppendProperties
<1> HIDE DEF r
<1>2. /\ \A i \in 1..Len(s) : i \in 1..Len(r) /\ r[i] = s[i]
      /\ Len(s) + 1 \in 1..Len(r) /\ r[Len(s) + 1] = c
      /\ \A i \in 1..Len(r) : i \in 1..Len(s) \/ i = Len(s) + 1
  BY <1>1
<1>3. \A f : Holds(r, f) <=> Holds(s, f) \/ c = f
  BY <1>2 DEF Holds
<1>4. ClosesAhead(s) /\ c = "WriteOnEvent" => ClosesAhead(r)
  BY <1>2 DEF ClosesAhead
<1>5. ASSUME ~Holds(s, "ConnectOnEvent"), c = "ConnectOnEvent" PROVE ClosesAhead(r)
  <2> SUFFICES ASSUME NEW i \in 1..Len(r), NEW j \in 1..Len(r),
                      r[i] = "ConnectOnEvent", r[j] = "CloseOnEvent"
               PROVE  j < i
    BY DEF ClosesAhead
  <2>1. i = Len(s) + 1
    BY <1>2, <1>5 DEF Holds
  <2>2. j \in 1..Len(s)
    BY <1>2, <1>5
  <2> QED
    BY <1>1, <2>1, <2>2
<1> QED
  BY <1>3, <1>4, <1>5 DEF r

(* What the queue holds once its first call was taken. *)
LEMMA QueueTail ==
  ASSUME NEW s \in Seq(EventCall), s # << >>
  PROVE  /\ Head(s) \in EventCall
         /\ \A f : Holds(s, f) <=> Head(s) = f \/ Holds(Tail(s), f)
         /\ ClosesAhead(s) => ClosesAhead(Tail(s))
         /\ ClosesAhead(s) /\ Head(s) = "ConnectOnEvent" => ~Holds(s, "CloseOnEvent")
<1>1. s \in Seq(Frame)
  <2>1. EventCall \subseteq Frame
    BY FrameNames
  <2>2. Len(s) \in Nat /\ s \in [1..Len(s) -> EventCall]
    BY LenProperties
  <2>3. s \in [1..Len(s) -> Frame]
    BY <2>1, <2>2
  <2> QED
    BY <2>2, <2>3, SeqDef
<1>2. Head(s) \in EventCall
  BY HeadTailProperties
<1>3. /\ Len(s) \in Nat \ {0} /\ Len(Tail(s)) \in Nat
      /\ Head(s) = s[1] /\ 1 \in 1..Len(s)
      /\ \A i \in 1..Len(Tail(s)) : Tail(s)[i] = s[i + 1] /\ i + 1 \in 1..Len(s)
      /\ \A i \in 1..Len(s) : i # 1 => /\ i - 1 \in 1..Len(Tail(s))
                                       /\ s[i] = Tail(s)[i - 1]
  BY <1>1, HeadAndTail, LenProperties
<1>4. \A f : Holds(s, f) <=> Head(s) = f \/ Holds(Tail(s), f)
  BY <1>3 DEF Holds
<1>5. ASSUME ClosesAhead(s) PROVE ClosesAhead(Tail(s))
  <2> SUFFICES ASSUME NEW i \in 1..Len(Tail(s)), NEW j \in 1..Len(Tail(s)),
                      Tail(s)[i] = "ConnectOnEvent", Tail(s)[j] = "CloseOnEvent"
               PROVE  j < i
    BY DEF ClosesAhead
  <2>1. j + 1 < i + 1
    BY <1>3, <1>5 DEF ClosesAhead
  <2> QED
    BY <1>3, <2>1
<1>6. ASSUME ClosesAhead(s), Head(s) = "ConnectOnEvent" PROVE ~Holds(s, "CloseOnEvent")
  <2> SUFFICES ASSUME NEW j \in 1..Len(s), s[j] = "CloseOnEvent" PROVE FALSE
    BY DEF Holds
  <2>1. j < 1
    BY <1>3, <1>6 DEF ClosesAhead
  <2> QED
    BY <1>3, <2>1
<1> QED
  BY <1>2, <1>4, <1>5, <1>6

(* The innermost call and what is posted, in terms of L and tasks. *)
LEMMA LoopViews ==
  /\ \A f : Top(Loop, f) <=> L # << >> /\ Head(L) = f
  /\ \A f : Top(Loop, f)' <=> L' # << >> /\ Head(L') = f
  /\ Posted <=> Holds(tasks, "ConnectOnEvent") \/ L = <<"ConnectOnEvent">>
  /\ Posted' <=> Holds(tasks', "ConnectOnEvent") \/ L' = <<"ConnectOnEvent">>
BY DEF Top, L, Posted, Holds

(* StateInv holds at first. *)
LEMMA InitState ==
  ASSUME PoliteApp
  PROVE  Init => StateInv
<1> SUFFICES ASSUME Init PROVE StateInv
  OBVIOUS
<1>1. /\ U = << >> /\ L = << >> /\ tasks = << >> /\ state = "Closed" /\ handle = "none"
      /\ connect_req = FALSE
  BY Threads DEF Init, U, L
<1>2. Fits(L)
  BY <1>1, MadeCalls
<1>3. ~Posted
  BY <1>1, LoopViews, MadeCalls
<1>4. ResultInv /\ AwaitInv
  BY <1>1, <1>3, LoopViews DEF ResultInv, AwaitInv, Awaited
<1> QED
  BY <1>1, <1>2, <1>4 DEF StateInv, ConnectingInv, StreamInv, ConnectedInv

(* A step that changes none of the variables concerned. *)
LEMMA StillKeeps ==
  ASSUME StateInv, Still
  PROVE  StateInv'
<1>1. UNCHANGED <<state, U, L, tasks, handle, connect_req>>
  BY DEF Still
<1>2. Fits(L)'
  BY <1>1 DEF StateInv, Fits
<1>3. (\A f : Top(Loop, f)' <=> Top(Loop, f)) /\ (Posted' <=> Posted)
  BY <1>1, LoopViews
<1>4. ResultInv'
  BY <1>1, <1>3 DEF StateInv, ResultInv
<1>5. AwaitInv'
  BY <1>1, <1>3 DEF StateInv, AwaitInv, Awaited
<1>6. BeforeConnect' <=> BeforeConnect
  BY <1>1, <1>3 DEF BeforeConnect, ClosesAhead, Holds
<1>7. DuringConnect' <=> DuringConnect
  BY <1>1 DEF DuringConnect, Holds
<1>8. ConnectingInv'
  BY <1>1, <1>6, <1>7 DEF StateInv, ConnectingInv
<1>9. StreamInv' /\ ConnectedInv'
  BY <1>1 DEF StateInv, StreamInv, ConnectedInv, Closes, Holds
<1> QED
  BY <1>2, <1>4, <1>5, <1>8, <1>9 DEF StateInv

(* The user's steps. *)
LEMMA UserMoveKeeps ==
  ASSUME TypeOK, PoliteInv, StateInv, UserMove
  PROVE  StateInv'
<1>0. /\ OneConnect /\ tasks \in Seq(EventCall)
      /\ ResultInv /\ AwaitInv /\ ConnectingInv /\ StreamInv /\ ConnectedInv
  BY DEF PoliteInv, StateInv, TypeOK
<1>1. L' = L /\ handle' = handle /\ connect_req' = connect_req
  BY DEF UserMove
<1>2. Fits(L)'
  BY <1>1 DEF StateInv, Fits
<1>3. \A f : Top(Loop, f)' <=> Top(Loop, f)
  BY <1>1, LoopViews
<1>4. ResultInv'
  BY <1>0, <1>1, <1>3 DEF ResultInv
<1>5. ASSUME U \notin {<<"client.Connect">>, <<"client.Close">>},
             U' \notin {<<"client.Connect">>, <<"client.Close">>},
             state' = state, tasks' = tasks
      PROVE  StateInv'
  <2>1. Posted' <=> Posted
    BY <1>1, <1>5, LoopViews
  <2>2. AwaitInv'
    BY <1>0, <1>1, <1>3, <1>5, <2>1 DEF AwaitInv, Awaited
  <2>3. BeforeConnect => BeforeConnect'
    BY <1>1, <1>5, <2>1 DEF BeforeConnect, ClosesAhead, Holds
  <2>4. DuringConnect => DuringConnect'
    BY <1>1, <1>5 DEF DuringConnect, Holds
  <2>5. ConnectingInv'
    BY <1>0, <1>5, <2>3, <2>4 DEF ConnectingInv
  <2>6. StreamInv' /\ ConnectedInv'
    BY <1>0, <1>1, <1>5 DEF StreamInv, ConnectedInv, Closes, Holds
  <2> QED
    BY <1>2, <1>4, <2>2, <2>5, <2>6 DEF StateInv
<1>6. ASSUME U = <<"Connecting", "client.Connect">>, U' = <<"client.Connect">>,
             state' = "Connecting", tasks' = tasks
      PROVE  StateInv'
  <2>1. handle \in {"none", "closed"} /\ ~Posted
    BY <1>0, <1>6 DEF OneConnect, UserConnects
  <2>2. ~Holds(tasks, "ConnectOnEvent") /\ L # <<"ConnectOnEvent">>
    BY <2>1, LoopViews
  <2>3. ClosesAhead(tasks)
    BY <2>2 DEF ClosesAhead, Holds
  <2>4. BeforeConnect'
    BY <1>1, <1>6, <2>1, <2>2, <2>3 DEF BeforeConnect, ClosesAhead
  <2>5. U' # <<"client.Close">>
    BY <1>6
  <2>6. AwaitInv' /\ ConnectingInv' /\ StreamInv' /\ ConnectedInv'
    BY <1>1, <1>6, <2>1, <2>4, <2>5 DEF AwaitInv, ConnectingInv, StreamInv, ConnectedInv
  <2> QED
    BY <1>2, <1>4, <2>6 DEF StateInv
<1>7. ASSUME U = <<"Closing", "client.Close">>, U' = <<"client.Close">>,
             state' = "Closing", tasks' = tasks
      PROVE  StateInv'
  BY <1>2, <1>4, <1>7
     DEF StateInv, AwaitInv, ConnectingInv, StreamInv, ConnectedInv, Closes
<1>8. ASSUME NEW c \in ClientCall, U = <<c>>, tasks' = Append(tasks, OnEvent[c]),
             U' = << >>, state' = state
      PROVE  StateInv'
  <2>1. /\ OnEvent[c] \in EventCall
        /\ OnEvent[c] = "ConnectOnEvent" <=> c = "client.Connect"
        /\ OnEvent[c] = "CloseOnEvent" <=> c = "client.Close"
        /\ OnEvent[c] = "WriteOnEvent" <=> c = "client.Write"
    BY DEF OnEvent, ClientCall, EventCall
  <2>2. \A f : Holds(tasks', f) <=> Holds(tasks, f) \/ OnEvent[c] = f
    BY <1>0, <1>8, <2>1, QueueAppend
  <2>3. \A d : U = <<d>> <=> c = d
    BY <1>8
  <2>4. Awaited' => Awaited
    <3>1. Posted' => Posted \/ c = "client.Connect"
      BY <1>1, <2>1, <2>2, LoopViews
    <3>2. U' # <<"client.Connect">>
      BY <1>8
    <3> QED
      BY <1>1, <1>3, <2>3, <3>1, <3>2 DEF Awaited
  <2>5. AwaitInv'
    BY <1>0, <1>8, <2>4 DEF AwaitInv
  <2>6. StreamInv'
    <3>1. Closes => Closes'
      BY <1>1, <1>8, <2>1, <2>2, <2>3 DEF Closes
    <3> QED
      BY <1>0, <1>1, <1>8, <3>1 DEF StreamInv
  <2>7. ConnectedInv'
    BY <1>0, <1>1, <1>8 DEF ConnectedInv
  <2>8. ConnectingInv'
    <3> SUFFICES ASSUME state = "Connecting"
                 PROVE  U' # <<"client.Close">> /\ (BeforeConnect' \/ DuringConnect')
      BY <1>8 DEF ConnectingInv
    <3>1. c # "client.Close" /\ U' # <<"client.Close">>
      BY <1>0, <1>8, <2>3 DEF ConnectingInv
    <3>2. ASSUME c = "client.Connect" PROVE BeforeConnect'
      <4>1. handle \in {"none", "closed"} /\ ~Posted
        BY <1>0, <1>8, <3>2 DEF OneConnect, UserConnects
      <4>2. ~Holds(tasks, "ConnectOnEvent") /\ L # <<"ConnectOnEvent">>
        BY <4>1, LoopViews
      <4>3. ClosesAhead(tasks')
        BY <1>0, <1>8, <2>1, <3>2, <4>2, QueueAppend
      <4>4. Posted'
        BY <2>1, <2>2, <3>2, LoopViews
      <4> QED
        BY <1>1, <4>1, <4>2, <4>3, <4>4 DEF BeforeConnect, ClosesAhead
    <3>3. ASSUME c = "client.Write", BeforeConnect PROVE BeforeConnect'
      <4>1. Posted
        BY <2>3, <3>3 DEF BeforeConnect
      <4>2. Posted'
        BY <1>1, <2>2, <4>1, LoopViews
      <4>3. ClosesAhead(tasks')
        BY <1>0, <1>8, <2>1, <3>3, QueueAppend DEF BeforeConnect
      <4>4. Holds(tasks', "CloseOnEvent") => Holds(tasks, "CloseOnEvent")
        BY <2>1, <2>2, <3>3
      <4> QED
        BY <1>1, <3>3, <4>2, <4>3, <4>4 DEF BeforeConnect, ClosesAhead, Holds
    <3>4. ASSUME c = "client.Write", DuringConnect PROVE DuringConnect'
      <4>1. Holds(tasks', "CloseOnEvent") => Holds(tasks, "CloseOnEvent")
        BY <2>1, <2>2, <3>4
      <4> QED
        BY <1>1, <3>4, <4>1 DEF DuringConnect, Holds
    <3> QED
      BY <1>0, <3>1, <3>2, <3>3, <3>4 DEF ConnectingInv, ClientCall
  <2> QED
    BY <1>2, <1>4, <2>5, <2>6, <2>7, <2>8 DEF StateInv
<1> QED
  BY <1>5, <1>6, <1>7, <1>8 DEF UserMove

(* Taking a posted function from the queue. *)
LEMMA RunMoveKeeps ==
  ASSUME TypeOK, PoliteInv, StateInv, RunMove
  PROVE  StateInv'
<1>0. /\ OneConnect /\ tasks \in Seq(EventCall)
      /\ ResultInv /\ AwaitInv /\ ConnectingInv /\ StreamInv /\ ConnectedInv
  BY DEF PoliteInv, StateInv, TypeOK
<1>1. /\ L = << >> /\ tasks # << >> /\ L' = <<Head(tasks)>> /\ tasks' = Tail(tasks)
      /\ UNCHANGED <<state, U, handle, connect_req>>
  BY DEF RunMove
<1>2. /\ Head(tasks) \in EventCall
      /\ \A f : Holds(tasks, f) <=> Head(tasks) = f \/ Holds(tasks', f)
      /\ ClosesAhead(tasks) => ClosesAhead(tasks')
      /\ ClosesAhead(tasks) /\ Head(tasks) = "ConnectOnEvent" => ~Holds(tasks, "CloseOnEvent")
  BY <1>0, <1>1, QueueTail
<1>3. /\ L' # << >> /\ Head(L') = Head(tasks)
      /\ \A f : L' = <<f>> <=> Head(tasks) = f
  BY <1>1
<1>4. ~Top(Loop, "Connected")' /\ ~Top(Loop, "ConnFailed")'
  BY <1>2, <1>3, LoopViews DEF EventCall
<1>5. Fits(L)'
  <2>1. Fits(<<Head(tasks)>>)
    BY <1>2, MadeCalls DEF EventCall
  <2> QED
    BY <1>1, <2>1 DEF Fits
<1>6. ResultInv'
  BY <1>4 DEF ResultInv
<1>7. Posted' <=> Posted
  BY <1>1, <1>2, <1>3, LoopViews
<1>8. AwaitInv'
  BY <1>0, <1>1, <1>4, <1>7 DEF AwaitInv, Awaited
<1>9. StreamInv'
  <2>1. ASSUME Closes PROVE Closes'
    <3>1. ~Holds(L, "client.Close") /\ ~Holds(L, "CloseOnEvent")
      BY <1>1, MadeCalls
    <3>2. CASE Holds(tasks, "CloseOnEvent")
      <4>1. Holds(tasks', "CloseOnEvent") \/ L' = <<"CloseOnEvent">>
        BY <1>2, <1>3, <3>2
      <4>2. Holds(<<"CloseOnEvent">>, "CloseOnEvent")
        BY MadeCalls, FrameNames DEF EventCall
      <4> QED
        BY <4>1, <4>2 DEF Closes, Holds
    <3> QED
      BY <1>1, <2>1, <3>1, <3>2 DEF Closes
  <2> QED
    BY <1>0, <1>1, <2>1 DEF StreamInv
<1>10. ConnectedInv'
  BY <1>0, <1>1 DEF ConnectedInv
<1>11. ConnectingInv'
  <2> SUFFICES ASSUME state = "Connecting" PROVE BeforeConnect' \/ DuringConnect'
    BY <1>0, <1>1 DEF ConnectingInv
  <2>1. ASSUME BeforeConnect PROVE BeforeConnect'
    <3>1. L' = <<"ConnectOnEvent">> => ~Holds(tasks', "CloseOnEvent")
      BY <1>2, <1>3, <2>1 DEF BeforeConnect
    <3> QED
      BY <1>1, <1>2, <1>7, <2>1, <3>1 DEF BeforeConnect, ClosesAhead, Holds
  <2>2. ASSUME DuringConnect PROVE DuringConnect'
    <3>1. ~Holds(tasks, "CloseOnEvent") /\ handle = "socket" /\ connect_req
      BY <1>1, <2>2 DEF DuringConnect
    <3>2. ~Posted
      BY <1>0, <3>1 DEF OneConnect
    <3>3. ~Holds(tasks, "ConnectOnEvent")
      BY <3>2, LoopViews
    <3>4. Head(tasks) = "WriteOnEvent" /\ ~Holds(tasks', "CloseOnEvent")
      BY <1>2, <3>1, <3>3 DEF EventCall
    <3> QED
      BY <1>1, <1>3, <3>1, <3>4 DEF DuringConnect, Holds
  <2> QED
    BY <1>0, <2>1, <2>2 DEF ConnectingInv
<1> QED
  BY <1>5, <1>6, <1>8, <1>9, <1>10, <1>11 DEF StateInv

(* uv_tcp_init, and a connect that started or failed. *)
LEMMA ConnectMoveKeeps ==
  ASSUME TypeOK, PoliteInv, StateInv, RequestsAnswered, ConnectMove
  PROVE  StateInv'
<1>0. ResultInv /\ AwaitInv /\ ConnectingInv /\ StreamInv /\ ConnectedInv
  BY DEF StateInv
<1>1. /\ L = <<"ConnectOnEvent">> /\ handle \in {"none", "closed"}
      /\ UNCHANGED <<state, U, tasks>>
      /\ \/ handle' = "init" /\ L' = <<"ConnFailed">> /\ connect_req' = connect_req
         \/ handle' = "socket" /\ L' = << >> /\ connect_req' = TRUE
  BY DEF ConnectMove
<1>2. ~connect_req
  BY <1>1 DEF RequestsAnswered
<1>3. Fits(L)'
  <2>1. Fits(<< >>) /\ Fits(<<"ConnFailed">>)
    BY MadeCalls
  <2> QED
    BY <1>1, <2>1 DEF Fits
<1>4. Head(<<"ConnFailed">>) = "ConnFailed"
  OBVIOUS
<1>5. ~Top(Loop, "Connected")' /\ (Top(Loop, "ConnFailed")' => handle' = "init" /\ ~connect_req')
  BY <1>1, <1>2, <1>4, LoopViews
<1>6. ResultInv'
  BY <1>5 DEF ResultInv
<1>7. state \in {"Connecting", "Closing", "Shutdown"}
  BY <1>0, <1>1, LoopViews DEF AwaitInv, Awaited
<1>8. AwaitInv' /\ StreamInv' /\ ConnectedInv'
  BY <1>1, <1>7 DEF AwaitInv, StreamInv, ConnectedInv
<1>9. ConnectingInv'
  <2> SUFFICES ASSUME state = "Connecting" PROVE DuringConnect'
    BY <1>0, <1>1 DEF ConnectingInv
  <2>1. ~DuringConnect
    BY <1>1 DEF DuringConnect
  <2>2. ~Holds(tasks, "CloseOnEvent")
    BY <1>0, <1>1, <2>1 DEF ConnectingInv, BeforeConnect
  <2> QED
    BY <1>1, <2>2 DEF DuringConnect, Holds
<1> QED
  BY <1>3, <1>6, <1>8, <1>9 DEF StateInv

(* What remains of the stack when the innermost call continued with calls  *)
(* that are no calls of a connect.                                         *)
LEMMA RestOfStack ==
  ASSUME PoliteApp, TypeOK, PoliteInv, Fits(L), NEW f, Top(Loop, f),
         NEW fr \in Seq(Frame), Fits(fr), NoConnect(fr), L' = fr \o Tail(L)
  PROVE  /\ Fits(L)' /\ ~Top(Loop, "Connected")' /\ ~Top(Loop, "ConnFailed")'
         /\ \A g : Holds(L', g) <=> Holds(fr, g) \/ Holds(Tail(L), g)
         /\ \A g : g # f /\ Holds(L, g) => Holds(L', g)
         /\ f \in {"Shutdown", "Closing"} => Holds(L', "client.Close")
<1>1. L \in Seq(Frame) /\ L # << >> /\ Head(L) = f
  BY TopOfLoop DEF Top, L
<1>2. /\ Tail(L) \in Seq(Frame) /\ Fits(Tail(L)) /\ NoConnect(Tail(L))
      /\ Head(L) \in {"Shutdown", "Closing"} => Holds(Tail(L), "client.Close")
      /\ \A g : g # Head(L) /\ Holds(L, g) => Holds(Tail(L), g)
  BY <1>1, TailFits, HeadAndTail
<1>3. /\ L' \in Seq(Frame) /\ Fits(fr \o Tail(L)) /\ NoConnect(fr \o Tail(L))
      /\ \A g : Holds(fr \o Tail(L), g) <=> Holds(fr, g) \/ Holds(Tail(L), g)
  BY <1>2, ConcatFits
<1>4. Fits(L)'
  BY <1>3 DEF Fits
<1>5. L' # << >> => Head(L') \notin ConnectCall
  BY <1>3, TopNoConnect
<1>6. ~Top(Loop, "Connected")' /\ ~Top(Loop, "ConnFailed")'
  BY <1>5, LoopViews DEF ConnectCall
<1>7. \A g : Holds(L', g) <=> Holds(fr, g) \/ Holds(Tail(L), g)
  BY <1>3
<1> QED
  BY <1>1, <1>2, <1>4, <1>6, <1>7

(* A call that continues was not the connect, and leaves none behind. *)
LEMMA NoConnectLeft ==
  ASSUME PoliteApp, TypeOK, Fits(L), NEW f, Top(Loop, f), f # "ConnectOnEvent",
         NEW fr \in Seq(Frame), NoConnect(fr), L' = fr \o Tail(L), UNCHANGED tasks
  PROVE  Posted' <=> Posted
<1>1. L \in Seq(Frame) /\ L # << >> /\ Head(L) = f
  BY TopOfLoop DEF Top, L
<1>2. Tail(L) \in Seq(Frame) /\ NoConnect(Tail(L))
  BY <1>1, HeadAndTail, TailFits
<1>3. L' # <<"ConnectOnEvent">>
  <2> SUFFICES ASSUME L' = <<"ConnectOnEvent">> PROVE FALSE
    OBVIOUS
  <2>1. Len(<<"ConnectOnEvent">>) = 1 /\ <<"ConnectOnEvent">>[1] = "ConnectOnEvent"
    OBVIOUS
  <2>2. 1 \in 1..Len(L') /\ L'[1] = "ConnectOnEvent"
    BY <2>1
  <2> QED
    BY <1>2, <2>2, Elements DEF NoConnect, ConnectCall
<1>4. L # <<"ConnectOnEvent">>
  <2>1. Head(<<"ConnectOnEvent">>) = "ConnectOnEvent"
    OBVIOUS
  <2> QED
    BY <1>1, <2>1
<1> QED
  BY <1>3, <1>4, LoopViews

(* SetState on the network thread. *)
LEMMA SetMoveKeeps ==
  ASSUME PoliteApp, TypeOK, PoliteInv, StateInv, RequestsAnswered, SetMove
  PROVE  StateInv'
<1>0. /\ LoopStack /\ OneConnect
      /\ Fits(L) /\ ResultInv /\ AwaitInv /\ ConnectingInv /\ StreamInv /\ ConnectedInv
  BY DEF PoliteInv, StateInv
<1>1. PICK s \in {"Closing", "Connected", "ConnFailed", "Shutdown", "Closed"} :
        /\ Top(Loop, s) /\ state' = s /\ L' = Tail(L)
        /\ UNCHANGED <<U, tasks, handle, connect_req>>
  BY DEF SetMove
<1>2. << >> \in Seq(Frame) /\ L' = << >> \o Tail(L)
  <2>1. L \in Seq(Frame) /\ L # << >>
    BY <1>1, TopOfLoop
  <2>2. Tail(L) \in Seq(Frame)
    BY <2>1, HeadAndTail
  <2> QED
    BY <1>1, <2>2, FrameSeqs, ConcatEmptySeq
<1>3. /\ Fits(L)' /\ ~Top(Loop, "Connected")' /\ ~Top(Loop, "ConnFailed")'
      /\ \A g : g # s /\ Holds(L, g) => Holds(L', g)
      /\ s \in {"Shutdown", "Closing"} => Holds(L', "client.Close")
  BY <1>0, <1>1, <1>2, MadeCalls, RestOfStack
<1>4. Posted' <=> Posted
  BY <1>0, <1>1, <1>2, MadeCalls, NoConnectLeft
<1>5. s = "Closed" => L = <<"Closed">> /\ handle = "closed"
  <2> SUFFICES ASSUME s = "Closed" PROVE L = <<"Closed">> /\ handle = "closed"
    OBVIOUS
  <2>1. L = <<"Closed">>
    BY <1>0, <1>1, AloneOnLoop DEF Ordinary
  <2>2. L[1] = "Closed" /\ 1 \in 1..Len(L)
    BY <1>1, TopOfLoop
  <2> QED
    BY <1>0, <2>1, <2>2 DEF LoopStack, Ordinary
<1>6. ResultInv'
  BY <1>3 DEF ResultInv
<1>7. s \in {"Connected", "ConnFailed"} => handle \notin {"none", "closed"} /\ ~connect_req
  BY <1>0, <1>1 DEF ResultInv
<1>8. AwaitInv'
  <2>1. ASSUME s \in {"Connected", "ConnFailed", "Closed"} PROVE ~Awaited'
    <3>1. ~UserConnects /\ ~Posted /\ ~connect_req
      BY <1>0, <1>5, <1>7, <2>1 DEF OneConnect, RequestsAnswered
    <3> QED
      BY <1>1, <1>3, <1>4, <3>1 DEF Awaited, UserConnects
  <2> QED
    BY <1>1, <2>1 DEF AwaitInv
<1>9. StreamInv'
  <2>1. CASE s \in {"Shutdown", "Closing"}
    BY <1>3, <2>1 DEF StreamInv, Closes
  <2>2. CASE s = "Connected"
    BY <1>1, <2>2 DEF StreamInv
  <2>3. CASE s = "ConnFailed"
    BY <1>0, <1>1, <2>3 DEF StreamInv, ResultInv
  <2>4. CASE s = "Closed"
    BY <1>1, <1>5, <2>4 DEF StreamInv
  <2> QED
    BY <2>1, <2>2, <2>3, <2>4
<1>10. ConnectedInv'
  BY <1>0, <1>1 DEF ConnectedInv, ResultInv
<1>11. ConnectingInv'
  BY <1>1 DEF ConnectingInv
<1> QED
  BY <1>3, <1>6, <1>8, <1>9, <1>10, <1>11 DEF StateInv

(* A call on the network thread that sets no state. *)
LEMMA PopMoveKeeps ==
  ASSUME PoliteApp, TypeOK, PoliteInv, StateInv, PopMove
  PROVE  StateInv'
<1>0. /\ Fits(L) /\ ResultInv /\ AwaitInv /\ ConnectingInv /\ StreamInv /\ ConnectedInv
  BY DEF StateInv
<1>1. PICK f \in Plain, fr \in Seq(Frame) :
        /\ Top(Loop, f) /\ L' = fr \o Tail(L)
        /\ Fits(fr) /\ NoConnect(fr)
        /\ f = "client.Close" => Holds(fr, "CloseOnEvent")
        /\ f = "CloseOnEvent" => handle' \in {"closing", "closed"}
        /\ f = "WriteOnEvent" /\ handle = "socket" => fr = << >>
        /\ \/ handle' = handle
           \/ f = "CloseOnEvent" /\ handle \notin {"none", "closed"} /\ handle' = "closing"
        /\ UNCHANGED <<state, U, tasks, connect_req>>
  BY DEF PopMove
<1>2. /\ Fits(L)' /\ ~Top(Loop, "Connected")' /\ ~Top(Loop, "ConnFailed")'
      /\ \A g : Holds(L', g) <=> Holds(fr, g) \/ Holds(Tail(L), g)
      /\ \A g : g # f /\ Holds(L, g) => Holds(L', g)
  BY <1>0, <1>1, RestOfStack
<1>3. L \in Seq(Frame) /\ L # << >> /\ Head(L) = f
  BY <1>1, TopOfLoop DEF Top, L
<1>4. f \notin {"ConnectOnEvent", "Connected", "ConnFailed", "Closed"}
  BY DEF Plain
<1>5. Posted' <=> Posted
  BY <1>0, <1>1, <1>4, NoConnectLeft
<1>6. ResultInv'
  BY <1>2 DEF ResultInv
<1>7. AwaitInv'
  BY <1>0, <1>1, <1>2, <1>5 DEF AwaitInv, Awaited
<1>8. \A g : L = <<g>> => f = g
  <2>1. \A g : Head(<<g>>) = g
    OBVIOUS
  <2> QED
    BY <1>3, <2>1
<1>9. L # <<"Connected">> /\ L # <<"Closed">> /\ L # <<"ConnectOnEvent">>
  BY <1>4, <1>8
<1>10. StreamInv'
  <2> SUFFICES ASSUME handle' = "stream", state # "Connected" PROVE Closes'
    BY <1>1 DEF StreamInv
  <2>1. handle = "stream" /\ f # "CloseOnEvent"
    BY <1>1
  <2>2. Closes
    BY <1>0, <1>9, <2>1 DEF StreamInv
  <2>3. f = "client.Close" => Holds(L', "CloseOnEvent")
    BY <1>1, <1>2
  <2>4. f # "client.Close" /\ Holds(L, "client.Close") => Holds(L', "client.Close")
    BY <1>2
  <2>5. Holds(L, "CloseOnEvent") => Holds(L', "CloseOnEvent")
    BY <1>2, <2>1
  <2> QED
    BY <1>1, <2>2, <2>3, <2>4, <2>5 DEF Closes, Holds
<1>11. ConnectedInv'
  BY <1>0, <1>1, <1>9 DEF ConnectedInv
<1>12. ConnectingInv'
  <2> SUFFICES ASSUME state = "Connecting" PROVE BeforeConnect' \/ DuringConnect'
    BY <1>0, <1>1 DEF ConnectingInv
  <2>1. ASSUME BeforeConnect PROVE BeforeConnect'
    <3>1. handle' = handle
      BY <1>1, <2>1 DEF BeforeConnect
    <3>2. L' = <<"ConnectOnEvent">> => ~Holds(tasks', "CloseOnEvent")
      <4>1. Head(<<"ConnectOnEvent">>) = "ConnectOnEvent"
        OBVIOUS
      <4>2. \A g \in ConnectCall : ~Holds(fr, g) /\ ~Holds(Tail(L), g)
        BY <1>0, <1>1, <1>3, TailFits DEF NoConnect, Holds
      <4>3. ~Holds(L', "ConnectOnEvent")
        BY <1>2, <4>2 DEF ConnectCall
      <4>4. Holds(<<"ConnectOnEvent">>, "ConnectOnEvent")
        BY MadeCalls, FrameNames DEF EventCall
      <4> QED
        BY <4>3, <4>4
    <3> QED
      BY <1>1, <1>5, <2>1, <3>1, <3>2 DEF BeforeConnect, ClosesAhead, Holds
  <2>2. ASSUME DuringConnect PROVE DuringConnect'
    <3>1. /\ ~Holds(tasks, "CloseOnEvent")
          /\ handle = "socket" /\ connect_req /\ L = <<"WriteOnEvent">>
      <4>1. L # <<"ConnFailed">> /\ L # <<"ConnFailed", "flush_writes">>
        <5>1. Head(<<"ConnFailed", "flush_writes">>) = "ConnFailed"
          OBVIOUS
        <5> QED
          BY <1>3, <1>4, <1>8, <5>1
      <4> QED
        BY <1>3, <1>9, <2>2, <4>1 DEF DuringConnect
    <3>2. f = "WriteOnEvent" /\ fr = << >>
      BY <1>1, <1>8, <3>1
    <3>3. L' = << >>
      <4>1. Tail(<<"WriteOnEvent">>) = << >>
        OBVIOUS
      <4> QED
        BY <1>1, <3>1, <3>2, <4>1, FrameSeqs, ConcatEmptySeq
    <3> QED
      BY <1>1, <3>1, <3>2, <3>3 DEF DuringConnect, Holds
  <2> QED
    BY <1>0, <2>1, <2>2 DEF ConnectingInv
<1> QED
  BY <1>2, <1>6, <1>7, <1>10, <1>11, <1>12 DEF StateInv

(* The close callback. *)
LEMMA ReleaseMoveKeeps ==
  ASSUME StateInv, ReleaseMove
  PROVE  StateInv'
<1>0. /\ AwaitInv /\ ConnectingInv
      /\ L = <<"close_cb">> /\ L' = <<"Closed">>
      /\ handle = "closing" /\ handle' = "closed"
      /\ UNCHANGED <<state, U, tasks, connect_req>>
  BY DEF StateInv, ReleaseMove
<1>1. Head(<<"Closed">>) = "Closed" /\ Fits(<<"Closed">>)
  BY MadeCalls
<1>2. Fits(L)'
  BY <1>0, <1>1 DEF Fits
<1>3. ~Top(Loop, "Connected")' /\ ~Top(Loop, "ConnFailed")'
  BY <1>0, <1>1, LoopViews
<1>4. Posted' <=> Posted
  BY <1>0, LoopViews
<1>5. AwaitInv'
  BY <1>0, <1>3, <1>4 DEF AwaitInv, Awaited
<1>6. state # "Connecting"
  BY <1>0 DEF ConnectingInv, BeforeConnect, DuringConnect
<1> QED
  BY <1>0, <1>2, <1>3, <1>5, <1>6
     DEF StateInv, ResultInv, ConnectingInv, StreamInv, ConnectedInv

(* libuv's callbacks. *)
LEMMA EventMoveKeeps ==
  ASSUME PoliteApp, TypeOK', PoliteInv, StateInv, EventMove
  PROVE  StateInv'
<1>0. /\ ResultInv /\ AwaitInv /\ ConnectingInv /\ StreamInv /\ ConnectedInv /\ OneConnect
      /\ L = << >> /\ Fits(L) /\ UNCHANGED <<state, U, tasks>>
  BY DEF PoliteInv, StateInv, EventMove
<1>1. Fits(L)'
  BY DEF EventMove, Fits
<1>2. L' \in Seq(Frame)
  BY Threads DEF TypeOK, L
<1>3. \A f : ~Holds(L, f)
  BY <1>0, MadeCalls
<1>4. ASSUME handle = "socket", connect_req, ~connect_req',
             \/ handle' = "stream" /\ L' = <<"Connected">>
             \/ handle' = handle /\ L' = <<"ConnFailed", "flush_writes">>
      PROVE  StateInv'
  <2>1. Head(<<"Connected">>) = "Connected" /\ Head(<<"ConnFailed", "flush_writes">>) = "ConnFailed"
    OBVIOUS
  <2>2. ResultInv'
    BY <1>4, <2>1, LoopViews DEF ResultInv
  <2>3. AwaitInv'
    BY <1>0, <1>4 DEF AwaitInv, Awaited
  <2>4. StreamInv' /\ ConnectedInv'
    BY <1>0, <1>4 DEF StreamInv, ConnectedInv
  <2>5. ConnectingInv'
    <3>1. DuringConnect => DuringConnect'
      BY <1>0, <1>4 DEF DuringConnect, Holds
    <3>2. ~BeforeConnect
      BY <1>4 DEF BeforeConnect
    <3> QED
      BY <1>0, <3>1, <3>2 DEF ConnectingInv
  <2> QED
    BY <1>1, <2>2, <2>3, <2>4, <2>5 DEF StateInv
<1>5. ASSUME \/ /\ handle = "closing" /\ handle' = handle /\ ~connect_req'
                /\ ~Top(Loop, "ConnectOnEvent")' /\ ~Top(Loop, "Connected")'
                /\ Top(Loop, "ConnFailed")' => connect_req
             \/ /\ handle \in {"stream", "shut"} \/ (handle = "socket" /\ ~connect_req)
                /\ handle' = handle \/ (handle = "stream" /\ handle' = "shut")
                /\ NoConnect(L')
                /\ UNCHANGED connect_req
      PROVE  StateInv'
  <2>1. /\ ~Top(Loop, "ConnectOnEvent")' /\ ~Top(Loop, "Connected")'
        /\ Top(Loop, "ConnFailed")' => connect_req /\ handle' = "closing" /\ ~connect_req'
        /\ connect_req' => connect_req
    BY <1>2, <1>5, TopNoConnect, LoopViews DEF ConnectCall
  <2>2. L' # <<"ConnectOnEvent">>
    <3>1. <<"ConnectOnEvent">> # << >> /\ Head(<<"ConnectOnEvent">>) = "ConnectOnEvent"
      OBVIOUS
    <3> QED
      BY <2>1, <3>1, LoopViews
  <2>3. ResultInv'
    BY <2>1 DEF ResultInv
  <2>4. ~Posted /\ ~UserConnects
    BY <1>0, <1>5 DEF OneConnect
  <2>5. ~Posted' /\ U' # <<"client.Connect">>
    BY <1>0, <2>2, <2>4, LoopViews DEF UserConnects
  <2>6. AwaitInv'
    BY <1>0, <2>1, <2>5 DEF AwaitInv, Awaited
  <2>7. StreamInv'
    <3> SUFFICES ASSUME handle' = "stream", state # "Connected" PROVE Closes'
      BY <1>0 DEF StreamInv
    <3>1. handle = "stream"
      BY <1>5
    <3>2. L # <<"Connected">>
      BY <1>0
    <3>3. U = <<"client.Close">> \/ Holds(tasks, "CloseOnEvent")
      BY <1>0, <1>3, <3>1, <3>2 DEF StreamInv, Closes
    <3> QED
      BY <1>0, <3>3 DEF Closes, Holds
  <2>8. ConnectedInv'
    <3>1. L # <<"Closed">>
      BY <1>0
    <3> QED
      BY <1>0, <1>5, <3>1 DEF ConnectedInv
  <2>9. ConnectingInv'
    <3>1. state # "Connecting"
      BY <1>0, <1>5 DEF ConnectingInv, BeforeConnect, DuringConnect
    <3> QED
      BY <1>0, <3>1 DEF ConnectingInv
  <2> QED
    BY <1>1, <2>3, <2>6, <2>7, <2>8, <2>9 DEF StateInv
<1> QED
  BY <1>4, <1>5 DEF EventMove

-----------------------------------------------------------------------------
(* Every kind of step keeps EndedInv. *)

(* EndedInv holds at first. *)
LEMMA InitEnded ==
  ASSUME PoliteApp
  PROVE  Init => EndedInv
BY DEF Init, EndedInv, FailedInv, ShutInv

(* A step that changes none of the variables concerned. *)
LEMMA StillEnded ==
  ASSUME EndedInv, Still
  PROVE  EndedInv'
<1>1. UNCHANGED <<state, U, L, tasks, handle, connect_req, shutdown_req>>
  BY DEF Still
<1>2. \A f : Top(Loop, f)' <=> Top(Loop, f)
  BY <1>1, LoopViews
<1>3. Closes' <=> Closes
  BY <1>1 DEF Closes, Holds
<1> QED
  BY <1>1, <1>2, <1>3 DEF EndedInv, FailedInv, ShutInv

(* The user's steps. *)
LEMMA UserMoveEnded ==
  ASSUME TypeOK, PoliteInv, EndedInv, UserMove
  PROVE  EndedInv'
<1>1. /\ OneConnect /\ tasks \in Seq(EventCall)
      /\ UNCHANGED <<L, handle, connect_req, shutdown_req>>
  BY DEF PoliteInv, TypeOK, UserMove
<1>2. \A f : Top(Loop, f)' <=> Top(Loop, f)
  BY <1>1, LoopViews
<1>3. ASSUME U \notin {<<"client.Connect">>, <<"client.Close">>},
             U' \notin {<<"client.Connect">>, <<"client.Close">>},
             state' = state, tasks' = tasks
      PROVE  EndedInv'
  <2>1. Closes' <=> Closes
    BY <1>1, <1>3 DEF Closes, Holds
  <2> QED
    BY <1>1, <1>2, <1>3, <2>1 DEF EndedInv, FailedInv, ShutInv
<1>4. ASSUME U = <<"Connecting", "client.Connect">>, state' = "Connecting"
      PROVE  EndedInv'
  <2>1. handle \in {"none", "closed"}
    BY <1>1, <1>4 DEF OneConnect, UserConnects
  <2> QED
    BY <1>1, <1>4, <2>1 DEF EndedInv, FailedInv, ShutInv
<1>5. ASSUME U' = <<"client.Close">>, state' = "Closing"
      PROVE  EndedInv'
  BY <1>5 DEF EndedInv, FailedInv, ShutInv, Closes
<1>6. ASSUME NEW c \in ClientCall, U = <<c>>, tasks' = Append(tasks, OnEvent[c]),
             state' = state
      PROVE  EndedInv'
  <2>1. OnEvent[c] \in EventCall /\ (c = "client.Close" => OnEvent[c] = "CloseOnEvent")
    BY DEF OnEvent, ClientCall, EventCall
  <2>2. \A f : Holds(tasks', f) <=> Holds(tasks, f) \/ OnEvent[c] = f
    BY <1>1, <1>6, <2>1, QueueAppend
  <2>3. U = <<"client.Close">> => c = "client.Close"
    BY <1>6
  <2>4. Closes => Closes'
    BY <1>1, <2>1, <2>2, <2>3 DEF Closes, Holds
  <2> QED
    BY <1>1, <1>2, <1>6, <2>4 DEF EndedInv, FailedInv, ShutInv
<1> QED
  BY <1>3, <1>4, <1>5, <1>6 DEF UserMove

(* Taking a posted function from the queue. *)
LEMMA RunMoveEnded ==
  ASSUME TypeOK, EndedInv, RunMove
  PROVE  EndedInv'
<1>1. /\ L = << >> /\ tasks # << >> /\ L' = <<Head(tasks)>> /\ tasks' = Tail(tasks)
      /\ UNCHANGED <<state, U, handle, connect_req, shutdown_req>>
      /\ tasks \in Seq(EventCall)
  BY DEF RunMove, TypeOK
<1>2. \A f : Holds(tasks, f) <=> Head(tasks) = f \/ Holds(tasks', f)
  BY <1>1, QueueTail
<1>3. L # <<"Closed">> /\ ~Top(Loop, "ConnFailed")
  BY <1>1, LoopViews
<1>4. ASSUME Closes PROVE Closes'
  <2>1. ~Holds(L, "client.Close") /\ ~Holds(L, "CloseOnEvent")
    BY <1>1, MadeCalls
  <2>2. CASE Holds(tasks, "CloseOnEvent")
    <3>1. Holds(tasks', "CloseOnEvent") \/ L' = <<"CloseOnEvent">>
      BY <1>1, <1>2, <2>2
    <3>2. Holds(<<"CloseOnEvent">>, "CloseOnEvent")
      BY MadeCalls, FrameNames DEF EventCall
    <3> QED
      BY <3>1, <3>2 DEF Closes, Holds
  <2> QED
    BY <1>1, <1>4, <2>1, <2>2 DEF Closes
<1> QED
  BY <1>1, <1>3, <1>4 DEF EndedInv, FailedInv, ShutInv

(* uv_tcp_init, and a connect that started or failed. *)
LEMMA ConnectMoveEnded ==
  ASSUME StateInv, ConnectMove
  PROVE  EndedInv'
<1>1. /\ L = <<"ConnectOnEvent">> /\ UNCHANGED <<state, U, tasks>>
      /\ \/ handle' = "init" /\ L' = <<"ConnFailed">>
         \/ handle' = "socket" /\ connect_req' = TRUE
  BY DEF ConnectMove
<1>2. state # "ConnFailed"
  BY <1>1, LoopViews DEF StateInv, AwaitInv, Awaited
<1>3. L' = <<"ConnFailed">> => Top(Loop, "ConnFailed")'
  BY LoopViews
<1> QED
  BY <1>1, <1>2, <1>3 DEF EndedInv, FailedInv, ShutInv

(* SetState on the network thread. *)
LEMMA SetMoveEnded ==
  ASSUME PoliteApp, TypeOK, PoliteInv, StateInv, EndedInv, SetMove
  PROVE  EndedInv'
<1>0. LoopStack /\ Fits(L) /\ ResultInv
  BY DEF PoliteInv, StateInv
<1>1. PICK s \in {"Closing", "Connected", "ConnFailed", "Shutdown", "Closed"} :
        /\ Top(Loop, s) /\ state' = s /\ L' = Tail(L)
        /\ UNCHANGED <<U, tasks, handle, connect_req, shutdown_req>>
  BY DEF SetMove
<1>2. << >> \in Seq(Frame) /\ L' = << >> \o Tail(L)
  <2>1. L \in Seq(Frame) /\ L # << >>
    BY <1>1, TopOfLoop
  <2>2. Tail(L) \in Seq(Frame)
    BY <2>1, HeadAndTail
  <2> QED
    BY <1>1, <2>2, FrameSeqs, ConcatEmptySeq
<1>3. /\ \A g : g # s /\ Holds(L, g) => Holds(L', g)
      /\ s \in {"Shutdown", "Closing"} => Holds(L', "client.Close")
  BY <1>0, <1>1, <1>2, MadeCalls, RestOfStack
<1>4. Closes => Closes'
  BY <1>1, <1>3 DEF Closes, Holds
<1>5. s \in {"Shutdown", "Closing"} => Closes'
  BY <1>3 DEF Closes
<1>6. CASE s \in {"Shutdown", "Closing"}
  BY <1>1, <1>5, <1>6 DEF EndedInv, FailedInv, ShutInv
<1>7. CASE s = "Connected"
  BY <1>0, <1>1, <1>7 DEF EndedInv, FailedInv, ShutInv, ResultInv
<1>8. CASE s = "ConnFailed"
  BY <1>0, <1>1, <1>8 DEF EndedInv, FailedInv, ShutInv, ResultInv
<1>9. CASE s = "Closed"
  <2>1. L = <<"Closed">>
    BY <1>0, <1>1, <1>9, AloneOnLoop DEF Ordinary
  <2>2. L[1] = "Closed" /\ 1 \in 1..Len(L)
    BY <1>1, <1>9, TopOfLoop
  <2>3. handle = "closed"
    BY <1>0, <2>2 DEF LoopStack, Ordinary
  <2> QED
    BY <1>1, <1>9, <2>3 DEF EndedInv, FailedInv, ShutInv
<1> QED
  BY <1>6, <1>7, <1>8, <1>9

(* A call on the network thread that sets no state. *)
LEMMA PopMoveEnded ==
  ASSUME PoliteApp, TypeOK, PoliteInv, StateInv, EndedInv, PopMove
  PROVE  EndedInv'
<1>0. Fits(L)
  BY DEF StateInv
<1>1. PICK f \in Plain, fr \in Seq(Frame) :
        /\ Top(Loop, f) /\ L' = fr \o Tail(L)
        /\ Fits(fr) /\ NoConnect(fr)
        /\ f = "client.Close" => Holds(fr, "CloseOnEvent")
        /\ f = "CloseOnEvent" => handle' \in {"closing", "closed"}
        /\ \/ handle' = handle
           \/ f = "CloseOnEvent" /\ handle \notin {"none", "closed"} /\ handle' = "closing"
        /\ UNCHANGED <<state, U, tasks, connect_req, shutdown_req>>
  BY DEF PopMove
<1>2. /\ \A g : Holds(L', g) <=> Holds(fr, g) \/ Holds(Tail(L), g)
      /\ \A g : g # f /\ Holds(L, g) => Holds(L', g)
  BY <1>0, <1>1, RestOfStack
<1>3. L # <<"Closed">> /\ ~Top(Loop, "ConnFailed")
  <2>1. L # << >> /\ Head(L) = f
    BY <1>1 DEF Top, L
  <2>2. Head(<<"Closed">>) = "Closed"
    OBVIOUS
  <2> QED
    BY <2>1, <2>2, LoopViews DEF Plain
<1>4. CASE handle' = "closing"
  BY <1>4 DEF EndedInv, FailedInv, ShutInv
<1>5. CASE handle' # "closing"
  <2>1. handle' = handle
    BY <1>1, <1>5
  <2>2. ASSUME handle \notin {"none", "closed"}, Closes PROVE Closes'
    <3>1. f # "CloseOnEvent"
      BY <1>1, <1>5, <2>1, <2>2
    <3>2. f = "client.Close" => Holds(L', "CloseOnEvent")
      BY <1>1, <1>2
    <3>3. f # "client.Close" /\ Holds(L, "client.Close") => Holds(L', "client.Close")
      BY <1>2
    <3>4. Holds(L, "CloseOnEvent") => Holds(L', "CloseOnEvent")
      BY <1>2, <3>1
    <3> QED
      BY <1>1, <2>2, <3>2, <3>3, <3>4 DEF Closes, Holds
  <2> QED
    BY <1>1, <1>3, <2>1, <2>2 DEF EndedInv, FailedInv, ShutInv
<1> QED
  BY <1>4, <1>5

(* The close callback. *)
LEMMA ReleaseMoveEnded ==
  ASSUME ReleaseMove
  PROVE  EndedInv'
BY DEF ReleaseMove, EndedInv, FailedInv, ShutInv

(* libuv's callbacks. *)
LEMMA EventMoveEnded ==
  ASSUME StateInv, EndedInv, EventMove
  PROVE  EndedInv'
<1>0. /\ AwaitInv /\ StreamInv
      /\ L = << >> /\ UNCHANGED <<state, U, tasks>>
  BY DEF StateInv, EventMove
<1>1. \A f : ~Holds(L, f)
  BY <1>0, MadeCalls
<1>2. Closes => Closes'
  BY <1>0, <1>1 DEF Closes, Holds
<1>3. /\ ~Top(Loop, "ConnFailed") /\ L # <<"Connected">> /\ L # <<"Closed">>
  BY <1>0, LoopViews
<1>4. ASSUME handle = "socket", connect_req, ~connect_req',
             \/ handle' = "stream" /\ L' = <<"Connected">>
             \/ handle' = handle /\ L' = <<"ConnFailed", "flush_writes">>
      PROVE  EndedInv'
  <2>1. state # "ConnFailed"
    BY <1>0, <1>4 DEF AwaitInv, Awaited
  <2>2. L' = <<"ConnFailed", "flush_writes">> => Top(Loop, "ConnFailed")'
    <3>1. <<"ConnFailed", "flush_writes">> # << >>
          /\ Head(<<"ConnFailed", "flush_writes">>) = "ConnFailed"
      OBVIOUS
    <3> QED
      BY <3>1, LoopViews
  <2> QED
    BY <1>0, <1>4, <2>1, <2>2 DEF EndedInv, FailedInv, ShutInv
<1>5. CASE handle' = "closing"
  BY <1>5 DEF EndedInv, FailedInv, ShutInv
<1>6. ASSUME handle \in {"stream", "shut"} \/ (handle = "socket" /\ ~connect_req),
             handle' = handle \/ (handle = "stream" /\ handle' = "shut"),
             handle' = "shut" => \/ handle = "shut" /\ UNCHANGED shutdown_req
                                 \/ shutdown_req' \/ Holds(L', "client.Close"),
             UNCHANGED connect_req
      PROVE  EndedInv'
  <2>1. handle' = "socket" => handle = "socket" /\ ~connect_req
    BY <1>6
  <2>2. FailedInv'
    <3>1. handle = "socket" /\ ~connect_req => state = "ConnFailed" \/ Closes
      BY <1>3 DEF EndedInv, FailedInv
    <3>2. state = "ConnFailed" => handle = "socket" /\ ~connect_req
      BY <1>3, <1>6 DEF EndedInv, FailedInv
    <3> QED
      BY <1>0, <1>2, <1>6, <3>1, <3>2 DEF FailedInv
  <2>3. ShutInv'
    <3> SUFFICES ASSUME handle' = "shut", ~Closes' PROVE state' = "Connected" /\ shutdown_req'
      BY DEF ShutInv
    <3>1. ~Closes /\ ~Holds(L', "client.Close")
      BY <1>2 DEF Closes
    <3>2. CASE handle = "shut"
      BY <1>0, <1>6, <3>1, <3>2 DEF EndedInv, ShutInv
    <3>3. CASE handle = "stream"
      BY <1>0, <1>3, <1>6, <3>1, <3>3 DEF StreamInv
    <3> QED
      BY <1>6, <3>2, <3>3
  <2> QED
    BY <2>2, <2>3 DEF EndedInv
<1> QED
  BY <1>4, <1>5, <1>6 DEF EventMove

-----------------------------------------------------------------------------
(* The state tells the truth about the connection. *)

(* Every step keeps StateInv and EndedInv. *)
LEMMA NextState ==
  ASSUME PoliteApp, TypeOK, TypeOK', PoliteInv, NeverBroken', StateInv, EndedInv,
         RequestsAnswered, [Next]_vars
  PROVE  StateInv' /\ EndedInv'
<1>1. StateInv'
  BY NextKinds, StillKeeps, UserMoveKeeps, RunMoveKeeps, ConnectMoveKeeps, SetMoveKeeps,
     PopMoveKeeps, ReleaseMoveKeeps, EventMoveKeeps
<1>2. EndedInv'
  BY NextKinds, StillEnded, UserMoveEnded, RunMoveEnded, ConnectMoveEnded, SetMoveEnded,
     PopMoveEnded, ReleaseMoveEnded, EventMoveEnded
<1> QED
  BY <1>1, <1>2

(* The four parts hold always. *)
LEMMA StateInvariant ==
  ASSUME PoliteApp
  PROVE  Spec => [](TypeOK /\ PoliteInv /\ StateInv /\ EndedInv)
<1>1. /\ TypeOK /\ TypeOK' /\ PoliteInv /\ PoliteInv' /\ StateInv /\ EndedInv
      /\ RequestsAnswered /\ [Next]_vars
      => StateInv' /\ EndedInv'
  BY NextState DEF PoliteInv
<1> QED
  BY <1>1, InitType, NextType, InitPolite, NextPolite, InitCloseCb, NextCloseCb,
     InitRequests, NextRequests, InitState, InitEnded, PTL DEF Spec

(* Once all calls and callbacks have returned, Connecting is shown only    *)
(* while a connect is under way, ConnFailed exactly after one that failed, *)
(* Connected exactly with a connected socket (one that the peer has ended  *)
(* included until its writes are out), and Closed only without a socket.   *)
THEOREM StateIsTrue ==
  ASSUME PoliteApp
  PROVE  Spec => []QuietStateIsTrue
<1>1. TypeOK /\ PoliteInv /\ StateInv /\ EndedInv => QuietStateIsTrue
  <2> SUFFICES ASSUME TypeOK, PoliteInv, StateInv, EndedInv, Quiet PROVE QuietStateIsTrue
    BY DEF QuietStateIsTrue
  <2>1. U = << >> /\ L = << >> /\ tasks = << >> /\ handle # "closing"
    BY Threads DEF Quiet, U, L
  <2>2. \A f : ~Holds(L, f) /\ ~Holds(tasks, f) /\ ~Top(Loop, f)
    BY <2>1, MadeCalls, LoopViews
  <2>3. U # <<"client.Close">> /\ L # <<"Connected">> /\ L # <<"Closed">>
        /\ L # <<"ConnectOnEvent">> /\ U # <<"client.Connect">>
    BY <2>1
  <2>4. ~Closes /\ ~Posted
    BY <2>2, <2>3, LoopViews DEF Closes
  <2>5. state = "Connecting" => handle = "socket" /\ connect_req
    <3>1. ~BeforeConnect
      BY <2>3, <2>4 DEF BeforeConnect
    <3>2. L # <<"ConnFailed", "flush_writes">> /\ L # <<"ConnFailed">>
      BY <2>1
    <3> QED
      BY <2>3, <3>1, <3>2 DEF StateInv, ConnectingInv, DuringConnect
  <2>6. state = "ConnFailed" <=> handle = "init" \/ (handle = "socket" /\ ~connect_req)
    BY <2>1, <2>2, <2>3, <2>4 DEF EndedInv, FailedInv
  <2>7. handle = "shut" => state = "Connected" /\ shutdown_req
    BY <2>4 DEF EndedInv, ShutInv
  <2>8. state = "Connected" <=> handle = "stream" \/ (handle = "shut" /\ shutdown_req)
    BY <2>1, <2>3, <2>4, <2>7 DEF StateInv, StreamInv, ConnectedInv
  <2>9. handle = "none" => state = "Closed"
    BY <2>1, <2>3 DEF PoliteInv, FirstConnect
  <2> QED
    BY <2>5, <2>6, <2>7, <2>8, <2>9 DEF QuietStateIsTrue
<1> QED
  BY <1>1, StateInvariant, PTL

(* A callback of an earlier connection never sets the state of a later     *)
(* one: Connected and ConnFailed follow the connect they report, Closed    *)
(* never undoes a new Connect.                                             *)
THEOREM NoCallbackIsStale ==
  ASSUME PoliteApp
  PROVE  Spec => NoStaleCallback
<1> DEFINE Step == /\ state' \in {"Connected", "ConnFailed"} =>
                        state \in {"Connecting", "Closing", "Shutdown"}
                   /\ state' = "Closed" => state # "Connecting"
<1>1. ASSUME TypeOK, TypeOK', PoliteInv, NeverBroken', StateInv, [Next]_vars
      PROVE  [Step]_state
  <2> SUFFICES ASSUME state' # state PROVE Step
    OBVIOUS
  <2>1. CASE UserMove
    BY <2>1 DEF UserMove
  <2>2. CASE SetMove
    <3>1. PICK s \in {"Closing", "Connected", "ConnFailed", "Shutdown", "Closed"} :
            Top(Loop, s) /\ state' = s
      BY <2>2 DEF SetMove
    <3>2. s \in {"Connected", "ConnFailed"} => state \in {"Connecting", "Closing", "Shutdown"}
      BY <1>1, <3>1 DEF StateInv, AwaitInv, Awaited
    <3>3. ASSUME s = "Closed" PROVE state # "Connecting"
      <4>1. L = <<"Closed">>
        BY <1>1, <3>1, <3>3, AloneOnLoop DEF PoliteInv, Ordinary
      <4>2. ~UserConnects /\ ~Posted
        BY <1>1, <4>1 DEF PoliteInv, OneConnect
      <4>3. ~BeforeConnect
        BY <4>2 DEF BeforeConnect, UserConnects
      <4>4. ~DuringConnect
        <5>1. Head(<<"Closed">>) = "Closed" /\ Head(<<"ConnFailed", "flush_writes">>) = "ConnFailed"
          OBVIOUS
        <5> QED
          BY <4>1, <5>1 DEF DuringConnect
      <4> QED
        BY <1>1, <4>3, <4>4 DEF StateInv, ConnectingInv
    <3> QED
      BY <3>1, <3>2, <3>3
  <2>3. CASE Still \/ RunMove \/ ConnectMove \/ PopMove \/ ReleaseMove \/ EventMove
    BY <2>3 DEF Still, RunMove, ConnectMove, PopMove, ReleaseMove, EventMove
  <2> QED
    BY <1>1, <2>1, <2>2, <2>3, NextKinds
<1>2. TypeOK /\ TypeOK' /\ PoliteInv /\ PoliteInv' /\ StateInv /\ [Next]_vars => [Step]_state
  BY <1>1 DEF PoliteInv
<1> QED
  BY <1>2, StateInvariant, PTL DEF Spec, NoStaleCallback
=============================================================================
