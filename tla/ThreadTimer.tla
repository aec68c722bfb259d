---------------------------- MODULE ThreadTimer ----------------------------
(***************************************************************************)
(* sample-tools/impl/stl_threadtimer_impl.h.  Users start and stop a       *)
(* timer; each Start launches a thread that calls the callback again and   *)
(* again until m_running is off; the callback may call the timer, too.     *)
(* m_running is atomic, m_thread and m_callback are not protected: a step  *)
(* is the code up to the next access to one of the three.  The interval is *)
(* left out: a time that passed is a step the thread may take.             *)
(***************************************************************************)
EXTENDS Naturals, FiniteSets

CONSTANTS
  User,           \* the threads that use the timer
  UserCalls,      \* the calls they make
  CallbackCalls,  \* the calls the callback makes
  MaxCalls        \* bound on the number of calls

(* The threads that were launched, in that order.                          *)
Timer == 1..MaxCalls
Caller == User \cup Timer

(* StartWith is Start(ms, f), that is SetCbk(f) and Start().               *)
Call == {"Start", "StartWith", "Stop", "SetCbk"}
Place == Call \cup {"set", "launch", "clear", "join"}
UserPlace == Place \cup {"idle"}
TimerPlace == Place \cup {"none", "sleep", "fire", "callback", "done"}

ASSUME UserAssumption == User \cap Timer = {}
ASSUME CallsAssumption == /\ UserCalls \subseteq Call /\ CallbackCalls \subseteq Call
                          /\ MaxCalls \in Nat

VARIABLES
  m_running,
  m_callback,  \* a callback is set
  m_thread,    \* the joinable thread, 0: none
  launched,    \* number of threads launched
  pc,          \* where each thread is
  fault,       \* std::terminate was called
  calls        \* number of calls made

vars == <<m_running, m_callback, m_thread, launched, pc, fault, calls>>

TypeOK ==
  /\ m_running \in BOOLEAN
  /\ m_callback \in BOOLEAN
  /\ launched \in 0..MaxCalls
  /\ m_thread \in 0..launched
  /\ pc \in [Caller -> UserPlace \cup TimerPlace]
  /\ \A u \in User : pc[u] \in UserPlace
  /\ \A t \in Timer : pc[t] \in TimerPlace
  /\ fault \in BOOLEAN
  /\ calls \in 0..MaxCalls

Init ==
  /\ m_running = FALSE
  /\ m_callback \in BOOLEAN
  /\ m_thread = 0
  /\ launched = 0
  /\ pc = [x \in Caller |-> IF x \in User THEN "idle" ELSE "none"]
  /\ fault = FALSE
  /\ calls = 0

At(x, p) == pc[x] = p
Goto(x, p) == pc' = [pc EXCEPT ![x] = p]

(* Where a caller is after its call. *)
Back(x) == IF x \in User THEN "idle" ELSE "callback"

-----------------------------------------------------------------------------
(* A call, by a user or by the callback. *)

Begin(x, c) ==
  /\ IF x \in User THEN c \in UserCalls /\ At(x, "idle")
                   ELSE c \in CallbackCalls /\ At(x, "callback")
  /\ calls < MaxCalls
  /\ calls' = calls + 1
  /\ Goto(x, c)
  /\ UNCHANGED <<m_running, m_callback, m_thread, launched, fault>>

SetCbk(x) ==
  /\ At(x, "SetCbk") \/ At(x, "StartWith")
  /\ m_callback' = TRUE
  /\ Goto(x, IF At(x, "StartWith") THEN "Start" ELSE Back(x))
  /\ UNCHANGED <<m_running, m_thread, launched, fault, calls>>

(* Start: the test of m_running, then the assignment. *)
Start(x) ==
  /\ \/ /\ At(x, "Start")
        /\ Goto(x, IF m_running THEN Back(x) ELSE "set")
        /\ UNCHANGED m_running
     \/ At(x, "set") /\ Goto(x, "launch") /\ m_running' = TRUE
  /\ UNCHANGED <<m_callback, m_thread, launched, fault, calls>>

(* A thread is assigned to m_thread; over a joinable one that terminates.  *)
Launch(x) ==
  /\ At(x, "launch")
  /\ IF m_thread # 0
     THEN fault' = TRUE /\ UNCHANGED <<m_thread, launched, pc>>
     ELSE /\ launched' = launched + 1
          /\ m_thread' = launched'
          /\ pc' = [pc EXCEPT ![x] = Back(x), ![launched'] = "sleep"]
          /\ UNCHANGED fault
  /\ UNCHANGED <<m_running, m_callback, calls>>

(* Stop: the test of m_running, the assignment, then the join. *)
Stop(x) ==
  /\ \/ /\ At(x, "Stop")
        /\ Goto(x, IF m_running THEN "clear" ELSE Back(x))
        /\ UNCHANGED m_running
     \/ At(x, "clear") /\ Goto(x, "join") /\ m_running' = FALSE
  /\ UNCHANGED <<m_callback, m_thread, launched, fault, calls>>

(* Mutant: the thread is detached instead. *)
Join_Detach(x) ==
  /\ At(x, "join")
  /\ m_thread' = 0
  /\ Goto(x, Back(x))
  /\ UNCHANGED <<m_running, m_callback, launched, fault, calls>>

(* join() waits for the thread's end; a thread that joins itself gets an   *)
(* exception nobody catches.                                               *)
Join(x) ==
  /\ At(x, "join")
  /\ IF m_thread = x
     THEN fault' = TRUE /\ UNCHANGED <<m_thread, pc>>
     ELSE /\ m_thread # 0 => At(m_thread, "done")
          /\ m_thread' = 0
          /\ Goto(x, Back(x))
          /\ UNCHANGED fault
  /\ UNCHANGED <<m_running, m_callback, launched, calls>>

-----------------------------------------------------------------------------
(* A timer thread: run(). *)

(* Mutant: the flag is only tested before the callback. *)
Elapse_NeverEnds(t) ==
  /\ At(t, "sleep")
  /\ m_running
  /\ Goto(t, "fire")
  /\ UNCHANGED <<m_running, m_callback, m_thread, launched, fault, calls>>

(* The interval passed, or the timer was stopped. *)
Elapse(t) ==
  /\ At(t, "sleep")
  /\ Goto(t, IF m_running THEN "fire" ELSE "done")
  /\ UNCHANGED <<m_running, m_callback, m_thread, launched, fault, calls>>

(* Mutant: the thread ends after one callback. *)
Fire_Once(t) ==
  /\ \/ At(t, "fire") /\ Goto(t, IF m_callback THEN "callback" ELSE "sleep")
     \/ At(t, "callback") /\ Goto(t, "done")
  /\ UNCHANGED <<m_running, m_callback, m_thread, launched, fault, calls>>

(* The callback, if there is one, is called and returns.                   *)
Fire(t) ==
  /\ \/ At(t, "fire") /\ Goto(t, IF m_callback THEN "callback" ELSE "sleep")
     \/ At(t, "callback") /\ Goto(t, "sleep")
  /\ UNCHANGED <<m_running, m_callback, m_thread, launched, fault, calls>>

CallStep(x) == SetCbk(x) \/ Start(x) \/ Launch(x) \/ Stop(x) \/ Join(x)
TimerStep(t) == Elapse(t) \/ Fire(t)

Next ==
  /\ ~fault
  /\ \/ \E x \in Caller, c \in Call : Begin(x, c)
     \/ \E x \in Caller : CallStep(x)
     \/ \E t \in Timer : TimerStep(t)

(* Threads are scheduled, time passes and callbacks return.                *)
Fairness == /\ \A x \in Caller : WF_vars(~fault /\ CallStep(x))
            /\ \A t \in Timer : WF_vars(~fault /\ TimerStep(t))

Spec == Init /\ [][Next]_vars /\ Fairness

-----------------------------------------------------------------------------
Alive(t) == pc[t] \notin {"none", "done"}

(* However Start and Stop alternate, one thread calls the callback.        *)
OneThread == \A s, t \in Timer : Alive(s) /\ Alive(t) => s = t

(* Between the calls, m_running tells whether there is a thread: after     *)
(* Stop returned the callback neither runs nor will run.                   *)
StopIsFinal ==
  (\A u \in User : At(u, "idle")) =>
    IF m_running THEN m_thread # 0 /\ Alive(m_thread)
                 ELSE m_thread = 0 /\ \A t \in Timer : ~Alive(t)

(* threadtimer_interface.h:23, the timer is thread-safe: calls made from   *)
(* several threads do not end the program.  Not so with two users.         *)
NeverTerminates == ~fault

(* Stop returns. *)
StopReturns == \A u \in User : At(u, "clear") ~> At(u, "idle")
=============================================================================
