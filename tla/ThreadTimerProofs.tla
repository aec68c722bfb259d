------------------------- MODULE ThreadTimerProofs -------------------------
(***************************************************************************)
(* What holds of a timer used by one thread, whatever the number of its    *)
(* calls: one thread at most, and none once Stop returned.                 *)
(***************************************************************************)
EXTENDS PoliteThreadTimer, TLAPS

(* Users, timer threads and their places are apart. *)
LEMMA Apart ==
  /\ \A u \in User : u \notin Timer
  /\ \A u, v \in User : u = v
  /\ MaxCalls \in Nat
BY UserAssumption, PoliteAssumption, CallsAssumption

(* The joinable thread is one of the timer's. *)
LEMMA ThreadIsTimer == TypeOK /\ m_thread # 0 => m_thread \in Timer
BY Apart DEF TypeOK, Timer

(* The constructor establishes the invariant. *)
LEMMA InitInv == Init => PoliteInv
<1> SUFFICES ASSUME Init PROVE PoliteInv
  OBVIOUS
<1>2. \A t \in Timer : pc[t] = "none"
  BY Apart DEF Init, Caller
<1>3. \A u \in User : pc[u] = "idle"
  BY DEF Init, Caller
<1>1. TypeOK
  <2>1. "idle" \in UserPlace /\ "none" \in TimerPlace
    BY DEF UserPlace, TimerPlace
  <2>2. pc \in [Caller -> UserPlace \cup TimerPlace]
    BY <2>1 DEF Init
  <2>3. 0 \in 0..MaxCalls /\ 0 \in 0..0
    BY Apart
  <2> QED
    BY <1>2, <1>3, <2>1, <2>2, <2>3 DEF Init, TypeOK
<1>4. CountInv /\ CallInv
  BY <1>3 DEF Init, CountInv, CallInv, At, Launches
<1>5. TimerInv
  BY <1>2 DEF Init, TimerInv, Alive, Timer
<1> QED
  BY <1>1, <1>4, <1>5 DEF PoliteInv, Init

-----------------------------------------------------------------------------
(* Steps. *)

(* A call begins at its first line. *)
LEMMA BeginInv ==
  ASSUME PoliteInv, NEW x \in Caller, NEW c \in Call, Begin(x, c)
  PROVE  PoliteInv'
<1> USE DEF PoliteInv, Begin, At, Goto
<1>1. x \in User
  BY PoliteAssumption
<1>2. /\ pc' = [pc EXCEPT ![x] = c] /\ pc[x] = "idle" /\ calls' = calls + 1 /\ calls < MaxCalls
      /\ UNCHANGED <<m_running, m_callback, m_thread, launched, fault>>
  BY <1>1
<1>3. \A t \in Timer : pc'[t] = pc[t]
  BY <1>1, <1>2, Apart DEF TypeOK, Caller
<1>4. \A u \in User : u = x /\ pc'[u] = c
  BY <1>1, <1>2, Apart DEF TypeOK, Caller
<1>5. TypeOK'
  BY <1>2, <1>3, <1>4, Apart DEF TypeOK, UserPlace, Place
<1>6. CountInv'
  BY <1>1, <1>2, <1>4 DEF TypeOK, CountInv, Launches
<1>7. TimerInv'
  BY <1>2, <1>3 DEF TimerInv, Alive
<1>8. c \in Before /\ c \notin {"set", "launch", "clear", "join"}
  BY DEF Before, Call
<1>9. CallInv'
  <2>1. m_running <=> m_thread # 0
    BY <1>1, <1>2 DEF CallInv, Before
  <2>2. m_thread # 0 => m_thread \in Timer /\ pc'[m_thread] = pc[m_thread]
    BY <1>3, ThreadIsTimer
  <2>3. m_running => m_thread # 0 /\ Alive(m_thread)
    BY <1>1, <1>2 DEF CallInv, Before
  <2> QED
    BY <1>2, <1>4, <1>8, <2>1, <2>2, <2>3 DEF CallInv, Alive
<1> QED
  BY <1>2, <1>5, <1>6, <1>7, <1>9

(* Only a user is inside a call. *)
LEMMA CallsByUser ==
  ASSUME PoliteInv, NEW x \in Caller,
         pc[x] \in Call \cup {"set", "launch", "clear", "join"}
  PROVE  x \in User /\ x \notin Timer
BY Apart DEF PoliteInv, TimerInv, Caller, Call

(* A step of the user inside a call that launches and joins nothing keeps  *)
(* the invariant when the conditions of the next place hold.               *)
LEMMA UserStepInv ==
  ASSUME PoliteInv, NEW x \in User, NEW p \in UserPlace,
         pc' = [pc EXCEPT ![x] = p], m_running' \in BOOLEAN, m_callback' \in BOOLEAN,
         UNCHANGED <<m_thread, launched, fault, calls>>,
         p \in Launches => pc[x] \in Launches,
         p = "set" => ~m_running' /\ m_thread = 0,
         p = "launch" => m_running' /\ m_thread = 0,
         p = "clear" => m_running' /\ m_thread # 0 /\ Alive(m_thread),
         p = "join" => ~m_running' /\ m_thread # 0,
         p \in Before => (m_running' <=> m_thread # 0) /\ (m_thread # 0 => Alive(m_thread))
  PROVE  PoliteInv'
<1> USE DEF PoliteInv
<1>1. \A t \in Timer : pc'[t] = pc[t]
  BY Apart DEF TypeOK, Caller
<1>2. \A u \in User : u = x /\ pc'[u] = p
  BY Apart DEF TypeOK, Caller
<1>3. TypeOK'
  BY <1>1, <1>2, Apart DEF TypeOK, Caller
<1>4. CountInv'
  BY <1>2 DEF TypeOK, CountInv
<1>5. TimerInv'
  BY <1>1 DEF TimerInv, Alive
<1>6. m_thread # 0 => (Alive(m_thread))' = Alive(m_thread)
  BY <1>1, ThreadIsTimer DEF Alive
<1>7. CallInv'
  BY <1>2, <1>6 DEF CallInv, At
<1> QED
  BY <1>3, <1>4, <1>5, <1>7
-----------------------------------------------------------------------------
(* SetCbk, alone or at the beginning of StartWith. *)
LEMMA SetCbkInv ==
  ASSUME PoliteInv, NEW x \in Caller, SetCbk(x)
  PROVE  PoliteInv'
<1>1. x \in User
  BY CallsByUser DEF SetCbk, At, Call
<1>2. pc[x] \in Before /\ (m_running <=> m_thread # 0) /\ (m_thread # 0 => Alive(m_thread))
  BY <1>1 DEF SetCbk, At, Before, Call, PoliteInv, CallInv
<1>3. CASE At(x, "StartWith")
  <2>1. pc' = [pc EXCEPT ![x] = "Start"]
    BY <1>3 DEF SetCbk, Goto
  <2>2. "Start" \in UserPlace /\ "Start" \in Before /\ pc[x] \in Launches
    BY <1>3 DEF UserPlace, Place, Call, Before, Launches, At
  <2> QED
    BY <1>1, <1>2, <2>1, <2>2, UserStepInv DEF SetCbk, PoliteInv, TypeOK
<1>4. CASE ~At(x, "StartWith")
  <2>1. pc' = [pc EXCEPT ![x] = "idle"]
    BY <1>1, <1>4 DEF SetCbk, Goto, Back
  <2>2. "idle" \in UserPlace /\ "idle" \in Before /\ "idle" \notin Launches
    BY DEF UserPlace, Before, Launches
  <2> QED
    BY <1>1, <1>2, <2>1, <2>2, UserStepInv DEF SetCbk, PoliteInv, TypeOK
<1> QED
  BY <1>3, <1>4

(* The two steps of Start. *)
LEMMA StartInv ==
  ASSUME PoliteInv, NEW x \in Caller, Start(x)
  PROVE  PoliteInv'
<1>1. x \in User
  BY CallsByUser DEF Start, At, Call
<1>2. UNCHANGED <<m_thread, launched, fault, calls>> /\ m_callback' = m_callback
      /\ m_callback \in BOOLEAN /\ m_running \in BOOLEAN
  BY DEF Start, PoliteInv, TypeOK
<1>3. {"idle", "set", "launch"} \subseteq UserPlace /\ "idle" \in Before /\ "idle" \notin Launches
      /\ "set" \notin Before /\ "launch" \notin Before
  BY DEF UserPlace, Place, Before, Launches, Call
<1>4. CASE At(x, "Start") /\ m_running /\ Goto(x, "idle") /\ UNCHANGED m_running
  <2>1. m_thread # 0 /\ Alive(m_thread)
    BY <1>1, <1>4 DEF PoliteInv, CallInv, At, Before, Call
  <2> QED
    BY <1>1, <1>2, <1>3, <1>4, <2>1, UserStepInv DEF Goto
<1>5. CASE At(x, "Start") /\ ~m_running /\ Goto(x, "set") /\ UNCHANGED m_running
  <2>1. m_thread = 0 /\ pc[x] \in Launches
    BY <1>1, <1>5 DEF PoliteInv, CallInv, At, Before, Call, Launches
  <2> QED
    BY <1>1, <1>2, <1>3, <1>5, <2>1, UserStepInv DEF Goto
<1>6. CASE At(x, "set") /\ Goto(x, "launch") /\ m_running' = TRUE
  <2>1. m_thread = 0 /\ pc[x] \in Launches
    BY <1>1, <1>6 DEF PoliteInv, CallInv, At, Launches
  <2> QED
    BY <1>1, <1>2, <1>3, <1>6, <2>1, UserStepInv DEF Goto
<1> QED
  BY <1>1, <1>4, <1>5, <1>6 DEF Start, Back

(* The two steps of Stop before the join. *)
LEMMA StopInv ==
  ASSUME PoliteInv, NEW x \in Caller, Stop(x)
  PROVE  PoliteInv'
<1>1. x \in User
  BY CallsByUser DEF Stop, At, Call
<1>2. UNCHANGED <<m_thread, launched, fault, calls>> /\ m_callback' = m_callback
      /\ m_callback \in BOOLEAN /\ m_running \in BOOLEAN
  BY DEF Stop, PoliteInv, TypeOK
<1>3. {"idle", "clear", "join"} \subseteq UserPlace /\ "idle" \in Before
      /\ {"idle", "clear", "join"} \cap Launches = {}
      /\ "clear" \notin Before /\ "join" \notin Before
  BY DEF UserPlace, Place, Before, Launches, Call
<1>4. CASE At(x, "Stop") /\ ~m_running /\ Goto(x, "idle") /\ UNCHANGED m_running
  <2>1. m_thread = 0
    BY <1>1, <1>4 DEF PoliteInv, CallInv, At, Before, Call
  <2> QED
    BY <1>1, <1>2, <1>3, <1>4, <2>1, UserStepInv DEF Goto
<1>5. CASE At(x, "Stop") /\ m_running /\ Goto(x, "clear") /\ UNCHANGED m_running
  <2>1. m_thread # 0 /\ Alive(m_thread)
    BY <1>1, <1>5 DEF PoliteInv, CallInv, At, Before, Call
  <2> QED
    BY <1>1, <1>2, <1>3, <1>5, <2>1, UserStepInv DEF Goto
<1>6. CASE At(x, "clear") /\ Goto(x, "join") /\ m_running' = FALSE
  <2>1. m_thread # 0
    BY <1>1, <1>6 DEF PoliteInv, CallInv, At
  <2> QED
    BY <1>1, <1>2, <1>3, <1>6, <2>1, UserStepInv DEF Goto
<1> QED
  BY <1>1, <1>4, <1>5, <1>6 DEF Stop, Back

(* A launch finds no joinable thread. *)
LEMMA LaunchInv ==
  ASSUME PoliteInv, NEW x \in Caller, Launch(x)
  PROVE  PoliteInv'
<1> USE DEF PoliteInv, At
<1>1. x \in User /\ x \notin Timer
  BY CallsByUser DEF Launch
<1>2. m_thread = 0 /\ m_running
  BY <1>1 DEF CallInv, Launch
<1>3. /\ launched' = launched + 1 /\ m_thread' = launched + 1
      /\ pc' = [pc EXCEPT ![x] = "idle", ![launched + 1] = "sleep"]
      /\ UNCHANGED <<m_running, m_callback, fault, calls>>
  BY <1>1, <1>2 DEF Launch, Back
<1>4. launched \in Nat /\ calls \in 0..MaxCalls /\ launched + 1 <= calls
  BY <1>1, Apart DEF CountInv, Launch, Launches, TypeOK
<1>5. PICK n \in Timer : n = launched + 1 /\ n \in Nat /\ n > launched /\ n # 0 /\ n <= calls
  BY <1>4, Apart DEF Timer
<1>6. \A t \in Timer : pc'[t] = IF t = n THEN "sleep" ELSE pc[t]
  BY <1>1, <1>3, <1>5, Apart DEF TypeOK, Caller
<1>7. \A u \in User : u = x /\ pc'[u] = "idle"
  BY <1>1, <1>3, <1>5, Apart DEF TypeOK, Caller
<1>8. TypeOK'
  <2>1. "idle" \in UserPlace /\ "sleep" \in TimerPlace
    BY DEF UserPlace, TimerPlace
  <2>2. pc' \in [Caller -> UserPlace \cup TimerPlace]
    BY <1>3, <2>1 DEF TypeOK
  <2>3. launched' \in 0..MaxCalls /\ m_thread' \in 0..launched'
    BY <1>3, <1>4, Apart
  <2> QED
    BY <1>3, <1>6, <1>7, <2>1, <2>2, <2>3 DEF TypeOK
<1>9. CountInv'
  <2>1. launched' = n /\ calls' = calls /\ n <= calls
    BY <1>3, <1>5
  <2>2. "idle" \notin Launches
    BY DEF Launches
  <2> QED
    BY <1>5, <1>7, <2>1, <2>2 DEF CountInv
<1>10. TimerInv'
  <2> SUFFICES ASSUME NEW t \in Timer
               PROVE  /\ pc'[t] \in {"none", "sleep", "fire", "callback", "done"}
                      /\ pc'[t] = "none" <=> t > launched'
                      /\ t # m_thread' => pc'[t] \in {"none", "done"}
    BY DEF TimerInv, Alive
  <2>1. t \in Nat /\ t # 0
    BY Apart DEF Timer
  <2>2. /\ pc[t] \in {"none", "sleep", "fire", "callback", "done"}
        /\ pc[t] = "none" <=> t > launched
        /\ pc[t] \in {"none", "done"}
    BY <1>2, <2>1 DEF TimerInv, Alive
  <2>3. launched' = n /\ m_thread' = n
    BY <1>3, <1>5
  <2>4. t > n <=> t > launched /\ t # n
    BY <1>4, <1>5, <2>1
  <2> QED
    BY <1>6, <2>2, <2>3, <2>4, <1>5
<1>11. CallInv'
  <2>1. m_thread' # 0 /\ pc'[m_thread'] = "sleep"
    BY <1>3, <1>5, <1>6
  <2> QED
    BY <1>2, <1>3, <1>7, <2>1 DEF CallInv, Alive
<1> QED
  BY <1>3, <1>8, <1>9, <1>10, <1>11

(* A join finds a thread that ended, and no thread is alive afterwards. *)
LEMMA JoinInv ==
  ASSUME PoliteInv, NEW x \in Caller, Join(x)
  PROVE  PoliteInv'
<1> USE DEF PoliteInv, At
<1>1. x \in User /\ x \notin Timer
  BY CallsByUser DEF Join
<1>2. m_thread # 0 /\ ~m_running
  BY <1>1 DEF CallInv, Join
<1>3. m_thread \in Timer /\ m_thread # x
  BY <1>1, <1>2, ThreadIsTimer
<1>4. /\ pc[m_thread] = "done" /\ m_thread' = 0 /\ pc' = [pc EXCEPT ![x] = "idle"]
      /\ UNCHANGED <<m_running, m_callback, launched, fault, calls>>
  BY <1>1, <1>2, <1>3 DEF Join, Back, Goto
<1>5. \A t \in Timer : pc'[t] = pc[t]
  BY <1>1, <1>4 DEF TypeOK, Caller
<1>6. \A u \in User : u = x /\ pc'[u] = "idle"
  BY <1>1, <1>4, Apart DEF TypeOK, Caller
<1>7. TypeOK'
  <2>1. "idle" \in UserPlace
    BY DEF UserPlace
  <2>2. pc' \in [Caller -> UserPlace \cup TimerPlace]
    BY <1>4, <2>1 DEF TypeOK
  <2>3. m_thread' \in 0..launched
    BY <1>4, Apart DEF TypeOK
  <2> QED
    BY <1>4, <1>5, <1>6, <2>1, <2>2, <2>3 DEF TypeOK
<1>8. CountInv'
  BY <1>1, <1>4, <1>6, Apart DEF CountInv, Launches, TypeOK, Join
<1>9. TimerInv'
  BY <1>4, <1>5 DEF TimerInv, Alive
<1>10. CallInv'
  BY <1>2, <1>4, <1>6 DEF CallInv
<1> QED
  BY <1>4, <1>7, <1>8, <1>9, <1>10

(* A step of a timer thread. *)
LEMMA TimerStepInv ==
  ASSUME PoliteInv, NEW t \in Timer, TimerStep(t)
  PROVE  PoliteInv'
<1> USE DEF PoliteInv, At, Goto
<1>1. t \notin User
  BY Apart
<1>2. PICK p \in {"sleep", "fire", "callback", "done"} :
        /\ pc' = [pc EXCEPT ![t] = p]
        /\ p = "done" => ~m_running
        /\ pc[t] \in {"sleep", "fire", "callback"}
        /\ UNCHANGED <<m_running, m_callback, m_thread, launched, fault, calls>>
  BY DEF TimerStep, Elapse, Fire
<1>3. \A s \in Timer : pc'[s] = IF s = t THEN p ELSE pc[s]
  BY <1>2 DEF TypeOK, Caller
<1>4. \A u \in User : pc'[u] = pc[u]
  BY <1>1, <1>2 DEF TypeOK, Caller
<1>5. t = m_thread
  BY <1>2 DEF TimerInv, Alive
<1>6. TypeOK'
  <2>1. p \in TimerPlace
    BY DEF TimerPlace
  <2>2. pc' \in [Caller -> UserPlace \cup TimerPlace]
    BY <1>2, <2>1 DEF TypeOK, Caller
  <2> QED
    BY <1>2, <1>3, <1>4, <2>1, <2>2 DEF TypeOK
<1>7. CountInv'
  BY <1>2, <1>4 DEF CountInv
<1>8. TimerInv'
  BY <1>2, <1>3, <1>5 DEF TimerInv, Alive
<1>9. CallInv'
  BY <1>2, <1>3, <1>4, <1>5 DEF CallInv, Alive
<1> QED
  BY <1>2, <1>6, <1>7, <1>8, <1>9

-----------------------------------------------------------------------------
(* The invariant is inductive. *)
LEMMA NextInv == PoliteInv /\ [Next]_vars => PoliteInv'
<1> SUFFICES ASSUME PoliteInv, [Next]_vars PROVE PoliteInv'
  OBVIOUS
<1>1. ASSUME NEW x \in Caller, NEW c \in Call, Begin(x, c) PROVE PoliteInv'
  BY <1>1, BeginInv
<1>2. ASSUME NEW x \in Caller, CallStep(x) PROVE PoliteInv'
  BY <1>2, SetCbkInv, StartInv, LaunchInv, StopInv, JoinInv DEF CallStep
<1>3. ASSUME NEW t \in Timer, TimerStep(t) PROVE PoliteInv'
  BY <1>3, TimerStepInv
<1>4. CASE UNCHANGED vars
  BY <1>4 DEF vars, PoliteInv, TypeOK, CountInv, TimerInv, CallInv, At, Alive
<1> QED
  BY <1>1, <1>2, <1>3, <1>4 DEF Next

(* The inductive invariant holds always. *)
LEMMA PoliteTimer == Spec => []PoliteInv
<1> QED
  BY InitInv, NextInv, PTL DEF Spec

(* A timer used by one thread never has two threads at a time, however     *)
(* often it is started and stopped.                                        *)
THEOREM RunsOneThread == Spec => []OneThread
<1>1. PoliteInv => OneThread
  BY DEF PoliteInv, TimerInv, OneThread
<1> QED
  BY <1>1, PoliteTimer, PTL

(* When the calls of that thread returned, m_running tells whether there   *)
(* is a thread: after Stop the callback neither runs nor will run.         *)
THEOREM StoppedMeansStopped == Spec => []StopIsFinal
<1>1. PoliteInv => StopIsFinal
  <2> SUFFICES ASSUME PoliteInv, \A u \in User : At(u, "idle")
               PROVE  IF m_running THEN m_thread # 0 /\ Alive(m_thread)
                                   ELSE m_thread = 0 /\ \A t \in Timer : ~Alive(t)
    BY DEF StopIsFinal
  <2>1. /\ m_running <=> m_thread # 0
        /\ m_running => m_thread # 0 /\ Alive(m_thread)
    BY PoliteAssumption DEF PoliteInv, CallInv, Before, At
  <2>2. \A t \in Timer : t # 0
    BY Apart DEF Timer
  <2> QED
    BY <2>1, <2>2 DEF PoliteInv, TimerInv
<1> QED
  BY <1>1, PoliteTimer, PTL
=============================================================================
