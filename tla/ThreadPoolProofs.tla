-------------------------- MODULE ThreadPoolProofs --------------------------
(***************************************************************************)
(* Invariants of the thread pool for any number of users, workers, calls   *)
(* and limits: its slots match its threads, in_flight counts the tasks, no *)
(* task is refused while the pool is being destroyed, and no notification  *)
(* is lost.                                                                *)
(***************************************************************************)
EXTENDS ThreadPool, FiniteSetTheorems, SequenceTheorems, TLAPS

Busy == {"notify", "run", "MoveToThread", "Resize"}
WorkerPlace == Busy \cup {"off", "take", "last"}
OwnerPlace == {"alive", "empty", "flight", "block", "destroy", "join", "gone"}

(* Who may be where; a worker holds a task exactly while it is busy.       *)
PlacesMatch ==
  /\ \A u \in User : pc[u] \in {"idle"} \cup Call
  /\ \A w \in Worker : pc[w] \in WorkerPlace
  /\ pc[Owner] \in OwnerPlace
  /\ \A w \in Worker : hand[w] # 0 <=> pc[w] \in Busy

(* The owner destroys when no user is inside a call, stops the workers     *)
(* when nothing is in flight, and from then on nothing is.                 *)
DestroyInv ==
  /\ m_running => At(Owner, "alive")
  /\ ~At(Owner, "alive") => \A u \in User : At(u, "idle")
  /\ stop => pc[Owner] \in {"join", "gone"} /\ pool_size = 0
  /\ pc[Owner] \in {"destroy", "join", "gone"} => in_flight = 0

PoolInv == TypeOK /\ PlacesMatch /\ DestroyInv /\ SlotsMatch /\ InFlightCounts

-----------------------------------------------------------------------------
(* Users, workers and the owner are different threads. *)
LEMMA ThreadFacts ==
  /\ Owner \in Thread /\ Owner \notin User /\ Owner \notin Worker
  /\ \A w \in Worker : w \in Thread /\ w \notin User /\ w \in Nat /\ w < MaxPool
  /\ \A u \in User : u \in Thread /\ u \notin Worker
  /\ \A t \in Caller : t \in Thread /\ t # Owner /\ (t \in User \/ t \in Worker)
  /\ MaxPool \in Nat \ {0} /\ Worker = 0..MaxPool - 1
BY ThreadAssumption, PoolAssumption DEF Thread, Caller, Worker

(* Only finitely many workers hold a task. *)
LEMMA HoldingFinite ==
  /\ IsFiniteSet(Holding) /\ IsFiniteSet(Holding')
  /\ Cardinality(Holding) \in Nat
<1>1. IsFiniteSet(Worker)
  <2>1. 0 \in Int /\ MaxPool - 1 \in Int
    BY PoolAssumption
  <2> QED
    BY <2>1, FS_Interval DEF Worker
<1>2. Holding \subseteq Worker /\ Holding' \subseteq Worker
  BY DEF Holding
<1> QED
  BY <1>1, <1>2, FS_Subset, FS_CardinalityType

(* What in_flight = 0 means. *)
LEMMA NothingInFlight ==
  ASSUME PoolInv, in_flight = 0
  PROVE  tasks = << >> /\ \A w \in Worker : pc[w] \notin Busy
<1>1. Len(tasks) \in Nat /\ Cardinality(Holding) = 0 /\ Len(tasks) = 0
  BY HoldingFinite, LenProperties DEF PoolInv, TypeOK, InFlightCounts
<1>2. Holding = {}
  BY <1>1, HoldingFinite, FS_EmptySet
<1>3. tasks = << >>
  BY <1>1, EmptySeq DEF PoolInv, TypeOK
<1> QED
  BY <1>2, <1>3 DEF Holding, PoolInv, PlacesMatch

(* A busy worker counts. *)
LEMMA BusyCounts ==
  ASSUME PoolInv, NEW w \in Worker, pc[w] \in Busy
  PROVE  in_flight \in Nat \ {0}
BY NothingInFlight DEF PoolInv, TypeOK

-----------------------------------------------------------------------------
(* start_worker: each slot up to the new size gets a thread, no other      *)
(* slot changes.                                                           *)
LEMMA SlotsGrow ==
  ASSUME PoolInv, NEW t \in Caller, NEW size \in 1..MaxPool,
         StartWorkers(pool_size..size - 1, t)
  PROVE  /\ workers' \in Seq(BOOLEAN)
         /\ Len(workers') = IF Len(workers) < size THEN size ELSE Len(workers)
         /\ \A w \in Worker : Joinable(w)' <=> Joinable(w) \/ w \in pool_size..size - 1
<1> DEFINE new == pool_size..size - 1
           started == {w \in new : ~Joinable(w)}
           slots == {i \in 1..MaxPool : i <= Len(workers) \/ i - 1 \in new}
           n == IF Len(workers) < size THEN size ELSE Len(workers)
<1>1. /\ workers \in Seq(BOOLEAN) /\ Len(workers) \in Nat
      /\ pool_size \in Nat /\ pool_size <= Len(workers) /\ Len(workers) <= MaxPool
      /\ size \in Nat /\ size <= MaxPool /\ MaxPool \in Nat
  BY ThreadFacts DEF PoolInv, TypeOK, SlotsMatch
<1>2. slots = 1..n /\ n \in Nat
  BY <1>1
<1>3. workers' = [i \in slots |-> i - 1 \in started \/ workers[i]]
  BY DEF StartWorkers
<1>4. \A i \in 1..n : (i - 1 \in started \/ workers[i]) \in BOOLEAN
  <2> TAKE i \in 1..n
  <2>1. CASE i <= Len(workers)
    BY <2>1, <1>1
  <2>2. CASE i > Len(workers)
    <3>1. i - 1 \in new /\ ~Joinable(i - 1)
      BY <2>2, <1>1 DEF Joinable
    <3> QED
      BY <3>1
  <2> QED
    BY <2>1, <2>2, <1>1, <1>2
<1>5. workers' \in Seq(BOOLEAN) /\ Len(workers') = n
  <2>1. workers' \in [1..n -> BOOLEAN]
    BY <1>2, <1>3, <1>4
  <2> HIDE DEF n
  <2> QED
    BY <2>1, <1>2
<1>6. ASSUME NEW w \in Worker
      PROVE  Joinable(w)' <=> Joinable(w) \/ w \in new
  <2>1. w \in Nat /\ w < MaxPool
    BY ThreadFacts
  <2>2. CASE w < n
    <3>1. w + 1 \in 1..n /\ workers'[w + 1] = (w + 1 - 1 \in started \/ workers[w + 1])
      BY <2>1, <2>2, <1>2, <1>3
    <3>2. w + 1 - 1 = w
      BY <2>1
    <3>3. Joinable(w)' <=> w \in started \/ workers[w + 1]
      BY <3>1, <3>2, <1>5, <2>2 DEF Joinable
    <3>4. ~(w < Len(workers)) => w \in started
      BY <1>1, <2>1, <2>2 DEF Joinable
    <3> QED
      BY <3>3, <3>4 DEF Joinable
  <2>3. CASE ~(w < n)
    BY <2>1, <2>3, <1>1, <1>5 DEF Joinable
  <2> QED
    BY <2>2, <2>3
<1> QED
  BY <1>5, <1>6

(* Popping the last slots without a thread loses no other slot. *)
LEMMA SlotsShrink ==
  ASSUME NEW ws \in Seq(BOOLEAN), pool_size \in Nat, NEW new, Shrink(ws, new)
  PROVE  /\ new \in Seq(BOOLEAN)
         /\ Len(new) \in pool_size..Len(ws)
         /\ \A i \in 1..Len(new) : new[i] = ws[i]
         /\ \A i \in 1..Len(ws) : i > Len(new) => ~ws[i]
<1>1. PICK n \in pool_size..Len(ws) :
        (\A i \in n + 1..Len(ws) : ~ws[i]) /\ new = SubSeq(ws, 1, n)
  BY DEF Shrink
<1>2. Len(ws) \in Nat /\ n \in Nat /\ n <= Len(ws)
  BY <1>1
<1>3. /\ SubSeq(ws, 1, n) \in Seq(BOOLEAN) /\ Len(SubSeq(ws, 1, n)) = n
      /\ \A i \in 1..n : SubSeq(ws, 1, n)[i] = ws[i]
  BY <1>2
<1> QED
  BY <1>1, <1>2, <1>3

(* A worker leaves its slot: no other thread loses its own.                *)
LEMMA SlotsDetach ==
  ASSUME PoolInv, NEW w \in Worker, Detach(w)
  PROVE  /\ workers' \in Seq(BOOLEAN)
         /\ Len(workers') \in pool_size..Len(workers)
         /\ \A x \in Worker : Joinable(x)' <=> Joinable(x) /\ x # w
<1> DEFINE ws == [workers EXCEPT ![w + 1] = FALSE]
<1>1. /\ workers \in Seq(BOOLEAN) /\ Len(workers) \in Nat /\ pool_size \in Nat
      /\ w \in Nat /\ w < Len(workers)
  BY ThreadFacts DEF PoolInv, TypeOK, SlotsMatch, Joinable, Detach, HasToTake, At
<1>2. /\ ws \in Seq(BOOLEAN) /\ Len(ws) = Len(workers)
      /\ \A i \in 1..Len(workers) : ws[i] = IF i = w + 1 THEN FALSE ELSE workers[i]
  <2>1. workers \in [1..Len(workers) -> BOOLEAN]
    BY <1>1
  <2>2. ws \in [1..Len(workers) -> BOOLEAN]
    BY <2>1
  <2>3. ws \in Seq(BOOLEAN) /\ Len(ws) = Len(workers)
    BY <2>2, <1>1
  <2> QED
    BY <2>1, <2>3
<1>3. Shrink(ws, workers')
  BY DEF Detach
<1> HIDE DEF ws
<1>4. /\ workers' \in Seq(BOOLEAN)
      /\ Len(workers') \in pool_size..Len(ws)
      /\ \A i \in 1..Len(workers') : workers'[i] = ws[i]
      /\ \A i \in 1..Len(ws) : i > Len(workers') => ~ws[i]
  BY <1>1, <1>2, <1>3, SlotsShrink
<1>5. ASSUME NEW x \in Worker
      PROVE  Joinable(x)' <=> Joinable(x) /\ x # w
  <2>1. x \in Nat /\ Len(workers') \in Nat /\ Len(workers') <= Len(workers)
    BY <1>1, <1>2, <1>4, ThreadFacts
  <2>2. CASE x < Len(workers')
    <3>1. x + 1 \in 1..Len(workers') /\ x + 1 \in 1..Len(workers)
      BY <2>1, <2>2, <1>1
    <3>2. workers'[x + 1] = IF x + 1 = w + 1 THEN FALSE ELSE workers[x + 1]
      <4>1. workers'[x + 1] = ws[x + 1]
        BY <3>1, <1>4
      <4>2. ws[x + 1] = IF x + 1 = w + 1 THEN FALSE ELSE workers[x + 1]
        BY <3>1, <1>2
      <4> QED
        BY <4>1, <4>2
    <3> QED
      BY <3>2, <2>1, <2>2, <1>1 DEF Joinable
  <2>3. CASE ~(x < Len(workers'))
    <3>1. ASSUME x < Len(workers), x # w
          PROVE  ~workers[x + 1]
      <4>1. x + 1 \in 1..Len(ws) /\ x + 1 > Len(workers') /\ x + 1 # w + 1
        BY <3>1, <2>1, <2>3, <1>1, <1>2
      <4> QED
        BY <4>1, <1>2, <1>4
    <3> QED
      BY <3>1, <2>3 DEF Joinable
  <2> QED
    BY <2>2, <2>3
<1> QED
  BY <1>2, <1>4, <1>5

-----------------------------------------------------------------------------
(* The constructor establishes the invariant. *)
LEMMA InitInv == Init => PoolInv
<1> SUFFICES ASSUME Init PROVE PoolInv
  OBVIOUS
<1>0. Threads \in Nat /\ Threads > 0 /\ Threads <= MaxPool /\ MaxPool \in Nat
  BY PoolAssumption
<1>1. workers \in Seq(BOOLEAN) /\ Len(workers) = Threads
  <2>1. workers \in [1..Threads -> BOOLEAN]
    BY DEF Init
  <2> QED
    BY <2>1, <1>0
<1>2. TypeOK
  <2>1. pc \in [Thread -> Place]
    BY ThreadFacts DEF Init, Place, Thread
  <2>2. hand \in [Worker -> Nat] /\ tasks \in Seq(Nat \ {0})
    BY DEF Init
  <2>3. /\ max_queue_size \in Nat \ {0} /\ calls \in 0..MaxCalls
        /\ pool_size \in 0..MaxPool
    BY <1>0, LimitAssumption, CallsAssumption DEF Init
  <2>4. /\ consumers \in SUBSET (Worker \cup {Owner}) /\ producers \in SUBSET Thread
        /\ m_running \in BOOLEAN /\ stop \in BOOLEAN /\ waiter \in BOOLEAN
        /\ in_flight \in Nat /\ handed \in Nat
    BY DEF Init
  <2> QED
    BY <2>1, <2>2, <2>3, <2>4, <1>1 DEF TypeOK
<1>3. PlacesMatch
  BY ThreadFacts, <1>0 DEF Init, PlacesMatch, Busy, WorkerPlace, OwnerPlace, Call
<1>4. DestroyInv
  BY ThreadFacts DEF Init, DestroyInv, At
<1>5. SlotsMatch
  <2>1. \A w \in Worker : Joinable(w) <=> w < Threads
    <3> TAKE w \in Worker
    <3>1. w < Threads => workers[w + 1] = TRUE
      BY <1>0, ThreadFacts DEF Init
    <3> QED
      BY <3>1, <1>1 DEF Joinable
  <2>2. \A w \in Worker : At(w, "off") <=> ~(w < Threads)
    BY ThreadFacts DEF Init, At
  <2> QED
    BY <1>0, <1>1, <2>1, <2>2 DEF Init, SlotsMatch
<1>6. InFlightCounts
  <2>1. Holding = {} /\ Len(tasks) = 0
    BY DEF Init, Holding
  <2> QED
    BY <2>1, FS_EmptySet DEF Init, InFlightCounts
<1> QED
  BY <1>2, <1>3, <1>4, <1>5, <1>6 DEF PoolInv

(* What set_pool_size makes of its argument. *)
LEMMA Resizes ==
  ASSUME PoolInv, NEW t \in Caller, Resize(t), ~stop
  PROVE  \E size \in 1..MaxPool :
           /\ pool_size' = size
           /\ StartWorkers(pool_size..size - 1, t)
           /\ consumers' = IF size < pool_size THEN {} ELSE consumers
<1>1. PICK limit \in 0..MaxPool :
        LET size == IF limit < 1 THEN 1 ELSE limit IN
        /\ pool_size' = size
        /\ StartWorkers(pool_size..size - 1, t)
        /\ consumers' = IF size < pool_size THEN {} ELSE consumers
  BY DEF Resize
<1>2. (IF limit < 1 THEN 1 ELSE limit) \in 1..MaxPool
  BY ThreadFacts
<1> QED
  BY <1>1, <1>2

(* Every step keeps the types. *)
LEMMA TypeStep ==
  ASSUME PoolInv, [Next]_vars
  PROVE  TypeOK'
<1>0. TypeOK
  BY DEF PoolInv
<1>1. ASSUME NEW t \in Caller, NEW c \in Call, Begin(t, c)
      PROVE  TypeOK'
  <2>1. pc' \in [Thread -> Place]
    BY <1>0, <1>1, ThreadFacts DEF TypeOK, Begin, Goto, Place
  <2>2. calls' \in 0..MaxCalls
    BY <1>0, <1>1, CallsAssumption DEF TypeOK, Begin
  <2> QED
    BY <1>0, <1>1, <2>1, <2>2 DEF TypeOK, Begin, poolVars, condVars, taskVars
<1>2. ASSUME NEW t \in Caller, MoveToThread(t)
      PROVE  TypeOK'
  <2>1. pc' \in [Thread -> Place]
    BY <1>0, <1>2, ThreadFacts DEF TypeOK, MoveToThread, Goto, Back, Place
  <2>2. CASE ~(Len(tasks) >= max_queue_size /\ ~stop) /\ ~stop
    <3>1. /\ handed' = handed + 1 /\ tasks' = Append(tasks, handed')
          /\ in_flight' = in_flight + 1 /\ hand' = hand
          /\ WakeOne(consumers, consumers') /\ producers' = producers
      BY <1>2, <2>2 DEF MoveToThread
    <3>2. handed' \in Nat \ {0} /\ in_flight' \in Nat
      BY <1>0, <3>1 DEF TypeOK
    <3>3. tasks' \in Seq(Nat \ {0})
      BY <1>0, <3>1, <3>2 DEF TypeOK
    <3>4. consumers' \in SUBSET (Worker \cup {Owner})
      BY <1>0, <3>1 DEF TypeOK, WakeOne
    <3> QED
      BY <1>0, <1>2, <2>1, <3>1, <3>2, <3>3, <3>4 DEF TypeOK, MoveToThread, poolVars
  <2>3. CASE Len(tasks) >= max_queue_size /\ ~stop
    <3>1. /\ producers' = producers \cup {t}
          /\ UNCHANGED <<m_running, poolVars, consumers, waiter, taskVars, calls>>
      BY <1>2, <2>3 DEF MoveToThread
    <3> QED
      BY <1>0, <2>1, <3>1, ThreadFacts DEF TypeOK, poolVars, taskVars
  <2>4. CASE stop
    <3>1. UNCHANGED <<m_running, poolVars, condVars, taskVars, calls>>
      BY <1>2, <2>4 DEF MoveToThread, condVars
    <3> QED
      BY <1>0, <2>1, <3>1 DEF TypeOK, poolVars, condVars, taskVars
  <2> QED
    BY <2>2, <2>3, <2>4
<1>3. ASSUME NEW t \in Caller, Resize(t)
      PROVE  TypeOK'
  <2>1. CASE stop
    BY <1>0, <1>3, <2>1, ThreadFacts
    DEF TypeOK, Resize, Goto, Back, Place, taskVars
  <2>2. CASE ~stop
    <3>1. PICK size \in 1..MaxPool :
            /\ pool_size' = size
            /\ StartWorkers(pool_size..size - 1, t)
            /\ consumers' = IF size < pool_size THEN {} ELSE consumers
      BY <1>3, <2>2, Resizes
    <3>2. workers' \in Seq(BOOLEAN)
      BY <3>1, SlotsGrow
    <3>3. pc' \in [Thread -> Place]
      BY <1>0, <3>1, ThreadFacts DEF TypeOK, StartWorkers, Back, Place
    <3>4. pool_size' \in 0..MaxPool /\ consumers' \in SUBSET (Worker \cup {Owner})
      BY <1>0, <3>1, ThreadFacts DEF TypeOK
    <3> QED
      BY <1>0, <1>3, <3>2, <3>3, <3>4 DEF TypeOK, Resize, taskVars
  <2> QED
    BY <2>1, <2>2
<1>4. ASSUME NEW t \in Caller, SetQueueSizeLimit(t)
      PROVE  TypeOK'
  <2>1. pc' \in [Thread -> Place]
    BY <1>0, <1>4, ThreadFacts DEF TypeOK, SetQueueSizeLimit, Goto, Back, Place
  <2>2. max_queue_size' \in Nat \ {0} /\ producers' \in SUBSET Thread
    BY <1>0, <1>4, LimitAssumption DEF TypeOK, SetQueueSizeLimit
  <2> QED
    BY <1>0, <1>4, <2>1, <2>2 DEF TypeOK, SetQueueSizeLimit, taskVars
<1>5. ASSUME NEW w \in Worker, Sleep(w)
      PROVE  TypeOK'
  BY <1>5, <1>0, ThreadFacts DEF Sleep, TypeOK, Place, poolVars, taskVars
<1>6. ASSUME NEW w \in Worker, Detach(w)
      PROVE  TypeOK'
  <2>1. workers' \in Seq(BOOLEAN)
    BY <1>6, SlotsDetach
  <2>2. pc' \in [Thread -> Place]
    BY <1>0, <1>6, ThreadFacts DEF TypeOK, Detach, Goto, Place
  <2> QED
    BY <1>0, <1>6, <2>1, <2>2 DEF TypeOK, Detach, taskVars
<1>7. ASSUME NEW w \in Worker, Pop(w)
      PROVE  TypeOK'
  <2>1. pc' \in [Thread -> Place]
    BY <1>0, <1>7, ThreadFacts DEF TypeOK, Pop, Takes, Goto, Place
  <2>2. tasks' \in Seq(Nat \ {0}) /\ hand' \in [Worker -> Nat]
    BY <1>0, <1>7 DEF TypeOK, Pop, Takes
  <2> QED
    BY <1>0, <1>7, <2>1, <2>2 DEF TypeOK, Pop, Takes, poolVars, condVars
<1>8. ASSUME NEW w \in Worker, Notify(w)
      PROVE  TypeOK'
  BY <1>8, <1>0, ThreadFacts DEF Notify, TypeOK, Goto, Place, poolVars, taskVars
<1>9. ASSUME NEW w \in Worker, Finish(w)
      PROVE  TypeOK'
  <2>1. pc' \in [Thread -> Place]
    BY <1>0, <1>9, ThreadFacts DEF TypeOK, Finish, Goto, Place
  <2>2. in_flight' \in Nat /\ hand' \in [Worker -> Nat]
    <3>1. pc[w] \in Busy
      BY <1>9 DEF Finish, At, Busy
    <3>2. in_flight \in Nat \ {0}
      BY <3>1, BusyCounts
    <3> QED
      BY <1>0, <1>9, <3>2 DEF TypeOK, Finish
  <2> QED
    BY <1>0, <1>9, <2>1, <2>2 DEF TypeOK, Finish, poolVars, condVars
<1>10. ASSUME NEW w \in Worker, NotifyLast(w)
       PROVE  TypeOK'
  BY <1>10, <1>0, ThreadFacts
  DEF NotifyLast, TypeOK, Goto, Place, poolVars, taskVars
<1>11. CASE Destroy
  BY <1>11, <1>0, ThreadFacts
  DEF Destroy, TypeOK, Goto, Place, poolVars, condVars, taskVars
<1>12. CASE WaitUntilEmpty
  BY <1>12, <1>0, ThreadFacts
  DEF WaitUntilEmpty, TypeOK, Goto, Place, poolVars, taskVars
<1>13. CASE WaitUntilNothingInFlight
  BY <1>13, <1>0, ThreadFacts
  DEF WaitUntilNothingInFlight, TypeOK, Goto, Place, poolVars, taskVars
<1>14. CASE StopWorkers
  BY <1>14, <1>0, ThreadFacts DEF StopWorkers, TypeOK, Goto, Place, taskVars
<1>15. CASE WaitForWorkers
  BY <1>15, <1>0, ThreadFacts
  DEF WaitForWorkers, TypeOK, Goto, Place, poolVars, taskVars
<1>16. ASSUME NEW t \in Thread, Spurious(t)
       PROVE  TypeOK'
  BY <1>16, <1>0, ThreadFacts DEF Spurious, TypeOK, Place, poolVars, taskVars
<1>17. CASE UNCHANGED vars
  BY <1>17, <1>0, ThreadFacts DEF vars, poolVars, condVars, taskVars, TypeOK, Place
<1> QED
  BY <1>1, <1>2, <1>3, <1>4, <1>5, <1>6, <1>7, <1>8, <1>9,
     <1>10, <1>11, <1>12, <1>13, <1>14, <1>15, <1>16, <1>17
  DEF Next, CallStep, WorkerStep, OwnerStep

(* Every step keeps the threads where they may be. *)
LEMMA PlacesStep ==
  ASSUME PoolInv, [Next]_vars
  PROVE  PlacesMatch'
<1>0. TypeOK /\ PlacesMatch
  BY DEF PoolInv
<1>1. ASSUME NEW t \in Caller, NEW c \in Call, Begin(t, c)
      PROVE  PlacesMatch'
  BY <1>0, <1>1, ThreadFacts, CallsAssumption
  DEF Begin, TypeOK, PlacesMatch, Busy, WorkerPlace, Call, At, Goto, taskVars
<1>2. ASSUME NEW t \in Caller, MoveToThread(t)
      PROVE  PlacesMatch'
  BY <1>2, <1>0, ThreadFacts
  DEF MoveToThread, TypeOK, PlacesMatch, Busy, WorkerPlace, OwnerPlace, Call,
      At, Goto, Back, taskVars
<1>3. ASSUME NEW t \in Caller, Resize(t)
      PROVE  PlacesMatch'
  <2>1. CASE stop
    <3>1. pc[t] = "Resize" /\ pc' = [pc EXCEPT ![t] = Back(t)] /\ hand' = hand
      BY <1>3, <2>1 DEF Resize, At, Goto, taskVars
    <3> QED
      BY <1>0, <3>1, ThreadFacts
      DEF TypeOK, PlacesMatch, Busy, WorkerPlace, Back, Call
  <2>2. CASE ~stop
    <3>1. PICK size \in 1..MaxPool : StartWorkers(pool_size..size - 1, t)
      BY <1>3, <2>2, Resizes
    <3> DEFINE started == {w \in pool_size..size - 1 : ~Joinable(w)}
    <3>2. pc' = [x \in Thread |-> IF x \in started THEN "take"
                                 ELSE IF x = t THEN Back(t) ELSE pc[x]]
      BY <3>1 DEF StartWorkers
    <3>3. pool_size \in Nat /\ started \subseteq Worker
      BY <1>0, ThreadFacts DEF TypeOK
    <3>4. \A w \in started : pc[w] = "off"
      BY <3>3 DEF PoolInv, SlotsMatch, At
    <3>5. pc[t] = "Resize" /\ hand' = hand
      BY <1>3 DEF Resize, At, taskVars
    <3> HIDE DEF started
    <3>6. \A u \in User : pc'[u] \in {"idle"} \cup Call
      BY <1>0, <3>2, <3>3, ThreadFacts DEF PlacesMatch, Back
    <3>7. \A w \in Worker : pc'[w] \in WorkerPlace
      BY <1>0, <3>2, <3>3, ThreadFacts DEF PlacesMatch, Back, WorkerPlace, Busy
    <3>8. pc'[Owner] \in OwnerPlace
      BY <1>0, <3>2, <3>3, ThreadFacts DEF PlacesMatch
    <3>9. \A w \in Worker : hand'[w] # 0 <=> pc'[w] \in Busy
      BY <1>0, <3>2, <3>3, <3>4, <3>5, ThreadFacts DEF PlacesMatch, Back, Busy
    <3> QED
      BY <3>6, <3>7, <3>8, <3>9 DEF PlacesMatch
  <2> QED
    BY <2>1, <2>2
<1>4. ASSUME NEW t \in Caller, SetQueueSizeLimit(t)
      PROVE  PlacesMatch'
  BY <1>4, <1>0, ThreadFacts
  DEF SetQueueSizeLimit, TypeOK, PlacesMatch, Busy, WorkerPlace, OwnerPlace,
      Call, At, Goto, Back, taskVars
<1>5. ASSUME NEW w \in Worker, Sleep(w)
      PROVE  PlacesMatch'
  BY <1>5, <1>0, ThreadFacts
  DEF Sleep, TypeOK, PlacesMatch, Busy, WorkerPlace, OwnerPlace, Call, At,
      HasToTake, taskVars
<1>6. ASSUME NEW w \in Worker, Detach(w)
      PROVE  PlacesMatch'
  BY <1>6, <1>0, ThreadFacts
  DEF Detach, TypeOK, PlacesMatch, Busy, WorkerPlace, OwnerPlace, Call, At,
      Goto, HasToTake, taskVars
<1>7. ASSUME NEW w \in Worker, Pop(w)
      PROVE  PlacesMatch'
  <2>1. Head(tasks) # 0
    BY <1>0, <1>7 DEF TypeOK, Pop, Takes
  <2> QED
    BY <1>0, <1>7, <2>1, ThreadFacts
    DEF TypeOK, PlacesMatch, Busy, WorkerPlace, Pop, Takes, HasToTake, At, Goto
<1>8. ASSUME NEW w \in Worker, Notify(w)
      PROVE  PlacesMatch'
  BY <1>8, <1>0, ThreadFacts
  DEF Notify, TypeOK, PlacesMatch, Busy, WorkerPlace, OwnerPlace, Call, At,
      Goto, taskVars
<1>9. ASSUME NEW w \in Worker, Finish(w)
      PROVE  PlacesMatch'
  BY <1>9, <1>0, ThreadFacts
  DEF Finish, TypeOK, PlacesMatch, Busy, WorkerPlace, OwnerPlace, Call, At, Goto
<1>10. ASSUME NEW w \in Worker, NotifyLast(w)
       PROVE  PlacesMatch'
  BY <1>10, <1>0, ThreadFacts
  DEF NotifyLast, TypeOK, PlacesMatch, Busy, WorkerPlace, OwnerPlace, Call, At,
      Goto, taskVars
<1>11. CASE Destroy
  BY <1>11, <1>0, ThreadFacts
  DEF Destroy, TypeOK, PlacesMatch, Busy, WorkerPlace, OwnerPlace, Call, At,
      Goto, taskVars
<1>12. CASE WaitUntilEmpty
  BY <1>12, <1>0, ThreadFacts
  DEF WaitUntilEmpty, TypeOK, PlacesMatch, Busy, WorkerPlace, OwnerPlace, Call,
      At, Goto, taskVars
<1>13. CASE WaitUntilNothingInFlight
  BY <1>13, <1>0, ThreadFacts
  DEF WaitUntilNothingInFlight, TypeOK, PlacesMatch, Busy, WorkerPlace,
      OwnerPlace, Call, At, Goto, taskVars
<1>14. CASE StopWorkers
  BY <1>14, <1>0, ThreadFacts
  DEF StopWorkers, TypeOK, PlacesMatch, Busy, WorkerPlace, OwnerPlace, Call,
      At, Goto, taskVars
<1>15. CASE WaitForWorkers
  BY <1>15, <1>0, ThreadFacts
  DEF WaitForWorkers, TypeOK, PlacesMatch, Busy, WorkerPlace, OwnerPlace, Call,
      At, Goto, taskVars
<1>16. ASSUME NEW t \in Thread, Spurious(t)
       PROVE  PlacesMatch'
  BY <1>16, <1>0, ThreadFacts
  DEF Spurious, TypeOK, PlacesMatch, Busy, WorkerPlace, OwnerPlace, Call, taskVars
<1>17. CASE UNCHANGED vars
  BY <1>17, <1>0, ThreadFacts
  DEF vars, poolVars, condVars, taskVars, TypeOK, PlacesMatch, Busy,
      WorkerPlace, OwnerPlace, Call
<1> QED
  BY <1>1, <1>2, <1>3, <1>4, <1>5, <1>6, <1>7, <1>8, <1>9,
     <1>10, <1>11, <1>12, <1>13, <1>14, <1>15, <1>16, <1>17
  DEF Next, CallStep, WorkerStep, OwnerStep

(* Every step keeps the order of the destruction. *)
LEMMA DestroyStep ==
  ASSUME PoolInv, [Next]_vars
  PROVE  DestroyInv'
<1>0. TypeOK /\ PlacesMatch /\ DestroyInv
  BY DEF PoolInv
<1>1. ASSUME NEW t \in Caller, NEW c \in Call, Begin(t, c)
      PROVE  DestroyInv'
  BY <1>1, <1>0, ThreadFacts
  DEF Begin, TypeOK, DestroyInv, At, Goto, poolVars, taskVars
<1>2. ASSUME NEW t \in Caller, MoveToThread(t)
      PROVE  DestroyInv'
  <2>1. in_flight' = in_flight \/ pc[Owner] \notin {"destroy", "join", "gone"}
    <3>1. CASE t \in User
      BY <1>0, <1>2, <3>1 DEF DestroyInv, MoveToThread, At
    <3>2. CASE t \in Worker
      <4>1. pc[t] \in Busy
        BY <1>2 DEF MoveToThread, At, Busy
      <4>2. in_flight # 0
        BY <3>2, <4>1, BusyCounts
      <4> QED
        BY <1>0, <4>2 DEF DestroyInv
    <3> QED
      BY <3>1, <3>2, ThreadFacts
  <2>2. /\ UNCHANGED <<m_running, stop, pool_size>> /\ pc[t] = "MoveToThread"
        /\ pc' = pc \/ pc' = [pc EXCEPT ![t] = Back(t)]
    BY <1>2 DEF MoveToThread, poolVars, Goto, At
  <2> QED
    BY <1>0, <2>1, <2>2, ThreadFacts DEF TypeOK, DestroyInv, At, Back
<1>3. ASSUME NEW t \in Caller, Resize(t)
      PROVE  DestroyInv'
  <2>1. CASE stop
    <3>1. /\ pc' = [pc EXCEPT ![t] = Back(t)]
          /\ UNCHANGED <<m_running, stop, pool_size, in_flight>>
      BY <1>3, <2>1 DEF Resize, Goto, taskVars
    <3> QED
      BY <1>0, <3>1, ThreadFacts DEF TypeOK, DestroyInv, At, Back
  <2>2. CASE ~stop
    <3>1. PICK size \in 1..MaxPool : StartWorkers(pool_size..size - 1, t)
      BY <1>3, <2>2, Resizes
    <3> DEFINE started == {w \in pool_size..size - 1 : ~Joinable(w)}
    <3>2. pc' = [x \in Thread |-> IF x \in started THEN "take"
                                 ELSE IF x = t THEN Back(t) ELSE pc[x]]
      BY <3>1 DEF StartWorkers
    <3>3. started \subseteq Worker
      BY <1>0, ThreadFacts DEF TypeOK
    <3>4. UNCHANGED <<m_running, stop, in_flight>>
      BY <1>3 DEF Resize, taskVars
    <3> HIDE DEF started
    <3>5. pc'[Owner] = pc[Owner] /\ \A u \in User : At(u, "idle") => At(u, "idle")'
      BY <3>2, <3>3, ThreadFacts DEF Back, At
    <3> QED
      BY <1>0, <2>2, <3>4, <3>5 DEF DestroyInv, At
  <2> QED
    BY <2>1, <2>2
<1>4. ASSUME NEW t \in Caller, SetQueueSizeLimit(t)
      PROVE  DestroyInv'
  <2>1. /\ pc' = [pc EXCEPT ![t] = Back(t)]
        /\ UNCHANGED <<m_running, stop, pool_size, in_flight>>
    BY <1>4 DEF SetQueueSizeLimit, Goto, taskVars
  <2> QED
    BY <1>0, <2>1, ThreadFacts DEF TypeOK, DestroyInv, At, Back
<1>5. ASSUME NEW w \in Worker, Sleep(w)
      PROVE  DestroyInv'
  BY <1>5, <1>0, ThreadFacts DEF Sleep, TypeOK, DestroyInv, At, poolVars, taskVars
<1>6. ASSUME NEW w \in Worker, Detach(w)
      PROVE  DestroyInv'
  BY <1>6, <1>0, ThreadFacts DEF Detach, TypeOK, DestroyInv, At, Goto, taskVars
<1>7. ASSUME NEW w \in Worker, Pop(w)
      PROVE  DestroyInv'
  BY <1>7, <1>0, ThreadFacts DEF Pop, Takes, TypeOK, DestroyInv, At, Goto, poolVars
<1>8. ASSUME NEW w \in Worker, Notify(w)
      PROVE  DestroyInv'
  BY <1>8, <1>0, ThreadFacts
  DEF Notify, TypeOK, DestroyInv, At, Goto, poolVars, taskVars
<1>9. ASSUME NEW w \in Worker, Finish(w)
      PROVE  DestroyInv'
  <2>1. pc[w] \in Busy
    BY <1>9 DEF Finish, At, Busy
  <2>2. in_flight # 0
    BY <2>1, BusyCounts
  <2> QED
    BY <1>0, <1>9, <2>2, ThreadFacts
    DEF TypeOK, DestroyInv, Finish, At, Goto, poolVars
<1>10. ASSUME NEW w \in Worker, NotifyLast(w)
       PROVE  DestroyInv'
  BY <1>10, <1>0, ThreadFacts
  DEF NotifyLast, TypeOK, DestroyInv, At, Goto, poolVars, taskVars
<1>11. CASE Destroy
  BY <1>11, <1>0, ThreadFacts
  DEF Destroy, TypeOK, DestroyInv, At, Goto, poolVars, taskVars
<1>12. CASE WaitUntilEmpty
  BY <1>12, <1>0, ThreadFacts
  DEF WaitUntilEmpty, TypeOK, DestroyInv, At, Goto, poolVars, taskVars
<1>13. CASE WaitUntilNothingInFlight
  BY <1>13, <1>0, ThreadFacts
  DEF WaitUntilNothingInFlight, TypeOK, DestroyInv, At, Goto, poolVars, taskVars
<1>14. CASE StopWorkers
  BY <1>14, <1>0, ThreadFacts
  DEF StopWorkers, TypeOK, DestroyInv, At, Goto, taskVars
<1>15. CASE WaitForWorkers
  BY <1>15, <1>0, ThreadFacts
  DEF WaitForWorkers, TypeOK, DestroyInv, At, Goto, poolVars, taskVars
<1>16. ASSUME NEW t \in Thread, Spurious(t)
       PROVE  DestroyInv'
  BY <1>16, <1>0, ThreadFacts
  DEF Spurious, TypeOK, DestroyInv, At, poolVars, taskVars
<1>17. CASE UNCHANGED vars
  BY <1>17, <1>0, ThreadFacts
  DEF vars, poolVars, condVars, taskVars, TypeOK, DestroyInv, At
<1> QED
  BY <1>1, <1>2, <1>3, <1>4, <1>5, <1>6, <1>7, <1>8, <1>9,
     <1>10, <1>11, <1>12, <1>13, <1>14, <1>15, <1>16, <1>17
  DEF Next, CallStep, WorkerStep, OwnerStep

(* Every step keeps the slots true. *)
LEMMA SlotsStep ==
  ASSUME PoolInv, [Next]_vars
  PROVE  SlotsMatch'
<1>0. TypeOK /\ SlotsMatch
  BY DEF PoolInv
<1>1. ASSUME NEW t \in Caller, NEW c \in Call, Begin(t, c)
      PROVE  SlotsMatch'
  <2>1. /\ UNCHANGED <<workers, pool_size>> /\ pc' = [pc EXCEPT ![t] = c]
        /\ pc[t] # "off" /\ c # "off"
    BY <1>1 DEF Begin, poolVars, Goto, At, Call
  <2> QED
    BY <1>0, <2>1, ThreadFacts DEF TypeOK, SlotsMatch, Joinable, At
<1>2. ASSUME NEW t \in Caller, MoveToThread(t)
      PROVE  SlotsMatch'
  <2>1. /\ UNCHANGED <<workers, pool_size>> /\ pc[t] = "MoveToThread"
        /\ pc' = pc \/ pc' = [pc EXCEPT ![t] = Back(t)]
    BY <1>2 DEF MoveToThread, poolVars, Goto, At
  <2> QED
    BY <1>0, <2>1, ThreadFacts DEF TypeOK, SlotsMatch, Joinable, At, Back
<1>3. ASSUME NEW t \in Caller, Resize(t)
      PROVE  SlotsMatch'
  <2>1. CASE stop
    <3>1. /\ pc[t] = "Resize" /\ pc' = [pc EXCEPT ![t] = Back(t)]
          /\ UNCHANGED <<workers, pool_size>>
      BY <1>3, <2>1 DEF Resize, Goto, At
    <3> QED
      BY <1>0, <3>1, ThreadFacts DEF TypeOK, SlotsMatch, Joinable, At, Back
  <2>2. CASE ~stop
    <3>1. PICK size \in 1..MaxPool :
            pool_size' = size /\ StartWorkers(pool_size..size - 1, t)
      BY <1>3, <2>2, Resizes
    <3>2. /\ Len(workers') = IF Len(workers) < size THEN size ELSE Len(workers)
          /\ \A w \in Worker : Joinable(w)' <=> Joinable(w) \/ w \in pool_size..size - 1
      BY <3>1, SlotsGrow
    <3> DEFINE started == {w \in pool_size..size - 1 : ~Joinable(w)}
    <3>3. pc' = [x \in Thread |-> IF x \in started THEN "take"
                                 ELSE IF x = t THEN Back(t) ELSE pc[x]]
      BY <3>1 DEF StartWorkers
    <3>4. pc[t] # "off" /\ Back(t) # "off"
      BY <1>3 DEF Resize, At, Back
    <3>5. \A w \in Worker : w \in started <=> w \in pool_size..size - 1 /\ ~Joinable(w)
      OBVIOUS
    <3> HIDE DEF started
    <3>6. \A w \in Worker : Joinable(w)' <=> ~At(w, "off")'
      BY <1>0, <3>2, <3>3, <3>4, <3>5, ThreadFacts DEF SlotsMatch, At
    <3>7. Len(workers') \in size..MaxPool
      BY <1>0, <3>2, ThreadFacts DEF SlotsMatch, TypeOK
    <3>8. \A w \in Worker : w < size => Joinable(w)'
      <4> SUFFICES ASSUME NEW w \in Worker, w < size
                   PROVE  Joinable(w) \/ w \in pool_size..size - 1
        BY <3>2
      <4>1. CASE w < pool_size
        BY <1>0, <4>1 DEF SlotsMatch
      <4>2. CASE ~(w < pool_size)
        BY <1>0, <4>2, ThreadFacts DEF TypeOK
      <4> QED
        BY <4>1, <4>2
    <3> QED
      BY <3>1, <3>6, <3>7, <3>8 DEF SlotsMatch
  <2> QED
    BY <2>1, <2>2
<1>4. ASSUME NEW t \in Caller, SetQueueSizeLimit(t)
      PROVE  SlotsMatch'
  <2>1. /\ UNCHANGED <<workers, pool_size>> /\ pc[t] = "set_queue_size_limit"
        /\ pc' = [pc EXCEPT ![t] = Back(t)]
    BY <1>4 DEF SetQueueSizeLimit, Goto, At
  <2> QED
    BY <1>0, <2>1, ThreadFacts DEF TypeOK, SlotsMatch, Joinable, At, Back
<1>5. ASSUME NEW w \in Worker, Sleep(w)
      PROVE  SlotsMatch'
  BY <1>5, <1>0, ThreadFacts
  DEF Sleep, TypeOK, SlotsMatch, Joinable, HasToTake, At, poolVars
<1>6. ASSUME NEW w \in Worker, Detach(w)
      PROVE  SlotsMatch'
  <2>1. /\ Len(workers') \in pool_size..Len(workers)
        /\ \A x \in Worker : Joinable(x)' <=> Joinable(x) /\ x # w
    BY <1>6, SlotsDetach
  <2>2. /\ pc[w] = "take" /\ pc' = [pc EXCEPT ![w] = "off"] /\ pool_size' = pool_size
        /\ stop \/ pool_size < w + 1
    BY <1>6 DEF Detach, Goto, HasToTake, At, Surplus
  <2>3. \A x \in Worker : Joinable(x)' <=> ~At(x, "off")'
    BY <1>0, <2>1, <2>2, ThreadFacts DEF TypeOK, SlotsMatch, At
  <2>4. Len(workers') \in pool_size'..MaxPool
    BY <1>0, <2>1, <2>2, ThreadFacts DEF TypeOK, SlotsMatch
  <2>5. \A x \in Worker : x < pool_size => x # w
    <3>1. CASE stop
      BY <3>1, ThreadFacts DEF PoolInv, DestroyInv
    <3>2. CASE pool_size < w + 1
      BY <1>0, <3>2, ThreadFacts DEF TypeOK
    <3> QED
      BY <2>2, <3>1, <3>2
  <2> QED
    BY <1>0, <2>1, <2>2, <2>3, <2>4, <2>5 DEF SlotsMatch
<1>7. ASSUME NEW w \in Worker, Pop(w)
      PROVE  SlotsMatch'
  BY <1>7, <1>0, ThreadFacts
  DEF Pop, Takes, TypeOK, SlotsMatch, Joinable, HasToTake, At, Goto, poolVars
<1>8. ASSUME NEW w \in Worker, Notify(w)
      PROVE  SlotsMatch'
  BY <1>8, <1>0, ThreadFacts
  DEF Notify, TypeOK, SlotsMatch, Joinable, At, Goto, poolVars
<1>9. ASSUME NEW w \in Worker, Finish(w)
      PROVE  SlotsMatch'
  BY <1>9, <1>0, ThreadFacts
  DEF Finish, TypeOK, SlotsMatch, Joinable, At, Goto, poolVars
<1>10. ASSUME NEW w \in Worker, NotifyLast(w)
       PROVE  SlotsMatch'
  BY <1>10, <1>0, ThreadFacts
  DEF NotifyLast, TypeOK, SlotsMatch, Joinable, At, Goto, poolVars
<1>11. CASE Destroy
  BY <1>11, <1>0, ThreadFacts
  DEF Destroy, TypeOK, SlotsMatch, Joinable, At, Goto, poolVars
<1>12. CASE WaitUntilEmpty
  BY <1>12, <1>0, ThreadFacts
  DEF WaitUntilEmpty, TypeOK, SlotsMatch, Joinable, At, Goto, poolVars
<1>13. CASE WaitUntilNothingInFlight
  BY <1>13, <1>0, ThreadFacts
  DEF WaitUntilNothingInFlight, TypeOK, SlotsMatch, Joinable, At, Goto, poolVars
<1>14. CASE StopWorkers
  <2>1. pool_size' = 0 /\ workers' = workers /\ pc' = [pc EXCEPT ![Owner] = "join"]
    BY <1>14 DEF StopWorkers, Goto
  <2> QED
    BY <1>0, <2>1, ThreadFacts DEF TypeOK, SlotsMatch, Joinable, At
<1>15. CASE WaitForWorkers
  BY <1>15, <1>0, ThreadFacts
  DEF WaitForWorkers, TypeOK, SlotsMatch, Joinable, At, Goto, poolVars
<1>16. ASSUME NEW t \in Thread, Spurious(t)
       PROVE  SlotsMatch'
  BY <1>16, <1>0, ThreadFacts
  DEF Spurious, TypeOK, SlotsMatch, Joinable, At, poolVars
<1>17. CASE UNCHANGED vars
  BY <1>17, <1>0, ThreadFacts
  DEF vars, poolVars, condVars, taskVars, TypeOK, SlotsMatch, Joinable, At
<1> QED
  BY <1>1, <1>2, <1>3, <1>4, <1>5, <1>6, <1>7, <1>8, <1>9,
     <1>10, <1>11, <1>12, <1>13, <1>14, <1>15, <1>16, <1>17
  DEF Next, CallStep, WorkerStep, OwnerStep

(* Every step counts what is in flight. *)
LEMMA CountStep ==
  ASSUME PoolInv, [Next]_vars
  PROVE  InFlightCounts'
<1>0. /\ TypeOK /\ PlacesMatch /\ InFlightCounts /\ Len(tasks) \in Nat
      /\ in_flight \in Nat /\ Cardinality(Holding) \in Nat
  BY HoldingFinite DEF PoolInv, TypeOK
<1>1. ASSUME NEW t \in Caller, NEW c \in Call, Begin(t, c)
      PROVE  InFlightCounts'
  BY <1>1, <1>0, ThreadFacts DEF Begin, InFlightCounts, Holding, taskVars
<1>2. ASSUME NEW t \in Caller, MoveToThread(t)
      PROVE  InFlightCounts'
  <2>1. CASE UNCHANGED taskVars
    BY <1>0, <2>1 DEF InFlightCounts, Holding, taskVars
  <2>2. CASE ~UNCHANGED taskVars
    <3>1. /\ tasks' = Append(tasks, handed') /\ in_flight' = in_flight + 1
          /\ hand' = hand
      BY <1>2, <2>2 DEF MoveToThread
    <3>2. Len(tasks') = Len(tasks) + 1
      BY <1>0, <3>1 DEF TypeOK
    <3>3. Holding' = Holding
      BY <3>1 DEF Holding
    <3> QED
      BY <1>0, <3>1, <3>2, <3>3 DEF InFlightCounts
  <2> QED
    BY <2>1, <2>2
<1>3. ASSUME NEW t \in Caller, Resize(t)
      PROVE  InFlightCounts'
  BY <1>3, <1>0, ThreadFacts DEF Resize, InFlightCounts, Holding, taskVars
<1>4. ASSUME NEW t \in Caller, SetQueueSizeLimit(t)
      PROVE  InFlightCounts'
  BY <1>4, <1>0, ThreadFacts
  DEF SetQueueSizeLimit, InFlightCounts, Holding, taskVars
<1>5. ASSUME NEW w \in Worker, Sleep(w)
      PROVE  InFlightCounts'
  BY <1>5, <1>0, ThreadFacts DEF Sleep, InFlightCounts, Holding, taskVars
<1>6. ASSUME NEW w \in Worker, Detach(w)
      PROVE  InFlightCounts'
  BY <1>6, <1>0, ThreadFacts DEF Detach, InFlightCounts, Holding, taskVars
<1>7. ASSUME NEW w \in Worker, Pop(w)
      PROVE  InFlightCounts'
  <2>1. /\ tasks # << >> /\ tasks' = Tail(tasks) /\ in_flight' = in_flight
        /\ hand' = [hand EXCEPT ![w] = Head(tasks)] /\ pc[w] = "take"
    BY <1>7 DEF Pop, Takes, HasToTake, At
  <2>2. Len(tasks') = Len(tasks) - 1 /\ Head(tasks) # 0
    BY <1>0, <2>1 DEF TypeOK
  <2>3. w \notin Holding
    BY <1>0, <2>1 DEF PlacesMatch, Holding, Busy
  <2>4. Holding' = Holding \cup {w}
    BY <1>0, <2>1, <2>2 DEF TypeOK, Holding
  <2>5. Cardinality(Holding') = Cardinality(Holding) + 1
    BY <2>3, <2>4, HoldingFinite, FS_AddElement
  <2> QED
    BY <1>0, <2>1, <2>2, <2>5 DEF InFlightCounts
<1>8. ASSUME NEW w \in Worker, Notify(w)
      PROVE  InFlightCounts'
  BY <1>8, <1>0, ThreadFacts DEF Notify, InFlightCounts, Holding, taskVars
<1>9. ASSUME NEW w \in Worker, Finish(w)
      PROVE  InFlightCounts'
  <2>1. /\ pc[w] = "run" /\ in_flight' = in_flight - 1 /\ tasks' = tasks
        /\ hand' = [hand EXCEPT ![w] = 0]
    BY <1>9 DEF Finish, At
  <2>2. w \in Holding
    BY <1>0, <2>1 DEF PlacesMatch, Holding, Busy
  <2>3. Holding' = Holding \ {w}
    BY <1>0, <2>1 DEF TypeOK, Holding
  <2>4. Cardinality(Holding') = Cardinality(Holding) - 1
    BY <2>2, <2>3, HoldingFinite, FS_RemoveElement
  <2> QED
    BY <1>0, <2>1, <2>4 DEF InFlightCounts
<1>10. ASSUME NEW w \in Worker, NotifyLast(w)
       PROVE  InFlightCounts'
  BY <1>10, <1>0, ThreadFacts DEF NotifyLast, InFlightCounts, Holding, taskVars
<1>11. CASE Destroy
  BY <1>11, <1>0, ThreadFacts DEF Destroy, InFlightCounts, Holding, taskVars
<1>12. CASE WaitUntilEmpty
  BY <1>12, <1>0, ThreadFacts DEF WaitUntilEmpty, InFlightCounts, Holding, taskVars
<1>13. CASE WaitUntilNothingInFlight
  BY <1>13, <1>0, ThreadFacts
  DEF WaitUntilNothingInFlight, InFlightCounts, Holding, taskVars
<1>14. CASE StopWorkers
  BY <1>14, <1>0, ThreadFacts DEF StopWorkers, InFlightCounts, Holding, taskVars
<1>15. CASE WaitForWorkers
  BY <1>15, <1>0, ThreadFacts DEF WaitForWorkers, InFlightCounts, Holding, taskVars
<1>16. ASSUME NEW t \in Thread, Spurious(t)
       PROVE  InFlightCounts'
  BY <1>16, <1>0, ThreadFacts DEF Spurious, InFlightCounts, Holding, taskVars
<1>17. CASE UNCHANGED vars
  BY <1>17, <1>0, ThreadFacts
  DEF vars, poolVars, condVars, taskVars, InFlightCounts, Holding
<1> QED
  BY <1>1, <1>2, <1>3, <1>4, <1>5, <1>6, <1>7, <1>8, <1>9,
     <1>10, <1>11, <1>12, <1>13, <1>14, <1>15, <1>16, <1>17
  DEF Next, CallStep, WorkerStep, OwnerStep

(* The strengthening, for every behaviour. *)
LEMMA PoolInvariant == Spec => []PoolInv
<1>1. PoolInv /\ [Next]_vars => PoolInv'
  BY TypeStep, PlacesStep, DestroyStep, SlotsStep, CountStep DEF PoolInv
<1> QED
  BY InitInv, <1>1, PTL DEF Spec

(* The pool's variables have their types (TypeOK), for any number of       *)
(* threads, workers and calls.                                             *)
THEOREM TypeCorrect == Spec => []TypeOK
<1>1. PoolInv => TypeOK
  BY DEF PoolInv
<1> QED
  BY PoolInvariant, <1>1, PTL

(* The assertions of set_pool_size and start_worker hold: the slots of the *)
(* vector match the running threads (SlotsMatch).                          *)
THEOREM SlotsAreTrue == Spec => []SlotsMatch
<1>1. PoolInv => SlotsMatch
  BY DEF PoolInv
<1> QED
  BY PoolInvariant, <1>1, PTL

(* in_flight is the number of the queued and the running tasks             *)
(* (InFlightCounts), although each is counted outside the other's lock.    *)
THEOREM CountsInFlight == Spec => []InFlightCounts
<1>1. PoolInv => InFlightCounts
  BY DEF PoolInv
<1> QED
  BY PoolInvariant, <1>1, PTL

(* A stopped pool has nothing in flight, as the destructor asserts, and    *)
(* nobody is about to hand over a task it would refuse (NeverRefused).     *)
THEOREM RefusesNobody == Spec => []NeverRefused
<1>1. PoolInv => NeverRefused
  <2> SUFFICES ASSUME PoolInv, stop
               PROVE  in_flight = 0 /\ \A t \in Caller : ~At(t, "MoveToThread")
    BY DEF NeverRefused
  <2>1. in_flight = 0 /\ \A u \in User : At(u, "idle")
    BY DEF PoolInv, DestroyInv, At
  <2>2. \A w \in Worker : pc[w] \notin Busy
    BY <2>1, NothingInFlight
  <2> QED
    BY <2>1, <2>2, ThreadFacts DEF At, Busy
<1> QED
  BY PoolInvariant, <1>1, PTL

-----------------------------------------------------------------------------
(* No wake-up of a producer is lost. *)

(* Who sleeps in condition_producers is still in its call. *)
SleepersMatch ==
  \A t \in producers : \/ t \in Caller /\ At(t, "MoveToThread")
                       \/ t = Owner /\ At(Owner, "empty")

WakeInv == SleepersMatch /\ NoLostProducer /\ NoLostOwner

(* Every step keeps the wake-ups of producers. *)
LEMMA WakeStep ==
  ASSUME PoolInv, WakeInv, [Next]_vars
  PROVE  WakeInv'
<1>0. /\ TypeOK /\ PlacesMatch /\ DestroyInv
      /\ SleepersMatch /\ NoLostProducer /\ NoLostOwner
  BY DEF PoolInv, WakeInv
<1>1. ASSUME NEW t \in Caller, NEW c \in Call, Begin(t, c)
      PROVE  WakeInv'
  BY <1>1, <1>0, ThreadFacts
  DEF Begin, WakeInv, SleepersMatch, NoLostProducer, NoLostOwner, TypeOK, At,
      Goto, poolVars, condVars, taskVars
<1>2. ASSUME NEW t \in Caller, MoveToThread(t)
      PROVE  WakeInv'
  <2>1. /\ pc[t] = "MoveToThread" /\ t \notin producers
        /\ max_queue_size' = max_queue_size
        /\ pc' = pc \/ pc' = [pc EXCEPT ![t] = Back(t)]
    BY <1>2 DEF MoveToThread, poolVars, Goto, At
  <2>2. \A w \in Worker : At(w, "notify") => At(w, "notify")'
    BY <1>0, <2>1, ThreadFacts DEF TypeOK, At
  <2>3. CASE ~stop /\ Len(tasks) >= max_queue_size
    <3>1. producers' = producers \cup {t} /\ tasks' = tasks /\ pc' = pc
      BY <1>2, <2>3 DEF MoveToThread, taskVars
    <3>2. Len(tasks) \in Nat /\ max_queue_size \in Nat
      BY <1>0 DEF TypeOK
    <3>3. ~(Len(tasks) < max_queue_size)
      BY <2>3, <3>2
    <3> QED
      BY <1>0, <1>2, <2>1, <3>1, <3>3, ThreadFacts
      DEF WakeInv, SleepersMatch, NoLostProducer, NoLostOwner, At
  <2>4. CASE ~(~stop /\ Len(tasks) >= max_queue_size)
    <3>1. producers' = producers /\ pc' = [pc EXCEPT ![t] = Back(t)]
      BY <1>2, <2>4 DEF MoveToThread, Goto
    <3>2. tasks' = tasks \/ tasks' = Append(tasks, handed')
      BY <1>2, <2>4 DEF MoveToThread, taskVars
    <3>3. Len(tasks) \in Nat /\ Len(tasks') \in Nat /\ Len(tasks) <= Len(tasks')
      BY <1>0, <3>2 DEF TypeOK
    <3>4. tasks' = << >> => tasks = << >>
      BY <1>0, <3>2 DEF TypeOK
    <3>5. Len(tasks') < max_queue_size => Len(tasks) < max_queue_size
      BY <1>0, <3>3 DEF TypeOK
    <3>6. SleepersMatch'
      BY <1>0, <2>1, <3>1, ThreadFacts DEF TypeOK, SleepersMatch, At
    <3>7. NoLostProducer'
      BY <1>0, <2>1, <2>2, <3>1, <3>5, ThreadFacts
      DEF TypeOK, SleepersMatch, NoLostProducer, At
    <3>8. NoLostOwner'
      BY <1>0, <2>2, <3>1, <3>4 DEF NoLostOwner
    <3> QED
      BY <3>6, <3>7, <3>8 DEF WakeInv
  <2> QED
    BY <2>3, <2>4
<1>3. ASSUME NEW t \in Caller, Resize(t)
      PROVE  WakeInv'
  <2>1. \A x \in Thread : \/ pc'[x] = pc[x]
                          \/ pc[x] \in {"Resize", "off"} /\ pc'[x] # "MoveToThread"
    <3>1. CASE stop
      BY <1>0, <1>3, <3>1 DEF TypeOK, Resize, Goto, At, Back
    <3>2. CASE ~stop
      <4>1. PICK size \in 1..MaxPool : StartWorkers(pool_size..size - 1, t)
        BY <1>3, <3>2, Resizes
      <4>2. \A w \in pool_size..size - 1 : ~Joinable(w) => pc[w] = "off"
        BY <1>0, ThreadFacts DEF TypeOK, PoolInv, SlotsMatch, At
      <4>3. pc[t] = "Resize"
        BY <1>3 DEF Resize, At
      <4> QED
        BY <4>1, <4>2, <4>3 DEF StartWorkers, Back
    <3> QED
      BY <3>1, <3>2
  <2>2. UNCHANGED <<producers, tasks, max_queue_size>>
    BY <1>3 DEF Resize, taskVars
  <2>3. \A x \in Thread : pc[x] \in {"MoveToThread", "empty", "notify"} => pc'[x] = pc[x]
    BY <2>1
  <2>4. SleepersMatch'
    BY <1>0, <2>2, <2>3, ThreadFacts DEF SleepersMatch, At
  <2>5. \A w \in Worker : At(w, "notify") => At(w, "notify")'
    BY <2>3, ThreadFacts DEF At
  <2>6. \A x \in Thread : At(x, "MoveToThread")' => At(x, "MoveToThread")
    BY <2>1 DEF At
  <2>7. NoLostProducer' /\ NoLostOwner'
    BY <1>0, <2>2, <2>5, <2>6 DEF TypeOK, NoLostProducer, NoLostOwner
  <2> QED
    BY <2>4, <2>7 DEF WakeInv
<1>4. ASSUME NEW t \in Caller, SetQueueSizeLimit(t)
      PROVE  WakeInv'
  <2>1. /\ pc[t] = "set_queue_size_limit" /\ pc' = [pc EXCEPT ![t] = Back(t)]
        /\ tasks' = tasks
        /\ \/ producers' = {}
           \/ producers' = producers /\ ~(max_queue_size < max_queue_size')
    <3>1. CASE stop
      BY <1>4, <3>1, <1>0 DEF SetQueueSizeLimit, Goto, At, taskVars, TypeOK
    <3>2. CASE ~stop
      <4>1. producers' = IF max_queue_size < max_queue_size' THEN {} ELSE producers
        BY <1>4, <3>2 DEF SetQueueSizeLimit
      <4> QED
        BY <1>4, <4>1 DEF SetQueueSizeLimit, Goto, At, taskVars
    <3> QED
      BY <3>1, <3>2
  <2>2. max_queue_size \in Nat /\ max_queue_size' \in Nat /\ Len(tasks) \in Nat
    BY <1>0, TypeStep, <1>4 DEF TypeOK, Next, CallStep
  <2>3. CASE producers' = {}
    BY <2>3, ThreadFacts DEF WakeInv, SleepersMatch, NoLostProducer, NoLostOwner
  <2>4. CASE producers' = producers /\ ~(max_queue_size < max_queue_size')
    <3>1. SleepersMatch'
      BY <1>0, <2>1, <2>4, ThreadFacts DEF TypeOK, SleepersMatch, At
    <3>2. Len(tasks') < max_queue_size' => Len(tasks) < max_queue_size
      BY <2>1, <2>2, <2>4
    <3>3. NoLostProducer' /\ NoLostOwner'
      BY <1>0, <2>1, <2>4, <3>2, ThreadFacts
      DEF TypeOK, NoLostProducer, NoLostOwner, At, Back
    <3> QED
      BY <3>1, <3>3 DEF WakeInv
  <2> QED
    BY <2>1, <2>3, <2>4
<1>5. ASSUME NEW w \in Worker, Sleep(w)
      PROVE  WakeInv'
  BY <1>5, <1>0, ThreadFacts
  DEF Sleep, WakeInv, SleepersMatch, NoLostProducer, NoLostOwner, TypeOK,
      HasToTake, At, poolVars, taskVars
<1>6. ASSUME NEW w \in Worker, Detach(w)
      PROVE  WakeInv'
  BY <1>6, <1>0, ThreadFacts
  DEF Detach, WakeInv, SleepersMatch, NoLostProducer, NoLostOwner, TypeOK,
      HasToTake, At, Goto, taskVars
<1>7. ASSUME NEW w \in Worker, Pop(w)
      PROVE  WakeInv'
  <2>1. /\ tasks # << >> /\ tasks' = Tail(tasks) /\ pc[w] = "take"
        /\ pc' = [pc EXCEPT ![w] = IF Len(tasks) \in {1, max_queue_size}
                                    THEN "notify" ELSE "run"]
        /\ producers' = producers /\ max_queue_size' = max_queue_size
    BY <1>7 DEF Pop, Takes, HasToTake, At, Goto, poolVars, condVars
  <2>2. /\ Len(tasks) \in Nat /\ Len(tasks') = Len(tasks) - 1 /\ max_queue_size \in Nat
        /\ tasks' = << >> => Len(tasks) = 1
    <3>1. Len(tasks) \in Nat /\ Len(tasks') = Len(tasks) - 1 /\ max_queue_size \in Nat
      BY <1>0, <2>1 DEF TypeOK
    <3>2. tasks' = << >> => Len(tasks') = 0
      OBVIOUS
    <3> QED
      BY <3>1, <3>2
  <2>3. SleepersMatch'
    BY <1>0, <2>1, ThreadFacts DEF TypeOK, SleepersMatch, At
  <2>4. \A x \in Worker : At(x, "notify") => At(x, "notify")'
    BY <1>0, <2>1, ThreadFacts DEF TypeOK, At
  <2>5. CASE Len(tasks) \in {1, max_queue_size}
    <3>1. At(w, "notify")'
      BY <1>0, <2>1, <2>5, ThreadFacts DEF TypeOK, At
    <3> QED
      BY <2>3, <3>1 DEF WakeInv, NoLostProducer, NoLostOwner
  <2>6. CASE Len(tasks) \notin {1, max_queue_size}
    <3>1. tasks' # << >> /\ (Len(tasks') < max_queue_size => Len(tasks) < max_queue_size)
      BY <2>2, <2>6
    <3>2. \A x \in Thread : At(x, "MoveToThread")' => At(x, "MoveToThread")
      BY <1>0, <2>1 DEF TypeOK, At
    <3>3. producers \subseteq Thread
      BY <1>0 DEF TypeOK
    <3> QED
      BY <1>0, <2>1, <2>3, <2>4, <3>1, <3>2, <3>3
      DEF WakeInv, NoLostProducer, NoLostOwner
  <2> QED
    BY <2>5, <2>6
<1>8. ASSUME NEW w \in Worker, Notify(w)
      PROVE  WakeInv'
  BY <1>8, <1>0, ThreadFacts
  DEF Notify, WakeInv, SleepersMatch, NoLostProducer, NoLostOwner, TypeOK, At,
      Goto, poolVars, taskVars
<1>9. ASSUME NEW w \in Worker, Finish(w)
      PROVE  WakeInv'
  BY <1>9, <1>0, ThreadFacts
  DEF Finish, WakeInv, SleepersMatch, NoLostProducer, NoLostOwner, TypeOK, At,
      Goto, poolVars, condVars
<1>10. ASSUME NEW w \in Worker, NotifyLast(w)
       PROVE  WakeInv'
  BY <1>10, <1>0, ThreadFacts
  DEF NotifyLast, WakeInv, SleepersMatch, NoLostProducer, NoLostOwner, TypeOK,
      At, Goto, poolVars, taskVars
<1>11. CASE Destroy
  BY <1>11, <1>0, ThreadFacts
  DEF Destroy, WakeInv, SleepersMatch, NoLostProducer, NoLostOwner, TypeOK, At,
      Goto, poolVars, condVars, taskVars
<1>12. CASE WaitUntilEmpty
  BY <1>12, <1>0, ThreadFacts
  DEF WaitUntilEmpty, WakeInv, SleepersMatch, NoLostProducer, NoLostOwner,
      TypeOK, At, Goto, poolVars, taskVars
<1>13. CASE WaitUntilNothingInFlight
  BY <1>13, <1>0, ThreadFacts
  DEF WaitUntilNothingInFlight, WakeInv, SleepersMatch, NoLostProducer,
      NoLostOwner, TypeOK, At, Goto, poolVars, taskVars
<1>14. CASE StopWorkers
  BY <1>14, <1>0, ThreadFacts
  DEF StopWorkers, WakeInv, SleepersMatch, NoLostProducer, NoLostOwner, TypeOK,
      At, Goto, taskVars
<1>15. CASE WaitForWorkers
  BY <1>15, <1>0, ThreadFacts
  DEF WaitForWorkers, WakeInv, SleepersMatch, NoLostProducer, NoLostOwner,
      TypeOK, At, Goto, poolVars, taskVars
<1>16. ASSUME NEW t \in Thread, Spurious(t)
       PROVE  WakeInv'
  BY <1>16, <1>0, ThreadFacts
  DEF Spurious, WakeInv, SleepersMatch, NoLostProducer, NoLostOwner, TypeOK,
      At, poolVars, taskVars
<1>17. CASE UNCHANGED vars
  BY <1>17, <1>0, ThreadFacts
  DEF vars, poolVars, condVars, taskVars, WakeInv, SleepersMatch,
      NoLostProducer, NoLostOwner, TypeOK, At
<1> QED
  BY <1>1, <1>2, <1>3, <1>4, <1>5, <1>6, <1>7, <1>8, <1>9,
     <1>10, <1>11, <1>12, <1>13, <1>14, <1>15, <1>16, <1>17
  DEF Next, CallStep, WorkerStep, OwnerStep

(* WakeInv, for every behaviour. *)
LEMMA WakeInvariant == Spec => []WakeInv
<1>1. Init => WakeInv
  BY DEF Init, WakeInv, SleepersMatch, NoLostProducer, NoLostOwner
<1>2. PoolInv /\ WakeInv /\ [Next]_vars => WakeInv'
  BY WakeStep
<1> QED
  BY <1>1, <1>2, PoolInvariant, PTL DEF Spec

(* A producer sleeps beside a queue with room only while a worker is about *)
(* to notify it (NoLostProducer).                                          *)
THEOREM LosesNoProducer == Spec => []NoLostProducer
<1>1. WakeInv => NoLostProducer
  BY DEF WakeInv
<1> QED
  BY WakeInvariant, <1>1, PTL

(* wait_until_empty sleeps on an empty queue only while a worker is about  *)
(* to notify it (NoLostOwner).                                             *)
THEOREM LosesNoOwner == Spec => []NoLostOwner
<1>1. WakeInv => NoLostOwner
  BY DEF WakeInv
<1> QED
  BY WakeInvariant, <1>1, PTL

-----------------------------------------------------------------------------
(* No wake-up of a worker is wasted. *)

(* The workers of the pool on their way to the queue.                      *)
Ready == {w \in Worker : HasToTake(w) /\ ~Surplus(w)}

(* Who sleeps in condition_consumers: workers of the running pool, and the *)
(* owner once it is stopped.                                               *)
IdleInv ==
  /\ \A w \in Worker : w \in consumers => At(w, "take") /\ ~Surplus(w) /\ ~stop
  /\ Owner \in consumers => stop
  /\ pc[Owner] \in {"join", "gone"} => stop
  /\ NoIdleWorker

(* Only finitely many workers are on their way. *)
LEMMA ReadyFinite ==
  /\ IsFiniteSet(Ready) /\ IsFiniteSet(Ready')
  /\ Cardinality(Ready) \in Nat /\ Cardinality(Ready') \in Nat
<1>1. IsFiniteSet(Worker)
  <2>1. 0 \in Int /\ MaxPool - 1 \in Int
    BY PoolAssumption
  <2> QED
    BY <2>1, FS_Interval DEF Worker
<1>2. Ready \subseteq Worker /\ Ready' \subseteq Worker
  BY DEF Ready
<1> QED
  BY <1>1, <1>2, FS_Subset, FS_CardinalityType

(* A step that lets no worker of the pool go astray keeps NoIdleWorker.    *)
LEMMA IdleKept ==
  ASSUME NoIdleWorker, tasks' = tasks, tasks \in Seq(Nat \ {0}),
         consumers' \cap Worker \subseteq consumers, Ready \subseteq Ready'
  PROVE  NoIdleWorker'
<1> SUFFICES ASSUME consumers' \cap Worker # {}
             PROVE  Len(tasks) <= Cardinality(Ready')
  BY DEF NoIdleWorker, Ready
<1>1. Len(tasks) <= Cardinality(Ready)
  BY DEF NoIdleWorker, Ready
<1>2. Cardinality(Ready) <= Cardinality(Ready')
  BY ReadyFinite, FS_Subset
<1> QED
  BY <1>1, <1>2, ReadyFinite

(* Every step keeps the sleep of workers. *)
LEMMA IdleStep ==
  ASSUME PoolInv, IdleInv, [Next]_vars
  PROVE  IdleInv'
<1>0. TypeOK /\ PlacesMatch /\ IdleInv /\ NoIdleWorker
  BY DEF PoolInv, IdleInv
<1>1. ASSUME NEW t \in Caller, NEW c \in Call, Begin(t, c)
      PROVE  IdleInv'
  <2>1. Ready \subseteq Ready'
    BY <1>0, <1>1, ThreadFacts
    DEF Ready, Begin, poolVars, condVars, taskVars, HasToTake, Surplus, At,
        Goto, TypeOK
  <2>2. tasks' = tasks /\ consumers' \cap Worker \subseteq consumers
    BY <1>1 DEF Begin, condVars, taskVars
  <2>3. NoIdleWorker'
    BY <1>0, <2>1, <2>2, IdleKept DEF TypeOK
  <2> QED
    BY <1>0, <1>1, <2>3, ThreadFacts
    DEF IdleInv, Begin, poolVars, condVars, taskVars, Surplus, At, Goto, TypeOK
<1>2. ASSUME NEW t \in Caller, MoveToThread(t)
      PROVE  IdleInv'
  <2>1. /\ pc[t] = "MoveToThread" /\ UNCHANGED <<stop, pool_size>>
        /\ pc' = pc \/ pc' = [pc EXCEPT ![t] = Back(t)]
    BY <1>2 DEF MoveToThread, poolVars, Goto, At
  <2>2. CASE tasks' = tasks /\ consumers' = consumers
    <3>1. Ready \subseteq Ready'
      BY <1>0, <2>1, <2>2, ThreadFacts DEF Ready, HasToTake, Surplus, At, TypeOK
    <3>2. NoIdleWorker'
      BY <1>0, <2>2, <3>1, IdleKept DEF TypeOK
    <3> QED
      BY <1>0, <2>1, <2>2, <3>2, ThreadFacts DEF IdleInv, Surplus, At, TypeOK, Back
  <2>3. CASE ~(tasks' = tasks /\ consumers' = consumers)
    <3>1. /\ ~stop /\ tasks' = Append(tasks, handed')
          /\ WakeOne(consumers, consumers') /\ pc' = [pc EXCEPT ![t] = Back(t)]
      BY <1>2, <2>3 DEF MoveToThread, taskVars, Goto
    <3>2. Len(tasks) \in Nat /\ Len(tasks') = Len(tasks) + 1
      BY <1>0, <3>1 DEF TypeOK
    <3>3. CASE consumers = {}
      <4>1. consumers' = {}
        BY <3>1, <3>3 DEF WakeOne
      <4> QED
        BY <1>0, <2>1, <3>1, <4>1, ThreadFacts
        DEF IdleInv, NoIdleWorker, TypeOK, Back
    <3>4. CASE consumers # {}
      <4>1. PICK x \in consumers : consumers' = consumers \ {x}
        BY <3>1, <3>4 DEF WakeOne
      <4>2. x \in Worker
        BY <1>0, <3>1 DEF TypeOK, IdleInv
      <4>3. x \notin Ready /\ At(x, "take") /\ ~Surplus(x)
        BY <1>0, <4>2 DEF IdleInv, Ready, HasToTake
      <4>4. Ready \cup {x} \subseteq Ready'
        BY <1>0, <2>1, <3>1, <4>1, <4>2, <4>3, ThreadFacts
        DEF Ready, HasToTake, Surplus, At, TypeOK
      <4>5. Cardinality(Ready \cup {x}) = Cardinality(Ready) + 1
        BY <4>3, ReadyFinite, FS_AddElement
      <4>6. Cardinality(Ready \cup {x}) <= Cardinality(Ready')
        BY <4>4, ReadyFinite, FS_Subset
      <4>7. Len(tasks) <= Cardinality(Ready)
        BY <1>0, <4>2 DEF NoIdleWorker, Ready
      <4>8. Len(tasks') <= Cardinality(Ready')
        BY <3>2, <4>5, <4>6, <4>7, ReadyFinite
      <4>9. NoIdleWorker'
        BY <4>8 DEF NoIdleWorker, Ready
      <4> QED
        BY <1>0, <2>1, <3>1, <4>1, <4>9, ThreadFacts
        DEF IdleInv, Surplus, At, TypeOK, Back
    <3> QED
      BY <3>3, <3>4
  <2> QED
    BY <2>2, <2>3
<1>3. ASSUME NEW t \in Caller, Resize(t)
      PROVE  IdleInv'
  <2>1. CASE stop
    <3>1. /\ pc[t] = "Resize" /\ pc' = [pc EXCEPT ![t] = Back(t)]
          /\ UNCHANGED <<stop, pool_size, consumers, tasks>>
      BY <1>3, <2>1 DEF Resize, Goto, At, taskVars
    <3>2. Ready \subseteq Ready'
      BY <1>0, <3>1, ThreadFacts DEF Ready, HasToTake, Surplus, At, TypeOK
    <3>3. NoIdleWorker'
      BY <1>0, <3>1, <3>2, IdleKept DEF TypeOK
    <3> QED
      BY <1>0, <3>1, <3>3, ThreadFacts DEF IdleInv, Surplus, At, TypeOK, Back
  <2>2. CASE ~stop
    <3>1. PICK size \in 1..MaxPool :
            /\ pool_size' = size
            /\ StartWorkers(pool_size..size - 1, t)
            /\ consumers' = IF size < pool_size THEN {} ELSE consumers
      BY <1>3, <2>2, Resizes
    <3>2. \A x \in Thread : \/ pc'[x] = pc[x]
                            \/ /\ pc[x] \in {"Resize", "off"}
                               /\ pc'[x] \in {"take", "run", "idle"}
      <4>1. \A w \in pool_size..size - 1 : ~Joinable(w) => pc[w] = "off"
        BY <1>0, ThreadFacts DEF TypeOK, PoolInv, SlotsMatch, At
      <4>2. pc[t] = "Resize"
        BY <1>3 DEF Resize, At
      <4> QED
        BY <3>1, <4>1, <4>2 DEF StartWorkers, Back
    <3>3. stop' = stop /\ tasks' = tasks /\ pool_size \in Nat
      BY <1>0, <1>3 DEF Resize, taskVars, TypeOK
    <3>4. \A x \in Worker : pc[x] = "take" => pc'[x] = "take"
      BY <3>2, ThreadFacts
    <3>5. pc'[Owner] \in {"join", "gone"} => stop
      BY <1>0, <3>2, ThreadFacts DEF IdleInv
    <3>6. CASE size < pool_size
      <4>1. consumers' = {}
        BY <3>1, <3>6
      <4> QED
        BY <3>3, <3>5, <4>1 DEF IdleInv, NoIdleWorker
    <3>7. CASE ~(size < pool_size)
      <4>1. consumers' = consumers
        BY <3>1, <3>7
      <4>2. \A w \in Worker : ~Surplus(w) => ~Surplus(w)'
        BY <3>1, <3>3, <3>7, ThreadFacts DEF Surplus
      <4>3. Ready \subseteq Ready'
        BY <3>4, <4>1, <4>2 DEF Ready, HasToTake, At
      <4>4. NoIdleWorker'
        BY <1>0, <3>3, <4>1, <4>3, IdleKept DEF TypeOK
      <4> QED
        BY <1>0, <3>3, <3>4, <3>5, <4>1, <4>2, <4>4 DEF IdleInv, At
    <3> QED
      BY <3>6, <3>7
  <2> QED
    BY <2>1, <2>2
<1>4. ASSUME NEW t \in Caller, SetQueueSizeLimit(t)
      PROVE  IdleInv'
  <2>1. Ready \subseteq Ready'
    BY <1>0, <1>4, ThreadFacts
    DEF Ready, SetQueueSizeLimit, taskVars, HasToTake, Surplus, At, Goto, Back,
        TypeOK
  <2>2. tasks' = tasks /\ consumers' \cap Worker \subseteq consumers
    BY <1>4 DEF SetQueueSizeLimit, taskVars
  <2>3. NoIdleWorker'
    BY <1>0, <2>1, <2>2, IdleKept DEF TypeOK
  <2> QED
    BY <1>0, <1>4, <2>3, ThreadFacts
    DEF IdleInv, SetQueueSizeLimit, taskVars, Surplus, At, Goto, Back, TypeOK
<1>5. ASSUME NEW w \in Worker, Sleep(w)
      PROVE  IdleInv'
  <2>1. Len(tasks') = 0
    BY <1>5 DEF Sleep, taskVars
  <2>2. NoIdleWorker'
    BY <2>1, ReadyFinite DEF NoIdleWorker, Ready
  <2> QED
    BY <1>0, <1>5, <2>2, ThreadFacts
    DEF IdleInv, Sleep, HasToTake, Surplus, At, poolVars
<1>6. ASSUME NEW w \in Worker, Detach(w)
      PROVE  IdleInv'
  <2>1. /\ pc[w] = "take" /\ pc' = [pc EXCEPT ![w] = "off"] /\ w \notin consumers
        /\ stop \/ Surplus(w)
        /\ consumers' = {} \/ consumers' = consumers
        /\ UNCHANGED <<stop, pool_size, tasks>>
    BY <1>6 DEF Detach, HasToTake, At, Goto, taskVars
  <2>2. NoIdleWorker'
    <3>1. CASE stop
      <4>1. consumers' \cap Worker = {}
        BY <1>0, <2>1, <3>1 DEF IdleInv
      <4> QED
        BY <4>1 DEF NoIdleWorker
    <3>2. CASE consumers' = {}
      BY <3>2 DEF NoIdleWorker
    <3>3. CASE ~stop /\ consumers' = consumers
      <4>1. Ready \subseteq Ready'
        BY <1>0, <2>1, <3>3, ThreadFacts DEF Ready, HasToTake, Surplus, At, TypeOK
      <4> QED
        BY <1>0, <2>1, <3>3, <4>1, IdleKept DEF TypeOK
    <3> QED
      BY <2>1, <3>1, <3>2, <3>3
  <2> QED
    BY <1>0, <2>1, <2>2, ThreadFacts DEF IdleInv, Surplus, At, TypeOK
<1>7. ASSUME NEW w \in Worker, Pop(w)
      PROVE  IdleInv'
  <2>1. /\ pc[w] = "take" /\ w \notin consumers /\ (stop \/ ~Surplus(w))
        /\ tasks # << >> /\ tasks' = Tail(tasks)
        /\ pc' = [pc EXCEPT ![w] = IF Len(tasks) \in {1, max_queue_size}
                                    THEN "notify" ELSE "run"]
        /\ UNCHANGED <<stop, pool_size, consumers>>
    BY <1>7 DEF Pop, Takes, HasToTake, At, Goto, poolVars, condVars
  <2>2. NoIdleWorker'
    <3>1. CASE stop
      <4>1. consumers' \cap Worker = {}
        BY <1>0, <2>1, <3>1 DEF IdleInv
      <4> QED
        BY <4>1 DEF NoIdleWorker
    <3>2. CASE ~stop
      <4> SUFFICES ASSUME consumers \cap Worker # {}
                   PROVE  Len(tasks') <= Cardinality(Ready')
        BY <2>1 DEF NoIdleWorker, Ready
      <4>1. Len(tasks) <= Cardinality(Ready)
        BY <1>0 DEF NoIdleWorker, Ready
      <4>2. w \in Ready
        BY <2>1, <3>2 DEF Ready, HasToTake, At
      <4>3. Ready \ {w} \subseteq Ready'
        BY <1>0, <2>1, ThreadFacts DEF Ready, HasToTake, Surplus, At, TypeOK
      <4>4. IsFiniteSet(Ready \ {w}) /\ Cardinality(Ready \ {w}) = Cardinality(Ready) - 1
        BY <4>2, ReadyFinite, FS_RemoveElement
      <4>5. Cardinality(Ready \ {w}) <= Cardinality(Ready')
        BY <4>3, ReadyFinite, FS_Subset
      <4>6. Len(tasks) \in Nat /\ Len(tasks') = Len(tasks) - 1
        BY <1>0, <2>1 DEF TypeOK
      <4> QED
        BY <4>1, <4>4, <4>5, <4>6, ReadyFinite
    <3> QED
      BY <3>1, <3>2
  <2> QED
    BY <1>0, <2>1, <2>2, ThreadFacts DEF IdleInv, Surplus, At, TypeOK
<1>8. ASSUME NEW w \in Worker, Notify(w)
      PROVE  IdleInv'
  <2>1. Ready \subseteq Ready'
    BY <1>0, <1>8, ThreadFacts
    DEF Ready, Notify, poolVars, taskVars, HasToTake, Surplus, At, Goto, TypeOK
  <2>2. tasks' = tasks /\ consumers' \cap Worker \subseteq consumers
    BY <1>8 DEF Notify, taskVars
  <2>3. NoIdleWorker'
    BY <1>0, <2>1, <2>2, IdleKept DEF TypeOK
  <2> QED
    BY <1>0, <1>8, <2>3, ThreadFacts
    DEF IdleInv, Notify, poolVars, taskVars, Surplus, At, Goto, TypeOK
<1>9. ASSUME NEW w \in Worker, Finish(w)
      PROVE  IdleInv'
  <2>1. Ready \subseteq Ready'
    BY <1>0, <1>9, ThreadFacts
    DEF Ready, Finish, poolVars, condVars, HasToTake, Surplus, At, Goto, TypeOK
  <2>2. tasks' = tasks /\ consumers' \cap Worker \subseteq consumers
    BY <1>9 DEF Finish, condVars
  <2>3. NoIdleWorker'
    BY <1>0, <2>1, <2>2, IdleKept DEF TypeOK
  <2> QED
    BY <1>0, <1>9, <2>3, ThreadFacts
    DEF IdleInv, Finish, poolVars, condVars, Surplus, At, Goto, TypeOK
<1>10. ASSUME NEW w \in Worker, NotifyLast(w)
       PROVE  IdleInv'
  <2>1. Ready \subseteq Ready'
    BY <1>0, <1>10, ThreadFacts
    DEF Ready, NotifyLast, poolVars, taskVars, HasToTake, Surplus, At, Goto, TypeOK
  <2>2. tasks' = tasks /\ consumers' \cap Worker \subseteq consumers
    BY <1>10 DEF NotifyLast, taskVars
  <2>3. NoIdleWorker'
    BY <1>0, <2>1, <2>2, IdleKept DEF TypeOK
  <2> QED
    BY <1>0, <1>10, <2>3, ThreadFacts
    DEF IdleInv, NotifyLast, poolVars, taskVars, Surplus, At, Goto, TypeOK
<1>11. CASE Destroy
  <2>1. Ready \subseteq Ready'
    BY <1>0, <1>11, ThreadFacts
    DEF Ready, Destroy, poolVars, condVars, taskVars, HasToTake, Surplus, At,
        Goto, TypeOK
  <2>2. tasks' = tasks /\ consumers' \cap Worker \subseteq consumers
    BY <1>11 DEF Destroy, condVars, taskVars
  <2>3. NoIdleWorker'
    BY <1>0, <2>1, <2>2, IdleKept DEF TypeOK
  <2> QED
    BY <1>0, <1>11, <2>3, ThreadFacts
    DEF IdleInv, Destroy, poolVars, condVars, taskVars, Surplus, At, Goto, TypeOK
<1>12. CASE WaitUntilEmpty
  <2>1. Ready \subseteq Ready'
    BY <1>0, <1>12, ThreadFacts
    DEF Ready, WaitUntilEmpty, poolVars, taskVars, HasToTake, Surplus, At,
        Goto, TypeOK
  <2>2. tasks' = tasks /\ consumers' \cap Worker \subseteq consumers
    BY <1>12 DEF WaitUntilEmpty, taskVars
  <2>3. NoIdleWorker'
    BY <1>0, <2>1, <2>2, IdleKept DEF TypeOK
  <2> QED
    BY <1>0, <1>12, <2>3, ThreadFacts
    DEF IdleInv, WaitUntilEmpty, poolVars, taskVars, Surplus, At, Goto, TypeOK
<1>13. CASE WaitUntilNothingInFlight
  <2>1. Ready \subseteq Ready'
    BY <1>0, <1>13, ThreadFacts
    DEF Ready, WaitUntilNothingInFlight, poolVars, taskVars, HasToTake,
        Surplus, At, Goto, TypeOK
  <2>2. tasks' = tasks /\ consumers' \cap Worker \subseteq consumers
    BY <1>13 DEF WaitUntilNothingInFlight, taskVars
  <2>3. NoIdleWorker'
    BY <1>0, <2>1, <2>2, IdleKept DEF TypeOK
  <2> QED
    BY <1>0, <1>13, <2>3, ThreadFacts
    DEF IdleInv, WaitUntilNothingInFlight, poolVars, taskVars, Surplus, At,
        Goto, TypeOK
<1>14. CASE StopWorkers
  BY <1>14 DEF StopWorkers, IdleInv, NoIdleWorker, Goto
<1>15. CASE WaitForWorkers
  <2>1. Ready \subseteq Ready'
    BY <1>0, <1>15, ThreadFacts
    DEF Ready, WaitForWorkers, poolVars, taskVars, HasToTake, Surplus, At,
        Goto, TypeOK
  <2>2. tasks' = tasks /\ consumers' \cap Worker \subseteq consumers
    BY <1>15, ThreadFacts DEF WaitForWorkers, taskVars
  <2>3. NoIdleWorker'
    BY <1>0, <2>1, <2>2, IdleKept DEF TypeOK
  <2> QED
    BY <1>0, <1>15, <2>3, ThreadFacts
    DEF IdleInv, WaitForWorkers, poolVars, taskVars, Surplus, At, Goto, TypeOK
<1>16. ASSUME NEW t \in Thread, Spurious(t)
       PROVE  IdleInv'
  <2>1. Ready \subseteq Ready'
    BY <1>0, <1>16, ThreadFacts
    DEF Ready, Spurious, poolVars, taskVars, HasToTake, Surplus, At, TypeOK
  <2>2. tasks' = tasks /\ consumers' \cap Worker \subseteq consumers
    BY <1>16 DEF Spurious, taskVars
  <2>3. NoIdleWorker'
    BY <1>0, <2>1, <2>2, IdleKept DEF TypeOK
  <2> QED
    BY <1>0, <1>16, <2>3, ThreadFacts
    DEF IdleInv, Spurious, poolVars, taskVars, Surplus, At, TypeOK
<1>17. CASE UNCHANGED vars
  <2>1. Ready \subseteq Ready'
    BY <1>0, <1>17, ThreadFacts DEF Ready, vars, HasToTake, Surplus, At, TypeOK
  <2>2. tasks' = tasks /\ consumers' \cap Worker \subseteq consumers
    BY <1>17 DEF vars
  <2>3. NoIdleWorker'
    BY <1>0, <2>1, <2>2, IdleKept DEF TypeOK
  <2> QED
    BY <1>0, <1>17, <2>3, ThreadFacts DEF IdleInv, vars, Surplus, At, TypeOK
<1> QED
  BY <1>1, <1>2, <1>3, <1>4, <1>5, <1>6, <1>7, <1>8, <1>9,
     <1>10, <1>11, <1>12, <1>13, <1>14, <1>15, <1>16, <1>17
  DEF Next, CallStep, WorkerStep, OwnerStep

(* IdleInv, for every behaviour. *)
LEMMA IdleInvariant == Spec => []IdleInv
<1>1. Init => IdleInv
  BY ThreadFacts DEF Init, IdleInv, NoIdleWorker
<1>2. PoolInv /\ IdleInv /\ [Next]_vars => IdleInv'
  BY IdleStep
<1> QED
  BY <1>1, <1>2, PoolInvariant, PTL DEF Spec

(* While a worker sleeps, each queued task has a worker of its own on the  *)
(* way to it (NoIdleWorker): notify_one wakes none that is leaving.        *)
THEOREM WastesNoWakeUp == Spec => []NoIdleWorker
<1>1. IdleInv => NoIdleWorker
  BY DEF IdleInv
<1> QED
  BY IdleInvariant, <1>1, PTL

-----------------------------------------------------------------------------
(* The pool implements TaskPool.                                           *)

(* Tasks are numbered as they are handed over: the queue holds them in     *)
(* order, what workers hold came before, and no two hold the same.         *)
OrderInv ==
  /\ \A i \in 1..Len(tasks) : tasks[i] <= handed
  /\ \A i, j \in 1..Len(tasks) : i < j => tasks[i] < tasks[j]
  /\ \A w \in Worker : /\ hand[w] <= handed
                       /\ \A i \in 1..Len(tasks) : hand[w] < tasks[i]
  /\ \A v, w \in Worker : hand[v] = hand[w] /\ hand[v] # 0 => v = w

(* Every task came with a call. *)
Pushing == {t \in Caller : At(t, "MoveToThread")}
CallsInv == handed + Cardinality(Pushing) <= calls

(* Only finitely many threads are about to hand over a task.               *)
LEMMA PushingFinite ==
  /\ IsFiniteSet(Pushing) /\ IsFiniteSet(Pushing')
  /\ Cardinality(Pushing) \in Nat /\ Cardinality(Pushing') \in Nat
<1>1. IsFiniteSet(Caller)
  <2>1. 0 \in Int /\ MaxPool - 1 \in Int
    BY PoolAssumption
  <2>2. IsFiniteSet(Worker)
    BY <2>1, FS_Interval DEF Worker
  <2> QED
    BY <2>2, ThreadAssumption, FS_Union DEF Caller
<1>2. Pushing \subseteq Caller /\ Pushing' \subseteq Caller
  BY DEF Pushing
<1> QED
  BY <1>1, <1>2, FS_Subset, FS_CardinalityType

(* Every step keeps the order of the tasks. *)
LEMMA OrderStep ==
  ASSUME PoolInv, OrderInv, [Next]_vars
  PROVE  OrderInv'
<1>0. TypeOK /\ PlacesMatch /\ OrderInv
  BY DEF PoolInv
<1>1. ASSUME NEW t \in Caller, NEW c \in Call, Begin(t, c)
      PROVE  OrderInv'
  BY <1>1, <1>0, ThreadFacts DEF Begin, OrderInv, taskVars
<1>2. ASSUME NEW t \in Caller, MoveToThread(t)
      PROVE  OrderInv'
  <2>1. CASE UNCHANGED taskVars
    BY <1>0, <2>1 DEF OrderInv, taskVars
  <2>2. CASE ~UNCHANGED taskVars
    <3>1. /\ handed' = handed + 1 /\ tasks' = Append(tasks, handed + 1)
          /\ hand' = hand
      BY <1>2, <2>2 DEF MoveToThread
    <3>2. /\ handed \in Nat /\ Len(tasks) \in Nat /\ Len(tasks') = Len(tasks) + 1
          /\ \A i \in 1..Len(tasks) : tasks'[i] = tasks[i] /\ tasks[i] \in Nat
          /\ tasks'[Len(tasks) + 1] = handed + 1
          /\ \A w \in Worker : hand[w] \in Nat
      BY <1>0, <3>1 DEF TypeOK
    <3>3. \A i \in 1..Len(tasks') : i \in 1..Len(tasks) \/ i = Len(tasks) + 1
      BY <3>2
    <3>4. \A i \in 1..Len(tasks') : tasks'[i] <= handed'
      BY <1>0, <3>1, <3>2, <3>3 DEF OrderInv
    <3>5. \A i, j \in 1..Len(tasks') : i < j => tasks'[i] < tasks'[j]
      <4> SUFFICES ASSUME NEW i \in 1..Len(tasks'), NEW j \in 1..Len(tasks'), i < j
                   PROVE  tasks'[i] < tasks'[j]
        OBVIOUS
      <4>1. i \in 1..Len(tasks)
        BY <3>2
      <4>2. CASE j \in 1..Len(tasks)
        BY <1>0, <3>2, <4>1, <4>2 DEF OrderInv
      <4>3. CASE j = Len(tasks) + 1
        <5>1. tasks[i] <= handed
          BY <1>0, <4>1 DEF OrderInv
        <5> QED
          BY <3>2, <4>1, <4>3, <5>1
      <4> QED
        BY <3>3, <4>2, <4>3
    <3>6. \A w \in Worker : /\ hand'[w] <= handed'
                            /\ \A i \in 1..Len(tasks') : hand'[w] < tasks'[i]
      <4> TAKE w \in Worker
      <4>1. hand[w] <= handed /\ \A i \in 1..Len(tasks) : hand[w] < tasks[i]
        BY <1>0 DEF OrderInv
      <4> QED
        BY <3>1, <3>2, <3>3, <4>1
    <3> QED
      BY <1>0, <3>1, <3>4, <3>5, <3>6 DEF OrderInv
  <2> QED
    BY <2>1, <2>2
<1>3. ASSUME NEW t \in Caller, Resize(t)
      PROVE  OrderInv'
  BY <1>3, <1>0, ThreadFacts DEF Resize, OrderInv, taskVars
<1>4. ASSUME NEW t \in Caller, SetQueueSizeLimit(t)
      PROVE  OrderInv'
  BY <1>4, <1>0, ThreadFacts DEF SetQueueSizeLimit, OrderInv, taskVars
<1>5. ASSUME NEW w \in Worker, Sleep(w)
      PROVE  OrderInv'
  BY <1>5, <1>0, ThreadFacts DEF Sleep, OrderInv, taskVars
<1>6. ASSUME NEW w \in Worker, Detach(w)
      PROVE  OrderInv'
  BY <1>6, <1>0, ThreadFacts DEF Detach, OrderInv, taskVars
<1>7. ASSUME NEW w \in Worker, Pop(w)
      PROVE  OrderInv'
  <2>1. /\ tasks # << >> /\ tasks' = Tail(tasks) /\ handed' = handed
        /\ hand' = [hand EXCEPT ![w] = tasks[1]]
    BY <1>0, <1>7 DEF Pop, Takes, TypeOK
  <2>2. /\ Len(tasks) \in Nat \ {0} /\ Len(tasks') = Len(tasks) - 1
        /\ \A i \in 1..Len(tasks') : tasks'[i] = tasks[i + 1] /\ i + 1 \in 1..Len(tasks)
        /\ \A i \in 1..Len(tasks) : tasks[i] \in Nat
        /\ 1 \in 1..Len(tasks)
    BY <1>0, <2>1 DEF TypeOK
  <2>3. \A v \in Worker : /\ v # w => hand'[v] = hand[v]
                          /\ hand[v] \in Nat /\ hand[v] < tasks[1]
    BY <1>0, <2>1, <2>2 DEF OrderInv, TypeOK
  <2>4. hand'[w] = tasks[1]
    BY <1>0, <2>1 DEF TypeOK
  <2>5. \A i \in 1..Len(tasks') : tasks'[i] <= handed'
    BY <1>0, <2>1, <2>2 DEF OrderInv
  <2>6. \A i, j \in 1..Len(tasks') : i < j => tasks'[i] < tasks'[j]
    <3> SUFFICES ASSUME NEW i \in 1..Len(tasks'), NEW j \in 1..Len(tasks'), i < j
                 PROVE  tasks[i + 1] < tasks[j + 1]
      BY <2>2
    <3>1. i + 1 \in 1..Len(tasks) /\ j + 1 \in 1..Len(tasks) /\ i + 1 < j + 1
      BY <2>2
    <3> QED
      BY <1>0, <3>1 DEF OrderInv
  <2>7. \A v \in Worker : /\ hand'[v] <= handed'
                          /\ \A i \in 1..Len(tasks') : hand'[v] < tasks'[i]
    <3> TAKE v \in Worker
    <3>1. \A i \in 1..Len(tasks') : tasks[1] < tasks'[i]
      <4> TAKE i \in 1..Len(tasks')
      <4>1. i + 1 \in 1..Len(tasks) /\ 1 < i + 1
        BY <2>2
      <4> QED
        BY <1>0, <2>2, <4>1 DEF OrderInv
    <3>2. CASE v = w
      BY <1>0, <2>1, <2>2, <2>4, <3>1, <3>2 DEF OrderInv
    <3>3. CASE v # w
      <4>1. hand'[v] = hand[v] /\ hand[v] <= handed
        BY <1>0, <2>3, <3>3 DEF OrderInv
      <4>2. \A i \in 1..Len(tasks') : hand[v] < tasks[i + 1]
        BY <1>0, <2>2 DEF OrderInv
      <4> QED
        BY <2>1, <2>2, <4>1, <4>2
    <3> QED
      BY <3>2, <3>3
  <2>8. \A v, x \in Worker : hand'[v] = hand'[x] /\ hand'[v] # 0 => v = x
    <3> SUFFICES ASSUME NEW v \in Worker, NEW x \in Worker,
                        hand'[v] = hand'[x], hand'[v] # 0, v # x
                 PROVE  FALSE
      OBVIOUS
    <3>1. tasks[1] \in Nat
      BY <2>2
    <3>2. CASE v # w /\ x # w
      BY <1>0, <2>3, <3>2 DEF OrderInv
    <3>3. CASE v = w
      <4>1. hand'[x] = hand[x] /\ hand[x] < tasks[1] /\ hand[x] \in Nat
        BY <2>3, <3>3
      <4> QED
        BY <2>4, <3>1, <3>3, <4>1
    <3>4. CASE x = w
      <4>1. hand'[v] = hand[v] /\ hand[v] < tasks[1] /\ hand[v] \in Nat
        BY <2>3, <3>4
      <4> QED
        BY <2>4, <3>1, <3>4, <4>1
    <3> QED
      BY <3>2, <3>3, <3>4
  <2> QED
    BY <2>5, <2>6, <2>7, <2>8 DEF OrderInv
<1>8. ASSUME NEW w \in Worker, Notify(w)
      PROVE  OrderInv'
  BY <1>8, <1>0, ThreadFacts DEF Notify, OrderInv, taskVars
<1>9. ASSUME NEW w \in Worker, Finish(w)
      PROVE  OrderInv'
  <2>1. tasks' = tasks /\ handed' = handed /\ hand' = [hand EXCEPT ![w] = 0]
    BY <1>9 DEF Finish
  <2>2. \A v \in Worker : /\ hand'[v] = IF v = w THEN 0 ELSE hand[v]
                          /\ hand[v] \in Nat
    BY <1>0, <2>1 DEF TypeOK
  <2>3. \A i \in 1..Len(tasks) : 0 < tasks[i]
    BY <1>0 DEF TypeOK
  <2>4. 0 <= handed
    BY <1>0 DEF TypeOK
  <2> QED
    BY <1>0, <2>1, <2>2, <2>3, <2>4 DEF OrderInv
<1>10. ASSUME NEW w \in Worker, NotifyLast(w)
       PROVE  OrderInv'
  BY <1>10, <1>0, ThreadFacts DEF NotifyLast, OrderInv, taskVars
<1>11. CASE Destroy
  BY <1>11, <1>0, ThreadFacts DEF Destroy, OrderInv, taskVars
<1>12. CASE WaitUntilEmpty
  BY <1>12, <1>0, ThreadFacts DEF WaitUntilEmpty, OrderInv, taskVars
<1>13. CASE WaitUntilNothingInFlight
  BY <1>13, <1>0, ThreadFacts DEF WaitUntilNothingInFlight, OrderInv, taskVars
<1>14. CASE StopWorkers
  BY <1>14, <1>0, ThreadFacts DEF StopWorkers, OrderInv, taskVars
<1>15. CASE WaitForWorkers
  BY <1>15, <1>0, ThreadFacts DEF WaitForWorkers, OrderInv, taskVars
<1>16. ASSUME NEW t \in Thread, Spurious(t)
       PROVE  OrderInv'
  BY <1>16, <1>0, ThreadFacts DEF Spurious, OrderInv, taskVars
<1>17. CASE UNCHANGED vars
  BY <1>17, <1>0, ThreadFacts DEF vars, poolVars, condVars, taskVars, OrderInv
<1> QED
  BY <1>1, <1>2, <1>3, <1>4, <1>5, <1>6, <1>7, <1>8, <1>9,
     <1>10, <1>11, <1>12, <1>13, <1>14, <1>15, <1>16, <1>17
  DEF Next, CallStep, WorkerStep, OwnerStep

(* Every step keeps a call for each task. *)
LEMMA CallsStep ==
  ASSUME PoolInv, CallsInv, [Next]_vars
  PROVE  CallsInv'
<1>0. TypeOK /\ CallsInv
  BY DEF PoolInv
<1>1. ASSUME NEW t \in Caller, NEW c \in Call, Begin(t, c)
      PROVE  CallsInv'
  <2>1. /\ pc' = [pc EXCEPT ![t] = c] /\ pc[t] \in {"idle", "run"}
        /\ calls' = calls + 1 /\ handed' = handed
    BY <1>1 DEF Begin, Goto, At, taskVars
  <2>2. Pushing' \subseteq Pushing \cup {t} /\ t \notin Pushing
    BY <1>0, <2>1, ThreadFacts DEF Pushing, At, TypeOK
  <2>3. /\ IsFiniteSet(Pushing \cup {t})
        /\ Cardinality(Pushing \cup {t}) = Cardinality(Pushing) + 1
    BY <2>2, PushingFinite, FS_AddElement
  <2>4. Cardinality(Pushing') <= Cardinality(Pushing \cup {t})
    BY <2>2, <2>3, FS_Subset
  <2> QED
    BY <1>0, <2>1, <2>3, <2>4, PushingFinite DEF CallsInv, TypeOK
<1>2. ASSUME NEW t \in Caller, MoveToThread(t)
      PROVE  CallsInv'
  <2>1. pc[t] = "MoveToThread" /\ calls' = calls
    BY <1>2 DEF MoveToThread, At
  <2>2. CASE pc' = pc /\ handed' = handed
    BY <1>0, <2>1, <2>2 DEF CallsInv, Pushing, At
  <2>3. CASE ~(pc' = pc /\ handed' = handed)
    <3>1. pc' = [pc EXCEPT ![t] = Back(t)] /\ (handed' = handed \/ handed' = handed + 1)
      BY <1>2, <2>3 DEF MoveToThread, Goto, taskVars
    <3>2. Pushing' = Pushing \ {t} /\ t \in Pushing
      BY <1>0, <2>1, <3>1, ThreadFacts DEF Pushing, At, Back, TypeOK
    <3>3. Cardinality(Pushing') = Cardinality(Pushing) - 1
      BY <3>2, PushingFinite, FS_RemoveElement
    <3> QED
      BY <1>0, <2>1, <3>1, <3>3, PushingFinite DEF CallsInv, TypeOK
  <2> QED
    BY <2>2, <2>3
<1>3. ASSUME NEW t \in Caller, Resize(t)
      PROVE  CallsInv'
  <2>1. Pushing' = Pushing
    <3>1. CASE stop
      <4>1. pc[t] = "Resize" /\ pc' = [pc EXCEPT ![t] = Back(t)]
        BY <1>3, <3>1 DEF Resize, Goto, At
      <4> QED
        BY <1>0, <4>1, ThreadFacts DEF Pushing, At, Back, TypeOK
    <3>2. CASE ~stop
      <4>1. PICK size \in 1..MaxPool : StartWorkers(pool_size..size - 1, t)
        BY <1>3, <3>2, Resizes
      <4>2. \A w \in pool_size..size - 1 : ~Joinable(w) => pc[w] = "off"
        BY <1>0, ThreadFacts DEF TypeOK, PoolInv, SlotsMatch, At
      <4>3. pc[t] = "Resize"
        BY <1>3 DEF Resize, At
      <4>4. \A x \in Thread : pc'[x] = pc[x] \/ "MoveToThread" \notin {pc[x], pc'[x]}
        BY <4>1, <4>2, <4>3 DEF StartWorkers, Back
      <4> QED
        BY <4>4, ThreadFacts DEF Pushing, At
    <3> QED
      BY <3>1, <3>2
  <2> QED
    BY <1>0, <1>3, <2>1 DEF CallsInv, Resize, taskVars
<1>4. ASSUME NEW t \in Caller, SetQueueSizeLimit(t)
      PROVE  CallsInv'
  <2>1. Pushing' = Pushing
    BY <1>0, <1>4, ThreadFacts
    DEF Pushing, TypeOK, SetQueueSizeLimit, Goto, At, Back, taskVars
  <2> QED
    BY <1>0, <1>4, <2>1 DEF CallsInv, SetQueueSizeLimit, taskVars
<1>5. ASSUME NEW w \in Worker, Sleep(w)
      PROVE  CallsInv'
  <2>1. Pushing' = Pushing
    BY <1>0, <1>5, ThreadFacts DEF Pushing, TypeOK, Sleep, At, HasToTake, taskVars
  <2> QED
    BY <1>0, <1>5, <2>1 DEF CallsInv, Sleep, taskVars
<1>6. ASSUME NEW w \in Worker, Detach(w)
      PROVE  CallsInv'
  <2>1. Pushing' = Pushing
    BY <1>0, <1>6, ThreadFacts
    DEF Pushing, TypeOK, Detach, Goto, At, HasToTake, taskVars
  <2> QED
    BY <1>0, <1>6, <2>1 DEF CallsInv, Detach, taskVars
<1>7. ASSUME NEW w \in Worker, Pop(w)
      PROVE  CallsInv'
  <2>1. Pushing' = Pushing
    BY <1>0, <1>7, ThreadFacts DEF Pushing, TypeOK, Pop, Takes, Goto, At, HasToTake
  <2> QED
    BY <1>0, <1>7, <2>1 DEF CallsInv, Pop, Takes
<1>8. ASSUME NEW w \in Worker, Notify(w)
      PROVE  CallsInv'
  <2>1. Pushing' = Pushing
    BY <1>0, <1>8, ThreadFacts DEF Pushing, TypeOK, Notify, Goto, At, taskVars
  <2> QED
    BY <1>0, <1>8, <2>1 DEF CallsInv, Notify, taskVars
<1>9. ASSUME NEW w \in Worker, Finish(w)
      PROVE  CallsInv'
  <2>1. Pushing' = Pushing
    BY <1>0, <1>9, ThreadFacts DEF Pushing, TypeOK, Finish, Goto, At
  <2> QED
    BY <1>0, <1>9, <2>1 DEF CallsInv, Finish
<1>10. ASSUME NEW w \in Worker, NotifyLast(w)
       PROVE  CallsInv'
  <2>1. Pushing' = Pushing
    BY <1>0, <1>10, ThreadFacts DEF Pushing, TypeOK, NotifyLast, Goto, At, taskVars
  <2> QED
    BY <1>0, <1>10, <2>1 DEF CallsInv, NotifyLast, taskVars
<1>11. CASE Destroy
  <2>1. Pushing' = Pushing
    BY <1>0, <1>11, ThreadFacts DEF Pushing, TypeOK, Destroy, Goto, At, taskVars
  <2> QED
    BY <1>0, <1>11, <2>1 DEF CallsInv, Destroy, taskVars
<1>12. CASE WaitUntilEmpty
  <2>1. Pushing' = Pushing
    BY <1>0, <1>12, ThreadFacts
    DEF Pushing, TypeOK, WaitUntilEmpty, Goto, At, taskVars
  <2> QED
    BY <1>0, <1>12, <2>1 DEF CallsInv, WaitUntilEmpty, taskVars
<1>13. CASE WaitUntilNothingInFlight
  <2>1. Pushing' = Pushing
    BY <1>0, <1>13, ThreadFacts
    DEF Pushing, TypeOK, WaitUntilNothingInFlight, Goto, At, taskVars
  <2> QED
    BY <1>0, <1>13, <2>1 DEF CallsInv, WaitUntilNothingInFlight, taskVars
<1>14. CASE StopWorkers
  <2>1. Pushing' = Pushing
    BY <1>0, <1>14, ThreadFacts DEF Pushing, TypeOK, StopWorkers, Goto, At, taskVars
  <2> QED
    BY <1>0, <1>14, <2>1 DEF CallsInv, StopWorkers, taskVars
<1>15. CASE WaitForWorkers
  <2>1. Pushing' = Pushing
    BY <1>0, <1>15, ThreadFacts
    DEF Pushing, TypeOK, WaitForWorkers, Goto, At, taskVars
  <2> QED
    BY <1>0, <1>15, <2>1 DEF CallsInv, WaitForWorkers, taskVars
<1>16. ASSUME NEW t \in Thread, Spurious(t)
       PROVE  CallsInv'
  <2>1. Pushing' = Pushing
    BY <1>0, <1>16, ThreadFacts DEF Pushing, TypeOK, Spurious, At, taskVars
  <2> QED
    BY <1>0, <1>16, <2>1 DEF CallsInv, Spurious, taskVars
<1>17. CASE UNCHANGED vars
  BY <1>0, <1>17 DEF CallsInv, Pushing, At, vars
<1> QED
  BY <1>1, <1>2, <1>3, <1>4, <1>5, <1>6, <1>7, <1>8, <1>9,
     <1>10, <1>11, <1>12, <1>13, <1>14, <1>15, <1>16, <1>17
  DEF Next, CallStep, WorkerStep, OwnerStep

(* The strengthening of the refinement, for every behaviour.               *)
LEMMA TaskInvariant == Spec => [](OrderInv /\ CallsInv)
<1>1. Init => OrderInv /\ CallsInv
  <2> SUFFICES ASSUME Init PROVE OrderInv /\ CallsInv
    OBVIOUS
  <2>1. Pushing = {}
    BY ThreadFacts DEF Init, Pushing, At
  <2>2. tasks = << >> /\ handed = 0 /\ calls = 0 /\ \A w \in Worker : hand[w] = 0
    BY DEF Init
  <2> QED
    BY <2>1, <2>2, FS_EmptySet DEF OrderInv, CallsInv
<1>2. PoolInv /\ OrderInv /\ CallsInv /\ [Next]_vars => OrderInv' /\ CallsInv'
  BY OrderStep, CallsStep
<1> QED
  BY <1>1, <1>2, PoolInvariant, PTL DEF Spec

(* The constructor makes an empty TaskPool. *)
LEMMA InitPool == Init => Pool!Init
<1> SUFFICES ASSUME Init PROVE Pool!Init
  OBVIOUS
<1>1. {hand[w] : w \in Holding} = {} /\ ~At(Owner, "gone")
  BY ThreadFacts DEF Init, Holding, At
<1> QED
  BY <1>1 DEF Init, Pool!Init

(* Handing over is Hand, taking is Start, the end of a task is Finish and  *)
(* the end of the destructor Destroy; other steps leave TaskPool alone.    *)
LEMMA PoolRefines ==
  ASSUME PoolInv, IdleInv, OrderInv, CallsInv, [Next]_vars
  PROVE  Pool!Next \/ UNCHANGED Pool!vars
<1>0. TypeOK /\ PlacesMatch /\ DestroyInv /\ IdleInv /\ OrderInv /\ CallsInv
  BY DEF PoolInv
<1>00. ASSUME UNCHANGED <<tasks, hand, handed>>, At(Owner, "gone")' <=> At(Owner, "gone")
      PROVE  UNCHANGED Pool!vars
  <2>1. {hand[w] : w \in Holding}' = {hand[w] : w \in Holding}
    BY <1>00 DEF Holding
  <2> QED
    BY <1>00, <2>1 DEF Pool!vars
<1>1. ASSUME NEW t \in Caller, NEW c \in Call, Begin(t, c)
      PROVE  Pool!Next \/ UNCHANGED Pool!vars
  BY <1>0, <1>00, <1>1, ThreadFacts
  DEF TypeOK, Begin, Goto, At, poolVars, condVars, taskVars
<1>2. ASSUME NEW t \in Caller, MoveToThread(t)
      PROVE  Pool!Next \/ UNCHANGED Pool!vars
  <2>1. At(Owner, "gone")' <=> At(Owner, "gone")
    BY <1>0, <1>2, ThreadFacts DEF TypeOK, MoveToThread, Goto, At
  <2>2. CASE UNCHANGED taskVars
    BY <1>00, <2>1, <2>2 DEF taskVars
  <2>3. CASE ~UNCHANGED taskVars
    <3>1. /\ ~stop /\ handed' = handed + 1 /\ tasks' = Append(tasks, handed')
          /\ hand' = hand
      BY <1>2, <2>3 DEF MoveToThread
    <3>2. ~At(Owner, "gone")
      BY <1>0, <3>1 DEF IdleInv, At
    <3>3. {hand[w] : w \in Holding}' = {hand[w] : w \in Holding}
      BY <3>1 DEF Holding
    <3> QED
      BY <2>1, <3>1, <3>2, <3>3 DEF Pool!Next, Pool!Hand
  <2> QED
    BY <2>2, <2>3
<1>3. ASSUME NEW t \in Caller, Resize(t)
      PROVE  Pool!Next \/ UNCHANGED Pool!vars
  <2>1. pc'[Owner] = pc[Owner]
    <3>1. CASE stop
      BY <1>0, <1>3, <3>1, ThreadFacts DEF TypeOK, Resize, Goto
    <3>2. CASE ~stop
      <4>1. PICK size \in 1..MaxPool : StartWorkers(pool_size..size - 1, t)
        BY <1>3, <3>2, Resizes
      <4>2. pool_size..size - 1 \subseteq Worker
        BY <1>0, ThreadFacts DEF TypeOK
      <4> QED
        BY <4>1, <4>2, ThreadFacts DEF StartWorkers
    <3> QED
      BY <3>1, <3>2
  <2> QED
    BY <1>00, <1>3, <2>1 DEF Resize, taskVars, At
<1>4. ASSUME NEW t \in Caller, SetQueueSizeLimit(t)
      PROVE  Pool!Next \/ UNCHANGED Pool!vars
  BY <1>0, <1>00, <1>4, ThreadFacts
  DEF TypeOK, SetQueueSizeLimit, Goto, At, Back, taskVars
<1>5. ASSUME NEW w \in Worker, Sleep(w)
      PROVE  Pool!Next \/ UNCHANGED Pool!vars
  BY <1>0, <1>00, <1>5, ThreadFacts DEF TypeOK, Sleep, At, poolVars, taskVars
<1>6. ASSUME NEW w \in Worker, Detach(w)
      PROVE  Pool!Next \/ UNCHANGED Pool!vars
  BY <1>0, <1>00, <1>6, ThreadFacts DEF TypeOK, Detach, Goto, At, taskVars
<1>7. ASSUME NEW w \in Worker, Pop(w)
      PROVE  Pool!Next \/ UNCHANGED Pool!vars
  <2>1. /\ tasks # << >> /\ tasks' = Tail(tasks) /\ pc[w] = "take"
        /\ hand' = [hand EXCEPT ![w] = Head(tasks)]
        /\ handed' = handed /\ in_flight' = in_flight
    BY <1>7 DEF Pop, Takes, HasToTake, At
  <2>2. hand[w] = 0 /\ Head(tasks) # 0
    BY <1>0, <2>1 DEF PlacesMatch, Busy, TypeOK
  <2>3. At(Owner, "gone")' <=> At(Owner, "gone")
    BY <1>0, <1>7, ThreadFacts DEF TypeOK, Pop, Takes, Goto, At
  <2>4. ~At(Owner, "gone")
    BY <1>0, <2>1, NothingInFlight DEF DestroyInv, At
  <2>5. /\ hand'[w] = Head(tasks)
        /\ \A v \in Worker : v # w => hand'[v] = hand[v]
    BY <1>0, <2>1 DEF TypeOK
  <2>6. {hand[v] : v \in Holding}' = {hand[v] : v \in Holding} \cup {Head(tasks)}
    BY <2>2, <2>5 DEF Holding
  <2> QED
    BY <2>1, <2>3, <2>4, <2>6 DEF Pool!Next, Pool!Start
<1>8. ASSUME NEW w \in Worker, Notify(w)
      PROVE  Pool!Next \/ UNCHANGED Pool!vars
  BY <1>0, <1>00, <1>8, ThreadFacts DEF TypeOK, Notify, Goto, At, poolVars, taskVars
<1>9. ASSUME NEW w \in Worker, Finish(w)
      PROVE  Pool!Next \/ UNCHANGED Pool!vars
  <2>1. /\ tasks' = tasks /\ handed' = handed /\ pc[w] = "run"
        /\ hand' = [hand EXCEPT ![w] = 0]
    BY <1>9 DEF Finish, At
  <2>2. hand[w] # 0 /\ hand[w] \in Nat
    BY <1>0, <2>1 DEF PlacesMatch, Busy, TypeOK
  <2>3. hand[w] \in 1..MaxCalls
    <3>1. hand[w] <= handed /\ handed <= calls /\ calls <= MaxCalls
      BY <1>0, PushingFinite DEF OrderInv, CallsInv, TypeOK
    <3> QED
      BY <1>0, <2>2, <3>1, CallsAssumption DEF TypeOK
  <2>4. At(Owner, "gone")' <=> At(Owner, "gone")
    BY <1>0, <1>9, ThreadFacts DEF TypeOK, Finish, Goto, At
  <2>5. /\ hand'[w] = 0
        /\ \A v \in Worker : v # w => hand'[v] = hand[v]
        /\ \A v \in Worker : v # w /\ hand[v] # 0 => hand[v] # hand[w]
    BY <1>0, <2>1 DEF TypeOK, OrderInv
  <2>6. {hand[v] : v \in Holding}' = {hand[v] : v \in Holding} \ {hand[w]}
    BY <2>5 DEF Holding
  <2>7. hand[w] \in {hand[v] : v \in Holding}
    BY <2>2 DEF Holding
  <2>8. \E k \in 1..MaxCalls : Pool!Finish(k)
    BY <2>1, <2>3, <2>4, <2>6, <2>7 DEF Pool!Finish
  <2> QED
    BY <2>8 DEF Pool!Next
<1>10. ASSUME NEW w \in Worker, NotifyLast(w)
       PROVE  Pool!Next \/ UNCHANGED Pool!vars
  BY <1>0, <1>00, <1>10, ThreadFacts
  DEF TypeOK, NotifyLast, Goto, At, poolVars, taskVars
<1>11. CASE Destroy
  BY <1>0, <1>00, <1>11, ThreadFacts
  DEF TypeOK, Destroy, Goto, At, poolVars, condVars, taskVars
<1>12. CASE WaitUntilEmpty
  BY <1>0, <1>00, <1>12, ThreadFacts
  DEF TypeOK, WaitUntilEmpty, Goto, At, poolVars, taskVars
<1>13. CASE WaitUntilNothingInFlight
  BY <1>0, <1>00, <1>13, ThreadFacts
  DEF TypeOK, WaitUntilNothingInFlight, Goto, At, poolVars, taskVars
<1>14. CASE StopWorkers
  BY <1>0, <1>00, <1>14, ThreadFacts DEF TypeOK, StopWorkers, Goto, At, taskVars
<1>15. CASE WaitForWorkers
  <2>1. UNCHANGED <<tasks, hand, handed>> /\ pc[Owner] = "join"
        /\ (pc' = pc \/ pc' = [pc EXCEPT ![Owner] = "gone"])
    BY <1>15 DEF WaitForWorkers, taskVars, Goto, At
  <2>2. CASE pc' = pc
    BY <1>00, <2>1, <2>2 DEF At
  <2>3. CASE pc' = [pc EXCEPT ![Owner] = "gone"]
    <3>1. At(Owner, "gone")'
      BY <1>0, <2>3, ThreadFacts DEF TypeOK, At
    <3>2. in_flight = 0
      BY <1>0, <2>1 DEF DestroyInv
    <3>3. tasks = << >> /\ \A w \in Worker : hand[w] = 0
      BY <1>0, <3>2, NothingInFlight DEF PlacesMatch
    <3>4. /\ {hand[w] : w \in Holding} = {}
          /\ {hand[w] : w \in Holding}' = {hand[w] : w \in Holding}
      BY <2>1, <3>3 DEF Holding
    <3> QED
      BY <2>1, <3>1, <3>3, <3>4 DEF Pool!Next, Pool!Destroy
  <2> QED
    BY <2>1, <2>2, <2>3
<1>16. ASSUME NEW t \in Thread, Spurious(t)
       PROVE  Pool!Next \/ UNCHANGED Pool!vars
  BY <1>0, <1>00, <1>16, ThreadFacts DEF TypeOK, Spurious, At, poolVars, taskVars
<1>17. CASE UNCHANGED vars
  BY <1>00, <1>17 DEF vars, At
<1> QED
  BY <1>1, <1>2, <1>3, <1>4, <1>5, <1>6, <1>7, <1>8, <1>9,
     <1>10, <1>11, <1>12, <1>13, <1>14, <1>15, <1>16, <1>17
  DEF Next, CallStep, WorkerStep, OwnerStep

(* Tasks start in the order in which they were handed over, each of them   *)
(* starts once and ends, and the destructor returns after the last one     *)
(* (the safety part of ImplementsTaskPool).                                *)
THEOREM RefinesTaskPool == Spec => Pool!Init /\ [][Pool!Next]_(Pool!vars)
<1>1. PoolInv /\ IdleInv /\ OrderInv /\ CallsInv /\ [Next]_vars
        => [Pool!Next]_(Pool!vars)
  BY PoolRefines
<1> QED
  BY InitPool, <1>1, PoolInvariant, IdleInvariant, TaskInvariant, PTL DEF Spec

=============================================================================
