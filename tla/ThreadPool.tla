----------------------------- MODULE ThreadPool -----------------------------
(***************************************************************************)
(* sample-tools/impl/progschj-ThreadPool.h under stl_threadpool_impl.h.    *)
(* Users, and the tasks themselves, hand tasks over and resize the pool;   *)
(* workers take them from a bounded queue; the owner destroys the pool.    *)
(*                                                                         *)
(* A step is a critical section of queue_mutex, or the code up to one.     *)
(* A condition variable is the set of threads asleep in it.  A wait with a *)
(* predicate evaluates it, and sleeps when it is false.                    *)
(***************************************************************************)
EXTENDS Naturals, Sequences, FiniteSets

CONSTANTS
  User,        \* threads that call the pool
  Owner,       \* the thread that created and destroys it
  Threads,     \* the number of workers it is created with
  MaxPool,     \* bound on the number of workers
  QueueLimit,  \* max_queue_size before set_queue_size_limit
  Limits,      \* the limits given to set_queue_size_limit
  UserCalls,   \* the calls users make
  TaskCalls,   \* the calls tasks make
  MaxCalls     \* bound on the number of calls

(* Workers are known by their worker_number.                               *)
Worker == 0..MaxPool - 1
Caller == User \cup Worker
Thread == Caller \cup {Owner}
Call == {"MoveToThread", "Resize", "set_queue_size_limit"}

ASSUME ThreadAssumption == /\ Owner \notin Caller /\ User \cap Worker = {}
                           /\ IsFiniteSet(User)
ASSUME PoolAssumption == MaxPool \in Nat /\ Threads \in 1..MaxPool
ASSUME LimitAssumption == QueueLimit \in Nat \ {0} /\ Limits \subseteq Nat
ASSUME CallsAssumption == /\ UserCalls \subseteq Call
                          /\ TaskCalls \subseteq {"MoveToThread", "Resize"}
                          /\ MaxCalls \in Nat

(* Where users, workers and the owner are.                                 *)
Place == {"idle"} \cup Call
           \cup {"off", "take", "notify", "run", "last"}
           \cup {"alive", "empty", "flight", "block", "destroy", "join", "gone"}

VARIABLES
  m_running,       \* ThreadPoolImpl::m_running
  stop,
  pool_size,
  workers,         \* the vector of threads: whether each is joinable
  tasks,           \* the queue, by task number, oldest first
  max_queue_size,
  in_flight,
  consumers,       \* asleep in condition_consumers
  producers,       \* asleep in condition_producers
  waiter,          \* the owner is asleep in in_flight_condition
  pc,              \* where each thread is
  hand,            \* the task each worker holds, 0: none
  handed,          \* number of tasks handed over
  calls            \* number of calls made

vars == <<m_running, stop, pool_size, workers, tasks, max_queue_size, in_flight,
          consumers, producers, waiter, pc, hand, handed, calls>>
poolVars == <<stop, pool_size, workers, max_queue_size>>
condVars == <<consumers, producers, waiter>>
taskVars == <<tasks, in_flight, hand, handed>>

TypeOK ==
  /\ m_running \in BOOLEAN
  /\ stop \in BOOLEAN
  /\ pool_size \in 0..MaxPool
  /\ workers \in Seq(BOOLEAN)
  /\ tasks \in Seq(Nat \ {0})
  /\ max_queue_size \in Nat \ {0}
  /\ in_flight \in Nat
  /\ consumers \in SUBSET (Worker \cup {Owner})
  /\ producers \in SUBSET Thread
  /\ waiter \in BOOLEAN
  /\ pc \in [Thread -> Place]
  /\ hand \in [Worker -> Nat]
  /\ handed \in Nat
  /\ calls \in 0..MaxCalls

(* The constructor starts the first workers.                               *)
Init ==
  /\ m_running = TRUE
  /\ stop = FALSE
  /\ pool_size = Threads
  /\ workers = [i \in 1..Threads |-> TRUE]
  /\ tasks = << >>
  /\ max_queue_size = QueueLimit
  /\ in_flight = 0
  /\ consumers = {}
  /\ producers = {}
  /\ waiter = FALSE
  /\ pc = [t \in Thread |-> CASE t \in User -> "idle"
                              [] t = Owner -> "alive"
                              [] OTHER -> IF t < Threads THEN "take" ELSE "off"]
  /\ hand = [w \in Worker |-> 0]
  /\ handed = 0
  /\ calls = 0

At(t, p) == pc[t] = p
Goto(t, p) == pc' = [pc EXCEPT ![t] = p]

-----------------------------------------------------------------------------
(* Users and tasks. *)

(* A user calls as long as the owner keeps the pool, a task whenever it    *)
(* runs; once m_running is off a call returns at once.                     *)
Begin(t, c) ==
  /\ IF t \in User THEN c \in UserCalls /\ At(t, "idle") /\ At(Owner, "alive")
                   ELSE c \in TaskCalls /\ At(t, "run")
  /\ m_running
  /\ calls < MaxCalls
  /\ calls' = calls + 1
  /\ Goto(t, c)
  /\ UNCHANGED <<m_running, poolVars, condVars, taskVars>>

(* What a caller does after its call.                                      *)
Back(t) == IF t \in User THEN "idle" ELSE "run"

(* notify_one                                                              *)
WakeOne(set, new) == IF set = {} THEN new = {} ELSE \E t \in set : new = set \ {t}

(* enqueue: sleep while the queue is full; throw once stopped; else push.  *)
MoveToThread(t) ==
  /\ At(t, "MoveToThread") /\ t \notin producers
  /\ IF Len(tasks) >= max_queue_size /\ ~stop
     THEN producers' = producers \cup {t} /\ UNCHANGED <<consumers, taskVars, pc>>
     ELSE /\ IF stop
             THEN UNCHANGED <<consumers, taskVars>>
             ELSE /\ handed' = handed + 1
                  /\ tasks' = Append(tasks, handed')
                  /\ in_flight' = in_flight + 1
                  /\ WakeOne(consumers, consumers')
                  /\ UNCHANGED hand
          /\ Goto(t, Back(t))
          /\ UNCHANGED producers
  /\ UNCHANGED <<m_running, poolVars, waiter, calls>>

Joinable(w) == w < Len(workers) /\ workers[w + 1]

(* Mutant: a slot whose thread has left is not started again. *)
StartWorkers_OnlyPushes(new, t) ==
  LET started == {w \in new : w >= Len(workers)}
  IN  /\ workers' = workers \o [i \in 1..Cardinality(started) |-> TRUE]
      /\ pc' = [x \in Thread |-> IF x \in started THEN "take"
                                 ELSE IF x = t THEN Back(t) ELSE pc[x]]

(* start_worker for all w in new: a new thread in the slot, unless one is  *)
(* still running there.                                                    *)
StartWorkers(new, t) ==
  LET started == {w \in new : ~Joinable(w)}
      slots == {i \in 1..MaxPool : i <= Len(workers) \/ i - 1 \in new}
  IN  /\ workers' = [i \in slots |-> i - 1 \in started \/ workers[i]]
      /\ pc' = [x \in Thread |-> IF x \in started THEN "take"
                                 ELSE IF x = t THEN Back(t) ELSE pc[x]]

(* Mutant: a smaller pool does not wake its workers. *)
Resize_Silent(t) ==
  /\ At(t, "Resize")
  /\ \E size \in 1..MaxPool :
       /\ pool_size' = size
       /\ StartWorkers(pool_size..size - 1, t)
  /\ UNCHANGED <<m_running, stop, max_queue_size, condVars, taskVars, calls>>

(* set_pool_size                                                           *)
Resize(t) ==
  /\ At(t, "Resize")
  /\ \E limit \in 0..MaxPool :
       LET size == IF limit < 1 THEN 1 ELSE limit IN
       IF stop
       THEN Goto(t, Back(t)) /\ UNCHANGED <<pool_size, workers, consumers>>
       ELSE /\ pool_size' = size
            /\ StartWorkers(pool_size..size - 1, t)
            /\ consumers' = IF size < pool_size THEN {} ELSE consumers
  /\ UNCHANGED <<m_running, stop, max_queue_size, producers, waiter, taskVars, calls>>

SetQueueSizeLimit(t) ==
  /\ At(t, "set_queue_size_limit")
  /\ IF stop
     THEN UNCHANGED <<max_queue_size, producers>>
     ELSE \E limit \in Limits :
            /\ max_queue_size' = IF limit < 1 THEN 1 ELSE limit
            /\ producers' = IF max_queue_size < max_queue_size' THEN {} ELSE producers
  /\ Goto(t, Back(t))
  /\ UNCHANGED <<m_running, stop, pool_size, workers, consumers, waiter, taskVars, calls>>

-----------------------------------------------------------------------------
(* A worker. *)

Surplus(w) == pool_size < w + 1
HasToTake(w) == At(w, "take") /\ w \notin consumers

(* The predicate is false: nothing to do. *)
Sleep(w) ==
  /\ HasToTake(w)
  /\ ~stop /\ tasks = << >> /\ ~Surplus(w)
  /\ consumers' = consumers \cup {w}
  /\ UNCHANGED <<m_running, poolVars, producers, waiter, taskVars, pc, calls>>

(* pop_back as long as the last thread of ws is not joinable. *)
Shrink(ws, new) ==
  \E n \in pool_size..Len(ws) :
    /\ \A i \in n + 1..Len(ws) : ~ws[i]
    /\ n > pool_size => ws[n]
    /\ new = SubSeq(ws, 1, n)

(* The worker leaves: the pool shrank, or it is stopped and all is taken.  *)
Detach(w) ==
  /\ HasToTake(w)
  /\ IF stop THEN tasks = << >> ELSE Surplus(w)
  /\ Shrink([workers EXCEPT ![w + 1] = FALSE], workers')
  /\ consumers' = IF workers' = << >> THEN {} ELSE consumers
  /\ Goto(w, "off")
  /\ UNCHANGED <<m_running, stop, pool_size, max_queue_size, producers, waiter, taskVars, calls>>

Takes(w, to) ==
  /\ HasToTake(w)
  /\ tasks # << >> /\ (stop \/ ~Surplus(w))
  /\ hand' = [hand EXCEPT ![w] = Head(tasks)]
  /\ tasks' = Tail(tasks)
  /\ Goto(w, to)
  /\ UNCHANGED <<m_running, poolVars, condVars, in_flight, handed, calls>>

(* Mutants: fewer notifications. *)
Pop_NotifiesEmptyOnly(w) == Takes(w, IF Len(tasks) = 1 THEN "notify" ELSE "run")

(* Mutant: the newest task first. *)
Pop_Newest(w) ==
  /\ HasToTake(w)
  /\ tasks # << >> /\ (stop \/ ~Surplus(w))
  /\ hand' = [hand EXCEPT ![w] = tasks[Len(tasks)]]
  /\ tasks' = SubSeq(tasks, 1, Len(tasks) - 1)
  /\ Goto(w, IF Len(tasks) \in {1, max_queue_size} THEN "notify" ELSE "run")
  /\ UNCHANGED <<m_running, poolVars, condVars, in_flight, handed, calls>>

(* It takes the oldest task; producers are notified when the queue is no   *)
(* longer full or is empty now.                                            *)
Pop(w) == Takes(w, IF Len(tasks) \in {1, max_queue_size} THEN "notify" ELSE "run")

Notify(w) ==
  /\ At(w, "notify")
  /\ producers' = {}
  /\ Goto(w, "run")
  /\ UNCHANGED <<m_running, poolVars, consumers, waiter, taskVars, calls>>

(* Mutant: a task that throws is not counted down. *)
Finish_Unguarded(w) ==
  /\ At(w, "run")
  /\ in_flight' \in {in_flight, in_flight - 1}
  /\ hand' = [hand EXCEPT ![w] = 0]
  /\ Goto(w, IF in_flight' = 0 THEN "last" ELSE "take")
  /\ UNCHANGED <<m_running, poolVars, condVars, tasks, handed, calls>>

(* The task ends and handle_in_flight_decrement is destroyed.              *)
Finish(w) ==
  /\ At(w, "run")
  /\ in_flight' = in_flight - 1
  /\ hand' = [hand EXCEPT ![w] = 0]
  /\ Goto(w, IF in_flight = 1 THEN "last" ELSE "take")
  /\ UNCHANGED <<m_running, poolVars, condVars, tasks, handed, calls>>

(* Mutant: the notification is sent without the mutex. *)
NotifyLast_NoMutex(w) ==
  /\ At(w, "last")
  /\ waiter' = FALSE
  /\ Goto(w, "take")
  /\ UNCHANGED <<m_running, poolVars, consumers, producers, taskVars, calls>>

(* The last decrement notifies under in_flight_mutex, which the owner      *)
(* holds from its test of in_flight until it sleeps.                       *)
NotifyLast(w) ==
  /\ At(w, "last")
  /\ ~At(Owner, "block")
  /\ waiter' = FALSE
  /\ Goto(w, "take")
  /\ UNCHANGED <<m_running, poolVars, consumers, producers, taskVars, calls>>

-----------------------------------------------------------------------------
(* The owner destroys the pool. *)

(* ~ThreadPoolImpl, when no user is inside a call. *)
Destroy ==
  /\ At(Owner, "alive")
  /\ \A u \in User : At(u, "idle")
  /\ m_running' = FALSE
  /\ Goto(Owner, "empty")
  /\ UNCHANGED <<poolVars, condVars, taskVars, calls>>

WaitUntilEmpty ==
  /\ At(Owner, "empty") /\ Owner \notin producers
  /\ IF tasks = << >>
     THEN Goto(Owner, "flight") /\ UNCHANGED producers
     ELSE producers' = producers \cup {Owner} /\ UNCHANGED pc
  /\ UNCHANGED <<m_running, poolVars, consumers, waiter, taskVars, calls>>

(* Mutant: running tasks are not waited for. *)
WaitUntilNothingInFlight_Skipped ==
  /\ At(Owner, "flight")
  /\ Goto(Owner, "destroy")
  /\ UNCHANGED <<m_running, poolVars, condVars, taskVars, calls>>

(* wait_until_nothing_in_flight: the test, and the sleep that releases the *)
(* mutex.                                                                  *)
WaitUntilNothingInFlight ==
  /\ \/ /\ At(Owner, "flight") /\ ~waiter
        /\ Goto(Owner, IF in_flight = 0 THEN "destroy" ELSE "block")
        /\ UNCHANGED waiter
     \/ /\ At(Owner, "block")
        /\ Goto(Owner, "flight")
        /\ waiter' = TRUE
  /\ UNCHANGED <<m_running, poolVars, consumers, producers, taskVars, calls>>

(* ~ThreadPool                                                             *)
StopWorkers ==
  /\ At(Owner, "destroy")
  /\ stop' = TRUE
  /\ pool_size' = 0
  /\ consumers' = {}
  /\ producers' = {}
  /\ Goto(Owner, "join")
  /\ UNCHANGED <<m_running, workers, max_queue_size, waiter, taskVars, calls>>

WaitForWorkers ==
  /\ At(Owner, "join") /\ Owner \notin consumers
  /\ IF workers = << >>
     THEN Goto(Owner, "gone") /\ UNCHANGED consumers
     ELSE consumers' = consumers \cup {Owner} /\ UNCHANGED pc
  /\ UNCHANGED <<m_running, poolVars, producers, waiter, taskVars, calls>>

-----------------------------------------------------------------------------
(* A condition variable may wake a thread for no reason.                   *)
Spurious(t) ==
  /\ t \in consumers \cup producers \/ (t = Owner /\ waiter)
  /\ consumers' = consumers \ {t}
  /\ producers' = producers \ {t}
  /\ waiter' = (waiter /\ t # Owner)
  /\ UNCHANGED <<m_running, poolVars, taskVars, pc, calls>>

CallStep(t) == MoveToThread(t) \/ Resize(t) \/ SetQueueSizeLimit(t)
WorkerStep(w) == \/ Sleep(w) \/ Detach(w) \/ Pop(w)
                 \/ Notify(w) \/ Finish(w) \/ NotifyLast(w)
OwnerStep == WaitUntilEmpty \/ WaitUntilNothingInFlight \/ StopWorkers \/ WaitForWorkers

Next ==
  \/ \E t \in Caller, c \in Call : Begin(t, c)
  \/ \E t \in Caller : CallStep(t)
  \/ \E w \in Worker : WorkerStep(w)
  \/ Destroy
  \/ OwnerStep
  \/ \E t \in Thread : Spurious(t)

(* Threads are scheduled, tasks end, and in_flight_mutex, which an owner   *)
(* woken for no reason may take again and again, is granted to a worker    *)
(* that waits for it; nobody has to call or destroy.                       *)
Fairness ==
  /\ \A t \in Caller : WF_vars(CallStep(t))
  /\ \A w \in Worker : WF_vars(WorkerStep(w)) /\ SF_vars(NotifyLast(w))
  /\ WF_vars(OwnerStep)

Spec == Init /\ [][Next]_vars /\ Fairness

-----------------------------------------------------------------------------
Holding == {w \in Worker : hand[w] # 0}

(* The assertions at progschj-ThreadPool.h:218 and :239 and the index at   *)
(* :261: a thread runs in a slot exactly when the slot says so, the vector *)
(* is as long as the pool, and all of the pool's slots have a thread,      *)
(* however the pool shrinks and grows while workers leave.                 *)
SlotsMatch ==
  /\ Len(workers) \in pool_size..MaxPool
  /\ \A w \in Worker : Joinable(w) <=> ~At(w, "off")
  /\ \A w \in Worker : w < pool_size => Joinable(w)

(* in_flight, changed outside any lock, counts the queued and the running  *)
(* tasks (progschj-ThreadPool.h:177 asserts that none is left).            *)
InFlightCounts == in_flight = Len(tasks) + Cardinality(Holding)

(* A task that hands over another one while the pool is being destroyed is *)
(* never refused by a stopped pool: the owner waits for both.              *)
NeverRefused == stop => in_flight = 0 /\ \A t \in Caller : ~At(t, "MoveToThread")

(* No producer sleeps while there is room in the queue, unless a worker is *)
(* about to notify: the notification is sent after the lock was given up,  *)
(* and the limit may change meanwhile.                                     *)
NoLostProducer ==
  (\E t \in producers : At(t, "MoveToThread")) /\ Len(tasks) < max_queue_size
    => \E w \in Worker : At(w, "notify")

(* The owner does not sleep in wait_until_empty on an empty queue.         *)
NoLostOwner ==
  Owner \in producers /\ tasks = << >> => \E w \in Worker : At(w, "notify")

(* A worker sleeps only while each queued task has another worker of the   *)
(* pool on its way to the queue: notify_one is never wasted on a worker    *)
(* that is leaving.                                                        *)
NoIdleWorker ==
  consumers \cap Worker # {} =>
    Len(tasks) <= Cardinality({w \in Worker : HasToTake(w) /\ ~Surplus(w)})

(* The destructor returns, also when tasks hand over tasks.                *)
DestructorReturns == At(Owner, "empty") ~> At(Owner, "gone")


(* The pool keeps the promise TaskPool states. *)
Pool == INSTANCE TaskPool WITH
          Task <- 1..MaxCalls,
          todo <- tasks,
          running <- {hand[w] : w \in Holding},
          open <- ~At(Owner, "gone")
ImplementsTaskPool == Pool!Spec
=============================================================================
