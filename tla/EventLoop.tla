----------------------------- MODULE EventLoop -----------------------------
(***************************************************************************)
(* sample-net/impl/libuv_event_loop.h: one thread runs a libuv loop; any   *)
(* thread hands functions to it through a list guarded by async_mutex and  *)
(* a uv_async_t that wakes the loop up.  The owner calls start() once, in  *)
(* the constructor of ClientImpl or ServerImpl, and stop() once, in the    *)
(* destructor.                                                             *)
(***************************************************************************)
EXTENDS Naturals, Sequences

CONSTANTS Poster,    \* the threads that call moveToThread
          Owner,     \* the thread that calls start() and stop()
          Stop,      \* the function stop() posts: uv_stop(&loop)
          MaxPosts   \* bound on the functions one poster hands over

ASSUME OwnerAssumption == Owner \notin Poster
ASSUME MaxPostsAssumption == MaxPosts \in Nat

Thread == Poster \cup {Owner}

(* The functions handed over, told apart by who posted them and when. *)
Task == [from : Poster, n : 1..MaxPosts]
ASSUME StopAssumption == Stop \notin Task

VARIABLES
  status,     \* thread_data->state
  owner,      \* where the owner is in start() and stop()
  async_cbk,  \* thread_data->async_cbk, the list under async_mutex
  pending,    \* uv_async_t: a wake-up was sent and not yet taken
  sending,    \* threads between push_back and uv_async_send
  posted,     \* posted[p]: number of functions p handed over
  loop,       \* where the loop thread is in run()
  batch,      \* the copy of the list onInit iterates over
  stop_flag,  \* uv_loop_t: uv_stop was called
  ran,        \* history: the functions started, in order
  promised    \* history: what was handed over before stop() posted Stop

vars == <<status, owner, async_cbk, pending, sending, posted, loop, batch,
          stop_flag, ran, promised>>
ownerVars == <<status, owner, promised>>
loopVars == <<loop, batch, stop_flag, ran>>

SeqRange(s) == {s[i] : i \in 1..Len(s)}

TypeOK ==
  /\ status \in {"Stoped", "Starting", "Running", "Stopping"}
  /\ owner \in {"new", "starting", "started", "stopping", "stopped"}
  /\ async_cbk \in Seq(Task \cup {Stop})
  /\ pending \in BOOLEAN
  /\ sending \in SUBSET Thread
  /\ posted \in [Poster -> 0..MaxPosts]
  /\ loop \in {"none", "init", "poll", "drain", "run", "done"}
  /\ batch \in Seq(Task \cup {Stop})
  /\ stop_flag \in BOOLEAN
  /\ ran \in Seq(Task \cup {Stop})
  /\ promised \in SUBSET Task

Init ==
  /\ status = "Stoped"
  /\ owner = "new"
  /\ async_cbk = << >>
  /\ pending = FALSE
  /\ sending = {}
  /\ posted = [p \in Poster |-> 0]
  /\ loop = "none"
  /\ batch = << >>
  /\ stop_flag = FALSE
  /\ ran = << >>
  /\ promised = {}

-----------------------------------------------------------------------------
(* The owner. *)

StartBegin ==
  /\ owner = "new"
  /\ status = "Stoped"
  /\ status' = "Starting"
  /\ owner' = "starting"
  /\ loop' = "init"
  /\ UNCHANGED <<async_cbk, pending, sending, posted, batch, stop_flag, ran,
                 promised>>

StartEnd ==
  /\ owner = "starting"
  /\ status = "Running"
  /\ owner' = "started"
  /\ UNCHANGED <<status, async_cbk, pending, sending, posted, loopVars,
                 promised>>

-----------------------------------------------------------------------------
(* moveToThread: push_back under the lock, then uv_async_send without it.  *)

PushBack(t, f) ==
  /\ t \notin sending
  /\ async_cbk' = Append(async_cbk, f)
  /\ sending' = sending \cup {t}

UvAsyncSend(t) ==
  /\ t \in sending
  /\ sending' = sending \ {t}
  /\ pending' = TRUE
  /\ UNCHANGED <<status, owner, async_cbk, posted, loopVars, promised>>

(* Objects exist for callers once the constructor and start() returned.    *)
MoveToThread(p) ==
  /\ owner \in {"started", "stopping", "stopped"}
  /\ posted[p] < MaxPosts
  /\ PushBack(p, [from |-> p, n |-> posted[p] + 1])
  /\ posted' = [posted EXCEPT ![p] = @ + 1]
  /\ UNCHANGED <<ownerVars, pending, loopVars>>

(* Mutant: stop() calls uv_stop on its own thread. *)
StopBegin_Direct ==
  /\ owner = "started"
  /\ status = "Running"
  /\ PushBack(Owner, Stop)
  /\ stop_flag' = TRUE
  /\ owner' = "stopping"
  /\ promised' = {t \in Task : t.n <= posted[t.from]}
  /\ UNCHANGED <<status, pending, posted, loop, batch, ran>>

(* Mutant: stop() pushes uv_stop and forgets to wake the loop. *)
StopBegin_NoWakeUp ==
  /\ owner = "started"
  /\ status = "Running"
  /\ async_cbk' = Append(async_cbk, Stop)
  /\ owner' = "stopping"
  /\ promised' = {t \in Task : t.n <= posted[t.from]}
  /\ UNCHANGED <<status, pending, sending, posted, loopVars>>

StopBegin ==
  /\ owner = "started"
  /\ status = "Running"
  /\ PushBack(Owner, Stop)
  /\ owner' = "stopping"
  /\ promised' = {t \in Task : t.n <= posted[t.from]}
  /\ UNCHANGED <<status, pending, posted, loopVars>>

StopEnd ==
  /\ owner = "stopping"
  /\ Owner \notin sending
  /\ status = "Stopping"
  /\ status' = "Stoped"
  /\ owner' = "stopped"
  /\ UNCHANGED <<async_cbk, pending, sending, posted, loopVars, promised>>

-----------------------------------------------------------------------------
(* The loop thread. *)

LoopInit ==
  /\ loop = "init"
  /\ pending' = FALSE
  /\ status' = "Running"
  /\ loop' = "poll"
  /\ UNCHANGED <<owner, async_cbk, sending, posted, batch, stop_flag, ran,
                 promised>>

(* libuv takes the wake-up before it calls onInit. *)
WakeUp ==
  /\ loop = "poll"
  /\ pending
  /\ pending' = FALSE
  /\ loop' = "drain"
  /\ UNCHANGED <<ownerVars, async_cbk, sending, posted, batch, stop_flag, ran>>

(* Mutant: onInit copies the list and does not clear it. *)
Drain_KeepsList ==
  /\ loop = "drain"
  /\ batch' = async_cbk
  /\ loop' = "run"
  /\ UNCHANGED <<ownerVars, async_cbk, pending, sending, posted, stop_flag,
                 ran>>

(* Mutant: one function is taken per wake-up. *)
Drain_OneOnly ==
  /\ loop = "drain"
  /\ batch' = SubSeq(async_cbk, 1, 1)
  /\ async_cbk' = SubSeq(async_cbk, 2, Len(async_cbk))
  /\ loop' = "run"
  /\ UNCHANGED <<ownerVars, pending, sending, posted, stop_flag, ran>>

(* onInit, under async_mutex: copy the list, then clear it. *)
Drain ==
  /\ loop = "drain"
  /\ batch' = async_cbk
  /\ async_cbk' = << >>
  /\ loop' = "run"
  /\ UNCHANGED <<ownerVars, pending, sending, posted, stop_flag, ran>>

RunOne ==
  /\ loop = "run"
  /\ batch # << >>
  /\ ran' = Append(ran, Head(batch))
  /\ batch' = Tail(batch)
  /\ stop_flag' = (stop_flag \/ Head(batch) = Stop)
  /\ UNCHANGED <<ownerVars, async_cbk, pending, sending, posted, loop>>

BatchEnd ==
  /\ loop = "run"
  /\ batch = << >>
  /\ ~stop_flag
  /\ loop' = "poll"
  /\ UNCHANGED <<ownerVars, async_cbk, pending, sending, posted, batch,
                 stop_flag, ran>>

LoopExit ==
  /\ loop = "run"
  /\ batch = << >>
  /\ stop_flag
  /\ status' = "Stopping"
  /\ loop' = "done"
  /\ UNCHANGED <<owner, async_cbk, pending, sending, posted, batch, stop_flag,
                 ran, promised>>

-----------------------------------------------------------------------------
LoopStep == LoopInit \/ WakeUp \/ Drain \/ RunOne \/ BatchEnd \/ LoopExit

Next ==
  \/ StartBegin \/ StartEnd \/ StopBegin \/ StopEnd
  \/ \E p \in Poster : MoveToThread(p)
  \/ \E t \in Thread : UvAsyncSend(t)
  \/ LoopStep

(* A runnable thread runs: the loop thread, a thread inside moveToThread,  *)
(* and the owner polling inside start() or stop().  Nobody has to call.    *)
Fairness ==
  /\ WF_vars(LoopStep)
  /\ \A t \in Thread : WF_vars(UvAsyncSend(t))
  /\ WF_vars(StartEnd \/ StopEnd)

Spec == Init /\ [][Next]_vars /\ Fairness

-----------------------------------------------------------------------------
(* A loop about to sleep in its poll with a function in the list has a     *)
(* wake-up coming: coalesced uv_async_sends never strand a function.       *)
NoLostWakeup ==
  loop = "poll" /\ async_cbk # << >> => pending \/ sending # {}

(* The functions of one poster run in the order it handed them over, none  *)
(* of them twice, whatever the other posters and the batches do.           *)
PosterOrder ==
  \A i, j \in 1..Len(ran) :
     i < j /\ ran[i] # Stop /\ ran[j] # Stop /\ ran[i].from = ran[j].from
       => ran[i].n < ran[j].n

(* When the loop ends, every function handed over before stop() was called *)
(* has run: stop() queues behind them instead of overtaking them.          *)
StopWaitsForEarlier == loop = "done" => promised \subseteq SeqRange(ran)

(* stop() returns: the loop thread reaches Status::Stopping.               *)
StopReturns == owner = "stopping" ~> owner = "stopped"

(* moveToThread keeps the promise Mailbox states.                          *)
Box == INSTANCE Mailbox WITH queue <- batch \o async_cbk,
                             open <- loop # "done"
ImplementsMailbox == Box!Spec
=============================================================================
