----------------------------- MODULE HttpClient -----------------------------
(***************************************************************************)
(* sample-net/http_client.h over sample-net/impl/curl_http_client.h: HTTP  *)
(* clients in several threads, each with a thread pool of its own (which   *)
(* does what TaskPool says, see ThreadPool), and all of them with one      *)
(* libcurl, initialised by the first client and cleaned up by the last     *)
(* one.  A client is used by one thread, its owner: the step of a client's *)
(* constructor, destructor or GetSync is a step of that thread.            *)
(*                                                                         *)
(* A destructor's body runs first, then the members are destroyed, last    *)
(* declared first: the headers and the prefix before the pool, whose       *)
(* destructor runs what is still queued.  A request that begins then reads *)
(* destroyed strings, and one that libcurl is cleaned up under has lost    *)
(* what it works with: their behaviour is undefined, and nothing is said   *)
(* of what comes after.                                                    *)
(***************************************************************************)
EXTENDS Naturals, Sequences, FiniteSets, Functions

CONSTANTS
  Client,
  Waits,        \* the clients whose owner destroys them when all futures are ready
  OneAtATime,   \* no constructor or destructor body runs during another one's
  threadPoolSize,
  MaxRequests,  \* bound on the number of requests of a client
  MaxTotal      \* bound on the number of requests of all clients

ASSUME ClientAssumption == /\ Waits \subseteq Client
                           /\ OneAtATime \in BOOLEAN
                           /\ threadPoolSize \in Nat \ {0}
                           /\ MaxRequests \in Nat /\ MaxTotal \in Nat

(* The requests handed to a client's pool are numbered; 0 is the one that  *)
(* the owner makes itself with GetSync or PostSync.                        *)
Id == 1..MaxRequests
Request == Client \X (0..MaxRequests)

Phase == {"none", "InitOnce", "alive", "CleanupOnce", "members", "pool", "gone"}
Stage == {"none", "queued", "settings", "perform", "cbk", "done"}

VARIABLES
  phase,         \* of each client
  g_client_cnt,
  initialized,   \* libcurl's own count of curl_global_init
  made,          \* number of requests handed to each pool
  todo,          \* the tasks in each client's pool, oldest first
  stage,         \* of each request
  ready,         \* the futures that have their value
  lost           \* the requests whose behaviour is undefined

vars == <<phase, g_client_cnt, initialized, made, todo, stage, ready, lost>>
clientVars == <<phase, g_client_cnt>>
requestVars == <<made, todo, stage, ready>>

TypeOK ==
  /\ phase \in [Client -> Phase]
  /\ g_client_cnt \in Nat
  /\ initialized \in Nat
  /\ made \in [Client -> 0..MaxRequests]
  /\ todo \in [Client -> Seq(Id)]
  /\ stage \in [Request -> Stage]
  /\ ready \in SUBSET Request
  /\ lost \in SUBSET Request

Init ==
  /\ phase = [c \in Client |-> "none"]
  /\ g_client_cnt = 0
  /\ initialized = 0
  /\ made = [c \in Client |-> 0]
  /\ todo = [c \in Client |-> << >>]
  /\ stage = [r \in Request |-> "none"]
  /\ ready = {}
  /\ lost = {}

Goes(c, p) == phase' = [phase EXCEPT ![c] = p]
InProgress(r) == stage[r] \in {"settings", "perform", "cbk"}

(* What runs in the pool of c; its owner's thread is free.                 *)
Running(c) == {i \in Id : InProgress(<<c, i>>)}
Idle(c) == phase[c] = "alive" /\ ~InProgress(<<c, 0>>)

-----------------------------------------------------------------------------
(* libcurl.  curl_easy_init initialises what nobody has initialised.       *)

curl_global_init == initialized' = initialized + 1
curl_global_cleanup == initialized' = IF initialized = 0 THEN 0 ELSE initialized - 1
curl_easy_init == initialized' = IF initialized = 0 THEN 1 ELSE initialized

-----------------------------------------------------------------------------
(* Constructor and destructor. *)

SetupFree == OneAtATime => \A c \in Client : phase[c] \notin {"InitOnce", "CleanupOnce"}

(* The members, then g_client_cnt++.                                       *)
Construct(c) ==
  /\ phase[c] = "none"
  /\ SetupFree
  /\ g_client_cnt' = g_client_cnt + 1
  /\ Goes(c, IF g_client_cnt = 0 THEN "InitOnce" ELSE "alive")
  /\ UNCHANGED <<initialized, requestVars, lost>>

InitOnce(c) ==
  /\ phase[c] = "InitOnce"
  /\ curl_global_init
  /\ Goes(c, "alive")
  /\ UNCHANGED <<g_client_cnt, requestVars, lost>>

(* Mutant: the value before the decrement is compared with 1 at most. *)
Destroy_TooEarly(c) ==
  /\ Idle(c)
  /\ SetupFree
  /\ c \in Waits => \A i \in 1..made[c] : <<c, i>> \in ready
  /\ g_client_cnt' = g_client_cnt - 1
  /\ Goes(c, IF g_client_cnt' <= 1 THEN "CleanupOnce" ELSE "members")
  /\ UNCHANGED <<initialized, requestVars, lost>>

(* --g_client_cnt                                                          *)
Destroy(c) ==
  /\ Idle(c)
  /\ SetupFree
  /\ c \in Waits => \A i \in 1..made[c] : <<c, i>> \in ready
  /\ g_client_cnt' = g_client_cnt - 1
  /\ Goes(c, IF g_client_cnt' = 0 THEN "CleanupOnce" ELSE "members")
  /\ UNCHANGED <<initialized, requestVars, lost>>

(* curl_global_cleanup, perhaps under requests of clients that are gone.   *)
CleanupOnce(c) ==
  /\ phase[c] = "CleanupOnce"
  /\ curl_global_cleanup
  /\ lost' = {r \in Request : stage[r] = "perform"}
  /\ Goes(c, "members")
  /\ UNCHANGED <<g_client_cnt, requestVars>>

(* default_headers, headers and urlPrefix are destroyed.                   *)
DestroyMembers(c) ==
  /\ phase[c] = "members"
  /\ Goes(c, "pool")
  /\ UNCHANGED <<g_client_cnt, initialized, requestVars, lost>>


(* The pool is gone after its last task.                                   *)
DestroyPool(c) ==
  /\ phase[c] = "pool"
  /\ todo[c] = << >>
  /\ Running(c) = {}
  /\ Goes(c, "gone")
  /\ UNCHANGED <<g_client_cnt, initialized, requestVars, lost>>

-----------------------------------------------------------------------------
(* Requests. *)

Total == FoldFunction(+, 0, made)

(* Get and Post: MoveToThread of the pool.                                 *)
Get(c) ==
  /\ Idle(c)
  /\ made[c] < MaxRequests /\ Total < MaxTotal
  /\ made' = [made EXCEPT ![c] = @ + 1]
  /\ stage' = [stage EXCEPT ![<<c, made'[c]>>] = "queued"]
  /\ todo' = [todo EXCEPT ![c] = Append(@, made'[c])]
  /\ UNCHANGED <<clientVars, initialized, ready, lost>>

(* GetSync and PostSync by the owner.                                      *)
GetSync(c) ==
  /\ Idle(c)
  /\ stage' = [stage EXCEPT ![<<c, 0>>] = "settings"]
  /\ UNCHANGED <<clientVars, initialized, made, todo, ready, lost>>

(* A thread of the pool takes the oldest task.                             *)
RunTask(c) ==
  /\ todo[c] # << >>
  /\ Cardinality(Running(c)) < threadPoolSize
  /\ stage' = [stage EXCEPT ![<<c, Head(todo[c])>>] = "settings"]
  /\ todo' = [todo EXCEPT ![c] = Tail(@)]
  /\ UNCHANGED <<clientVars, initialized, made, ready, lost>>

(* GetSync or PostSync reads the prefix, the parameters and the headers    *)
(* and calls client->Get or Post, up to curl_easy_perform.                 *)
Prepare(r) ==
  /\ stage[r] = "settings"
  /\ curl_easy_init
  /\ stage' = [stage EXCEPT ![r] = "perform"]
  /\ lost' = {q \in {r} : phase[r[1]] = "pool"}
  /\ UNCHANGED <<clientVars, made, todo, ready>>

(* Mutant: the future gets its value before the callback is called. *)
Perform_EarlyFuture(r) ==
  /\ stage[r] = "perform"
  /\ stage' = [stage EXCEPT ![r] = IF r[2] = 0 THEN "none" ELSE "cbk"]
  /\ ready' = ready \cup {r}
  /\ UNCHANGED <<clientVars, initialized, made, todo, lost>>

(* The transfer ends, at the latest by CURLOPT_TIMEOUT_MS.                 *)
Perform(r) ==
  /\ stage[r] = "perform"
  /\ stage' = [stage EXCEPT ![r] = IF r[2] = 0 THEN "none" ELSE "cbk"]
  /\ UNCHANGED <<clientVars, initialized, made, todo, ready, lost>>

(* cbk(response), then the task returns and the future gets its value.     *)
Return(r) ==
  /\ stage[r] = "cbk"
  /\ stage' = [stage EXCEPT ![r] = "done"]
  /\ ready' = ready \cup {r}
  /\ UNCHANGED <<clientVars, initialized, made, todo, lost>>

-----------------------------------------------------------------------------
OwnerStep(c) == InitOnce(c) \/ CleanupOnce(c) \/ DestroyMembers(c) \/ DestroyPool(c)
RequestStep(r) == Prepare(r) \/ Perform(r) \/ Return(r)

Next ==
  /\ lost = {}
  /\ \/ \E c \in Client : \/ Construct(c) \/ Destroy(c) \/ OwnerStep(c)
                          \/ Get(c) \/ GetSync(c) \/ RunTask(c)
     \/ \E r \in Request : RequestStep(r)

(* Threads go on, and every transfer ends: the timeouts are at least 1 ms. *)
Fairness == /\ \A c \in Client : /\ WF_vars(lost = {} /\ OwnerStep(c))
                                 /\ WF_vars(lost = {} /\ RunTask(c))
            /\ \A r \in Request : WF_vars(lost = {} /\ RequestStep(r))

Spec == Init /\ [][Next]_vars /\ Fairness

-----------------------------------------------------------------------------
(* Properties. *)

(* Clients come and go in any order, requests of some still run while      *)
(* others start or end, and libcurl is initialised again by requests that  *)
(* outlive the last client: a transfer of a client that exists never loses *)
(* libcurl under its feet.                                                 *)
CurlIsUp ==
  \A c \in Client, i \in Id :
    phase[c] = "alive" /\ stage[<<c, i>>] = "perform" => initialized > 0

(* An owner who waited for the futures may destroy the client: nothing of  *)
(* a request, its callback included, runs from then on, so no request      *)
(* reads headers or a prefix that are gone.                                *)
FutureMeansOver ==
  \A c \in Waits, i \in Id :
    phase[c] \in {"CleanupOnce", "members", "pool", "gone"} =>
      stage[<<c, i>>] \in {"none", "done"}

(* Whatever other clients do at the same time, the last of them destroyed  *)
(* under its own requests or not, a client whose owner waits for the       *)
(* futures never has a request whose behaviour is undefined: no headers    *)
(* and no libcurl that are gone.                                           *)
WaitersSafe == \A r \in lost : r[1] \notin Waits


(* A client that is destroyed drops the requests that are still queued     *)
(* (threadpool_interface.h:40): none of them begins when its members are   *)
(* gone.  Not so without an owner who waits.                               *)
DestructionDrops ==
  [][\A c \in Client, i \in Id :
       phase[c] = "pool" /\ stage[<<c, i>>] = "queued" => stage'[<<c, i>>] = "queued"]_vars
=============================================================================
