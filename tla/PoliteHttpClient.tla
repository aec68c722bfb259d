------------------------- MODULE PoliteHttpClient --------------------------
(***************************************************************************)
(* Any finite number of HttpClients whose constructors and destructors do  *)
(* not overlap, as g_client_cnt needs it, and the invariants that are      *)
(* inductive for them.                                                     *)
(***************************************************************************)
EXTENDS HttpClient

ASSUME PoliteAssumption == OneAtATime /\ IsFiniteSet(Client)

(* The clients that are counted. *)
Counted == {c \in Client : phase[c] \in {"InitOnce", "alive"}}

(* The count is right, the first client initialises libcurl alone, and the *)
(* last one cleans it up alone.                                            *)
CountInv ==
  /\ g_client_cnt = Cardinality(Counted)
  /\ \A c, d \in Client :
       {phase[c], phase[d]} \subseteq {"InitOnce", "CleanupOnce"} => c = d
  /\ \A c \in Client :
       /\ phase[c] = "InitOnce" => Counted = {c}
       /\ phase[c] = "CleanupOnce" => Counted = {}
       /\ phase[c] \in {"alive", "CleanupOnce"} => initialized > 0

(* Where a request is: with its owner, in the queue, in a thread of the    *)
(* pool, or over.                                                          *)
StageInv ==
  \A c \in Client :
    /\ stage[<<c, 0>>] \in {"none", "settings", "perform"}
    /\ \A i \in Id : /\ stage[<<c, i>>] = "none" <=> i > made[c]
                     /\ <<c, i>> \in ready <=> stage[<<c, i>>] = "done"

(* The queue holds queued requests, in the order of the calls.             *)
QueueInv ==
  \A c \in Client : \A k \in 1..Len(todo[c]) :
    /\ stage[<<c, todo[c][k]>>] = "queued"
    /\ \A l \in 1..Len(todo[c]) : k < l => todo[c][k] < todo[c][l]

RequestInv == StageInv /\ QueueInv

(* An owner calls GetSync and Get of a client that lives.                  *)
OwnerInv ==
  \A c \in Client : /\ phase[c] # "alive" => stage[<<c, 0>>] = "none"
                    /\ phase[c] \in {"none", "InitOnce"} => made[c] = 0

PoliteInv == /\ TypeOK /\ CountInv /\ RequestInv /\ OwnerInv
             /\ FutureMeansOver /\ WaitersSafe
=============================================================================
