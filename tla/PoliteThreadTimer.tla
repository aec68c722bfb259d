------------------------- MODULE PoliteThreadTimer -------------------------
(***************************************************************************)
(* A ThreadTimer used as the code supports it: one thread calls Start,     *)
(* Stop and SetCbk, and the callback does not call the timer.  TimerInv is *)
(* inductive for it: it says where m_thread and m_running stand at each    *)
(* place of a call.                                                        *)
(***************************************************************************)
EXTENDS ThreadTimer

ASSUME PoliteAssumption == (\E u \in User : User = {u}) /\ CallbackCalls = {}

(* Places of a call before its first change, and of calls that launch. *)
Before == Call \cup {"idle"}
Launches == {"Start", "StartWith", "set", "launch"}

(* Each thread came with a call, and each call launches at most one.       *)
CountInv == \A u \in User : launched + (IF pc[u] \in Launches THEN 1 ELSE 0) <= calls

(* Timer threads call nothing; those not launched yet are the last ones.   *)
TimerInv ==
  \A t \in Timer : /\ pc[t] \in {"none", "sleep", "fire", "callback", "done"}
                   /\ pc[t] = "none" <=> t > launched
                   /\ t # m_thread => ~Alive(t)

(* A running timer has a thread that is alive, a stopped one has none,     *)
(* but for the time between the two assignments of a call.                 *)
CallInv ==
  \A u \in User :
    /\ At(u, "set") => ~m_running
    /\ At(u, "launch") => m_running
    /\ At(u, "set") \/ At(u, "launch") => m_thread = 0
    /\ At(u, "clear") => m_running
    /\ At(u, "join") => ~m_running /\ m_thread # 0
    /\ pc[u] \in Before => (m_running <=> m_thread # 0)
    /\ pc[u] \in Before \cup {"clear"} => (m_running => m_thread # 0 /\ Alive(m_thread))

PoliteInv == TypeOK /\ CountInv /\ TimerInv /\ CallInv /\ ~fault
=============================================================================
