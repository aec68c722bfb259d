------------------------------ MODULE TaskPool ------------------------------
(***************************************************************************)
(* What a thread pool promises to those who hand it tasks: tasks start in  *)
(* the order in which they were handed over, each of them starts once and  *)
(* ends, and the pool is gone only after the last one ended.  ThreadPool   *)
(* implements this specification.                                          *)
(***************************************************************************)
EXTENDS Naturals, Sequences

CONSTANT Task  \* the numbers of the tasks, in the order of handing over

VARIABLES handed,   \* how many tasks were handed over
          todo,     \* not started yet, oldest first
          running,  \* started and not ended
          open      \* the pool exists

vars == <<handed, todo, running, open>>

Init == /\ handed = 0
        /\ todo = << >>
        /\ running = {}
        /\ open = TRUE

Hand == /\ open
        /\ handed' = handed + 1
        /\ todo' = Append(todo, handed')
        /\ UNCHANGED <<running, open>>

Start == /\ open
         /\ todo # << >>
         /\ running' = running \cup {Head(todo)}
         /\ todo' = Tail(todo)
         /\ UNCHANGED <<handed, open>>

Finish(k) == /\ k \in running
             /\ running' = running \ {k}
             /\ UNCHANGED <<handed, todo, open>>

Destroy == /\ todo = << >>
           /\ running = {}
           /\ open' = FALSE
           /\ UNCHANGED <<handed, todo, running>>

Next == Hand \/ Start \/ (\E k \in Task : Finish(k)) \/ Destroy

Spec == /\ Init /\ [][Next]_vars
        /\ WF_vars(Start)
        /\ \A k \in Task : WF_vars(Finish(k))
=============================================================================
