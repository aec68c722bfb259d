------------------------------ MODULE Mailbox ------------------------------
(***************************************************************************)
(* What EventLoop::moveToThread promises to its callers: the functions     *)
(* handed over run on the loop thread one at a time, each at most once, in *)
(* the order in which they were handed over, and each of them runs unless  *)
(* the loop was asked to stop first.  EventLoop implements this            *)
(* specification; TcpClient and TcpServer rely on it.                      *)
(***************************************************************************)
EXTENDS Naturals, Sequences

CONSTANTS Task,  \* the functions callers hand over
          Stop   \* the function that stops the loop

VARIABLES queue,  \* handed over, not yet started, oldest first
          ran,    \* started, in the order in which they started
          open    \* the loop still runs functions

vars == <<queue, ran, open>>

Init == /\ queue = << >>
        /\ ran = << >>
        /\ open = TRUE

(* A caller hands a function over; a stopped loop keeps it for ever. *)
Post(t) == /\ queue' = Append(queue, t)
           /\ UNCHANGED <<ran, open>>

Execute == /\ open
           /\ queue # << >>
           /\ ran' = Append(ran, Head(queue))
           /\ queue' = Tail(queue)
           /\ UNCHANGED open

(* Only a loop that ran the stop function ends; what is queued then stays. *)
Shut == /\ open
        /\ \E i \in 1..Len(ran) : ran[i] = Stop
        /\ open' = FALSE
        /\ UNCHANGED <<queue, ran>>

Next == \/ \E t \in Task \cup {Stop} : Post(t)
        \/ Execute
        \/ Shut

Spec == Init /\ [][Next]_vars /\ WF_vars(Execute \/ Shut)
=============================================================================
