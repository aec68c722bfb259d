--------------------------- MODULE ConnLifecycle ---------------------------
(***************************************************************************)
(* What IServer promises an application about each connection              *)
(* (tcp_interface.h:25-35, net_states.h:31-45): it is told Connected once, *)
(* then Shutdown when a read or a write failed, at last Closed, and        *)
(* nothing after that.                                                     *)
(***************************************************************************)
CONSTANT Conn

VARIABLE told  \* what the application last heard about each connection

Init == told = [c \in Conn |-> "new"]

Accept(c) == told[c] = "new" /\ told' = [told EXCEPT ![c] = "Connected"]
Fail(c) == told[c] = "Connected" /\ told' = [told EXCEPT ![c] = "Shutdown"]
Finish(c) == told[c] = "Shutdown" /\ told' = [told EXCEPT ![c] = "Closed"]

Next == \E c \in Conn : Accept(c) \/ Fail(c) \/ Finish(c)

(* A connection that failed is closed. *)
Spec == Init /\ [][Next]_told /\ \A c \in Conn : WF_told(Finish(c))
=============================================================================
