------------------------------ MODULE UvHandle ------------------------------
(***************************************************************************)
(* libuv's contract for a uv_tcp_t, as the callers under src/ have to keep *)
(* it: uv_tcp_init on fresh memory or after the close callback, requests   *)
(* and uv_close on an initialised handle only, uv_close once, and the      *)
(* close callback after every request was answered.                        *)
(***************************************************************************)
EXTENDS Naturals

VARIABLES phase,  \* "fresh", "active", "closing" or "closed"
          reqs    \* requests not yet answered

vars == <<phase, reqs>>

Init == phase = "fresh" /\ reqs = 0

(* uv_tcp_init, possibly with a first request (uv_tcp_connect). *)
InitHandle ==
  /\ phase \in {"fresh", "closed"}
  /\ phase' = "active"
  /\ reqs' \in {0, 1}

Submit == /\ phase = "active"
          /\ reqs' = reqs + 1
          /\ UNCHANGED phase

(* libuv answers some of the requests. *)
Answer == /\ phase \in {"active", "closing"}
          /\ reqs' \in Nat
          /\ reqs' < reqs
          /\ UNCHANGED phase

CloseHandle == /\ phase = "active"
               /\ phase' = "closing"
               /\ UNCHANGED reqs

CloseCallback == /\ phase = "closing"
                 /\ reqs = 0
                 /\ phase' = "closed"
                 /\ UNCHANGED reqs

Next == InitHandle \/ Submit \/ Answer \/ CloseHandle \/ CloseCallback

Spec == Init /\ [][Next]_vars
=============================================================================
