--------------------------- MODULE MCThreadTimer ---------------------------
(* TLC instance of ThreadTimer. *)
EXTENDS PoliteThreadTimer
=============================================================================
