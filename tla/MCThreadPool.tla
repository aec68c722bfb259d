---------------------------- MODULE MCThreadPool ----------------------------
(* TLC instance of ThreadPool: worker numbers and the other threads.       *)
EXTENDS ThreadPool
=============================================================================
