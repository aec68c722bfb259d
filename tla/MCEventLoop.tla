---------------------------- MODULE MCEventLoop ----------------------------
(* TLC instance of EventLoop: two posters race with each other, with the   *)
(* loop and with the owner's stop().                                       *)
EXTENDS EventLoop
=============================================================================
