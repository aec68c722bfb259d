---------------------------- MODULE MCTcpClient ----------------------------
(* TLC instance of TcpClient for applications of every kind. *)
EXTENDS TcpClient
=============================================================================
