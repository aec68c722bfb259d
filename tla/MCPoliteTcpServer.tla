------------------------- MODULE MCPoliteTcpServer -------------------------
(* TLC instance of PoliteTcpServer. *)
EXTENDS PoliteTcpServer

ASSUME PoliteAssumption == PoliteApp
=============================================================================
