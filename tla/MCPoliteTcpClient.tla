------------------------- MODULE MCPoliteTcpClient -------------------------
(* TLC instance of PoliteTcpClient. *)
EXTENDS PoliteTcpClient

ASSUME PoliteAssumption == PoliteApp
=============================================================================
