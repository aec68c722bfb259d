--------------------------- MODULE MCHttpServer ---------------------------
EXTENDS PoliteHttpServer
=============================================================================
