--------------------------- MODULE MCHttpClient ---------------------------
EXTENDS PoliteHttpClient
=============================================================================
