------------------------------- MODULE MCHttp -------------------------------
EXTENDS Http
=============================================================================
