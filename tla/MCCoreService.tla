---------------------------- MODULE MCCoreService ----------------------------
EXTENDS CoreService

CONSTANTS x, y, a, b
=============================================================================
