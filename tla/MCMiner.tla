------------------------------ MODULE MCMiner ------------------------------
EXTENDS Miner

CONSTANTS a, b
=============================================================================
