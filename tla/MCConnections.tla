--------------------------- MODULE MCConnections ---------------------------
EXTENDS Connections, TLC

CONSTANTS a, b, d, h

\* A config with two connections that are selected automatically, one of which trades.
TwoAuto ==
    {<<[host |-> h, auto |-> TRUE, started |-> FALSE, percent |-> 1],
       [host |-> h, auto |-> TRUE, started |-> FALSE]>>}
=============================================================================
