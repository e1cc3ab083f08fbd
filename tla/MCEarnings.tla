----------------------------- MODULE MCEarnings -----------------------------
(* Instances of Earnings for TLC. *)
EXTENDS Earnings, TLC

CONSTANTS u, v, c1, c2

Shared == [c \in Connections |-> u]
=============================================================================
