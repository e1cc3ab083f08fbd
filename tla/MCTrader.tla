------------------------------ MODULE MCTrader ------------------------------
(* Instances of Trader for TLC. *)
EXTENDS Trader

CONSTANTS a, b, c

\* a is the user's and below the minimum, b is income worth it, c is income below it.
Mixed == [g \in {a, b, c} |-> IF g = a THEN "now" ELSE "onSchedule"]
Unequal == [g \in {a, b, c} |-> IF g = b THEN 2 ELSE 1]
OneRoute == [g \in {a, b, c} |-> "r"]
=============================================================================
