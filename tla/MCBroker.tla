------------------------------ MODULE MCBroker ------------------------------
(* Instances of Broker for TLC. *)
EXTENDS Broker

CONSTANTS a, b

\* One order that goes through the three operations.
OneOrder == {a}
OneDeposit == [g \in {a} |-> "make"]
OneQuantity == [g \in {a} |-> 2]
KnownOnly == {{a}}

\* Two orders: a makes a deposit, b exchanges what the account holds.
TwoOrders == {a, b}
MakeAndNone == [g \in {a, b} |-> IF g = a THEN "make" ELSE "none"]
TwoQuantity == [g \in {a, b} |-> IF g = a THEN 2 ELSE 1]
KnownOrNot == {{}, {a}}
=============================================================================
