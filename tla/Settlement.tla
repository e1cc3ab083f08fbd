----------------------------- MODULE Settlement -----------------------------
(***************************************************************************)
(* What the broker promises to the outside (src/src/markets/broker.h): the *)
(* wallet and the market see the operations of an order in order.  A coin  *)
(* is exchanged only when its deposit is confirmed, if there is one, and   *)
(* only the proceeds of an exchange that is filled are withdrawn.  How     *)
(* often a command is given, the book, memory and crashes are not seen.    *)
(***************************************************************************)
EXTENDS Naturals

CONSTANTS Orders, Deposit, Withdraw

VARIABLES
    deposits,     \* deposits[g]: deposits sent for order g
    credited,     \* credited[g]: the deposits that the market has confirmed
    exchanges,    \* exchanges[g]: exchanges made for g
    filled,       \* filled[g]: the exchanges that the market has filled
    withdrawals   \* withdrawals[g]: withdrawals made for g

vars == <<deposits, credited, exchanges, filled, withdrawals>>

Init ==
    /\ deposits = [g \in Orders |-> 0]
    /\ exchanges = [g \in Orders |-> 0]
    /\ withdrawals = [g \in Orders |-> 0]
    /\ credited = [g \in Orders |-> {}]
    /\ filled = [g \in Orders |-> {}]

MakeDeposit(g) ==
    /\ Deposit[g] = "make"
    /\ deposits' = [deposits EXCEPT ![g] = @ + 1]
    /\ UNCHANGED <<credited, exchanges, filled, withdrawals>>

Credit(g) ==
    /\ \E n \in 1..deposits[g] : credited' = [credited EXCEPT ![g] = @ \cup {n}]
    /\ UNCHANGED <<deposits, exchanges, filled, withdrawals>>

Exchange(g) ==
    /\ Deposit[g] = "none" \/ credited[g] # {}
    /\ exchanges' = [exchanges EXCEPT ![g] = @ + 1]
    /\ UNCHANGED <<deposits, credited, filled, withdrawals>>

Fill(g) ==
    /\ \E n \in 1..exchanges[g] : filled' = [filled EXCEPT ![g] = @ \cup {n}]
    /\ UNCHANGED <<deposits, credited, exchanges, withdrawals>>

WithdrawProceeds(g) ==
    /\ g \in Withdraw /\ filled[g] # {}
    /\ withdrawals' = [withdrawals EXCEPT ![g] = @ + 1]
    /\ UNCHANGED <<deposits, credited, exchanges, filled>>

Next ==
    \E g \in Orders :
        \/ MakeDeposit(g) \/ Credit(g) \/ Exchange(g) \/ Fill(g) \/ WithdrawProceeds(g)

Spec == Init /\ [][Next]_vars
=============================================================================
