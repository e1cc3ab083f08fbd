------------------------------- MODULE Broker -------------------------------
(***************************************************************************)
(* The order pipeline of CBroker (src/src/markets/broker.h, broker.cpp).   *)
(*                                                                         *)
(* A client places an order; the broker writes it to the order book and    *)
(* keeps it in the list of open orders.  processOrders, called by the main *)
(* loop, visits every open order and takes it one step further through its *)
(* three operations: deposit the coin on the market, exchange it, withdraw *)
(* the proceeds.  Each operation goes through check, execute, verify and   *)
(* confirm; a step that returns IOK is written to the book, any other      *)
(* result lives in memory only.                                            *)
(*                                                                         *)
(* The process may die at any point.  Start then reopens what the book     *)
(* says is not completed.  The wallet and the market are outside: a        *)
(* command may be refused, may succeed, or may take effect although the    *)
(* caller gets an error (the RPC or HTTP reply is lost).                   *)
(***************************************************************************)
EXTENDS Naturals, Sequences, FiniteSets

CONSTANTS
    Orders,       \* the order ids (guids) that clients may use
    Deposit,      \* Deposit[g]: who deposits: "make" the broker, "expect" the
                  \* client, "none" nobody (no amount)
    Withdraw,     \* the orders whose proceeds are to be withdrawn
    Quantity,     \* Quantity[g]: what the market gives for g when it fills
    Percent,      \* withdraw.amount as placed: percent of the output
    Funds,        \* the balances, in order amounts, the market account may have at first
    WalletMaps,   \* the sets of orders whose wallet a session may know
    MaxCrashes,   \* bound: number of times the process dies
    MaxLost       \* bound: effects per order and operation whose result is lost

\* The enumerators of BrokerOrder::Stage that index the stages[] array.
OrderOps == {"makingDeposit", "exchanging", "withdrawing"}

Makers == {g \in Orders : Deposit[g] = "make"}

ASSUME ConstantsOK ==
    /\ Deposit \in [Orders -> {"make", "expect", "none"}]
    /\ Withdraw \subseteq Orders
    /\ Quantity \in [Orders -> Nat]
    /\ Percent \in Nat
    /\ Funds # {} /\ Funds \subseteq Nat
    /\ WalletMaps # {} /\ WalletMaps \subseteq SUBSET Makers
    /\ MaxCrashes \in Nat
    /\ MaxLost \in Nat

VARIABLES
    book,      \* m_orderBook: the records on disk; entry id i is book[i + 1]
    open,      \* m_openOrders: the orders this session processes
    todo,      \* those of open that the current processOrders has yet to visit
    placed,    \* the ids that have been used: Make(order.id) never repeats one
    known,     \* the orders whose deposit address g_walletForAddress resolves
    effects,   \* effects[k][g]: external commands of operation k that took effect
    lost,      \* lost[k][g]: those whose result never reached the book
    credited,  \* credited[g]: which of the deposits for g the market has confirmed
    filled,    \* filled[g]: which of the exchanges for g the market has filled
    balance,   \* the market account's balance, in order amounts
    crashes    \* number of times the process has died

world == <<effects, lost, credited, filled, balance>>
vars == <<book, open, todo, placed, known, world, crashes>>

-----------------------------------------------------------------------------
(* Records *)

OpStages == {"skip", "check", "execute", "verify", "confirm", "done"}

\* cancelOrder is not implemented and nothing abandons an operation, so
\* recorded, cancelling, abandoned and cancelled are never assigned.
OpStatuses == {"noStatus", "processing", "completed", "skipped"}

BrokerOp == [stage : OpStages, status : OpStatuses]

BrokerOrder ==
    [id : Orders,
     sequence : Nat,                         \* BookEntry::sequence
     stage : OrderOps \cup {"completed"},    \* the operation in progress
     op : [OrderOps -> BrokerOp],            \* stages[]
     txid : Nat,       \* deposit.txid: 0, or n for the n-th deposit sent for id
     marketId : Nat,   \* order.id: 0, or n for the n-th exchange made for id
     marketStatus : {"", "New", "Filled"},   \* order.status, the market's word
     amount : Nat]                           \* withdraw.amount.amount

\* isCompleted( const BrokerOp & )
Concluded(p) == p.status \in {"completed", "skipped"} \/ p.stage \in {"skip", "done"}

\* isCompleted( const BrokerOrder & )
Completed(o) == o.stage = "completed"

\* The order that placeOrder records: makeOrder leaves every operation at
\* check and the sequence at 0, placeOrder sets the first and last operation.
NewOrder(g) ==
    LET opStage(k) ==
            CASE k = "makingDeposit" ->
                    CASE Deposit[g] = "make"   -> "check"
                      [] Deposit[g] = "expect" -> "verify"
                      [] OTHER                 -> "skip"
              [] k = "exchanging"  -> "check"
              [] OTHER             -> IF g \in Withdraw THEN "check" ELSE "skip"
    IN [id |-> g, sequence |-> 0, stage |-> "makingDeposit",
        op |-> [k \in OrderOps |-> [stage |-> opStage(k), status |-> "noStatus"]],
        txid |-> 0, marketId |-> 0, marketStatus |-> "",
        amount |-> IF g \in Withdraw THEN Percent ELSE 0]

\* addOpenOrder takes an order only if its deposit is over or its wallet known.
Admits(wallets, o) ==
    Concluded(o.op["makingDeposit"]) \/ o.id \in wallets

\* A slip that CarriedOut catches: only orders that were never touched are reopened.
ReopenedUntouched(wallets) ==
    {[book[i] EXCEPT !.sequence = i - 1] :
        i \in {j \in DOMAIN book :
                /\ book[j].op["makingDeposit"].status = "noStatus"
                /\ Admits(wallets, book[j])}}

\* Start: the records not completed, each under the id it is read from.
Reopened(wallets) ==
    {[book[i] EXCEPT !.sequence = i - 1] :
        i \in {j \in DOMAIN book : ~Completed(book[j]) /\ Admits(wallets, book[j])}}

-----------------------------------------------------------------------------
(* Initial state: an empty book and a wallet map of the first session. *)

Init ==
    /\ book = <<>>
    /\ open = {} /\ todo = {} /\ placed = {}
    /\ known \in WalletMaps
    /\ effects = [k \in OrderOps |-> [g \in Orders |-> 0]]
    /\ lost = [k \in OrderOps |-> [g \in Orders |-> 0]]
    /\ credited = [g \in Orders |-> {}]
    /\ filled = [g \in Orders |-> {}]
    /\ balance \in Funds
    /\ crashes = 0

-----------------------------------------------------------------------------
(* placeOrder and the processOrders loop *)

\* makeOrder and placeOrder.  The id returned by addEntry is not used, the
\* record stays in the book when addOpenOrder refuses the order.
PlaceOrder(g) ==
    /\ todo = {}
    /\ g \notin placed
    /\ placed' = placed \cup {g}
    /\ book' = Append(book, NewOrder(g))
    /\ open' = IF Admits(known, NewOrder(g)) THEN open \cup {NewOrder(g)} ELSE open
    /\ UNCHANGED <<todo, known, world, crashes>>

\* processOrders starts a pass over the open orders.
BeginPass ==
    /\ todo = {} /\ open # {}
    /\ todo' = open
    /\ UNCHANGED <<book, open, placed, known, world, crashes>>

\* Slips in the tail of the loop.  The iterator is not moved on (TypeOK), or the
\* book is written at the end only (NoStepBack).
ReturnInPlace(o, new, result) ==
    /\ book' = IF result = "IOK" THEN [book EXCEPT ![o.sequence + 1] = new] ELSE book
    /\ open' = (open \ {o}) \cup {n \in {new} : ~Completed(n)}
    /\ UNCHANGED <<todo, placed, known, crashes>>

ReturnAtEnd(o, new, result) ==
    /\ book' = IF Completed(new) THEN [book EXCEPT ![o.sequence + 1] = new] ELSE book
    /\ open' = (open \ {o}) \cup {n \in {new} : ~Completed(n)}
    /\ todo' = todo \ {o}
    /\ UNCHANGED <<placed, known, crashes>>

\* The tail of the loop body for order o, which the step left as new: updateOrder
\* writes it under its sequence number if the result is IOK; a completed
\* order leaves the list.
Return(o, new, result) ==
    /\ book' = IF result = "IOK" THEN [book EXCEPT ![o.sequence + 1] = new] ELSE book
    /\ open' = (open \ {o}) \cup {n \in {new} : ~Completed(n)}
    /\ todo' = todo \ {o}
    /\ UNCHANGED <<placed, known, crashes>>

\* The process dies and is started again: Start reopens orders from the book.
Restart ==
    /\ crashes < MaxCrashes
    /\ crashes' = crashes + 1
    /\ known' \in WalletMaps
    /\ open' = Reopened(known')
    /\ todo' = {}
    /\ UNCHANGED <<book, placed>>

\* o with its current operation at another stage; processOrderXXX turns a
\* status below processing into processing.
At(o, opStage) ==
    [o EXCEPT !.op[o.stage] = [stage |-> opStage, status |-> "processing"]]

\* o with its current operation over, and moved on to the next one.
Over(o, opStage, opStatus) ==
    [o EXCEPT !.op[o.stage] = [stage |-> opStage, status |-> opStatus],
              !.stage = CASE o.stage = "makingDeposit" -> "exchanging"
                          [] o.stage = "exchanging"    -> "withdrawing"
                          [] OTHER                     -> "completed"]

\* o is the order in hand and its operation k is at one of the stages.
InHand(o, k, opStages) == o \in todo /\ o.stage = k /\ o.op[k].stage \in opStages

Count(counter, o) == [counter EXCEPT ![o.stage][o.id] = @ + 1]

\* A slip that AtMostOnce catches: the answer stays in memory.
AnsweredUnwritten(o, done) ==
    /\ effects' = Count(effects, o)
    /\ lost' = lost
    /\ Return(o, done, "IAGAIN")

\* The call goes through and is answered: the loop goes on with done.
Answered(o, done) ==
    /\ effects' = Count(effects, o)
    /\ lost' = lost
    /\ Return(o, done, "IOK")

\* The call has no effect, or has one and the caller is told otherwise, or has
\* one and the process dies before updateOrder.  The first two leave retry.
Unanswered(o, retry) ==
    \/ Return(o, retry, "IERROR") /\ UNCHANGED <<effects, lost>>
    \/ /\ lost[o.stage][o.id] < MaxLost
       /\ effects' = Count(effects, o)
       /\ lost' = Count(lost, o)
       /\ Return(o, retry, "IERROR") \/ Restart

-----------------------------------------------------------------------------
(* processOrderDeposit *)

SkipDeposit(o) ==
    /\ InHand(o, "makingDeposit", {"skip"})
    /\ Return(o, Over(o, "skip", "skipped"), "IOK")
    /\ UNCHANGED world

\* checkDeposit: the wallet does not answer or holds too little.
CheckDeposit(o) ==
    /\ InHand(o, "makingDeposit", {"check"})
    /\ Return(o, At(o, "check"), "IAGAIN")
    /\ UNCHANGED world

\* checkDeposit passes and flows into executeDeposit, or an earlier
\* executeDeposit failed and is tried again.
DepositSent(o) ==
    /\ InHand(o, "makingDeposit", {"check", "execute"})
    /\ Answered(o, [At(o, "verify") EXCEPT !.txid = effects["makingDeposit"][o.id] + 1])
    /\ UNCHANGED <<credited, filled, balance>>

\* A slip that NoPhantom catches: the stage moves on before the result is looked at.
DepositAssumed(o) ==
    /\ InHand(o, "makingDeposit", {"check", "execute"})
    /\ Unanswered(o, At(o, "verify"))
    /\ UNCHANGED <<credited, filled, balance>>

DepositNotSent(o) ==
    /\ InHand(o, "makingDeposit", {"check", "execute"})
    /\ Unanswered(o, At(o, "execute"))
    /\ UNCHANGED <<credited, filled, balance>>

\* verifyDeposit: the wallet does not know the transaction yet.
VerifyDeposit(o) ==
    /\ InHand(o, "makingDeposit", {"verify"})
    /\ Return(o, At(o, "verify"), "IERROR")
    /\ UNCHANGED world

\* verifyDeposit passes and flows into confirmDeposit, or confirmDeposit is
\* called again; the market does not report the deposit, or reports it as
\* not confirmed.  Only a changed number of confirmations is worth a write.
DepositPending(o) ==
    /\ InHand(o, "makingDeposit", {"verify", "confirm"})
    /\ \E result \in {"IERROR", "IAGAIN", "IOK"} : Return(o, At(o, "confirm"), result)
    /\ UNCHANGED world

\* A slip that ImplementsSettlement catches: the status reported is not tested.
DepositReported(o) ==
    /\ InHand(o, "makingDeposit", {"verify", "confirm"})
    /\ Return(o, Over(o, "confirm", "completed"), "IOK")
    /\ UNCHANGED world

DepositConfirmed(o) ==
    /\ InHand(o, "makingDeposit", {"verify", "confirm"})
    /\ o.txid \in credited[o.id]
    /\ Return(o, Over(o, "confirm", "completed"), "IOK")
    /\ UNCHANGED world

ProcessDeposit(o) ==
    \/ SkipDeposit(o) \/ CheckDeposit(o)
    \/ DepositSent(o) \/ DepositNotSent(o)
    \/ VerifyDeposit(o) \/ DepositPending(o) \/ DepositConfirmed(o)

-----------------------------------------------------------------------------
(* processOrderExchange *)

\* checkExchange: getBalance fails.  A balance that is too low is IAGAIN, which
\* IF_IFAILED_RETURN lets through.
CheckExchange(o) ==
    /\ InHand(o, "exchanging", {"check"})
    /\ Return(o, At(o, "check"), "IERROR")
    /\ UNCHANGED world

\* checkExchange flows into executeExchange.  The market takes an order only if
\* the account covers it, and the amount leaves the account.
ExchangeCreated(o) ==
    /\ InHand(o, "exchanging", {"check", "execute"})
    /\ balance > 0
    /\ balance' = balance - 1
    /\ Answered(o, [At(o, "verify") EXCEPT !.marketId = effects["exchanging"][o.id] + 1,
                                           !.marketStatus = "New"])
    /\ UNCHANGED <<credited, filled>>

ExchangeNotCreated(o) ==
    /\ InHand(o, "exchanging", {"check", "execute"})
    /\ Unanswered(o, At(o, "execute"))
    /\ IF effects' = effects THEN balance' = balance
                             ELSE balance > 0 /\ balance' = balance - 1
    /\ UNCHANGED <<credited, filled>>

\* verifyExchange: getOrder fails, or the order is not filled.
VerifyExchange(o) ==
    /\ InHand(o, "exchanging", {"verify"})
    /\ Return(o, At(o, "verify"), "IAGAIN")
    /\ UNCHANGED world

\* verifyExchange finds the order filled and flows into confirmExchange.
ExchangeFilled(o) ==
    /\ InHand(o, "exchanging", {"verify"})
    /\ o.marketId \in filled[o.id]
    /\ Return(o, [Over(o, "done", "completed") EXCEPT !.marketStatus = "Filled"], "IOK")
    /\ UNCHANGED world

ProcessExchange(o) ==
    \/ CheckExchange(o) \/ ExchangeCreated(o) \/ ExchangeNotCreated(o)
    \/ VerifyExchange(o) \/ ExchangeFilled(o)

-----------------------------------------------------------------------------
(* processOrderWithdraw *)

SkipWithdraw(o) ==
    /\ InHand(o, "withdrawing", {"skip"})
    /\ Return(o, Over(o, "skip", "skipped"), "IOK")
    /\ UNCHANGED world

CheckWithdraw(o) ==
    /\ InHand(o, "withdrawing", {"check"})
    /\ Return(o, At(o, "check"), "IERROR")
    /\ UNCHANGED world

\* A slip that ConvertedOnce catches: it is turned again at each try.
ConvertedAgain(o) == [o EXCEPT !.amount = @ * Quantity[o.id]]

\* checkWithdraw turns the percentage into an amount once, when it passes.
Converted(o) ==
    IF o.op["withdrawing"].stage = "check"
    THEN [o EXCEPT !.amount = @ * Quantity[o.id]] ELSE o

WithdrawCreated(o) ==
    /\ InHand(o, "withdrawing", {"check", "execute"})
    /\ Answered(o, At(Converted(o), "verify"))
    /\ UNCHANGED <<credited, filled, balance>>

WithdrawNotCreated(o) ==
    /\ InHand(o, "withdrawing", {"check", "execute"})
    /\ Unanswered(o, At(Converted(o), "execute"))
    /\ UNCHANGED <<credited, filled, balance>>

\* verifyWithdraw: getWithdraw fails, or answers and the order status (not the
\* withdrawal's) is compared with "completed".  The operation would then be
\* at confirm: confirmWithdraw is never reached, the status being "Filled".
VerifyWithdraw(o) ==
    /\ InHand(o, "withdrawing", {"verify"})
    /\ IF o.marketStatus # "completed" THEN Return(o, At(o, "verify"), "IAGAIN")
                                       ELSE Return(o, At(o, "confirm"), "IOK")
    /\ UNCHANGED world

ProcessWithdraw(o) ==
    \/ SkipWithdraw(o) \/ CheckWithdraw(o)
    \/ WithdrawCreated(o) \/ WithdrawNotCreated(o) \/ VerifyWithdraw(o)

ProcessOrder(o) == ProcessDeposit(o) \/ ProcessExchange(o) \/ ProcessWithdraw(o)

-----------------------------------------------------------------------------
(* The outside *)

\* The market confirms a deposit that was sent, and credits the account.
Credit(g) ==
    /\ \E n \in (1..effects["makingDeposit"][g]) \ credited[g] :
            credited' = [credited EXCEPT ![g] = @ \cup {n}]
    /\ balance' = balance + 1
    /\ UNCHANGED <<book, open, todo, placed, known, effects, lost, filled, crashes>>

\* The market fills an order it has accepted.
Fill(g) ==
    /\ \E n \in (1..effects["exchanging"][g]) \ filled[g] :
            filled' = [filled EXCEPT ![g] = @ \cup {n}]
    /\ UNCHANGED <<book, open, todo, placed, known, effects, lost, credited, balance, crashes>>

\* The process dies between two steps of the loop.
Crash == Restart /\ UNCHANGED world

Next ==
    \/ \E g \in Orders : PlaceOrder(g) \/ Credit(g) \/ Fill(g)
    \/ BeginPass
    \/ \E o \in todo : ProcessOrder(o)
    \/ Crash

Spec == Init /\ [][Next]_vars

\* The main loop keeps calling processOrders; wallet and market eventually
\* answer a call that keeps being made, and settle what they have accepted.
Fairness ==
    /\ WF_vars(BeginPass)
    /\ \A g \in Orders :
        /\ WF_vars(Credit(g)) /\ WF_vars(Fill(g))
        /\ WF_vars(\E o \in todo : o.id = g /\ ProcessOrder(o))
        /\ SF_vars(\E o \in todo : o.id = g /\ DepositSent(o))
        /\ SF_vars(\E o \in todo : o.id = g /\ DepositConfirmed(o))
        /\ SF_vars(\E o \in todo : o.id = g /\ ExchangeCreated(o))
        /\ SF_vars(\E o \in todo : o.id = g /\ ExchangeFilled(o))
        /\ SF_vars(\E o \in todo : o.id = g /\ WithdrawCreated(o))

FairSpec == Spec /\ Fairness
-----------------------------------------------------------------------------
(* What the broker promises *)

TypeOK ==
    /\ book \in Seq(BrokerOrder)
    /\ open \subseteq BrokerOrder /\ todo \subseteq open
    /\ placed \subseteq Orders /\ known \subseteq Makers
    /\ effects \in [OrderOps -> [Orders -> Nat]]
    /\ lost \in [OrderOps -> [Orders -> Nat]]
    /\ credited \in [Orders -> SUBSET Nat]
    /\ filled \in [Orders -> SUBSET Nat]
    /\ balance \in Nat /\ crashes \in 0..MaxCrashes

Records == {book[i] : i \in DOMAIN book} \cup open

\* An operation that a record, on disk or in memory, says was executed really
\* took effect outside, and the transaction it names is one that was made:
\* no crash, lost reply or overwritten record makes the broker believe in a
\* deposit, an exchange or a withdrawal that does not exist.
NoPhantom ==
    \A r \in Records :
        /\ r.txid <= effects["makingDeposit"][r.id]
        /\ r.marketId <= effects["exchanging"][r.id]
        /\ r.id \in Makers /\ r.op["makingDeposit"].stage \in {"verify", "confirm"} => r.txid > 0
        /\ r.op["exchanging"].stage \in {"verify", "done"} => r.marketId > 0
        /\ r.op["withdrawing"].stage = "verify" => effects["withdrawing"][r.id] > 0

\* The percentage to withdraw is turned into an amount exactly once, however
\* often checkWithdraw and executeWithdraw are repeated after a refusal or a
\* crash ("flowing, its ok if we do this again before execution").
ConvertedOnce ==
    \A r \in Records : r.id \in Withdraw =>
        r.amount = IF r.op["withdrawing"].stage = "check" THEN Percent
                                                          ELSE Percent * Quantity[r.id]

\* The entries of the book are those of one order, or this session has never read them:
\* updateOrder writes every order under the sequence 0 it was made with, so that a
\* session that reads the book back may see an order as it was first recorded.
Undisturbed == crashes = 0 \/ \A g, h \in placed : g = h

\* A command is given again only when the result of an earlier one was lost.
AtMostOnce ==
    Undisturbed => \A k \in OrderOps, g \in Orders : effects[k][g] <= 1 + lost[k][g]

\* No operation of an order takes effect after a later one has: once there is
\* an exchange no deposit follows, once there is a withdrawal no exchange.
NoStepBack ==
    [][Undisturbed => \A g \in Orders :
        /\ effects["exchanging"][g] > 0 =>
            effects'["makingDeposit"][g] = effects["makingDeposit"][g]
        /\ effects["withdrawing"][g] > 0 =>
            effects'["exchanging"][g] = effects["exchanging"][g]]_effects

\* A session that does not know the wallet of an order leaves it in the book.
LeftInBook(g) == \E i \in DOMAIN book : book[i].id = g /\ ~Admits(known, book[i])

\* The exchanges of which the broker was not told have spent what the account had, and
\* there was no other.
SpentUnseen(g) ==
    /\ balance = 0 /\ lost["exchanging"][g] > 0
    /\ effects["exchanging"][g] = lost["exchanging"][g]

\* A placed order is carried out to its last command, through deaths, restarts that know
\* its wallet or not, and lost answers: it ends completed in the book or has its
\* withdrawal made.  Two things may hold it for good: the last session does not know the
\* wallet it deposits from, or the account is empty after an exchange whose answer was
\* lost, and every other is refused.
CarriedOut ==
    \A g \in Orders :
        \/ g \in placed ~> \E i \in DOMAIN book :
                /\ book[i].id = g
                /\ Completed(book[i]) \/ book[i].op["withdrawing"].stage = "verify"
        \/ <>[]LeftInBook(g)
        \/ <>[]SpentUnseen(g)

\* A placed order whose wallet the sessions know ends completed in the book.
Settles ==
    \A g \in Orders : g \in placed ~> \E i \in DOMAIN book : book[i].id = g /\ Completed(book[i])

\* The effects outside follow the abstract settlement of orders.
Outside == INSTANCE Settlement WITH
    deposits <- effects["makingDeposit"],
    exchanges <- effects["exchanging"],
    withdrawals <- effects["withdrawing"]

ImplementsSettlement == Outside!Spec
=============================================================================
