------------------------------- MODULE Trader -------------------------------
(***************************************************************************)
(* CTrader (src/src/markets/trader.h, trader.cpp): trades are recorded in  *)
(* the trade book and bundled into pending orders.  processTrades, called  *)
(* by the main loop, hands an order to the broker when its time has passed *)
(* and it is worth the minimum; m_nextScheduleTime lets it return at once  *)
(* while no order can be due.  The broker reports on the orders it was     *)
(* given and the trader updates its trades.                                *)
(*                                                                         *)
(* The broker is outside: it takes an order, refuses it, or fails after it *)
(* has recorded it.  The process may die between two writes of the book;   *)
(* Start then bundles again the trades the book says are not placed.  The  *)
(* two callers (ui-trade.cpp, connections.cpp) ask for market "*", so that *)
(* a market always matches and the schedule is the global one.             *)
(***************************************************************************)
EXTENDS Naturals, Sequences, FiniteSets, SequencesExt

CONSTANTS
    Trades,      \* the trades (guids) that may be placed
    Kind,        \* Kind[g]: TradeInfo::schedule, "now" (the user's trades) or
                 \* "onSchedule" (income); nobody asks for executeLater
    Amount,      \* Amount[g]: the amount traded
    Route,       \* Route[g]: coins, price and addresses, equal in a bundle
    Minimum,     \* minimumValues of the coin
    Period,      \* seconds between two scheduled times: every 10 seconds, at 0
    Near,        \* a trade "now" may wait that long for the schedule (5)
    Failures,    \* the ways the broker may fail: "refused", "recorded"
    MaxTime,     \* bound: the clock
    MaxSent,     \* bound: orders recorded by the broker
    MaxCrashes   \* bound: number of times the process dies

ASSUME ConstantsOK ==
    /\ Kind \in [Trades -> {"now", "onSchedule"}]
    /\ Amount \in [Trades -> Nat \ {0}]               \* validateTrade
    /\ Minimum \in Nat /\ Period \in Nat \ {0} /\ Near \in Nat
    /\ Failures \subseteq {"refused", "recorded"}
    /\ MaxTime \in Nat \ {0} /\ MaxSent \in Nat /\ MaxCrashes \in Nat

VARIABLES
    book,      \* m_tradeBook: entry id i is book[i + 1]
    pending,   \* m_pendingOrders
    gate,      \* m_nextScheduleTime, 0 when not set
    cursor,    \* processTrades: the order it is at, 0 when it is not running
    began,     \* processTrades: now, read when it started
    clock,     \* Now()
    placed,    \* the ids that have been used: Make(info.id) never repeats one
    due,       \* due[g]: the time from which g may be executed
    sent,      \* the orders that the broker has recorded, oldest first
    crashes    \* number of times the process has died

vars == <<book, pending, gate, cursor, began, clock, placed, due, sent, crashes>>

-----------------------------------------------------------------------------
(* Trades, orders and the schedule *)

\* TradeInfo::Status in order; nothing abandons or cancels a trade.
Statuses == {"noStatus", "recorded", "placed", "executing", "completed"}

\* TradeInfo: orderId is the place in sent of the order, 0 for none.
TradeInfo == [id : Trades, sequence : Nat, status : Statuses, orderId : 0..MaxSent]

\* makeTrade: no sequence, no status.
NewTrade(g) == [id |-> g, sequence |-> 0, status |-> "noStatus", orderId |-> 0]

\* TradeOrder: trades are the sequences it lists; parts, which the code
\* does not have, are the trades whose amounts it sums.
TradeOrder ==
    [route : {Route[g] : g \in Trades}, amount : Nat, timeToExecute : Nat,
     trades : Seq(Nat), parts : SUBSET Trades]

\* The orders recorded by the broker: "open" ones are processed, "idle" ones
\* are in the order book only.
SentOrder ==
    [amount : Nat, parts : SUBSET Trades, time : Nat, stage : {"idle", "open", "completed"}]

\* getScheduleTime: the first multiple of the period after t.
ScheduleTime(t) == t - (t % Period) + Period

\* getTradeSchedule
TradeSchedule(g, t) == IF Kind[g] = "now" THEN t ELSE ScheduleTime(t)

\* A slip that NotEarly catches: the times are not compared.
MatchesAnyTime(g, order, t) ==
    /\ Kind[g] = "now" => ScheduleTime(t) <= t + Near
    /\ Route[g] = order.route

\* matchTradeToOrder
Matches(g, order, t) ==
    /\ Kind[g] = "now" => ScheduleTime(t) <= t + Near
    /\ Route[g] = order.route
    /\ TradeSchedule(g, t) < order.timeToExecute

\* addTradeToOrder
Join(g, sequence, order) ==
    [order EXCEPT !.amount = @ + Amount[g],
                  !.trades = Append(@, sequence),
                  !.parts = @ \cup {g}]

\* makeOrderForTrade
MakeOrder(g, sequence, t) ==
    [route |-> Route[g], amount |-> Amount[g], timeToExecute |-> TradeSchedule(g, t),
     trades |-> <<sequence>>, parts |-> {g}]

\* addTradeToOrders: trade joins the first order that matches, or makes one,
\* which moves the gate forward.  plan has the pending orders and the gate.
AddTrade(plan, trade, t) ==
    LET fits == {i \in DOMAIN plan.orders : Matches(trade.id, plan.orders[i], t)}
        first == CHOOSE i \in fits : \A j \in fits : i <= j
        new == MakeOrder(trade.id, trade.sequence, t)
    IN IF fits # {}
       THEN [plan EXCEPT !.orders[first] = Join(trade.id, trade.sequence, @)]
       ELSE [orders |-> Append(plan.orders, new),
             gate |-> IF plan.gate = 0 \/ plan.gate > new.timeToExecute
                      THEN new.timeToExecute ELSE plan.gate]

\* updateTrade writes a trade at the entry its own sequence says.
Written(b, trade) == [b EXCEPT ![trade.sequence + 1] = trade]

\* The entries as a new session reads them, each with its own sequence.
Reread(b) == [i \in DOMAIN b |-> [b[i] EXCEPT !.sequence = i - 1]]

\* Start: the entries not yet placed are bundled again, the newest first.
Bundled(b, t) ==
    LET plan[n \in 0..Len(b)] ==
            IF n = 0 THEN [orders |-> <<>>, gate |-> 0]
            ELSE LET trade == b[Len(b) - n + 1]
                 IN IF trade.status \in {"noStatus", "recorded"}
                    THEN AddTrade(plan[n - 1], trade, t) ELSE plan[n - 1]
    IN plan[Len(b)]

\* isOrderReadyForBroker
Ready(order) == order.timeToExecute < clock /\ order.amount >= Minimum

-----------------------------------------------------------------------------
Init ==
    /\ book = <<>> /\ pending = <<>> /\ gate = 0
    /\ cursor = 0 /\ began = 0 /\ clock = 1
    /\ placed = {} /\ due = [g \in Trades |-> 0]
    /\ sent = <<>> /\ crashes = 0

\* The process dies, b being on disk, and is started again; the broker opens
\* some of the orders it has recorded and not completed.
Restart(b, orders) ==
    LET plan == Bundled(Reread(b), clock) IN
    /\ crashes < MaxCrashes
    /\ crashes' = crashes + 1
    /\ book' = Reread(b)
    /\ pending' = plan.orders /\ gate' = plan.gate
    /\ cursor' = 0 /\ began' = 0
    /\ \E opened \in SUBSET {n \in DOMAIN orders : orders[n].stage # "completed"} :
        sent' = [n \in DOMAIN orders |->
                    IF orders[n].stage = "completed" THEN orders[n]
                    ELSE [orders[n] EXCEPT !.stage = IF n \in opened THEN "open" ELSE "idle"]]
    /\ UNCHANGED clock

-----------------------------------------------------------------------------
(* placeTrade *)

\* The entry is added; addTradeToOrders is given the caller's trade, whose
\* sequence is 0 and which updateTrade writes; then the entry is written,
\* whose sequence is 0 too.
PlaceTrade(g) ==
    LET entry == [NewTrade(g) EXCEPT !.status = "recorded"]
        plan == AddTrade([orders |-> pending, gate |-> gate], NewTrade(g), clock)
    IN
    /\ cursor = 0 /\ g \notin placed
    /\ placed' = placed \cup {g}
    /\ due' = [due EXCEPT ![g] = TradeSchedule(g, clock)]
    /\ pending' = plan.orders /\ gate' = plan.gate
    /\ book' = Written(Written(Append(book, entry), NewTrade(g)), entry)
    /\ UNCHANGED <<cursor, began, clock, sent, crashes>>

\* The process dies after the first write, or after the second.
DiePlacingTrade(g) ==
    LET added == Append(book, [NewTrade(g) EXCEPT !.status = "recorded"]) IN
    /\ cursor = 0 /\ g \notin placed
    /\ placed' = placed \cup {g}
    /\ due' = [due EXCEPT ![g] = TradeSchedule(g, clock)]
    /\ \E b \in {added, Written(added, NewTrade(g))} : Restart(b, sent)

-----------------------------------------------------------------------------
(* processTrades *)

BeginPass ==
    /\ cursor = 0 /\ gate <= clock
    /\ cursor' = 1 /\ began' = clock /\ gate' = 0
    /\ UNCHANGED <<book, pending, clock, placed, due, sent, crashes>>

\* Slips at an order that is not ready.  The last time replaces an earlier one
\* (NoOversleep), or the iterator is not moved on (HandedOver).
PostponeToLast ==
    /\ cursor \in DOMAIN pending /\ ~Ready(pending[cursor])
    /\ gate' = pending[cursor].timeToExecute
    /\ cursor' = cursor + 1
    /\ UNCHANGED <<book, pending, began, clock, placed, due, sent, crashes>>

PostponeInPlace ==
    /\ cursor \in DOMAIN pending /\ ~Ready(pending[cursor])
    /\ LET t == pending[cursor].timeToExecute IN
        gate' = IF gate < began \/ gate > t THEN t ELSE gate
    /\ UNCHANGED <<book, pending, cursor, began, clock, placed, due, sent, crashes>>

\* The loop is at an order that is not ready.
Postpone ==
    /\ cursor \in DOMAIN pending /\ ~Ready(pending[cursor])
    /\ LET t == pending[cursor].timeToExecute IN
        gate' = IF gate < began \/ gate > t THEN t ELSE gate
    /\ cursor' = cursor + 1
    /\ UNCHANGED <<book, pending, began, clock, placed, due, sent, crashes>>

\* The broker's record of order.
Recorded(order, opened) ==
    Append(sent, [amount |-> order.amount, parts |-> order.parts, time |-> clock,
                  stage |-> IF opened THEN "open" ELSE "idle"])

\* placeBrokerOrder: for each trade listed, the entry read there is written
\* back, where its own sequence says, as placed with the order.
Affected(b, listed) ==
    LET after[n \in 0..Len(listed)] ==
            IF n = 0 THEN b
            ELSE LET trade == after[n - 1][listed[n] + 1]
                 IN Written(after[n - 1], [trade EXCEPT !.status = "placed",
                                                        !.orderId = Len(sent) + 1])
    IN after[Len(listed)]

\* Slips when the broker takes an order.  The iterator is moved on although the
\* order is erased (TypeOK), or the order is not erased (InOneOrder).
HandOverAndSkip ==
    /\ cursor \in DOMAIN pending /\ Ready(pending[cursor]) /\ Len(sent) < MaxSent
    /\ sent' = Recorded(pending[cursor], TRUE)
    /\ book' = Affected(book, pending[cursor].trades)
    /\ pending' = RemoveAt(pending, cursor)
    /\ cursor' = cursor + 1
    /\ UNCHANGED <<gate, began, clock, placed, due, crashes>>

HandOverKept ==
    /\ cursor \in DOMAIN pending /\ Ready(pending[cursor]) /\ Len(sent) < MaxSent
    /\ sent' = Recorded(pending[cursor], TRUE)
    /\ book' = Affected(book, pending[cursor].trades)
    /\ cursor' = cursor + 1
    /\ UNCHANGED <<pending, gate, began, clock, placed, due, crashes>>

\* The loop is at a ready order and the broker takes it: it is erased.
HandOver ==
    /\ cursor \in DOMAIN pending /\ Ready(pending[cursor]) /\ Len(sent) < MaxSent
    /\ sent' = Recorded(pending[cursor], TRUE)
    /\ book' = Affected(book, pending[cursor].trades)
    /\ pending' = RemoveAt(pending, cursor)
    /\ UNCHANGED <<gate, cursor, began, clock, placed, due, crashes>>

\* The broker fails after it has recorded the order: the loop stays at it, to
\* try again at once.  (A refusal that records nothing changes nothing.)
HandOverFails ==
    /\ cursor \in DOMAIN pending /\ Ready(pending[cursor]) /\ Len(sent) < MaxSent
    /\ "recorded" \in Failures
    /\ sent' = Recorded(pending[cursor], FALSE)
    /\ UNCHANGED <<book, pending, gate, cursor, began, clock, placed, due, crashes>>

\* The process dies when the broker has the order and some trades are updated.
DieHandingOver ==
    /\ cursor \in DOMAIN pending /\ Ready(pending[cursor]) /\ Len(sent) < MaxSent
    /\ \E n \in 0..Len(pending[cursor].trades) :
        Restart(Affected(book, SubSeq(pending[cursor].trades, 1, n)),
                Recorded(pending[cursor], TRUE))
    /\ UNCHANGED <<placed, due>>

EndPass ==
    /\ cursor > Len(pending)
    /\ cursor' = 0
    /\ UNCHANGED <<book, pending, gate, began, clock, placed, due, sent, crashes>>

-----------------------------------------------------------------------------
(* onOrderUpdate *)

\* The book is read backward and the first trade found with the order is
\* updated, where its own sequence says; the search ends there.
Updated(b, n, over) ==
    LET found == {i \in DOMAIN b : b[i].orderId = n}
        last == CHOOSE i \in found : \A j \in found : j <= i
        status == IF over THEN "completed"
                  ELSE IF b[last].status = "placed" THEN "executing" ELSE b[last].status
    IN IF found = {} THEN b ELSE Written(b, [b[last] EXCEPT !.status = status])

\* The broker reports that order n has moved on.
OrderProgress(n) ==
    /\ cursor = 0 /\ sent[n].stage = "open"
    /\ book' = Updated(book, n, FALSE)
    /\ UNCHANGED <<pending, gate, cursor, began, clock, placed, due, sent, crashes>>

\* The broker reports that order n is completed.
OrderCompleted(n) ==
    /\ cursor = 0 /\ sent[n].stage = "open"
    /\ sent' = [sent EXCEPT ![n].stage = "completed"]
    /\ book' = Updated(book, n, TRUE)
    /\ UNCHANGED <<pending, gate, cursor, began, clock, placed, due, crashes>>

\* The process dies when the broker has written that n is completed and has
\* not yet reported it.
DieCompleting(n) ==
    /\ cursor = 0 /\ sent[n].stage = "open"
    /\ Restart(book, [sent EXCEPT ![n].stage = "completed"])
    /\ UNCHANGED <<placed, due>>

-----------------------------------------------------------------------------
Tick ==
    /\ clock < MaxTime
    /\ clock' = clock + 1
    /\ UNCHANGED <<book, pending, gate, cursor, began, placed, due, sent, crashes>>

Crash == Restart(book, sent) /\ UNCHANGED <<placed, due>>

Process == BeginPass \/ Postpone \/ HandOver \/ EndPass

Next ==
    \/ \E g \in Trades : PlaceTrade(g) \/ DiePlacingTrade(g)
    \/ Process \/ HandOverFails \/ DieHandingOver
    \/ \E n \in DOMAIN sent : OrderProgress(n) \/ OrderCompleted(n) \/ DieCompleting(n)
    \/ Tick \/ Crash

Spec == Init /\ [][Next]_vars

\* The main loop keeps calling processTrades and time passes.
FairSpec == Spec /\ WF_vars(Process) /\ WF_vars(Tick)
-----------------------------------------------------------------------------
(* What the trader promises *)

TypeOK ==
    /\ book \in Seq(TradeInfo) /\ pending \in Seq(TradeOrder)
    /\ gate \in Nat /\ cursor \in 0..(Len(pending) + 1)
    /\ began \in 0..MaxTime /\ clock \in 1..MaxTime
    /\ placed \subseteq Trades /\ due \in [Trades -> Nat]
    /\ sent \in Seq(SentOrder) /\ crashes \in 0..MaxCrashes

\* The gate hides no order that is due: between two calls of processTrades it is not
\* later than the time of any pending order.  But an order below the minimum that
\* was overdue in the last pass makes it skip over the times before it (the test of
\* m_nextScheduleTime against now); even then the gate hides an order that is worth
\* the minimum no longer than until the next scheduled time.
NoOversleep ==
    cursor = 0 => \A i \in DOMAIN pending :
        /\ pending[i].amount >= Minimum => gate <= ScheduleTime(pending[i].timeToExecute)
        /\ \/ gate <= pending[i].timeToExecute
           \/ \E j \in DOMAIN pending :
                pending[j].amount < Minimum /\ pending[j].timeToExecute < began

\* However it was bundled or bundled again, a trade is not handed to the broker
\* before the time it asked for, nor in an order below the minimum.
NotEarly ==
    \A n \in DOMAIN sent :
        sent[n].amount >= Minimum /\ \A g \in sent[n].parts : due[g] < sent[n].time

\* As long as the process lives, each trade placed is in exactly one order that is
\* pending or that the broker took: bundling and failed placements lose none.
InOneOrder ==
    crashes = 0 => \A g \in placed :
        Cardinality({i \in DOMAIN pending : g \in pending[i].parts})
            + Cardinality({n \in DOMAIN sent : g \in sent[n].parts /\ sent[n].stage # "idle"}) = 1

\* A trade that alone is worth the minimum is handed to the broker, if the clock
\* still runs when it is due and the process does not die, which lets it wait for
\* another scheduled time.
HandedOver ==
    \A g \in Trades :
        g \in placed /\ Amount[g] >= Minimum /\ due[g] + Period + (IF Kind[g] = "now" THEN Near ELSE 0) <= MaxTime
            ~> \/ \E n \in DOMAIN sent : g \in sent[n].parts
               \/ Len(sent) = MaxSent
               \/ crashes > 0
=============================================================================
