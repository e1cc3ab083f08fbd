------------------------------ MODULE Earnings ------------------------------
(***************************************************************************)
(* Income: from the wallet daemon to the earning book and the trader.      *)
(*                                                                         *)
(* Checking a wallet's balance asks its daemon for the latest transactions *)
(* (CWalletBitcoinBase::getAddressBalance) and posts the new ones to every *)
(* connection that subscribed to the wallet; a connection writes an income *)
(* to the earning book, adds it to the total and trades part of it         *)
(* (CConnection::onTransaction, tradeIncome).  Connections subscribe when  *)
(* their settings are loaded and never revoke, whatever becomes of them.   *)
(*                                                                         *)
(* The daemon and its wallet are outside: they receive transactions at any *)
(* time, also while the program is down.                                   *)
(***************************************************************************)
EXTENDS Integers, Sequences, FiniteSets, FiniteSetsExt

CONSTANTS
    Wallets,
    Connections,  \* CConnection objects
    Listed,       \* the connections of the config at first
    WalletOf,     \* the wallet a connection is made with
    Moves,        \* the wallets a connection may be moved to
    HasTrade,     \* the connections that trade their income
    Shown,        \* transactions listtransactions returns (the daemon's default)
    Outputs,      \* entries of one transaction: a daemon lists one for every output
    MaxTime,      \* bound: seconds
    MaxEntries,   \* bound: entries of all wallets
    MaxEdits,     \* bound: additions, edits and deletions of connections
    MaxRestarts   \* bound: times the program ends and is started again

ASSUME ConstantsOK ==
    /\ Listed \subseteq Connections
    /\ WalletOf \in [Connections -> Wallets]
    /\ Moves \subseteq Wallets
    /\ HasTrade \subseteq Connections
    /\ Shown \in Nat \ {0}
    /\ Outputs \in Nat \ {0}
    /\ MaxTime \in Nat \ {0}
    /\ {MaxEntries, MaxEdits, MaxRestarts} \subseteq Nat

VARIABLES
    clock,     \* seconds; the first one is 1
    ledger,    \* the entries of all wallets, kept by their daemons
    list,      \* the connections of the list, on screen and in the config
    wallet,    \* the wallet in the settings of every connection
    subs,      \* m_subscribers of every wallet
    seen,      \* m_initialTxTime of every wallet
    todo,      \* what PostTransaction has yet to tell: an entry and a subscriber
    book,      \* the earning book
    counted,   \* how often an entry of a transaction was added to totalIncome
    trades,    \* trades placed with the trader
    started,   \* how many entries there were at the first check that saw one
    checked,   \* how many there were at the first and at the last check
    posted,    \* entries that were posted to the subscribers in any session
    edits,
    restarts

vars == <<clock, ledger, list, wallet, subs, seen, todo, book, counted, trades, started,
          checked, posted, edits, restarts>>

Ids == 1..MaxEntries
Entry == [id: Ids, tx: Ids, wallet: Wallets, at: 1..MaxTime, income: BOOLEAN]

Of(w) == {e \in ledger : e.wallet = w}

\* A slip: the first second that is new, not the last that was seen.
LatestNext(entries) == Max({0} \cup {e.at + 1 : e \in entries})

\* A slip: the time of the check, not of what it saw.
LatestNow(entries) == IF entries = {} THEN 0 ELSE clock

Latest(entries) == Max({0} \cup {e.at : e \in entries})

\* The subscriptions after loading a config with the connections l.
Subscribed(l, of) == [w \in Wallets |-> {c \in l : of[c] = w}]

Init ==
    /\ clock = 1
    /\ ledger = {}
    /\ list = Listed
    /\ wallet = WalletOf
    /\ subs = Subscribed(list, wallet)
    /\ seen = [w \in Wallets |-> 0]
    /\ todo = {}
    /\ book = <<>>
    /\ counted = [tx \in Ids |-> 0]
    /\ trades = <<>>
    /\ started = [w \in Wallets |-> -1]
    /\ checked = [w \in Wallets |-> <<>>]
    /\ posted = {}
    /\ edits = 0
    /\ restarts = 0

(***************************************************************************)
(* The daemon                                                              *)
(***************************************************************************)

Inside == UNCHANGED <<list, wallet, subs, seen, todo, book, counted, trades, started,
                      checked, posted, edits, restarts>>

Tick ==
    /\ clock < MaxTime
    /\ clock' = clock + 1
    /\ UNCHANGED ledger
    /\ Inside

\* A transaction of n entries reaches wallet w: income, or (one entry) an expense.
Receive(w, n, income) ==
    LET tx == Cardinality(ledger) + 1
    IN  /\ Cardinality(ledger) + n <= MaxEntries
        /\ n > 1 => income
        /\ ledger' = ledger \cup
              {[id |-> i, tx |-> tx, wallet |-> w, at |-> clock, income |-> income] :
                   i \in tx..tx + n - 1}
        /\ UNCHANGED clock
        /\ Inside

(***************************************************************************)
(* getAddressBalance                                                       *)
(***************************************************************************)

\* What listtransactions returns: the latest entries of the wallet.
Listing(w) ==
    {e \in Of(w) : Cardinality({f \in Of(w) : f.id > e.id}) < Shown}

\* The entries to post; none at the first check that sees a transaction.
New(w, entries) ==
    IF seen[w] = 0 THEN {} ELSE {e \in entries : e.at > seen[w]}

Poll(w) ==
    LET shown == Listing(w)
        count == Cardinality(ledger)
    IN  /\ todo = {}
        /\ seen' = [seen EXCEPT ![w] = Max({@, Latest(shown)})]
        /\ todo' = New(w, shown) \X subs[w]
        /\ checked' = [checked EXCEPT ![w] = IF @ = <<>> THEN <<count, count>>
                                             ELSE <<@[1], count>>]
        /\ started' = [started EXCEPT ![w] = IF @ < 0 /\ shown # {} THEN count ELSE @]
        /\ posted' = posted \cup {e.id : e \in New(w, shown)}
        /\ UNCHANGED <<clock, ledger, list, wallet, subs, book, counted, trades,
                       edits, restarts>>

(***************************************************************************)
(* onTransaction.  An income whose transaction is in the book fails the    *)
(* assertion and aborts the program.  What it writes for another one, in   *)
(* this order: the earning; the total; the trade; the earning again, with  *)
(* the time the trade was placed.                                          *)
(***************************************************************************)

Booked(tx) == \E i \in DOMAIN book : book[i].tx = tx

\* A slip: a build without assertions goes on with a transaction it has booked.
AgainUnasserted(e) == FALSE

\* assert( false ): should not happen.
Again(e) == e.income /\ Booked(e.tx)

Added(e) ==
    IF Booked(e.tx) THEN book ELSE Append(book, [tx |-> e.tx, placed |-> FALSE])

Trade(c, e) == [tx |-> e.tx, by |-> c]

\* A slip: the trade is placed before the earning is written.
WrittenTradeFirst(e, c, n) ==
    LET trading == e.income /\ c \in HasTrade
        earning == IF e.income /\ n >= 2 THEN Added(e) ELSE book
    IN  /\ trades' = IF trading /\ n >= 1 THEN Append(trades, Trade(c, e)) ELSE trades
        /\ book' = IF trading /\ n >= 4
                   THEN Append(earning, [tx |-> e.tx, placed |-> TRUE]) ELSE earning
        /\ counted' = IF e.income /\ n >= 3 THEN [counted EXCEPT ![e.tx] = @ + 1]
                      ELSE counted

\* The first n of the writes of connection c for entry e.
Written(e, c, n) ==
    LET trading == e.income /\ c \in HasTrade
        earning == IF e.income /\ n >= 1 THEN Added(e) ELSE book
    IN  /\ counted' = IF e.income /\ n >= 2 THEN [counted EXCEPT ![e.tx] = @ + 1]
                      ELSE counted
        /\ trades' = IF trading /\ n >= 3 THEN Append(trades, Trade(c, e)) ELSE trades
        /\ book' = IF trading /\ n >= 4
                   THEN Append(earning, [tx |-> e.tx, placed |-> TRUE]) ELSE earning

\* Entries are posted in the order of the listing, each to every subscriber.
First(p) == p \in todo /\ \A q \in todo : p[1].id <= q[1].id

\* The trader takes the trade (n = 4) or refuses it (n = 2).
OnTransaction(e, c, n) ==
    /\ First(<<e, c>>)
    /\ ~Again(e)
    /\ Written(e, c, n)
    /\ todo' = todo \ {<<e, c>>}
    /\ UNCHANGED <<clock, ledger, list, wallet, subs, seen, started, checked, posted,
                    edits, restarts>>

(***************************************************************************)
(* Connections come, change and go; nothing revokes a subscription         *)
(***************************************************************************)

Edited ==
    /\ todo = {}
    /\ edits < MaxEdits
    /\ edits' = edits + 1
    /\ UNCHANGED <<clock, ledger, seen, todo, book, counted, trades, started, checked,
                    posted, restarts>>

\* An object nothing refers to.
Unused(c) == c \notin list /\ \A w \in Wallets : c \notin subs[w]

AddConnection(c) ==
    /\ Edited
    /\ Unused(c)
    /\ list' = list \cup {c}
    /\ wallet' = [wallet EXCEPT ![c] = WalletOf[c]]
    /\ subs' = [subs EXCEPT ![WalletOf[c]] = @ \cup {c}]

EditConnection(c, w) ==
    /\ Edited
    /\ c \in list
    /\ wallet' = [wallet EXCEPT ![c] = w]
    /\ subs' = [subs EXCEPT ![w] = @ \cup {c}]
    /\ UNCHANGED list

DeleteConnection(c) ==
    /\ Edited
    /\ c \in list
    /\ list' = list \ {c}
    /\ UNCHANGED <<wallet, subs>>

(***************************************************************************)
(* The program ends, at any time, and is started again: the book, its      *)
(* header with the total and the trades are on disk                        *)
(***************************************************************************)

Restarted ==
    /\ restarts < MaxRestarts
    /\ restarts' = restarts + 1
    /\ subs' = Subscribed(list, wallet)
    /\ seen' = [w \in Wallets |-> 0]
    /\ todo' = {}
    /\ started' = [w \in Wallets |-> -1]
    /\ checked' = [w \in Wallets |-> <<>>]
    /\ UNCHANGED <<clock, ledger, list, wallet, posted, edits>>

Restart ==
    /\ Restarted
    /\ UNCHANGED <<book, counted, trades>>

\* The process dies after the first n writes of onTransaction.
DieOnTransaction(e, c, n) ==
    /\ First(<<e, c>>)
    /\ ~Again(e)
    /\ Restarted
    /\ Written(e, c, n)

\* The assertion fails; nobody after this connection, and no later entry, is told.
Abort(e, c) ==
    /\ First(<<e, c>>)
    /\ Again(e)
    /\ Restart

Next ==
    \/ Tick
    \/ \E w \in Wallets, income \in BOOLEAN, n \in 1..Outputs : Receive(w, n, income)
    \/ \E w \in Wallets : Poll(w)
    \/ \E p \in todo : \E n \in {2, 4} : OnTransaction(p[1], p[2], n)
    \/ \E c \in Connections : AddConnection(c) \/ DeleteConnection(c)
    \/ \E c \in Connections, w \in Moves : EditConnection(c, w)
    \/ \E p \in todo : \E n \in 1..3 : DieOnTransaction(p[1], p[2], n)
    \/ \E p \in todo : Abort(p[1], p[2])
    \/ Restart

Spec == Init /\ [][Next]_vars

(***************************************************************************)
(* Properties                                                              *)
(***************************************************************************)

TypeOK ==
    /\ clock \in 1..MaxTime
    /\ ledger \subseteq Entry
    /\ list \subseteq Connections
    /\ wallet \in [Connections -> Wallets]
    /\ subs \in [Wallets -> SUBSET Connections]
    /\ seen \in [Wallets -> 0..MaxTime]
    /\ todo \subseteq ledger \X Connections
    /\ book \in Seq([tx: Ids, placed: BOOLEAN])
    /\ counted \in [Ids -> Nat]
    /\ trades \in Seq([tx: Ids, by: Connections])
    /\ started \in [Wallets -> -1..MaxEntries]
    /\ checked \in [Wallets -> {<<>>} \cup (0..MaxEntries) \X (0..MaxEntries)]
    /\ posted \subseteq Ids
    /\ edits \in 0..MaxEdits
    /\ restarts \in 0..MaxRestarts

\* A trade can be traced to the income it trades: whenever the process dies, an earning
\* with the transaction of every trade is in the book, and the record of a placed
\* trade comes after the record of its income.
TradeBacked ==
    /\ \A k \in DOMAIN trades : Booked(trades[k].tx)
    /\ \A i \in DOMAIN book : book[i].placed =>
          \E j \in 1..i - 1 : ~book[j].placed /\ book[j].tx = book[i].tx

\* However many connections are told of a transaction, however many entries it has, and
\* however often the program ends, the earning book has one earning of it that is not
\* about its trade, and over all connections one entry of it is added to the total once
\* and traded once: onTransaction looks for its id before it writes, and its assertion
\* ends the program when it finds it.
CountedOnce ==
    /\ \A i, j \in DOMAIN book :
          ~book[i].placed /\ ~book[j].placed /\ book[i].tx = book[j].tx => i = j
    /\ \A tx \in Ids : counted[tx] <= 1
    /\ \A k, l \in DOMAIN trades : trades[k].tx = trades[l].tx => k = l

\* What connections.cpp:655 and the assertion at :665 say: the transaction of an income
\* a connection is told of is never in the book already ("should not happen").
NotInBookYet == \A p \in todo : First(p) => ~Again(p[1])

\* An income that arrived between the first check that saw a transaction and the last
\* one of a session was posted to the connections, unless it came in the same second as
\* one that was seen before it, or more came after it than the daemon lists.
Missed(w) ==
    {e \in Of(w) : e.income /\ e.id > started[w] /\ e.id <= checked[w][2]
                    /\ e.id \notin posted}

MissedForAReason ==
    \A w \in Wallets :
        started[w] >= 0 =>
            \A e \in Missed(w) :
               \/ \E f \in Of(w) : f.id < e.id /\ f.at = e.at
               \/ Cardinality({f \in Of(w) : f.id > e.id /\ f.id <= checked[w][2]}) >= Shown
================================================================================
