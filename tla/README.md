# A verification of solominer2

solominer2 mines coins solo, books what it earns and trades part of it. Income
that reaches a wallet becomes a *trade*, trades are bundled into *orders*, and an
order is taken to a market: the coin is deposited, exchanged, and the proceeds are
withdrawn. Money moves without anyone looking, over hours or days, in a program
that is closed every evening and may die at any time. This directory holds TLA+
models of that machinery, the instances TLC checks and the proofs TLAPS checks.

Paths below are relative to `src/src/` unless they start with `depends/`.

1. [The system](#1-the-system)
2. [Modules and their relation to the code](#2-modules-and-their-relation-to-the-code)
3. [What is checked](#3-what-is-checked)
4. [What is proved](#4-what-is-proved)
5. [Where the code and its comments disagree](#5-where-the-code-and-its-comments-disagree)
6. [What is not modelled](#6-what-is-not-modelled)
7. [Plan](#7-plan)
8. [Running it](#8-running-it)

## 1. The system

Everything but the miner threads runs in one thread. `mainAppLoop`
(`solominer.cpp:483`) handles GUI events, then calls `updateConnections`,
`CTrader::processTrades` and `CBroker::processOrders`, and sleeps 10 ms. Every
handler runs to its end. A modal dialog (the wizard) stays open over many rounds of the
loop, so `updateConnections` runs while it is open. At this commit `main` returns
after `test::test_trade()` (`solominer.cpp:536`), so the loop is reached only in a
build without that call; the models are of the loop.

### How the components interact

    wallet daemon --incoming transaction--> CWallet --event--> CConnection::onTransaction
    CConnection --earning--> earning book,   --trade--> CTrader::placeTrade
    CTrader --trade--> trade book,           --order--> CBroker::placeOrder
    CBroker --order--> order book,  --sendToAddress--> wallet,  --orders, withdrawals--> market
    CBroker --broker event--> CTrader::onOrderUpdate --trade--> trade book
    dashboard, wizard --> CConnectionList --> config file,   CConnection --> CMiner (thread)
    CMiner thread --listener callbacks--> CConnection

### Inventory

| component | source | state it keeps | operations |
|---|---|---|---|
| broker | `markets/broker.*` | order book (file), list of open orders | `makeOrder`, `placeOrder`, `processOrders`, `Start` |
| trader | `markets/trader.*` | trade book (file), pending orders, `m_nextScheduleTime` | `makeTrade`, `placeTrade`, `processTrades`, `onOrderUpdate`, `Start` |
| book file | `common/book.*` | paged file, cache of entries, cache of page headers | `Open`, `addEntry`, `updateEntry`, `getEntry`, `findEntry` |
| connections and their config | `connections.*` | list of `CConnection` by key, edit flags, the section in memory and on disk | load, save, add, edit, delete, `Start`, `Stop`, `updateConnections` |
| dashboard and wizard | `gui/ui-dashboard.*`, `gui/ui-wizard.*` | controls with an index in their commands, the settings under edit | add, edit, delete, start, stop, auto |
| config file | `depends/tiny/x-app/app-config.*` | sections and segments of the file | read, set, remove, commit |
| miners | `miners/miners.*` | thread, registered application, work state | `Start`, `Stop`, strategy callbacks |
| earnings | `connections.cpp` (`onTransaction`), `gui/ui-earnings.*` | earning book, its sums | account an income, trade it |
| wallets and coins | `wallets/*`, `coins/bitcoin-core.*` | last transaction time, balances, addresses | poll, `sendToAddress`, `getTransactions` |
| core daemons | `coins/cores.*`, `coins/*/*-core.cpp` | service state, process handle, start time | connect, start, retry, stop |
| markets | `markets/markets.*`, `markets/xeggex/*` | credentials, caches of replies | pairs, balance, order, deposit, withdrawal |
| service cache and quota | `common/service.*`, `common/http.*` | times of the last requests, cached replies | `canRequest`, `accountRequest`, `Tidy`, GET/POST |
| main loop and start-up | `solominer.*`, `common/option.cpp` | options | start the services, loop, clean up |
| pools and chains | `pools/*`, `chains/*` | registries and cached statistics | look-ups |
| other windows and theme | `gui/*` | layout, statistics | display |
| password encryption | `algo/crypth.*` | none | encrypt, decrypt |
| vendored libraries | `depends/*`, `depends/xmrig-solo` | | |

### What is hard, and what makes each component correct

**Broker.** Commands to a wallet and a market cannot be undone and their answers can
be lost; the order is written to the book after the command, so a crash in between
loses the knowledge of it. Orders of several clients share one market account.
Correct when the outside sees the operations of an order in their order, each given
again only when its answer was lost, when the book never claims what did not happen,
and when every order ends.

**Trader.** A trade goes through two books (its own and the broker's) and a list in
memory that is rebuilt at start; a gate saves work by not looking before a time.
Correct when each trade is in exactly one order, is never handed over early or below
the minimum, is not slept over, and knows its order.

**Book file.** An entry is found by walking pages from the nearest one that is known,
in either direction; several writes make up one addition. Correct when a reader sees
a list that grows at its end and changes only where it is updated, in this session
and the next.

**Connections, dashboard, config.** Keys in the list, keys in the config file, indexes
in objects and indexes written into the commands of buttons must agree after every
addition and deletion; settings may be edited while the miner runs or starts. Correct
when the file restores the list, when what mines can be stopped, and when a button
acts on its own connection.

**Miners.** The thread registers an application that is a local of the thread, `Stop`
looks it up from the main thread, waits for the thread and deletes the object; all
miners share one event loop with one stop flag. Correct when no application is called
that is not there, `Stop` comes back, and a deleted miner leaves nothing behind.

**Earnings.** A daemon lists its latest transactions; the wallet tells what is newer
than the last one it saw to every connection that ever subscribed. Correct when a
transaction is in the earning book once, a trade can be traced to it, it is counted and
traded once whoever is told of it, and it is missed only for reasons that can be named.

**Core daemons.** A daemon is a process of its own that is slow to come up and outlives
the program; the user, a timer and the configuration all ask for it. Correct when one
program launches it once, and everybody sees the core in the same state.

**Quota and cache.** A quota is counted when an answer comes, and read before the request
is sent; answers are kept in memory and in a file that is overwritten piece by piece.
Correct when the limit holds in every interval, what is answered is fresh, and a restart
does not spend requests on what is known. The code keeps the limit of the requests it
accounts, which are those whose answer was received; a request that fails is not one of
them (see 5).

`PROJECT.json` lists the hazards one by one, each at its line and with the properties
that would catch it.

## 2. Modules and their relation to the code

| module | what it is |
|---|---|
| `Broker` | the order pipeline of `CBroker`, with the wallet and the market outside |
| `Settlement` | what wallet and market may see; `Broker` implements it |
| `BrokerProofs` | theorems about `Broker` |
| `Trader` | `CTrader`, with the broker outside |
| `TraderProofs` | theorems about `Trader` |
| `Book` | the book file, write by write |
| `Ledger` | what a book promises: a list; `Book` implements it |
| `BookProofs` | theorems about `Book` |
| `Connections` | the list of connections, its config section, the dashboard and the wizard |
| `ConnectionsProofs` | theorems about `Connections` |
| `Earnings` | wallets, subscriptions, `onTransaction`, the earning book and `tradeIncome`, write by write |
| `EarningsProofs` | theorems about `Earnings` |
| `Miner` | starting and stopping miners: main thread, miner threads, event loop, panel |
| `MinerProofs` | theorems about `Miner` |
| `CoreService` | the cores, their daemons, wallets and panels |
| `CoreProofs` | theorems about `CoreService` |
| `Http` | one connection to a web service, with its cache, its file and its quota |
| `HttpProofs` | theorems about `Http` |
| `MC...` | the constants of the instances |

A step of a module is one handler, or one iteration of a loop where the program may
die between two iterations. Some definitions are marked "slip": they are plausible
mistakes in the definition that follows them, kept to show that a property notices
them (`PROJECT.json`, `mutants`). No specification uses them.

The modules meet where one takes the other as its outside: `Earnings` ends where a
trade is placed, which `Trader` takes over; `Trader` has a broker that records orders
and reports on them, which is `Broker` seen from above; `Connections` has a miner that
runs or does not, which is `Miner` seen from the list; `CoreService` says when a wallet
answers, which `Earnings` leaves to chance.

### Broker

`book` is `m_orderBook`, entry id *i* being `book[i + 1]`; `open` is `m_openOrders`;
`todo` is the part of `open` that the `processOrders` in progress has yet to visit.
`known` is what `g_walletForAddress` resolves: the map is filled by wallets that
have answered, so it is chosen anew in every session. The outside is `effects` (the
commands that took effect), `lost` (those whose answer never reached the book),
`credited`, `filled` and `balance`. What the account has at first is one of `Funds`.

* `PlaceOrder` is `makeOrder` and `placeOrder`: the record is appended, the id that
  `addEntry` returns is dropped (`sequence` stays 0), and the order is opened if
  `addOpenOrder` admits it. A record is left in the book when it does not.
* `BeginPass` and the actions in `ProcessOrder` are the loop of `processOrders`; each
  visits one order and is one run through check, execute, verify and confirm of its
  current operation, as far as it flows in one call. `Return` is the tail of the loop
  body: the write when the result is `IOK`, and removal of a completed order.
* A command has one of three outcomes (`Answered`, `Unanswered`): it took effect and
  the answer came back; it had no effect; it took effect and the caller got an error
  or died before `updateOrder`.
* `Restart` is death followed by `Start`: what the book says is not completed and
  `addOpenOrder` admits is opened, under the id it is read from.

`BrokerOp::status` keeps the four values that are ever assigned. `cancelOrder` is a
stub. `confirmWithdraw` cannot be reached (see 5). Amounts are in units of one order;
`amount` of a withdrawal keeps its two meanings, a percentage and then an amount.

### Trader

`book` is `m_tradeBook`, `pending` is `m_pendingOrders`, `gate` is
`m_nextScheduleTime`; `cursor` and `began` are the iterator and `now` of the
`processTrades` in progress, `clock` is `Now()`. `sent` is the broker's side: the
orders it has recorded and whether it processes them. `due` remembers what a trade
asked for, and `parts` in an order which trades its amount is made of; the code has
neither, they only serve to say what is right.

* `PlaceTrade` writes three times, as the code does: the new entry, then
  `addTradeToOrders` with the caller's trade (whose sequence is 0), then the entry.
  `DiePlacingTrade` dies between two of them.
* `BeginPass`, `Postpone`, `HandOver`, `HandOverFails`, `EndPass` are the loop of
  `processTrades`; `DieHandingOver` dies after the broker has the order and some
  trades are written.
* `OrderProgress` and `OrderCompleted` are `onOrderUpdate`; `DieCompleting` dies when
  the broker has written the order as completed and before it tells the trader.
* `Restart` is `Start`: trades not yet placed are bundled again, newest first. The
  broker may reopen any of its orders (the wallet may be unknown).

### Book

`pages` is the file's pages that are whole, `tail` what an unfinished page left
after them, `saved` the book header on disk; `header`, `known` and `cache` are
`bookHeader`, `pageHeaders` and `m_cache`. `adding` is the `addEntry` in progress:
its seven writes are one action each, from `WritePageHeader` to `WriteEntry`. A
seek flushes the write before it, so a process that dies leaves a prefix of them.
`cut` is history: how many deaths fell between two of these writes.

After a death that leaves a page unfinished, operations go on as long as they search from
the front or from a page that is remembered; `GoAstray` is the first one that looks for
the last page from the end of the file (every `addEntry` does). It takes the last bytes
of the unfinished page for a footer, and what follows depends on bytes: the model
ends there (`tail` is `astray`).

`Closest`, `PageStart`, `FoundAt` and `Visited` are `findPageStart` and `findPage`: the
choice of the page to start from, the walk and the headers it remembers.

### Connections

`list` is `m_connections` (the object of every key), `conn` the state of each
`CConnection`: its index, its edit flag, its miner as the connection sees it
(`none`, `idle` when the thread did not start, `mining`) and four of its settings: host,
percentage to trade, auto flag and started flag. `section` and `file` are the config
section in memory and on disk, a map from ids to texts; `Text` leaves out a member
that is empty, as `toManifest` does, and `Applied` leaves alone a member the text
does not have, as `fromManifest` does. `controls` are the dashboard's, each with the
index it was built with. `wizard` holds the copy of the settings under edit.

* `AddConnection`, `OpenWizard`, `CancelWizard`, `EditConnection`, `DeleteConnection`
  are the dashboard's handlers up to the `saveConfig` they end with; `DeleteConnection`
  moves every later connection down (`MovedDown`).
* `StartMining`, `StopMining`, `ToggleAuto` are the commands of a control.
* `UpdateConnections` is the automatic selection, when another connection earns more
  by over 2%; which one earns most is chosen freely. It may happen while the wizard is
  open.
* `Exit` and `Crash` end the program, with and without `cleanupConnections`, and load
  the file again.

### Earnings

`ledger` is what the daemons know: entries with their wallet, second and direction; a
transaction of several outputs is several entries. `subs` is `m_subscribers` of each
wallet, `seen` its `m_initialTxTime`; `todo` is what the `PostTransaction` in progress
has yet to tell, so that a death between two tells is a step. `book` is the earning
book: the transaction of an earning and whether it is the first record or the one written
after the trade. `counted` and `trades` are what the header and the trader hold.
`started`, `checked` and `posted` are not in the code: they remember what the session had
the chance to see, for `MissedForAReason`.

* `Tick` and `Receive` are the daemon's, also while the program is down.
* `Poll` is `getAddressBalance`: the first check that sees a transaction only remembers
  the latest time, later ones post what is newer than the last (`New`), of the entries
  the daemon lists (`Listing`).
* `OnTransaction` is `onTransaction` and `tradeIncome`: earning, total, trade, earning
  again. `DieOnTransaction` dies after the first *n* of these writes. `Abort` is the
  assertion at `connections.cpp:665`: the transaction of the income is in the book
  (`Again`). The documented build (`cmake ..`) sets no build type and nothing defines
  `NDEBUG`, so it ends the program there.
* `AddConnection`, `EditConnection`, `DeleteConnection` subscribe and never revoke.
* `Restart`: the connections of the list subscribe again, nothing has been seen.

### Miner

`miner` is `m_miner` of a connection (a number, 0 for none), `started` and `command`
the flag and the button of its panel; `thread` is where a miner's thread is (`begin`,
`registered`, `loop`, `left`, `ended`), `registered` and `running` the members of its
`m_app`, `stopFlag` the one of the default event loop of libuv. `main` is what the main
thread does: `CallStop`, `Wait` and `Delete` are the three parts of `CMinerXmrig::Stop`
and `destroyMiner`, between which the threads go on.

* `ClickStart`, `ClickStop` are the button; `Select` is `updateConnections`, which stops
  all that is started one after the other, sleeps (`Resting`) and starts the best
  (`StartBest`).
* `Register`, `ExecFails`, `EnterLoop`, `Report`, `LeaveLoop`, `End` are the thread:
  `AppExec`, the application's `Exec` and the strategy callbacks.

A call of what is not there, and a step of a thread without its object, are undefined:
the model raises `crashed` and stops. `odd` notes the two ways there: two miners started
by hand (`two`), and automatic selection stopping a miner that has not reported yet
(`early`). The properties are about the histories without them (`Regular`); these are the
two hazards that the code has and the panel does not prevent (see 5).

### CoreService

`state` is `m_state` of a core, `follows` that of its wallet and chain, `services`
the list of running services, `params` whether the core has its section of the
configuration, `handle` whether `m_hprocess` is valid. `waiting` stands for
`m_startTime + m_startTimeout`, which has passed or not (`Timeout`). `daemon` is the
process: `down`, `coming`, `up`, `stopping`; it survives the program and may be started
by somebody else. `launched` counts the processes of this run of the program.

* `StartCore` is `initServices`; `LoadConnections` lets every connection find its wallet,
  `Edit` gives it another coin.
* `Start`, `Retry`, `Stop` are the service's; `ClickStart`, `ClickStop` and
  `RetryTimer` choose among them by the state of the *wallet*, as the panel does.
* `ConnectAndStartDaemon` asks the daemon, waits while the time it was given has not
  passed, or goes on to `Launch`; there the fork may fail or the daemon may answer at once.

### Http

`cache` and `disk` are `m_cache` and its file; `times` and `requests` are `m_times`
and `m_requests`; `log` numbers every request that was accounted, which the code forgets.
`since` has the times at which the contents of a key changed, so that freshness can
be said of the world and not of a time stamp. `pending` is the one request under way
(sending is synchronous), `answer` what the caller got in the last step.

* `GetCached`, `Refuse` and `Ask` are `Send` up to the request (`canRequest`,
  `getCached`, with the erasure of stale entries); `Serve` is the service reading
  a content, `Fail`, `Reject` and `Accept` the end of the request: `accountRequest` with
  `Tidy`, then `adviseRequestValid` with `putCached` and `Save`.
* `Restart` ends regularly (the destructor saves) or dies; `DieSaving` dies while the file
  is overwritten, key by key: the key being written is empty or cut, later ones are gone.

## 3. What is checked

Every module has one type invariant, `TypeOK`, which some run checks; it is not
repeated below. Deadlock is not checked (`CHECK_DEADLOCK FALSE`) because the instances
really stop: an order that waits for a wallet nobody knows, a clock at its bound, a
book with all its entries. The program itself always has the main loop to go on with.

### Broker

| run | instance | properties |
|---|---|---|
| `broker_outside` | two orders that share a book and an account, empty at first or with the funds of one order: `a` deposits, `b` exchanges what the account holds, both withdraw; one crash, one lost answer per order and operation, a wallet that a session may know or not | `NoPhantom`, `ConvertedOnce`, `ImplementsSettlement` |
| `broker_once` | one order through its three operations, with and without funds of the account; two crashes, one lost answer per operation, a wallet that a session may know or not | `AtMostOnce`, `NoStepBack`, `CarriedOut` |
| `broker_withdraw` | one order, nothing fails | `Settles` is violated |

* `NoPhantom`: what a record claims, on disk or in memory, has happened outside.
* `ConvertedOnce`: the percentage to withdraw becomes an amount once.
* `ImplementsSettlement`: wallet and market see deposit, credit, exchange, fill and
  withdrawal of an order in this order, whatever crashes and lost answers there are.
* `AtMostOnce`: a command takes effect again only when an answer to it was lost.
* `NoStepBack`: no deposit after an exchange, no exchange after a withdrawal.
* `CarriedOut`: an order that was placed gets as far as its last command. Two things may
  hold it for good, and the property names both: the last session does not know the wallet
  the order deposits from (`LeftInBook`), or the account is empty because an exchange of
  the order took effect and the broker was not told, so that the market refuses every
  other (`SpentUnseen`).

Two orders are the least that can overwrite one another and spend one another's
balance; one crash and one lost answer per operation are enough to put a repeated
command next to every step of the other order. The second run trades the second
order for a second crash, so that a session that was itself restarted dies again.
`AtMostOnce` and `NoStepBack` are stated for a history that is `Undisturbed`: either the
process has not died, or only one order was ever placed. With two orders of one session
and a restart they do **not** hold: the second is written over the entry of the first
(see 5), so that one of them is lost and the other may be read back at an old stage, and
gives its command again. The run has one order, for which the condition is always true;
the theorems have any number. `CarriedOut` holds with one order only, since an order that
is lost is never carried out.

*Fairness* (`FairSpec`). The main loop keeps calling `processOrders` and a pass
visits every open order: weak fairness of `BeginPass` and of each order's step. A
wallet or market that is asked again and again answers in the end: strong fairness
of the five steps that need an answer, since the call is made and refused in turn.
The market settles what it has accepted: weak fairness of `Credit` and `Fill`. Nothing
is assumed of crashes, of clients, of an answer that is lost or of what the account holds:
both runs start with an empty account and with one that could pay for an exchange twice.

### Trader

| run | instance | properties |
|---|---|---|
| `trader_bundling` | three trades on one route: `a` the user's and below the minimum, `b` income worth the minimum, `c` income below it; three scheduled times, a broker that may fail after it recorded the order, one crash between any two writes | `NoOversleep`, `NotEarly`, `InOneOrder`, `HandedOver` |

* `NoOversleep`: between two passes the gate is not later than the time of any pending
  order, unless an order below the minimum was overdue when the last pass began; and it
  hides an order that is worth the minimum no longer than until the next scheduled time.
  The exception is the code's: the test of `m_nextScheduleTime` against `now`
  (`trader.cpp:407`) takes the next order's time whatever it is when the gate is in the
  past, which an overdue small order puts it (see 5).
* `NotEarly`: nothing is handed over before the time each of its trades asked for, nor
  below the minimum, also when it was bundled again after a crash.
* `InOneOrder`: while the process lives, a trade is in exactly one order, pending or
  taken. After a crash it may be in two (the hazard at `trader.cpp:635`).
* `HandedOver`: a trade worth the minimum is handed to the broker.

The period is 2 and "near" 1, so that a trade "now" falls both inside and outside the
time in which it may wait for the schedule, and the clock (6) passes three scheduled times:
an order below the minimum is overdue at one of them while an order worth it waits for the
next. Kinds and amounts differ because the three ways into an order (its own, joining,
bundled again) depend on them.

*Fairness*. The main loop keeps calling `processTrades` (weak fairness of `Process`)
and time passes (weak fairness of `Tick`). `HandedOver` is stated for trades that fall
due before the clock stops, and lets a death or the broker's last order (`MaxSent`)
excuse it: a death makes a trade wait for another scheduled time, beyond the clock. The
broker here fails only after it has recorded; while it refuses, the loop of
`processTrades` stays at the order and the main loop with it (`trader.cpp:401`).

### Book

| run | instance | properties |
|---|---|---|
| `book_pages` | up to five entries, two per page, two values, two deaths, between operations or between any two writes of `addEntry` | `Coherent`, `DamagePerDeath`, `ImplementsLedger` |

`Coherent` and `ImplementsLedger` speak of a book up to the first death that cuts an
addition short (`cut = 0`), and of any number of deaths between operations; afterwards they
do not hold. `DamagePerDeath` speaks of what is left then.

* `Coherent`: what a session sees under an id, the next session reads under it; from
  whichever page a search starts, forward or backward, it ends at the page wanted, and
  remembered places are right.
* `ImplementsLedger`: the book is a list; only its end grows, an update changes only
  the entry with its id.
* `DamagePerDeath`: the counts of the pages exceed the count of the book by one at most
  for every addition that was cut short, and one page at most for every such addition has
  room before the last one. This is claimed until an operation takes an unfinished page for
  the last one (`GoAstray`), and not of what that operation does: its writes go where
  leftover bytes point.

Three pages are the least at which a search can start from both ends and from a
remembered page in the middle; two entries per page have a page that is neither
empty nor full. The search is evaluated for *every* page in every state. Two deaths show
that the damage of one does not grow with the next, and that a session which was opened
after a death may die again; the theorems are for any number.

### Connections

| run | instance | properties |
|---|---|---|
| `connections_list` | two connections at first, three at most, three edits, one exit or crash, any of start, stop, auto, selection in between, wizard open or not | `IndexOfList`, `FileMatchesList`, `Stoppable`, `ButtonsNotBelow`, `SwitchLeavesOne` |

* `IndexOfList`: the index in an object is the key it is listed under.
* `FileMatchesList`: the file has an entry for every connection and no other, and a
  connection that neither mines nor has an edit pending can be restored from the entry
  under its *present* key. A deletion moves keys, and a mining connection is not saved, so
  this relates list, flags, memory and file.
* `Stoppable`: what mines can be stopped, although settings that were copied before
  the miner started may be confirmed while it runs.
* `ButtonsNotBelow`: the buttons of a control are about its connection or a later one,
  never an earlier one.
* `SwitchLeavesOne`: automatic selection never leaves two of the list mining.

Three connections have a first, a middle and a last one to delete; three edits delete
and add after a deletion. `TypeOK` here also says that no object is listed twice
and that the config's keys have no gap. The run stays below `Base`: ids are compared as
texts, so a list of ten connections is not read back whole (`connections.cpp:858`),
which `Readable` models and no run reaches.

### Earnings

| run | instance | properties |
|---|---|---|
| `earnings_income` | two connections, one listed at first, both made with wallet `u`, one edit, which may move a connection to `v`; three entries over three seconds in transactions of one or two, income or not; the daemon lists two; one end or death | `TradeBacked`, `CountedOnce`, `MissedForAReason` |
| `earnings_shared` | two connections that share a wallet, nothing dies | `NotInBookYet` is violated |

* `TradeBacked`: wherever the process dies, a trade has an earning of its transaction in
  the book, and the record about a trade comes after the one about its income.
* `CountedOnce`: one earning per transaction, however many connections are told and in
  whatever session; over all connections it is added to the total once and traded once.
  This is the assertion's doing: with `NDEBUG` (the slip `AgainUnasserted`, a mutant of the
  run) the second connection counts and trades it again. The price is an abort.
* `NotInBookYet`: what the assertion says.
* `MissedForAReason`: an income between the first check that saw a transaction and the
  last one was posted, unless it came in the same second as one before it, or more came
  after it than the daemon lists.

Three entries and a listing of two are the least at which one falls out of the
listing; two seconds after the first are needed for an entry that is new, one that is not
and one that shares its second. One restart separates two sessions, in which the same
entries are listed again.

### Miner

| run | instance | properties |
|---|---|---|
| `miner_stop` | two connections, both selected automatically, three miners made; threads that do not start, applications that end before their loop, clicks and selection at any time | `NoDeadCall`, `EndsIdle`, `StopFinds`, `StopReturns` |

* `NoDeadCall`: no application is called that is not there or has no loop; no thread goes
  on without its object. A miner is stopped twice, by the connection and by `destroyMiner`.
* `EndsIdle`: a deleted miner has no thread and is idle on its panel, and no stop flag is
  left for the loop of the next miner.
* `StopFinds`: a button that says Stop belongs to a miner in its loop.
* `StopReturns`: the main thread does not wait for ever.

Three miners are two that are exchanged and a third that would meet what they left. Only
histories that are `Regular` are meant; TLC also runs the others, up to the crash.

*Fairness*. The system runs every thread that can go on (weak fairness of the main
thread's steps in `Stop` and of each miner's thread), which includes that the loop sees
the stop flag once the events at hand are done. Nothing is assumed of clicks, reports
or selection.

### CoreService

| run | instance | properties |
|---|---|---|
| `core_retry` | two cores and a connection that moves between their coins; clicks, retries, timeouts, launches that fail, daemons that come up, lose their peers, end or are started from outside, restarts without bound | `OneState`, `OneLaunch`, `Reconnects` |
| `core_restart` | one core, one connection | `StartsDead` is violated |

* `OneState`: core, wallet, chain and the list of running services agree.
* `OneLaunch`: one run of the program launches a daemon once at most, and a core that is
  connecting has launched its own.
* `Reconnects`: a daemon that answers is connected to, while a panel shows its core and
  the core has its configuration.

The state space is finite without a bound on restarts: a session keeps nothing.
*Fairness*: the retry timer of a panel fires again and again (weak fairness of
`RetryTimer`). Nothing is assumed of the daemon or of the timeout: if the daemon ends
again the property does not ask for a connection.

### Http

| run | instance | properties |
|---|---|---|
| `http_quota` | a connection with or without a quota of two requests in two seconds, two keys, two contents each, validity and timeout of a second, four seconds, three answered requests per session, one end, death or death while saving | `RateLimited`, `FreshAnswer`, `CacheOnDisk`, `PiecePerDeath` |

* `RateLimited`: between an accounted request and the one `Limit` after it lies more than
  the interval. Accounted are requests whose answer was received, an error status included.
  A request that failed is not, though the service may have read it (see 5).
* `FreshAnswer`: while the quota allows requests, an answer is no older than validity and
  timeout together, and one that may not be cached no older than the timeout. (A spent
  quota makes the cache answer however old it is; that is what it is for.)
* `CacheOnDisk`: what would be answered from memory is on disk with its time.
* `PiecePerDeath`: a death while saving leaves one piece at most that `Load` takes for an
  answer.

Three requests are one more than the limit; four seconds let the first expire and the
third be sent. The same content may be answered before, at and after the end of its
validity, and change while a request is under way.

## 4. What is proved

Each `...Proofs` module proves an inductive invariant of its module's `Spec` and the
properties from it, for all values of the constants that satisfy `ConstantsOK` (the
types of the constants). In `Connections` these include that there are as many objects
as the list may hold and that a config file is not longer than the list. One assumption
goes beyond the types and is part of its theorem: ids below the base (`FileAgrees`). Every safety
property of the runs has a theorem, and so has every refinement.

| theorem | statement |
|---|---|
| `BrokerProofs!TypeCorrect` | `Spec => []TypeOK` |
| `BrokerProofs!EffectsAreReal` | `Spec => []NoPhantom` |
| `BrokerProofs!AmountConvertedOnce` | `Spec => []ConvertedOnce` |
| `BrokerProofs!BrokerImplementsSettlement` | `Spec => ImplementsSettlement` |
| `BrokerProofs!CommandsOnce` | `Spec => []AtMostOnce` |
| `BrokerProofs!OperationsInOrder` | `Spec => NoStepBack` |
| `TraderProofs!TypeCorrect` | `Spec => []TypeOK` |
| `TraderProofs!GateNotLate` | `Spec => []NoOversleep` |
| `TraderProofs!NoneEarly` | `Spec => []NotEarly` |
| `TraderProofs!EachInOneOrder` | `Spec => []InOneOrder` |
| `BookProofs!DamageBounded` | `Spec => []DamagePerDeath` |
| `BookProofs!TypeCorrect` | `Spec => []TypeOK` |
| `BookProofs!Coherence` | `Spec => []Coherent` |
| `BookProofs!Refines` | `Spec => ImplementsLedger` |
| `ConnectionsProofs!TypeCorrect` | `Spec => []TypeOK` |
| `ConnectionsProofs!IndexAgrees` | `Spec => []IndexOfList` |
| `ConnectionsProofs!FileAgrees` | `MaxListed < Base` gives `Spec => []FileMatchesList` |
| `ConnectionsProofs!MinersStoppable` | `Spec => []Stoppable` |
| `ConnectionsProofs!ButtonsAgree` | `Spec => []ButtonsNotBelow` |
| `ConnectionsProofs!SwitchStops` | `Spec => SwitchLeavesOne` |
| `EarningsProofs!TypeCorrect` | `Spec => []TypeOK` |
| `EarningsProofs!TradesAreBacked` | `Spec => []TradeBacked` |
| `EarningsProofs!IncomeCountsOnce` | `Spec => []CountedOnce` |
| `EarningsProofs!NothingElseIsMissed` | `Spec => []MissedForAReason` |
| `MinerProofs!TypeCorrect` | `Spec => []TypeOK` |
| `MinerProofs!NoCallOfTheDead` | `Spec => []NoDeadCall` |
| `MinerProofs!NothingLeft` | `Spec => []EndsIdle` |
| `MinerProofs!StopIsAnswered` | `Spec => []StopFinds` |
| `CoreProofs!TypeCorrect` | `Spec => []TypeOK` |
| `CoreProofs!StateIsOne` | `Spec => []OneState` |
| `CoreProofs!LaunchedOnce` | `Spec => []OneLaunch` |
| `HttpProofs!TypeCorrect` | `Spec => []TypeOK` |
| `HttpProofs!LimitIsKept` | `Spec => []RateLimited` |
| `HttpProofs!AnswersAreFresh` | `Spec => []FreshAnswer` |
| `HttpProofs!CacheIsOnDisk` | `Spec => []CacheOnDisk` |
| `HttpProofs!OnePiecePerDeath` | `Spec => []PiecePerDeath` |

*Broker.* `NoPhantom` is not inductive: that an exchange may be executed when
the record says "exchanging" needs to know that the deposit was credited, which only
earlier steps saw. `Inv` therefore says of **every record**, in the book or open
(`RecordOK`):

* `Progress`: the operations it has left behind have ended outside (deposit credited
  or not needed, exchange filled);
* `Asked`: the operations it carries out are those its order asked for;
* `Real` and `Amount`: the parts of `NoPhantom` and `ConvertedOnce` about one record;

and of every open order that its sequence number is an entry of the book. This is
enough although entries are overwritten by other orders and stale ones are read
back: `RecordOK` is about a record and the outside, never about which entry the record
is in or whether it is the newest, and the outside only grows (`Grows`, `RecordStays`).
So a restart (`RestartInv`) keeps it whatever the book looks like, and so does the tail
of the loop (`ReturnInv`), given that the new record is `RecordOK`. `StayInv`, `EndInv`
and `UnansweredInv` are the three ways a step can end; `DepositInv`, `ExchangeInv` and
`WithdrawInv` take each action through one of them. `SettlementStep` maps each step to
one of `Settlement` or to a stutter: a command takes effect only from an order in hand at
check or execute (`CountStep`), where `Progress` is what the guard of the abstract action
asks.

`AtMostOnce` and `NoStepBack` do depend on which entry a record is in. `OnceInv` adds, for
a history that is `Undisturbed`: an open order is the only one of its id, and it owes
only what it has not given (`Owed`): of the command it has still to give nothing took
effect but what was lost, and of the later ones nothing at all; and when one
order only was placed, every record of the book that is read back owes the same
(`BookAlone`). Each step then either gives no command (`QuietStep`), or one whose answer
is written before anything else is read (`AnsweredStep`), or one that is counted as lost.

*Trader.* `Bundled` and `Affected` are recursive functions over the orders and the
trades; `Recursion` shows that there is a function with such steps, and `Carried` that what
each step keeps holds of the result. Both are induction over the numbers,
by the least counterexample (`NatMin`, from the well-foundedness of `<`). `NoOversleep`
is about the moments between passes, while the gate is built up during one: `GateInPass`
says of the orders that the loop has behind it what `GateOK` says of all at the end, and
that the gate is the time of one of them. That the gate moves past an order is possible
only after one of them was overdue and below the minimum, so the reason is carried along.
`NotEarly` rests on `OrdersOK`: no trade of an order is due after it, through joining and
bundling again. `InOneOrder` follows from `OneOrder`, which says the same without counting.

*Book.* Two invariants. `FileInv` holds wherever the process dies, until an operation
goes astray on an unfinished page (`FileAstray`): the write that is
next says which header is ahead, the one in memory or the one on disk, and what room the
last page has (`Stage`). A page is begun only when the last one is full or the book had
none, so a page with room is left behind by a death alone; the sum of the counts
(`Held`, a recursive function, with `HeldSame`, `HeldChanged` and `HeldAppend` about
it) runs ahead of the book by what deaths in additions left (`cut`) and by one between the
two writes that count an entry. `SessionInv` holds until an addition is cut short
(`SessionNext`, `CutKept`) and is false afterwards: a page left with room makes the pages after it hold other ids than the search
expects, and a counted slot that was never written is read as blank. It says that the
pages are `Filled` one after the other, that what is remembered of places is right, and
what the cache has, with the entry that is being added apart (`CacheOK`). Then a search
ends at its page from wherever it starts (`Finds`: all pages on its way are full),
because the start is right (`ClosestIs`, `StartIs`), which for a search from the end
needs that nobody searches while a page is half written. An entry has one place
(`Quotient`, `PlaceIs`, `SamePlace`). For the refinement, what a session reads under an
id is `Value`: the entry being added if it is that one, what is stored otherwise
(`AgreeIs`); `UpdateView`, `AppendView` and `OtherView` map the steps. The ledger grows
at the write that counts the entry, and the write of the entry after it is a stutter,
since the cache has the value already.

*Connections.* `IInv` adds to the type, the indexes and the buttons what they rest on.
Deleting moves objects, keys and buttons in different ways: `IndexOfList` makes the
object under a key the one to move, and no object is listed twice, which `TypeOK` says.
`Stoppable` needs `MinerOK`: a connection whose miner runs is started and one whose thread
did not start is not. `FileMatchesList` needs `FileInv`: nothing is pending between memory
and disk, and the entry of a connection has the settings it has, or will have once it is
stopped, unless it is marked as edited. It is false once ids are skipped on
loading, hence `MaxListed < Base`; the other properties do not need that.

*Earnings.* That a transaction is not counted twice cannot be seen from the counts: it
rests on the book. What is counted is booked (`Once`) and so is what is traded
(`TradeBacked`), wherever the process died, because the earning is written first; a
connection that finds the transaction in the book gets no further than the assertion, so
whoever writes has a transaction that was neither counted nor traded (`WrittenOnce`).
`Told` says of every entry posted in *any* session that the present one has seen nothing
yet or has seen something at least as new: the first check of a session sees the newest
entry (`ListsNewest`). `Watched` adds what `MissedForAReason` needs: the latest entry seen is one
of the wallet that was there at the last check. An entry that is listed and not new is
then either older than that check, or newer and of the same second as that entry
(`PollMisses`). The maximum over a set of times is the library's `Max`, a `CHOOSE`, so
`NatMax` first shows that it exists.

*Miner.* In a regular history one thread is alive at a time (`OneAlive`): a miner is
started only when all others are stopped. A miner that has reported is in one of three
stages (`Stage`): it works in the loop and its button says Stop; the main thread has
told it and waits, with the stop flag raised or taken; or it has ended idle and is about
to be deleted, or is. The flag is raised only while the main thread waits for the miner
it told (`Flag`), which is why none is left.

*CoreService.* A handle is valid from the launch on and never given back (`Guarded`), so
a core without one has not launched. The same fact makes the daemon impossible to start
again (see 5).

*Http.* The limit, of accounted requests: `m_requests` is the number of requests `m_times` holds, and it holds
every request that had not expired when the last one was accounted (`Held`); the log is
ordered because the clock does not go back (`Ordered`). If a request came too early after
the `Limit`-th before it, all of those would be held and it would not have been let
through. Freshness: every entry, in memory and on disk, was the content of its key at
most one timeout before its time stamp. `PiecePerDeath` counts the keys whose entry is a
piece: each death while saving adds the key it was at, and loading and saving again copy
pieces but make none.

*Only model-checked.* The liveness properties `CarriedOut`, `HandedOver`, `StopReturns`
and `Reconnects`: they need fairness, hence `ENABLED`, which is out of the prover's reach.
The three violations of section 5 are counterexamples and not theorems.

## 5. Where the code and its comments disagree

Each of the first three is the subject of a run that finds the violation; the other two
are read in the code, and the models do what it does.

1. **`broker.cpp:877`, run `broker_withdraw`.** `verifyWithdraw` compares the status
   of the exchange (`Filled` by then) with `completed`: an order that withdraws never ends.
2. **`bitcoin-core.cpp:421`, run `core_restart`.** `StartDaemon` refuses "if process is
   still alive" by looking at a handle that nothing invalidates: a daemon that was stopped
   or has ended is never launched again by the same program.
3. **`connections.cpp:665`, run `earnings_shared`.** `onTransaction` looks the transaction
   up ("should not happen, making sure") and asserts that it is not in the book. Every
   connection of a wallet is told, so with two of them the second one fails the assertion
   at every income; one connection does at the second output of a transaction. The income
   of that output, and what was still to be told, is then in no book: the next session
   takes it for seen.
4. **`http.cpp:370`.** The quota is a "request limit per interval"
   (`service.h:148`), but a request that fails or times out returns before
   `accountRequest`: those the service has read without answering in time are not counted,
   and it can be asked any number of times within an interval (`Ask`, `Serve`, `Fail`).
5. **`book.cpp:204`.** "NB file is always written with complete pages"
   (`book.cpp:87`), which reading from the back relies on; a death in `addPage` leaves an
   unfinished one, nothing repairs it, and the next `addEntry` reads its end as a footer.
   After the body these are zeros, which name the book header as the last page; after
   the header alone, the end of the page header itself (`GoAstray`).

The models contain more of what looks unintended, where no comment or test says
otherwise; the properties are stated around it:

* `broker.cpp:369`: `placeOrder` does not keep the id that `addEntry` returns, so all
  orders of one session are written to entry 0. `trader.cpp:369` does the same with a
  trade: its order then marks entry 0.
* `trader.cpp:577`: a trade joins an order only if its time is *before* the order's;
  income of one period has the same time, so small incomes are not bundled.
* `trader.cpp:407`: `m_nextScheduleTime < now` was meant to recognise a gate that is
  not set; it also holds of one that an overdue order below the minimum set, and then the
  next order's later time replaces it, so that orders in between wait for one more
  scheduled time.
* `trader.cpp:472`: of a bundle, only the first trade follows the order's state.
* `book.cpp:520`: a death between page header and book header leaves the counts
  different for good.
* `ui-dashboard.cpp:155`: the buttons of a control keep the index of its construction;
  after a deletion they act on a later connection.
* `broker.cpp:808`: when the market creates the exchange and the answer is lost, the next
  pass creates another; if the first has emptied the account it is refused at every pass,
  and the order never ends (`SpentUnseen`).
* `broker.cpp:467`: an order whose wallet is not known when the session starts waits for
  another session; nothing looks again when the wallet answers.
* `bitcoin-core.cpp:218`: the first check of a session only remembers the time, and for a
  wallet without transactions that time is 0, so the first income of an empty wallet is
  never reported.
* Nothing revokes a subscription: a connection that was deleted, or moved to another
  wallet, is told as before.
* Two miners can be started by hand and share the event loop; automatic selection may
  stop one whose application is not registered yet.
* `connections.cpp:603`: a core that was stopped is started again without its
  configuration. `connections.cpp:513`: a connection given a coin whose core is stopped
  keeps the wallet of the coin before. `bitcoin-core.h:210`: a connected core does not
  notice that its daemon has ended.
* `service.cpp:33`: old requests are dropped only when a new one is accounted, so a
  quota that is spent stays spent until the program ends.

## 6. What is not modelled

*Left out of the modules that exist.*

* Broker: cancelling (a stub), `Stop` (nobody calls it), `confirmWithdraw`
  (unreachable), the delays in `m_nextProcessTime` (time only: they hold back a
  whole pass for a while, and passes may start at any time anyway), the JSON of replies.
* Trader: `executeLater` and schedules per market (both callers ask for market `*`);
  `Stop`. One handler sees one time.
* Book: user data, `Rollback`, the bookshelf, the data source of the GUI, a write that
  fails while the process lives, and everything after an operation has taken an unfinished
  page for the last one (`GoAstray`).
* Connections: settings other than the four, hash rates, statistics, messages; a click on
  a control whose connection was deleted is left out for start, stop and auto (its object
  is gone). `SaveFile` is one step, so a crash in the middle of it is not seen. A config
  file whose sections are edited by hand is not an initial state.
* Earnings: prices, `estimateEarnings` and the display; amounts, so that the total is
  counted and not summed. The daemon's listing is by arrival; a transaction that a chain
  reorganisation drops or moves is not there. What is outside the program's control when
  it saves (a failed write while it lives) is `Book`'s.
* Miner: pause, resume and report commands, which nothing calls; hashing and the pool
  protocol, of which only the callbacks are seen. The
  loop ends by the stop flag only.
* CoreService: the arguments of the daemon, its interface, and times: a timeout has
  passed or not.
* Http: asynchronous sending (not implemented in the code) and what requests and
  answers contain.

*Components without a module.* Pools and chains are read-only registries; their service
connection is in `Http`. Markets are a partner of `Broker`: their code is requests and
JSON. Windows are layout. The cipher of `algo/crypth` is a function of bytes that TLC
cannot usefully enumerate. Vendored code is out of scope except where the program's
behaviour rests on it: texts of manifests, config sections, the removal of controls,
process handles and the event loop appear where they are used. It makes up most of the
lines of the repository (the embedded miner and its hash functions alone), so the share
of all lines that the map covers stays small whatever is modelled of the program.

*Codecs.* How a record is turned into the bytes of an entry and back is taken to be
faithful, with one exception that the code has: the sequence of an entry is set to its
id when it is read (`Reopened`, `Reread`).

## 7. Plan

Done, in the order of what can cost a user money: `Broker` with `Settlement`,
`Trader`, `Book` with `Ledger`, `Connections`, `Earnings`, `CoreService`, `Miner` and
`Http`, each with the proofs of its safety properties.

Left:

1. **Trading**: `Trader` and `Broker` composed over their two books and the broker's
   events, in place of the abstract broker in `Trader`. Abstract: a trade's status never
   runs ahead of its order. One trade per order, one crash. It would replace
   `trader_bundling`'s outside.
2. **Income to trade**: `Earnings` composed with `Trader`, for what a death between
   `placeTrade` and the second earning leaves in both books.
3. `Book` with writes that fail.

## 8. Running it

    tlc -config Broker_outside.cfg MCBroker.tla
    tlapm BrokerProofs.tla

`PROJECT.json` lists the runs with their modules, the mutants, the lines each
definition stands for, the hazards and the theorems. The largest runs are `http_quota`
(3.3 million states), `earnings_income` (2.2 million), `trader_bundling` (820,000),
`book_pages` (660,000), `connections_list` (590,000) and `broker_outside` (560,000), each one to two minutes with
two workers. The proofs take a few minutes together.
