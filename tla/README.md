# gtic-bot in TLA+

A verification project for the trading bot under `src/app`: one asyncio process that follows
Binance Futures prices, runs strategies ("bots"), trades them on paper or on the exchange, and
keeps accounts, orders and positions in PostgreSQL.

The process is single-threaded. Tasks (one per bot, one per HTTP request, a few background loops)
interleave only at `await`: at a database commit, a call to Binance, a lock, a queue. That is where
this code is hard, so an action of every module here is **the code between two awaits**, and the
modules differ in which awaits they keep.

## 1. Inventory

| Component | State | Operations | Talks to |
|---|---|---|---|
| `execution/exchange.py` + `binance_futures.py` | engine position, `_protect` (SL/TP order ids), `_pos_db_id` | submit, on_price, reconcile, close, modify_sltp, restore_open | Binance, tables positions/orders |
| `execution/paper_engine.py` | position, resting LIMIT orders, entry fee | submit, on_price, force_close, restore | nothing (pure) |
| `execution/paper.py` | engine, `_pos_db_id`, `_pending_db` | the same, plus `_apply` which writes events down | tables, AccountService |
| `strategy/runner.py` StrategyRunner | candle window, status | _handle, _dispatch, _size, _submit | bus, executor, AccountService, OrderManager |
| `strategy/runner.py` BotManager | `_runners` | start_bot, stop_bot, set_status, pause_all_running, refresh_account | API, main |
| `strategy/runner.py` ManualTrader | executor and price loop per symbol | ensure, _price_loop | API, bus |
| `account/service.py`, `risk.py`, `api/accounts.py` | rows accounts/account_txn, locks, marks | snapshot, enforce, resume, deposit, withdraw, record_fee, record_close, sync_exchange | tables, Binance |
| `orders/manager.py` | audit log | write_audit, execute (audit first, then act) | tables, bus |
| `api/trading.py` | none of its own | create/patch/delete bot, manual order, cancel, close, edit SL/TP | all of the above |
| `main.py` | task list | lifespan, restore of RUNNING bots, automatic pause | BotManager |
| `market/feed.py`, `bus.py`, `store.py`, `watchlist.py`, `api/ws.py` | subscriptions, queues, klines | connect/reconnect, publish/subscribe, upsert | Binance, every task |
| `notify/telegram.py` | queue, settings | build, enqueue, send with retry | bus, Telegram |
| `backtest/*`, `orders/trades.py`, `compare.py`, `scanner/*`, `strategy/strategies/*`, `ta.py` | none | pure computations | tables |
| `api/settings, modes, exchange, backtest, routes`, frontend, alembic, scripts | rows or none | configuration, queries | - |

What is hard, and what makes each part correct:

* **Exchange executor.** A position lives in three places (engine, row, exchange) and any of the
  calls in between may fail, be answered late, or never. Correct: never trade into a position that
  is not the app's, never leave a position without a stop, book what ends on the exchange.
* **Paper executor.** The engine decides at once, the tables follow over several commits while
  other handlers run. Correct: tables, ledger and order links agree with the engine when no handler
  is running; one trade at a time.
* **Accounts.** Several bots, requests and bookings share one row, one asyncio lock and one row
  lock. Correct: no posting is lost, caps hold across bots, the lock comes back. The balance of
  an exchange account is the exchange's; a loop and the API's requests copy it, each in several
  calls. Correct: income is booked once, none is skipped, the balance catches up.
* **Bot lifecycle.** A registry in memory, rows in the database, requests that await in between,
  restarts. Correct: one runner per bot, with the status of its row, and an open trade is handed over.
* **Market data.** Subscriptions that survive reconnects, queues that drop, four writers of one
  candle table, a window that is filled from it and from the stream. Correct: an open connection
  streams what is needed, a strategy decides once on each closed candle and in order, a backtest's
  history lacks no more than it may, a lost feed pauses the bots.
* **Strategies.** Each keeps its own idea of its position, next to an engine that may refuse its
  orders and stop its trades between two candles; each indicator exists twice, for the decision and
  for the chart. Correct: belief and engine agree, day trades end, the chart explains the decision
  and does not repaint, bot and backtest do the same.
* **Backtest.** A sequential simulation whose books are kept in several places, with guards that
  halt it. Correct: the books balance, a stop costs what the order was sized to risk, a halt is set,
  lasts and ends.
* **Schema.** Seventeen revisions that fill in old rows by guesses. Correct: up and down end in the
  same tables, nothing the code needs is left null, and a guess is right wherever the old rows can tell.

`PROJECT.json` lists every component with its status, and under `hazards` the places where each of
these things can go wrong.

## 2. Modules

| Module | Models | Runs |
|---|---|---|
| `ExchangeExecutor` | `exchange.py` with its client, one bot and symbol | `exchange_solo`, `exchange_api` |
| `ExchangeExecutor_proofs` | theorems of the module above | TLAPS |
| `PaperEngine` | `paper_engine.py`, as operators from engine and input to engine and events | through PaperExecutor |
| `PaperExecutor` | `paper.py`, as a bot's or ManualTrader's executor | `paper`, `paper_limit_gap` |
| `PaperExecutor_proofs` | theorems of the module above | TLAPS |
| `TradeBook` | what an executor promises to readers of table positions (abstract) | refined in `paper` |
| `AccountLedger` | `service.py` for one paper account, with the bots and requests that share it | `account_bots` |
| `AccountLedger_proofs` | theorems of the module above | TLAPS |
| `ExchangeSync` | `sync_exchange`, its loop and `enforce` for one exchange account | `account_bots` |
| `ExchangeSync_proofs` | a theorem of the module above | TLAPS |
| `BotLifecycle` | BotManager, the bot routes, restoration at startup | `lifecycle`, `lifecycle_two` |
| `BotLifecycle_proofs` | theorems of the module above | TLAPS |
| `MarketFeed` | `feed.py`, the watchlist routes, the watcher that pauses bots | `market_feed`, `feed_lost` |
| `Bus` | `bus.py`, the queues that the next two modules share | through both |
| `CandleFlow` | bus queues, table kline and its writers, start and candle window of a bot | `market_feed` |
| `CandleFlow_proofs` | theorems of the two modules above | TLAPS |
| `Backtest` | `sim.py`, `risk.py` and the account backtest's route, over `PaperEngine` | `strategies`, `backtest_halt` |
| `Calendar` | UTC hours, days and weekdays as the strategies read them | through IctPo3 |
| `Indicators` | `ta.py`, every indicator in both forms | through StrategyRun |
| `Strategies` | the fourteen strategies without state, their `on_candle` and `plot` | through StrategyRun |
| `Breakouts` | `vol_breakout.py`, `donchian_v2.py`, `ichimoku_v2.py` | through StrategyRun |
| `IctPo3` | the four versions of `ict_po3` | through StrategyRun |
| `StrategyRun` | a bot that runs one of them: window, dispatch, engine, pause, restart | `strategies` |
| `StrategyRun_proofs` | theorems of the module above and of `Backtest` | TLAPS |
| `Schema` | the Alembic chain, the rows it fills in, the columns of the models | `schema` |
| `Schema_proofs` | theorems of the module above | TLAPS |

`MC_*` modules name the sets that the .cfg files give to the constants. `MC_AccountLedger` also puts
the two kinds of account together: `mode`, the column that tells them apart and never changes, is
chosen in the initial state, and every step is one of `AccountLedger` or one of `ExchangeSync`,
which it instantiates with variables of its own. `MC_PaperExecutor` (a bot's executor or the manual
desk's, `whose`), `MC_MarketFeed` (the feed or the candles of one stream, `part`) and `MC_Strategies` (a
bot or the account backtest, `part`) do the same: what is not chosen stays where it starts, and no step
belongs to both, so that each behaviour is one of the module's own. `PaperExecutor`
EXTENDS `PaperEngine` and instantiates `TradeBook`; `Backtest` and `StrategyRun` instantiate
`PaperEngine`, so that paper trading, the backtest and the strategies are checked on one engine, as
the code shares it. `StrategyRun` stands on `Calendar`, `Indicators`, `Strategies`, `Breakouts` and
`IctPo3`, each of which EXTENDS the one before. The other state machines are separate, and where two
components meet, each model contains the other's part as far as it matters to it: a close in
`AccountLedger` is a row that closes and a booking that follows; a runner in `BotLifecycle` holds at
most one trade; the feed in `CandleFlow` is a connection that delivers or does not.

### ExchangeExecutor

`pc[t]` names the call task `t` awaits; `ret[t]` is the continuation (the return address of
`_market_close`, `reconcile`), `inExcept` the except branch of `_market_close`. Locals that live
across an await (`held`, `ids`, `want`, `newp`, `row`, `draft`) are variables, since another task
may change the shared state meanwhile. `obj` is a heap because `modify_sltp` mutates the Position
object that another coroutine may hold.

| Code | Actions |
|---|---|
| `on_price` | TickReconcile, TickFallback, TickNothing |
| `submit` | SubmitClose, SubmitOpen, OpenCheck, OpenOrder, OpenFill |
| `_safe_protect`, `client.protect` | BeginProtect, Protect, Protected |
| `_persist_position_open`, `_persist_close` | PersistOpen, PersistClose |
| `_market_close` | BeginClose, CloseOrder, CloseOk, CloseError, Cancel |
| `reconcile` | ReconcileRead, ReconcileFill, Cancel |
| `close`, `modify_sltp` behind the API | ApiRequest (check and audit), ApiClose, ApiModify, ModifyCancel, ModifyCommit |
| `restore_open` | Restart, then ReconcileRead with continuation "restore" |

Binance is external: an order may execute and its answer be lost (`Fail`), opening orders net with
what is there (`Netted`), an algo order closes a position of its side or expires (`AlgoFires`), and
a human or a liquidation acts at any time (`ClosedOutside`, `OpenedOutside`). The check before an entry
(`OpenCheck`) and the order are two calls, and what a human opens in between the order trades into: an
`xpos` of that kind is marked "late", and `NoBlindTrade`, which does not exempt it, does not hold
(`exchange_blind.cfg`).

### PaperEngine and PaperExecutor

An operator of `PaperEngine` returns the next engine and a list of events, like the class. `_apply`
turns events into jobs (`JobsOf`), one per await, in the order of the code; a task runs its jobs one
by one (`RunOn`, `Done`) and `loc` holds the values a statement was built with before it was
awaited. `_mark_order` pops its dictionary before it awaits and so does `RunOn`. `_persist_queued`
is two steps, `FlushQueued` and `PersistQueued`: between flush and commit `_pending_db` already leads to
the row, which no other session sees, so that a fill finds nothing and raises (`MarkFails`) and a cancel
updates nothing. `made` is what the engine has earned and `raised` that an exception has ended a handler
of the tick's task (paper.py:162 or :172); neither is a variable of the program.

### AccountLedger

`lock` is the asyncio lock, `rowLock` the row lock of `SELECT ... FOR UPDATE`; both are taken and
given back in different steps. `why[t]` says for whom `snapshot` runs. An entry goes
Signal, ReadAccount, Snapshot (enforce), ReadAccount, Snapshot (size), SubmitOrder, [close, post,
enforce again], OpenPosition, PostLock, PostCommit. LIMIT orders fill later and without the lock
(`LimitCrosses`). Money is whole units; the arithmetic of `size_order` is reduced to whether an
entry of fixed margin is admitted.

### ExchangeSync

| Code | Actions |
|---|---|
| `sync_exchange`, the calls | Begin, ReadWallet, ReadClock (first sync), ReadIncome, Failed |
| the ids the ledger has, the balance to compare | ReadSeen, ReadRow |
| the transaction | PostLock, then Commit or Refused (`uq_txn_ext`), Stamp when nothing is posted |
| `enforce` in `run_exchange_sync` | Enforce, RaisePeak, Halt |

A row of income is named by its time. `loc[t].read` is the row as the session of task `t` has it:
SQLAlchemy hands out the object it has loaded, also after `SELECT ... FOR UPDATE`, and its UPDATE
names the columns that differ from what was read (`Column`), so a sync with nothing to import works
with a balance read before it got the lock. The peak moves only where rows are posted, and there the
row is first read under the lock. `since` and `best` are histories: from which moment on
income is the ledger's business, and how high and how far down the wallet has really been.

### BotLifecycle

`row` is table bots, `registered` is `_runners`, `leaked` the bots with a runner that `_runners` has
lost. `work[t]` is a request with what it has read, including the row its session loaded (`seen`),
because SQLAlchemy writes only the attributes that differ from it. A PATCH may carry a status that is
none (`Bogus`); `patch_bot` refuses it only after an account switch has restarted the runner, and then
commits nothing.

### MarketFeed and CandleFlow

`conn` is the place of `run()`: building the URL, the handshake, reading, sleeping. `subscribed` is
what Binance streams; a request that finds no connection only changes the sets. `Connected` sends the
SUBSCRIBE for what was added during the handshake. A watchlist request commits its row first and tells
the feed afterwards. `Autopause` is the watcher with its queue `told`.

`CandleFlow` names a candle by its opening time. `wire`, `persistQ` and `runnerQ` are the connection
and two of the bus's queues, `Offer` drops when one is full. A download (`fetch[t]`) is held in memory
between the REST answer and the upsert and contains the open candle with partial values; the bot's
backfill, the scanner and the backtest's `ensure_history` all write the table. The phases of
`StrategyRunner.start` (sync, upsert, read, filter, task) are its awaits: candles close in between,
and only when `run()` has subscribed does the stream reach the bot.

### Backtest

One step is one candle: the price path through the engine with `gap_fill` at the opening only, the
signals (a CLOSE or not, then one signal: the most any strategy returns at once), `size_order` with its
caps in their order, the books of `_Sim`, halts and the day. The strategy is any. Prices are ticks,
money is hundredths of a tick, divisions round down. `PaperEngine` is instantiated twice, for the ticks
with `gap_fill` (`Gapped`) and without (`Smooth`). `Apply` is `_Sim.apply`: it walks the engine's report
and hands each event to `OpenTrade` or `CloseTrade`, which may fail. The engine of the model has orders
of quantity 1, so the walk also carries the quantity. `met` and `denied` are histories: which limit the
last entry met, on which day and with the loss of which day, and whether this candle's entry was
refused as halted.

### Calendar, Indicators, Strategies, Breakouts, IctPo3, StrategyRun

Indicators are operators on sequences of candles, written with folds; a series padded with None is a
function whose domain is the candles that have a value, which keeps the offsets that a chart depends
on. A strategy with state is an operator from parameters, state and candles to the next state and
signals. `StrategyRun` closes candle after candle: ticks through the engine, the window, `on_candle`,
signals dispatched one by one, any of which may be refused by sizing; pause, resume and restart.
`Replay` is the backtest engine's own walk over the same candles.

### Schema

`Chain` is the sequence of revisions with the columns each adds and what its downgrade drops;
`FilledRow` and `FillsIn` are what it does to rows, `LostRow` and `Loses` what a downgrade costs them. The application writes rows
between upgrades with the columns there are: two bots on paper, one on the testnet and a user
trade at market or by LIMIT orders, whose row has the time at which they were queued (`QueueLimit`)
however long they wait (`FillLimit`). `by`, `of` and `was` remember what really happened and are not
columns: the properties compare the guesses with them. An order has the side and the price
`_persist_order` gives it (`Side`), since those, and its time, are all that the backfill of
`a1b2c3d4e5f7` has to find its trade by. Of several audit entries near an opening `UPDATE ... FROM`
takes any: `found` chooses one for every position.

The guesses are wrong in three ways, which `OrdersLinked` (the claim of the revision's docstring, "Link
each fill to its trade") would forbid and `LinksRight` allows for. `b3d9f0a1c2e4` labels a trade by hand, or
another bot's, near a bot's audit entry as that bot's, and its order then finds another trade. A LIMIT
order that was queued near one trade of its owner and filled much later is linked to that trade. And
a reversal closes and opens at one price and moment with orders on one side (paper_engine.py:199-205),
so that its opening order is taken for another closing of the old trade. `LinksRight` is about the
orders at market of trades that are labelled as their own, an opening only when no trade was closed on
its side, at its price, near it. `BotTradesKept` is about the trades whose bot is still there, or whose
audit entries near the opening are all that bot's.

## 3. Runs

| Run | Bounds | Shows |
|---|---|---|
| `exchange_solo` | 2 positions, 1 failed call, 1 crash, 1 act of a human | rows equal engine at rest; every leg the app believes in is on the exchange; a close on the exchange is booked eventually |
| `exchange_api` | 2 positions, 1 request, 1 failed call, 1 act of a human | with an API request between the runner's awaits, a fill meets an empty engine and the protection is cancelled after the close |
| `paper` | a bot: 2 positions, 1 LIMIT order, 3 prices, 1 crash; the desk: 2 positions, 1 LIMIT order, 3 requests, 2 at a time | rows, ledger and links agree with the engine; refines TradeBook; a resting order is found from its row; a settled row stays settled |
| `paper_limit_gap` | a bot: 2 positions, 1 LIMIT order, no crash | **violated**: what the engine earns is not all booked |
| `account_bots` | on paper: 2 bots (one with LIMIT orders), 2 entries, 1 request or midnight, cap 1; on the exchange: 2 rows of income, 1 request, failed call or restart beside the loop | ledger, cap and lock; income is booked once and the balance becomes the exchange's |
| `lifecycle` | 2 bots, 2 accounts, 2 trades, 4 requests one after the other, 1 failure, 1 crash | runners have the status of their rows; the open trade is handed over |
| `lifecycle_two` | 1 bot, 2 requests at a time | **violated**: two requests that start a bot leave two runners |
| `market_feed` | feed: 2 pairs, 2 timeframes, 2 bots, 3 watchlist requests (2 at a time), 2 losses or restarts; candles: 6 of them, window of 3, queues of 2, 1 break or restart, 1 download | an open connection streams all that is needed, a bot hears again after every break; no candle that arrived is skipped, one decision per candle, in order, no hole in a backtest's history of this length |
| `feed_lost` | 1 pair, 1 bot, 2 losses | **violated**: a lost feed pauses no bot |
| `strategies` | a bot: 27 parameter sets over 6 markets of 3 candle shapes, 5 to 13 candles, 1 trouble; the backtest: 4 candles of 4 shapes, 7 signals with or without a CLOSE before, 3 sizings, 2 resting orders, day of 4 candles | belief, day trades, entries, charts and backtest against bot; books, cost of a stop, halts, margin |
| `backtest_halt` | the backtest of `strategies` | **violated**: a loss noticed at midnight halts the next day |
| `schema` | 3 bots on 2 modes and a user, 2 positions on either side, 3 ticks of time, 1 price to enter at and 2 to exit, 1 downgrade, all 17 revisions | tables of a revision, nothing null, owners kept, links right where they can be |

Why these bounds are enough. Two positions give a first one, its end, and a successor that stale
locals can damage. One failed call per life meets every await of every handler, since the model puts
it anywhere. One crash is enough for what a restart finds in the tables; a second crash restarts from
the same tables. Three prices (with the limit at the middle, levels at the ends) put a tick on each
side of and at each level. Two bots and a cap of one are the smallest case in which the cap can be
exceeded. Two rows of income put one before a sync's cursor and one after it, or one between the
call for the wallet and the call for the income; a loop and one request are the two syncs that can
import the same row. Two pairs and two timeframes separate the streams of a pair from those of a bot on it, and
two losses give a connection, a break and a second connection with what was added meanwhile. Rows of
the candle table are absent or final at first, and downloads bring the partial ones. A window
of three and six candles let candles leave it, and a queue of two fills. A candle that gaps through
the stop, one that touches stop and target, a quiet one and one that runs are what the price path
distinguishes; the backtest's four candles are one day from either start, or its end and the next.
Each strategy gets periods of one to four candles, so that warm-up, entry, exit, reversal and trail
happen within its bound, and a market whose three shapes reach its branches. In the migrations two bots
of one mode can take each other's entries, and one of another mode cannot. `MaxEvents` and
`MaxTrades` bound histories, not interleavings. Where the bound matters less than the interleaving,
the theorems below do without it.

The runs with `CHECK_DEADLOCK FALSE` are those whose budgets run out: nothing is left to do when
the last request, trade, candle or crash has been used. The exchange runs check deadlock, since the
ticks never stop.

Fairness. `ExchangeExecutor`: a handler that has started goes on (asyncio runs every task whose
await has returned, and each await has a timeout or an answer), the process is restarted
(docker compose), and ticks keep coming, with `TickReconcile` strongly fair because five seconds pass
again and again while any handler may be in between. No fairness on signals, requests, failures,
crashes, the exchange or the human. `AccountLedger`: a task that can go on again and again does; row
locks are granted in the order of the requests. `ExchangeSync`: a call is answered or times out, and
the loop never ends, so a round is always followed by the next; weak fairness of each task is enough,
because whoever holds the row lock gives it back in its next step. Nothing is assumed of the exchange,
the requests and the restarts. `MarketFeed`: `run()` goes on (a handshake is answered
or times out, the sleep ends) and so does the watcher; nothing is assumed of requests and losses,
whose number is bounded: after the last one the feed connects. `Schema`: upgrades run, since the
container starts with `alembic upgrade head`; its properties do not use it. The other modules have
safety properties only.

### What the violated runs mean

Four runs contradict what the repository says of itself, as the entries under `findings` quote.

* `feed_lost`, against README.md:42 and main.py:105: `run()` publishes RECONNECTING when the connection
  is lost and DOWN only when it has been stopped, and the watcher waits for DOWN.
* `paper_limit_gap`, against paper.py:46 ("every PnL/fee is booked"): one tick fills a LIMIT order and
  takes the position out again, the opening is written down when the engine is flat, and the assertion
  of paper.py:172 fails before fee and loss are booked. `TradesBooked` in `paper` is what holds: until
  such an exception nothing is missing.
* `lifecycle_two`, against runner.py:1 ("1 task per bot"): `start_bot` registers the runner at its end, so
  a PATCH to RUNNING that arrives while another request is starting the bot starts a second runner, and
  the first one to register is never stopped. `lifecycle` therefore serves one request after the other.
* `backtest_halt`, against sim.py:4 ("for the rest of the UTC day"): the guards are asked at the close of
  a candle, which for the last one of a day is 00:00 of the next, while the day's start equity is still
  the old one. The halt then covers the whole of a day that has lost nothing.

### Configurations to run by hand

Each of these is a violation TLC finds within a minute or two, kept beside the runs to show how far the
properties reach. `tlc -config <file> <module>`:

| Configuration | Module | What it shows |
|---|---|---|
| `exchange_blind.cfg` | MC_ExchangeExecutor | NoBlindTrade: the user opens a position between the check and the order (exchange.py:105), against exchange.py:102-103 |
| `exchange_edit_crash.cfg` | MC_ExchangeExecutor | a crash during an SL/TP edit leaves ids of cancelled orders in the row (exchange.py:246), so a restored position has a stop nobody watches |
| `paper_close_race.cfg` | MC_PaperExecutor | a close during a reversal leads to two OPEN rows of one bot (paper.py:184), against docs/05-Strategy-Dev-Guide.md:51 |
| `account_blocked.cfg` | MC_AccountLedger | a reversal opens on the account its own close has just halted (service.py:215), against frontend/src/pages/Account.tsx:121 |
| `exchange_close_race.cfg` | MC_ExchangeExecutor | a close by the API resumes after the runner has closed and opened again: it goes on to cancel the new position's SL/TP and to empty the engine (exchange.py:315), against README.md:43 |
| `exchange_halted.cfg` | ExchangeSync | a transfer between the calls for the wallet and for the income halts an account that has lost nothing (service.py:234) |
| `exchange_first.cfg` | ExchangeSync | two first syncs raise the peak twice (service.py:247), against tests/test_exchange_account_sync.py:70 |
| `exchange_drift.cfg` | ExchangeSync | a sync without income adjusts from a balance it has read before the lock, and the ledger's sum leaves the balance (service.py:271), against docs/10-Live-Readiness.md:23 |
| `lifecycle_drift.cfg` | MC_BotLifecycle | RowsAgree: a PATCH with another account and a status that is none is refused after the runner was moved (trading.py:293-303), and the row stays on the old account |
| `lifecycle_paused.cfg` | MC_BotLifecycle | a PAUSED bot's position has no runner after a restart (main.py:127), against docs/05-Strategy-Dev-Guide.md:183 |
| `candles_partial.cfg` | CandleFlow | a candle that closes between download and filter stays in the window with partial values (runner.py:86) |
| `strategies_once.cfg` | MC_Strategies | OneTradeADay: "at most 1 trade/day" (ict_po3.py:9) does not hold with the default max_per_day = 0 (ict_po3.py:56) |
| `backtest_limit.cfg` | MC_Strategies | a limit order filled and stopped out at one price ends the backtest with an exception (sim.py:119) |
| `schema_links.cfg` | Schema | the opening order of a reversal is linked to the trade it ended, as its closing (a1b2c3d4e5f7_order_position_link.py:30) |

`RowsMatchEngine` of a paper bot is stated for the time before the first API request, and
`NoPhantomProtection` is checked without edits, for the reasons `paper_close_race.cfg` and
`exchange_edit_crash.cfg` show.

Each module states its type invariant as `TypeOK` (`FeedTypeOK` in `MarketFeed`); to check it, put it
as the INVARIANT in the place of the properties in the .cfg of the module's run. It passes for every
module, and so do the shallower invariants `WindowOrdered` and `LeftoversFromUrl`.

## 4. Proofs

Thirty theorems, for every value of the constants that satisfies the module's assumption. Each
follows from an inductive invariant, in the usual three facts: `Init` implies it, every step keeps
it, it implies the property.

Some of what the models compute is recursive: the engine tries its resting orders one after the other,
`_apply` turns a list of events into a list of jobs, a link goes to the nearest of a set. What a fold of
the library returns is out of the prover's reach, so where a proof needs it the model has a recursive
function, and the proof takes the least index, or a nearest element, at which the claim would fail
(`WFMin`, `NatLessThanWellFounded`) instead of an induction over data.

**`ExchangeExecutor_proofs`**: `FillAlwaysOpens` (`FillMeetsEmptyEngine`) and `ClosesFirst`
(`CancelAfterClose`), for any set of API tasks and any bounds on positions, requests, failures,
crashes and acts of a human (`ConstantsOK`). Neither is inductive: what a fill meets depends on
what the engine looked like several awaits earlier, and the coroutine that continues may have been
called by `submit`, `on_price`, `restore` or the API. `OwnsControl` adds what the runner's program counter
remembers of that:

* `RunnerLabels`: while the process is down the runner does nothing, and it never serves an edit;
* `EmptyWhilePersisting`: between `force_close` and the end of `_persist_close` the engine is empty,
  since only the runner fills it;
* `ReversalReconciles`: a reversal reaches `reconcile` only through the `except` branch of
  `_market_close`, after which `submit` ends instead of opening.

`ReturnLemma` says where a coroutine returns to; `QuietStep` disposes of steps that leave the control
state alone; `ContinueKeeps` covers the awaits that runner and API share, `RunnerKeeps` and `ApiKeeps`
the others, `WorldKeeps` the exchange, the human, the crash and the restart.

`TypesHold` (`TypeOK`) is for any API tasks too, and `TypeOK` speaks of the locals as well: that a task
which closes or protects a position holds one the engine has had (`HoldsKnown`), although a crash, a close
or a reversal may have taken it away meanwhile, is what the proof is about.

`RowsFollowEngine` (`RowsMatchEngine`) and `ProtectionRests` (`NoPhantomProtection`) are about a bot's
task alone (`Apis = {}`), with any failed calls, crashes, lost answers and acts of a human. The
hypothesis is needed: `exchange_edit_crash.cfg` and `exchange_close_race.cfg` break them with one
request. Both speak of the moments at rest, where the hard part is in between. `Following` says which
of four stages an open trade is in: being protected (`Placing`), drafted for the insert (`Storing`, the
draft is still what the engine has), written off (`Closing`), or in the table (`Settled`). `Guarded`
carries a stop from the exchange's answer (`newp`) over the draft and `_protect` into the row and, after
a crash, back: whoever names an order, it rests, as long as the app's position on that side is there
(`Carries`). Neither is inductive without the types and without what `OwnsControl` knows of the stack.

**`PaperExecutor_proofs`**: the handlers of the paper executor, in two layers.

* `SettlesOnce` (`OrdersSettleOnce`) and `RestingOrdersTracked` (`PendingTracked`), for any API tasks,
  prices, limits and crashes. `TInv` gives each unsettled row one owner: either `_pending_db` leads to
  it (`Leads`, each key to a row of its own), or the task that has popped it holds it (`Taken`) and no
  other does; an order in the engine has such a key or is about to be written (`Queueing`).
* `RowsFollowEngine` (`RowsMatchEngine`), `MarketRowsBooked`, `OrdersPairTrades` (`TradesPaired`) and
  `ImplementsTradeBook` (`IsTradeBook`; the run checks it as `BotHasTradeBook`, for its bot), for a
  bot's task alone. Requests do break the first (`paper_close_race.cfg`). The engine has decided
  everything before the first row is written, so `SInv` reads from the jobs that are left how far
  tables, ledger and links have come (`Known`, `Owed`, `PairedRow`) and that what is left ends with the
  engine's position (`Plan`). `OnPriceOutcome`, `MarketOutcome` and the like are what the operators of
  `PaperEngine` return for any engine: a chain of trades, each closed before the next one opens.
  `MarketRowsBooked` is what can be said of "every PnL/fee is booked" for every price, size and fee: it is
  about bots that have placed no LIMIT order, because one that is filled and stopped out on one tick
  has no row (`paper_limit_gap`), and two that fill on one tick on opposite sides are both written down
  with the engine as the second one leaves it. `ImplementsTradeBook` is a step simulation: every
  action is a step of `TradeBook` or leaves its variables alone (`BookMoves`).

**`AccountLedger_proofs`**: `BalanceFollowsLedger` (`BalanceIsLedger`) and `CapHolds`
(`PositionsCapped`), for any finite set of bots, any prices and amounts and any cap (`LedgerOK`).

* For the balance, `ReadIsFresh`: a task about to commit holds the row lock and has read the balance
  that is there now. It follows that no two tasks are there at once.
* For the cap, `SizerLocks` (a bot that sizes, reverses or is about to open holds the account's lock),
  `OpensAsSizer` (only such a bot reaches the opening at market price) and `RoomWhenChecked` (from
  the check of `size_order` until the opening, the MARKET positions of the other bots leave room for
  one more). The hard case is a reversal, whose close is booked and enforced between the check and
  the opening. `CapKept` covers every step that opens nothing at market price; `FitsLeavesRoom` and
  `OpeningFits` do the counting. `MaxTrades` and `MaxEvents` play no part in it.

What a task's snapshot computed as equity is never typed: it is a fold over the open positions, and
what a fold returns needs induction. Neither theorem depends on it.

**`ExchangeSync_proofs`**: `ImportedOnce` (`IncomeImported`), for any requests, transfers, failures and
restarts and any number of rows (`MaxIncome \in Nat`). `Good` says of a task what makes its commit
harmless: the rows it holds are income it was told of, and up to the cursor it will store everything
is in the ledger or in its hands (`Covered`). The cursor a task holds may thus be ahead of the ledger
by the rows the task holds, the cursor in the table never. That no row is booked twice does not follow
from the ids it read (`ReadSeen`), which another sync may have booked since, but from the unique index
(`Clashes`), and the proof needs it there. `CommitStep` is the lemma that matters; `NothingHeld` and
`OwnStep` dispose of the rest.

**`BotLifecycle_proofs`**: `StatusesFollowed` (`StatusesAgree`) and `PositionsFollowed`
(`PositionsHeld`), for any bots, accounts, trades, failures and crashes, under the hypothesis
`OneAtATime`: one request is served at a time. The HTTP server does not promise that, and `lifecycle_two`
shows what two requests do; the theorems say that the drift has no other source. The properties speak
of the moments between requests, the invariant of those within them: `Serving` tells from a request's
place what the bot it works on looks like (its row as the session loaded it, whether it has a runner,
what that runner holds), `Quiet` says that every other bot is as between requests, `Process` what a
stopped or a starting process has, `Held` that a registered runner's engine is its bot's one open trade.
A PATCH that is refused after an account switch ends like any other, but for the account, which
neither property is about. A crash throws the registry away with the request, so what remains to be
shown after it is about rows only.

**`CandleFlow_proofs`**: first `AlwaysStreams` (`OpenStreamsAll` of `MarketFeed`) for any watchlist,
bots and losses. The property is inductive as it stands, and the proof shows why: a change of what is
needed and the SUBSCRIBE it causes have no await in between, and `Connected` catches up with all that
was added during the handshake. Then, of `CandleFlow`,
`DecidesInOrder` (`DecidesOnce`) for windows, queues and histories of any
length. `OneOrder` is the strengthening: the candles decided on, the closing messages queued and
those on the wire are in one strictly increasing order and before the clock. `AppendClosed`,
`AppendRising` and `TailRising` are lemmas on queues; a full queue or a lost connection only removes
messages. `HeardStays` (`HeardIsKept`) stands on it: a closed candle the bot's queue took is never lost
between the queue, the window and the history the window was filled from. `HInv` adds that all that was
handled is earlier than all that is still to come (`Ahead`: queue, wire and clock), that the end of the
window is the history's last candle or earlier than what is to come, and where each handled candle is
now (`Remembered`). The case that matters is the handler's replacement of the window's last row, which
must only ever replace a candle by itself. `HistoryWhole` (`HistoryContiguous`) counts rows: what
`ensure_history` leaves out is bounded by what its count of 99% lets through (`CountedRows`), and stays
so until the upsert, since rows are only added (`MoreRows`) and none is later than the open candle
(`Stored`). The proof corrected the property, which used to say that no candle is missing at all: that
is so only for histories of less than a hundred candles, such as the run has.

**`Schema_proofs`**: `RowsFilledIn` (`NothingLeftNull`) and `BotTradesStay` (`BotTradesKept`), for any
number of rows and bots and any walk up and down the chain. A LIMIT order's trade opens any time after
its audit entry, so the second can promise nothing of a trade whose bot was deleted before
`b3d9f0a1c2e4` labelled it, unless the entries near the opening are there and all that bot's (`Told`);
whatever entry `found` chooses is then the right one. Both properties are about single rows, and so is
the invariant: `Owned` (no row names a deleted bot, every row of a bot that is still there does),
`Filled`, `Attributed`. `RowByRow` turns a statement on rows into one on the table. `OrdersFindTrades`
(`LinksRight`) is about two tables, for any number of trades and orders at any prices. Its invariant
`LInv` has, besides each market order's moment, price and side (`Booked`), that no two trades open, or
close, at one moment (`Moments`): the trade an order was for is at distance 0 from it and so the only
nearest one (`OwnIsNearest`), whatever else lies in the window of two seconds. Of LIMIT orders it says
nothing, and their guess is often wrong (section 2); the proof is that they disturb no other.

**`StrategyRun_proofs`**: `HoldsWhatItBelieves` (`BeliefCovers`), `EntersOnceADay` (`EntriesCapped`)
and `HoldsForADay` (`DayTradesEnd`), for any parameters of any strategy (`Cases` with the bounds that
`StrategyRunConstants` puts on it), any market, order of the ticks in a candle, refusals, pauses and
restarts. The strategies decide by folds over candles, about which nothing can be proved; but the three
properties do not depend on what was decided, only on what an answer does to the strategy's memory.

* From below: whatever the folds return, one call of `on_candle` gives one of a few answers. `IctStep`
  (the four versions of ict_po3), `VolStep` (vol_breakout) and `Moves` (donchian_v2, ichimoku_v2) list
  them: nothing, a CLOSE with the belief FLAT, an entry with the belief on its side and its day's
  counter one up, or a CLOSE and then an entry. `Opened` is the only place of `IctPo3` that counts an
  entry, and it sends one.
* From above: `EngineFollows` says what the engine makes of such an answer when ticks may have stopped
  its position before and sizing may refuse an entry: it is flat or on the side believed in. A refused
  reversal leaves the old position, so the two strategies that reverse keep out of `BeliefCovers`
  then; a refused entry after a CLOSE does not, because the CLOSE goes first.
* Between: `IInv` is `BeliefCovers` with what makes it inductive: `Known` (the shape of state and
  engine), `Counted` (what the diary counted today is at most what the strategy counted, and nothing of
  another day) and `Today` (a believed trade is of the state's day, which is the diary's, and its hour
  is before `flatten_h`).

The second half of the module is about the account simulation: `BooksAreBalanced` (`BooksBalance`),
`StopsLoseTheirRisk` (`StopLosesRisk`), `HaltsLast` (`HaltLasts`) and `MarginIsCovered`
(`MarginCovered`), for every history of candles, every strategy, sizing variant, leverage, fee and
limit within `BacktestConstants`. That assumption says little more than the types: a candle's low and
high enclose its opening and its close, slippage is less than any price or level (it is a fraction of
it in the code), an entry has a side and a LIMIT order a price. The strategy is not modelled, so the
order of each candle is arbitrary.

* The engine. A candle is four ticks and a signal, and each may fill several resting orders and then
  a stop. `FillsBySteps` and `FillEnds` follow the fills one by one; `OnPriceDoes`, `MarketSubmits`,
  `LimitDoes`, `CloseDoes`, `CancelDoes` and `ForceDoes` list what comes out for *any* engine: nothing
  (`Idles`), an exit (`GoesOut`), an entry (`GoesIn`), a reversal (`Flips`), an entry that is stopped
  out at the price that filled it (`Breaks`), or two entries on one tick (`OpensTwice`).
* The books. `ApplyBySteps` is the walk of `_Sim.apply` over a report, `ApplyGood` says that whatever
  the report is, the walk keeps `Good`, which has three parts. `Sound`: types, and nothing held means
  a quantity of 0. `Balanced`: `BooksBalance` as it is; it is inductive only because a report's close
  comes before its opening, and because an exception stops the walk (`Breaks` is the case in which
  `_open` raises). `Within`: what a resting order (`RestsWithin`), the position (`HeldWithin`) and the
  last trade (`LastWithin`) may lose. The run checks the third only; the first two carry the promise
  from `size_order` over any number of candles to the stop. Slippage enters twice, at the entry
  (`EntryWithin`) and at the exit (`StopOut`).
* The sizing. `SizeOrderIs` is what `size_order` returns for any account: at most the target over the
  distance to the stop, at most the available balance over `UnitCost`, and not below 0. `Covers` turns
  the second into `MarginCovered`: the price paid differs from the price sized for by the slippage, and
  on a reversal the margin and the risk that are freed are those of the position that is closed
  (`PlaceFlips`).
* The halts. `HaltLasts` compares what happens with the history `met`, which is written from the
  account's equity and not from the guard's own variables. `LatchInv` relates the two: `ddHalt` is set if
  and only if an entry has met the drawdown, `haltedUntil` is the day after the last entry that met a
  daily loss (`Latched`). `MeetsLatch` shows that a signal keeps that, whatever it does to the books;
  `LatchSteps` takes it through a candle. That a halt is set, that it lasts and that nothing else is
  refused as halted are then the same fact seen from three sides. `BlockedDoes` says that an order is
  let through only if the account was not stopped and is not now; a trade opened by a market order is
  opened after `Blocked`, since the ticks open trades of LIMIT orders only (`ByTick`) and the last close
  opens none.

The proof corrected the model once: two guards of `OnSignal` held together after an exception, so that
`CASE` could have chosen either.

Only model-checked: liveness under fairness (`ExternalCloseBooked`, `LockReturned`, `CatchesUp`,
`BotHears`), which the prover does not handle, as it does not handle ENABLED; `SchemaOfRevision`, which
is a fact about seventeen given revisions and has no parameter; `NoRepaint`, `DecisionsAreDrawn`,
`StopLinesTighten` and `BacktestAgrees` of the strategies, which are about what folds over candles
compute and would need induction over data.

## 5. What the models leave out

* Failures of the database: a commit succeeds. An exception of the database inside a handler would
  add partial failures to every module.
* Quantities: an order is filled whole, a position is closed whole; rounding is left out.
* Exchange: LIMIT entries (refused by `submit` while `allow_limit` is False) and `_auto_cancel`; the
  spot path; the answer of a cancel and what follows it are one step; `last_close_fill` only as an
  answer or a failure. `stop()` in the middle of a call appears as a crash.
* Paper: slippage and liquidation distance are fixed ticks instead of fractions; leverage does not
  change while a position is open. A cancel that falls between flush and commit of a LIMIT order's row
  leaves it NEW for good; the model has that, and no property speaks of it.
* Account: `enforce` reads the account twice (get, then snapshot) and the model once; the queries of
  `snapshot` are one step after the account's row was read; gross and exit fee are posted in one
  transaction and are one amount; manual orders are not in.
* Exchange sync: income that the exchange publishes late or within the same millisecond as the cursor,
  and clocks that differ; more than the 1000 rows one call returns; assets other than the account's
  currency; open positions, so that equity is the wallet; `resume` and the daily loss limit on an
  exchange account.
* Lifecycle: a leaked runner's trades are not followed, and starting one bot at boot is one step;
  the account of a position is not kept (see the hazard at `trading.py:289`).
* Feed: the payload of a message; a subscription request that fails after the set was changed is a
  connection that breaks. `MarketFeed` has one bot status for all bots.
* Candles: one stream of one bot; an exception of the strategy or of `on_price` inside `_handle`,
  which skips the rest of it; the prices themselves.
* Backtest: quantities are whole and divisions round down where the code has floats, so every property
  is stated as a bound that rounding down keeps; LIMIT orders that rest when the account halts still fill
  (nothing cancels them), and `HaltLasts` is about entries at market; the statistics and the equity curve; vectorbt.
* Strategies: prices are whole numbers, so an equality that floats would miss can happen, and a
  crossing may be decided one unit earlier; the square root is an integer root; months do not end.
  The grid of parameters a form allows is not explored, only the sets of `MC_Strategies`.
* Schema: `backtest_run.engine`, whose NULL in old rows the code reads as VBT (backtest.py:263);
  types, keys, indexes and constraints, but for the CHECK that can stop a downgrade; the data
  of tables other than those a revision fills in; downgrades below the fourth revision, which drop
  the trading tables.
* Broadcasts, audit rows, logging and wording everywhere.

Not modelled at all: the notifier (planned), the read-only queries of
trade review, settings and modes, the WebSocket gateway, the frontend and the research scripts, which
keep no state that the modelled parts depend on.

## 6. Plan

1. `ManualTrader.ensure`, the account of a position in `BotLifecycle`, `resume` and the daily limit in
   `ExchangeSync`.
2. `Notifier` (bounded queue, retries, drop) and the greedy pairing of `orders/trades.py`.
