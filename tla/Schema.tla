------------------------------- MODULE Schema -------------------------------
(* The database schema: the Alembic revisions under alembic/versions as a chain
   of steps, each with the columns it adds, the columns its downgrade drops and
   the rows it fills in, against the tables of orders/models.py and
   market/models.py that the application reads at the end of the chain.

   Rows are written by the application between the upgrades: bots and a user open
   trades at market or by a LIMIT order that waits, and close them; a bot is
   deleted; income arrives.  All of it is on one symbol.  What an older version of
   the application wrote is taken to be the columns there were.  Types, keys and
   indexes are left out, and backtest_run.engine, whose NULL is read as VBT.  *)
EXTENDS Integers, Sequences

CONSTANTS
  Bots,           \* ids of the bots there are from the start
  Testnet,        \* those that trade in mode TESTNET; the others, and the user, PAPER
  MaxRows,        \* bound: positions
  MaxTime,        \* bound: the clock, in ticks
  Prices,         \* what a fill may cost
  EntryPrices,    \* bound: what a position may be opened at
  SourceWindow,   \* 5 seconds (b3d9f0a1c2e4)
  LinkWindow,     \* 120 seconds (a1b2c3d4e5f7)
  SizingWindow,   \* 10 minutes (b2c3d4e5f6a8)
  Deployed,       \* bound: the revisions at which an application runs
  MaxDowngrades   \* bound

ASSUME SchemaConstants ==
  /\ {MaxRows, MaxTime, SourceWindow, LinkWindow, SizingWindow,
     MaxDowngrades} \subseteq Nat
  /\ EntryPrices \subseteq Prices
  /\ Bots \subseteq Nat /\ Testnet \subseteq Bots

--------------------------------------------------------------------------------
(* The tables of the application's models. *)

TradingTables == [
  strategy |-> {"id", "name", "version", "default_params", "source_file", "is_active", "created_at"},
  account |-> {"id", "name", "mode", "currency", "balance", "peak_equity", "leverage", "taker_fee",
    "maker_fee", "slippage_bps", "max_risk_pct", "max_open_risk_pct", "max_positions",
    "daily_loss_pct", "max_dd_pct", "status", "halted_reason", "halted_until", "market",
    "exch_equity", "exch_unrealized", "exch_margin", "exch_available", "income_cursor",
    "last_sync_at", "sync_error", "created_at"},
  account_txn |-> {"id", "account_id", "ts", "type", "amount", "balance_after", "position_id",
    "bot_id", "symbol", "note", "ext_id"},
  bot |-> {"id", "strategy_id", "symbol", "tf", "mode", "params", "status", "account_id", "sizing",
    "created_at"}]
FillTables == [
  order |-> {"id", "bot_id", "ext_id", "source", "mode", "symbol", "side", "type", "qty", "price",
    "status", "sl", "tp", "filled_qty", "avg_price", "fee", "position_id", "intent",
    "created_at", "updated_at"},
  position |-> {"id", "bot_id", "mode", "symbol", "side", "qty", "entry_price", "sl", "tp",
    "status", "exit_price", "pnl", "exit_reason", "init_sl", "source", "bot_ref", "strategy",
    "tf", "params", "account_id", "fee", "margin", "risk_amount", "ext_protect", "sizing",
    "opened_at", "closed_at"}]
ResearchTables == [
  backtest_run |-> {"id", "strategy_id", "params", "symbol", "tf", "from_ts", "to_ts", "capital",
    "fee_rate", "market", "leverage", "pnl_pct", "winrate", "max_dd", "sharpe", "n_trades",
    "equity_curve", "indicators", "engine", "sizing", "settings", "stats", "final_equity",
    "created_at"},
  backtest_trade |-> {"id", "run_id", "side", "entry_ts", "entry", "exit_ts", "exit", "pnl_pct",
    "sl", "tp", "qty", "pnl", "fee", "r", "reason", "mfe_r", "mae_r"},
  scan_result |-> {"id", "ts", "symbol", "score", "signal", "reason", "entry", "atr", "sl", "tp"},
  audit_log |-> {"id", "ts", "source", "mode", "bot_id", "symbol", "action", "detail"},
  app_setting |-> {"key", "value", "updated_at"}]
MarketTables == [
  watch_symbol |-> {"symbol", "created_at"},
  kline |-> {"symbol", "tf", "ts", "open", "high", "low", "close", "volume"}]

Columns(f, t) == IF t \in DOMAIN f THEN f[t] ELSE {}
Both(f, g) == [t \in DOMAIN f \cup DOMAIN g |-> Columns(f, t) \cup Columns(g, t)]
Models == Both(Both(TradingTables, FillTables), Both(ResearchTables, MarketTables))

--------------------------------------------------------------------------------
(* The revisions, oldest first: what upgrade() adds, by table, and what downgrade()
   drops: tables, and columns of tables that stay.  *)

NoColumns == [t \in {} |-> {}]
Revision(adds, tables, columns) == [adds |-> adds, tables |-> tables, columns |-> columns]
NewTables(tables) == Revision(tables, DOMAIN tables, NoColumns)
NewColumns(columns) == Revision(columns, {}, columns)

R0001 == NewTables([kline |-> {"symbol", "tf", "ts", "open", "high", "low", "close", "volume"}])
Rf4e6 == NewTables([
  strategy |-> {"id", "name", "version", "default_params", "source_file", "is_active", "created_at"},
  bot |-> {"id", "strategy_id", "symbol", "tf", "mode", "params", "status", "created_at"},
  order |-> {"id", "bot_id", "ext_id", "source", "mode", "symbol", "side", "type", "qty", "price",
    "status", "sl", "tp", "filled_qty", "avg_price", "fee", "created_at", "updated_at"},
  position |-> {"id", "bot_id", "mode", "symbol", "side", "qty", "entry_price", "sl", "tp",
    "status", "exit_price", "pnl", "opened_at", "closed_at"}])
Rcf84 == NewTables(
  [audit_log |-> {"id", "ts", "source", "mode", "bot_id", "symbol", "action", "detail"}])
Rd953 == NewTables([
  backtest_run |-> {"id", "strategy_id", "params", "symbol", "tf", "from_ts", "to_ts", "capital",
    "fee_rate", "pnl_pct", "winrate", "max_dd", "sharpe", "n_trades", "equity_curve", "created_at"},
  backtest_trade |-> {"id", "run_id", "side", "entry_ts", "entry", "exit_ts", "exit", "pnl_pct"}])
R39fe == NewTables([scan_result |-> {"id", "ts", "symbol", "score", "signal", "reason"}])
R9621 == NewColumns([scan_result |-> {"entry", "atr", "sl", "tp"}])
R3d53 == NewColumns([backtest_run |-> {"market", "leverage"}])
R6960 == NewTables([watch_symbol |-> {"symbol", "created_at"}])
R3ca6 == NewColumns([backtest_run |-> {"indicators"}, backtest_trade |-> {"sl", "tp"}])
Ra7c1 == NewColumns([position |-> {"exit_reason", "init_sl"}])
Rb3d9 == NewColumns([position |-> {"source", "bot_ref", "strategy", "tf", "params"}])
Rc5e1 ==
  LET tables == [
        account |-> {"id", "name", "mode", "currency", "balance", "peak_equity", "leverage",
          "taker_fee", "maker_fee", "slippage_bps", "max_risk_pct", "max_open_risk_pct",
          "max_positions", "daily_loss_pct", "max_dd_pct", "status", "halted_reason",
          "halted_until", "created_at"},
        account_txn |-> {"id", "account_id", "ts", "type", "amount", "balance_after",
          "position_id", "bot_id", "symbol", "note"}]
      columns == [bot |-> {"account_id", "sizing"},
                  position |-> {"account_id", "fee", "margin", "risk_amount"}] IN
  Revision(Both(tables, columns), DOMAIN tables, columns)
Rd7f2 == NewColumns([
  backtest_run |-> {"engine", "sizing", "settings", "stats", "final_equity"},
  backtest_trade |-> {"qty", "pnl", "fee", "r", "reason", "mfe_r", "mae_r"}])
Re9a3 == NewColumns([
  account |-> {"market", "exch_equity", "exch_unrealized", "exch_margin", "exch_available",
    "income_cursor", "last_sync_at", "sync_error"},
  account_txn |-> {"ext_id"},
  position |-> {"ext_protect"}])
Ra1b2OneWay == Revision([order |-> {"position_id", "intent"}], {}, [order |-> {"position_id"}])
Ra1b2 == NewColumns([order |-> {"position_id", "intent"}])
Rb2c3 == NewColumns([position |-> {"sizing"}])
Rc3d4 == NewTables([app_setting |-> {"key", "value", "updated_at"}])

Chain == <<R0001, Rf4e6, Rcf84, Rd953, R39fe, R9621, R3d53, R6960, R3ca6, Ra7c1, Rb3d9, Rc5e1,
           Rd7f2, Re9a3, Ra1b2, Rb2c3, Rc3d4>>
Newest == Len(Chain)

\* The revisions whose upgrade also fills in rows, and the one a row can stop.
InitSl == 10
Snapshot == 11
Ledger == 12
Exchange == 14
Links == 15
Sizing == 16

DroppedFrom(s, r) ==
  [t \in DOMAIN s \ Chain[r].tables |-> s[t] \ Columns(Chain[r].columns, t)]
SchemaAt == [r \in 0..Newest |->
  [t \in UNION {DOMAIN Chain[i].adds : i \in 1..r} |->
     UNION {Columns(Chain[i].adds, t) : i \in 1..r}]]

VARIABLES
  rev,          \* alembic_version, as a place in the chain
  schema,       \* the tables there are and their columns
  now,
  bots,         \* of each bot "none" once deleted, else its account: "null" or "main"
  positions, orders, audits,
  funding,      \* there are FUNDING postings
  downgrades

rowVars == <<now, bots, positions, orders, audits, funding>>
vars == <<rev, schema, rowVars, downgrades>>

Null == -1
Owners == Bots \cup {Null}
\* by is not a column: who opened the position.  It gives column mode as well.
Position == [bot : Owners, at : Nat, side : {"LONG", "SHORT"}, price : Prices, init : BOOLEAN,
             source : {"BOT", "MANUAL", "null"}, ref : Owners, sized : BOOLEAN,
             closed : Nat \cup {Null}, exit : Prices \cup {Null}, by : Owners]
\* by, of and was are not columns: whose order it is, the position it was for, and what
\* it did to it.
Order == [bot : Owners, at : Nat, price : Prices, side : {"BUY", "SELL"},
          type : {"MARKET", "LIMIT"}, status : {"NEW", "FILLED"},
          pos : Nat \cup {Null}, intent : {"OPEN", "CLOSE", "null"},
          by : Owners, of : Nat, was : {"OPEN", "CLOSE"}]
Audit == [bot : Bots, at : Nat]

SameMode(b, c) == (b \in Testnet) = (c \in Testnet)
\* The side of the order that opens or closes a position.
Side(p, intent) == IF (p.side = "LONG") = (intent = "OPEN") THEN "BUY" ELSE "SELL"

Since(r, new, old) == IF rev >= r THEN new ELSE old

Init ==
  /\ rev = 0
  /\ schema = NoColumns
  /\ now = 0
  /\ bots = [b \in Bots |-> "null"]
  /\ positions = <<>> /\ orders = <<>> /\ audits = {}
  /\ funding = FALSE
  /\ downgrades = 0

--------------------------------------------------------------------------------
(* The application between upgrades: what it writes of the columns there are. *)

Tick == now < MaxTime /\ now' = now + 1
SaysSince(r, new) == IF rev >= r THEN new ELSE "null"

\* Table bot is there and a bot's row is; a user needs none.
CanTrade(by) == rev >= 2 /\ (by # Null => bots[by] # "none")
IsFlat(by) == \A i \in 1..Len(positions) : positions[i].by = by => positions[i].closed # Null

NewPosition(by, side, price) ==
  [bot |-> by, at |-> now', side |-> side, price |-> price, init |-> Since(InitSl, TRUE, FALSE),
   source |-> SaysSince(Snapshot, IF by = Null THEN "MANUAL" ELSE "BOT"),
   ref |-> Since(Snapshot, by, Null), sized |-> Since(Sizing, TRUE, FALSE),
   closed |-> Null, exit |-> Null, by |-> by]

\* An order at market: its row is created when it is filled, with the position, for
\* which n is meant.
MarketOrder(p, n, price, intent) ==
  [bot |-> p.bot, at |-> now', price |-> price, side |-> Side(p, intent),
   type |-> "MARKET", status |-> "FILLED", pos |-> Since(Links, n, Null),
   intent |-> SaysSince(Links, intent), by |-> p.by, of |-> n, was |-> intent]

\* The audit entry of a bot's order, written before the executor acts; an order at
\* market follows it within the tick.
Audited(by) ==
  audits' = IF rev >= 3 /\ by # Null THEN audits \cup {[bot |-> by, at |-> now']} ELSE audits

OpenPosition(by, side, price) ==
  LET p == NewPosition(by, side, price) IN
  /\ CanTrade(by) /\ IsFlat(by) /\ Len(positions) < MaxRows
  /\ Tick
  /\ positions' = Append(positions, p)
  /\ orders' = Append(orders, MarketOrder(p, Len(positions) + 1, price, "OPEN"))
  /\ Audited(by)
  /\ UNCHANGED <<rev, schema, bots, funding, downgrades>>

\* The row of a LIMIT order is created when the order is queued ...
QueueLimit(by, side, price) ==
  /\ CanTrade(by) /\ Len(positions) < MaxRows
  /\ Tick
  /\ orders' = Append(orders,
       [bot |-> by, at |-> now', price |-> price, side |-> side, type |-> "LIMIT",
        status |-> "NEW", pos |-> Null, intent |-> "null", by |-> by, of |-> 0,
        was |-> "OPEN"])
  /\ Audited(by)
  /\ UNCHANGED <<rev, schema, bots, positions, funding, downgrades>>

\* ... and keeps its time when it fills, at its price, and opens a position.
FillLimit(k) ==
  LET o == orders[k]
      n == Len(positions) + 1 IN
  /\ o.status = "NEW"
  /\ CanTrade(o.by) /\ IsFlat(o.by) /\ n <= MaxRows
  /\ Tick
  /\ positions' = Append(positions,
       NewPosition(o.by, IF o.side = "BUY" THEN "LONG" ELSE "SHORT", o.price))
  /\ orders' = [orders EXCEPT ![k] = [o EXCEPT !.status = "FILLED", !.of = n,
       !.pos = Since(Links, n, Null), !.intent = SaysSince(Links, "OPEN")]]
  /\ UNCHANGED <<rev, schema, bots, audits, funding, downgrades>>

ClosePosition(i, price) ==
  /\ positions[i].closed = Null
  /\ Tick
  /\ positions' = [positions EXCEPT ![i].closed = now', ![i].exit = price]
  /\ orders' = Append(orders, MarketOrder(positions[i], i, price, "CLOSE"))
  /\ UNCHANGED <<rev, schema, bots, audits, funding, downgrades>>

\* delete_bot: the rows stay, without their bot.
Orphaned(row, b) == IF row.bot = b THEN [row EXCEPT !.bot = Null] ELSE row
DeleteBot(b) ==
  /\ rev >= 2 /\ bots[b] # "none"
  /\ bots' = [bots EXCEPT ![b] = "none"]
  /\ orders' = [k \in 1..Len(orders) |-> Orphaned(orders[k], b)]
  /\ positions' = [i \in 1..Len(positions) |-> Orphaned(positions[i], b)]
  /\ UNCHANGED <<rev, schema, now, audits, funding, downgrades>>

ImportFunding ==
  /\ rev >= Exchange /\ ~funding
  /\ funding' = TRUE
  /\ UNCHANGED <<rev, schema, now, bots, positions, orders, audits, downgrades>>

Application ==
  /\ rev \in Deployed
  /\ \/ \E by \in Owners, price \in EntryPrices :
          \/ \E side \in {"LONG", "SHORT"} : OpenPosition(by, side, price)
          \/ \E side \in {"BUY", "SELL"} : QueueLimit(by, side, price)
     \/ \E k \in 1..Len(orders) : FillLimit(k)
     \/ \E i \in 1..Len(positions), price \in Prices : ClosePosition(i, price)
     \/ \E b \in Bots : DeleteBot(b)
     \/ ImportFunding

--------------------------------------------------------------------------------
(* The rows an upgrade fills in *)

Distance(a, b) == IF a < b THEN b - a ELSE a - b
Near(a, b, window) == Distance(a, b) <= window

\* b3d9f0a1c2e4: by the bot, else by an audit entry of the same mode near the opening,
\* else by hand.  Of several entries UPDATE ... FROM takes any: found is its bot.
Entries(p) == {a \in audits : SameMode(a.bot, p.by) /\ Near(a.at, p.at, SourceWindow)}
LabelledNoManual(p, found) ==
  IF p.bot # Null THEN [p EXCEPT !.source = "BOT", !.ref = p.bot]
  ELSE IF Entries(p) # {} THEN [p EXCEPT !.source = "BOT", !.ref = found] ELSE p
LabelledByEntry(p, found) ==
  IF Entries(p) # {} THEN [p EXCEPT !.source = "BOT", !.ref = found]
  ELSE IF p.bot # Null THEN [p EXCEPT !.source = "BOT", !.ref = p.bot]
       ELSE [p EXCEPT !.source = "MANUAL"]
Labelled(p, found) ==
  IF p.bot # Null THEN [p EXCEPT !.source = "BOT", !.ref = p.bot]
  ELSE IF Entries(p) # {} THEN [p EXCEPT !.source = "BOT", !.ref = found]
       ELSE [p EXCEPT !.source = "MANUAL"]
MayFind(p, found) == IF Entries(p) = {} THEN found = CHOOSE b \in Bots : TRUE ELSE \E a \in Entries(p) : a.bot = found

\* a1b2c3d4e5f7: a filled order goes to the nearest position that fits it.
Owner(p) == IF p.ref # Null THEN p.ref ELSE p.bot
When(p, intent) == IF intent = "OPEN" THEN p.at ELSE p.closed
Price(p, intent) == IF intent = "OPEN" THEN p.price ELSE p.exit
Matches(o, intent) ==
  {i \in 1..Len(positions) :
     /\ SameMode(positions[i].by, o.by)
     /\ Owner(positions[i]) = o.bot
     /\ o.side = Side(positions[i], intent)
     /\ When(positions[i], intent) # Null
     /\ Near(o.at, When(positions[i], intent), LinkWindow)
     /\ o.price = Price(positions[i], intent)}
LinkedFirst(o, intent) ==
  IF o.status # "FILLED" \/ o.pos # Null \/ Matches(o, intent) = {} THEN o
  ELSE [o EXCEPT !.pos = CHOOSE i \in Matches(o, intent) : \A j \in Matches(o, intent) : i <= j,
                 !.intent = intent]
Linked(o, intent) ==
  LET Away(i) == Distance(o.at, When(positions[i], intent)) IN
  IF o.status # "FILLED" \/ o.pos # Null \/ Matches(o, intent) = {} THEN o
  ELSE [o EXCEPT !.pos = CHOOSE i \in Matches(o, intent) :
                            \A j \in Matches(o, intent) : Away(i) <= Away(j),
                 !.intent = intent]
LinkOrder(o) == Linked(Linked(o, "CLOSE"), "OPEN")

\* b2c3d4e5f6a8: the sizing in the bot's latest audit entry before the opening.
SizedFrom(p) ==
  [p EXCEPT !.sized = @ \/ \E a \in audits :
     /\ a.bot = Owner(p) /\ SameMode(a.bot, p.by)
     /\ p.at - SizingWindow <= a.at /\ a.at <= p.at + SourceWindow]

FilledRow(r, p, found) ==
  CASE r = InitSl -> [p EXCEPT !.init = TRUE]
    [] r = Snapshot -> Labelled(p, found)
    [] r = Sizing -> SizedFrom(p)
    [] OTHER -> p
\* c5e1a2b3d4f6 gives the bots of mode PAPER an account.
FillsIn(r) ==
  /\ \E found \in [1..Len(positions) -> Bots] :
       /\ \A i \in 1..Len(positions) : MayFind(positions[i], found[i])
       /\ positions' = [i \in 1..Len(positions) |-> FilledRow(r, positions[i], found[i])]
  /\ bots' = [b \in Bots |-> IF r = Ledger /\ bots[b] # "none" /\ b \notin Testnet
                              THEN "main" ELSE bots[b]]
  /\ orders' = IF r = Links THEN [i \in 1..Len(orders) |-> LinkOrder(orders[i])] ELSE orders
  /\ UNCHANGED <<now, audits, funding>>

\* What the rows lose with the columns and tables a downgrade drops.
LostRow(r, p) ==
  CASE r = InitSl -> [p EXCEPT !.init = FALSE]
    [] r = Snapshot -> [p EXCEPT !.source = "null", !.ref = Null]
    [] r = Sizing -> [p EXCEPT !.sized = FALSE]
    [] OTHER -> p
Loses(r) ==
  /\ positions' = [i \in 1..Len(positions) |-> LostRow(r, positions[i])]
  /\ bots' = [b \in Bots |-> IF r = Ledger /\ bots[b] # "none" THEN "null" ELSE bots[b]]
  /\ orders' = IF r # Links THEN orders
               ELSE [i \in 1..Len(orders) |-> [orders[i] EXCEPT !.pos = Null, !.intent = "null"]]
  /\ UNCHANGED <<now, audits, funding>>

--------------------------------------------------------------------------------
(* Alembic: one transaction per revision here; env.py runs several in one. *)

Upgrade ==
  /\ rev < Newest
  /\ rev' = rev + 1
  /\ schema' = Both(schema, Chain[rev + 1].adds)
  /\ FillsIn(rev + 1)
  /\ UNCHANGED downgrades

\* e9a3c5d7f1b2 restores a CHECK that knows no FUNDING: with such rows it fails and
\* nothing changes.  Downgrades that would drop positions are left to the operator.
Downgrade ==
  /\ rev > 3
  /\ rev = Exchange => ~funding
  /\ downgrades < MaxDowngrades
  /\ downgrades' = downgrades + 1
  /\ rev' = rev - 1
  /\ schema' = DroppedFrom(schema, rev)
  /\ Loses(rev)

Next == Application \/ Upgrade \/ Downgrade

\* The container upgrades to the head before it starts the application.
Spec == Init /\ [][Next]_vars /\ WF_vars(Upgrade)

--------------------------------------------------------------------------------
TypeOK ==
  /\ rev \in 0..Newest
  /\ bots \in [Bots -> {"none", "null", "main"}]
  /\ positions \in Seq(Position)
  /\ orders \in Seq(Order)
  /\ audits \subseteq Audit

\* Up or down, by whatever way, a revision has one schema: downgrades undo upgrades,
\* and at the head the tables are those of the models.
SchemaOfRevision ==
  /\ schema = SchemaAt[rev]
  /\ rev = Newest => schema = Models

\* Rows written before a revision have what the code after it expects of them: a stop
\* that R is measured against, a source, and an account for a bot that trades on paper.
NothingLeftNull ==
  /\ rev >= InitSl => \A i \in 1..Len(positions) : positions[i].init
  /\ rev >= Snapshot => \A i \in 1..Len(positions) : positions[i].source # "null"
  /\ rev >= Ledger => \A b \in Bots \ Testnet : bots[b] # "null"

\* "The snapshot keeps the info" (b3d9f0a1c2e4): a bot's trade is shown as that bot's,
\* from the revision on and after the bot is deleted.  A bot that is deleted before the
\* revision keeps its trade when an entry is near the opening and all of them are its
\* own: a LIMIT trade may open long after its entry, and another bot may have one there.
BotTradesKept ==
  \A i \in 1..Len(positions) :
    LET p == positions[i] IN
    /\ rev >= Snapshot /\ p.by # Null
    /\ p.bot = Null => Entries(p) # {} /\ \A a \in Entries(p) : a.bot = p.by
    => p.source = "BOT" /\ p.ref = p.by

\* Unless its bot is gone, an order at market that is linked is linked to the position
\* it was for, and as what it was.  Three guesses can be wrong (OrdersLinked does not
\* hold): a LIMIT order is looked for near the time it was queued; b3d9f0a1c2e4 takes a
\* trade by hand near an entry of a bot for the bot's; and the opening order of a
\* reversal is also on the side, at the price and at the time of the closing before it.
LinksRight ==
  \A k \in 1..Len(orders) :
    LET o == orders[k] IN
    /\ o.type = "MARKET" /\ o.pos # Null
    /\ o.bot = o.by
    /\ Owner(positions[o.of]) = o.bot
    /\ o.was = "OPEN" => Matches(o, "CLOSE") = {}
    => o.pos = o.of /\ o.intent = o.was

\* a1b2c3d4e5f7: "Link each fill to its trade: ... OPEN = entry, CLOSE = exit".
OrdersLinked ==
  \A k \in 1..Len(orders) :
    LET o == orders[k] IN
    o.bot = o.by /\ o.pos # Null => o.pos = o.of /\ o.intent = o.was
=============================================================================
