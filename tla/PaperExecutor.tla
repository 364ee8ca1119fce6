---------------------------- MODULE PaperExecutor ----------------------------
(***************************************************************************)
(* app/execution/paper.py: the executor of paper trading.  The engine of   *)
(* PaperEngine decides at once; what it decided is then written to the     *)
(* orders and positions tables and to the account's ledger, one await at a *)
(* time (_apply).  A handler is therefore a change of the engine followed  *)
(* by a list of jobs, and an action below is the code between two awaits.  *)
(* Tasks: "ticks", which runs on_price (a StrategyRunner, which also       *)
(* submits signals, or the price loop of ManualTrader) and API requests.   *)
(***************************************************************************)
EXTENDS PaperEngine, FiniteSets

CONSTANTS
  Apis,       \* API tasks that may be in flight at the same time
  Manual,     \* TRUE: ManualTrader's executor, FALSE: a bot's
  SignalOps,  \* actions of the strategy: subset of {MARKET, LIMIT, CLOSE, CANCEL}
  ApiOps,     \* requests: subset of {order, close, sltp, cancel}
  Prices,     \* prices a tick may bring
  LimitAt,    \* prices of LIMIT orders
  Lows, Highs,\* levels of SL and TP below and above the market
  MaxPos,     \* bound: position rows
  MaxLimits,  \* bound: LIMIT orders
  MaxApi,     \* bound: API requests
  MaxCrash    \* bound: process crashes

Ticks == "ticks"
Tasks == {Ticks} \cup Apis

ASSUME PaperOK ==
  /\ Ticks \notin Apis
  /\ Manual \in BOOLEAN
  /\ Prices \cup LimitAt \cup Lows \cup Highs \subseteq Nat \ {0}

VARIABLES
  app,       \* "up" | "down"
  eng,       \* self.engine
  price,     \* _last_price
  posDb,     \* _pos_db_id, 0 for None
  pendingDb, \* _pending_db: engine order id -> row of table orders
  rows,      \* table positions
  orders,    \* table orders: [status, pos, intent]
  booked,    \* account_txn: net amount booked per position row, 0 for no row
  todo,      \* jobs each task has left; the first is the one it awaits
  loc,       \* local values the awaited statement was built with
  request,   \* the API request each task carries
  raised,    \* an exception was raised in task "ticks"
  used,      \* budgets spent: [api, crash]
  made       \* history: net result of the closed trades, until a crash

memory == <<app, eng, price, posDb, pendingDb, raised>>
tables == <<rows, orders, booked>>
vars == <<memory, tables, todo, loc, request, used, made>>

RowIds   == DOMAIN rows
OpenRows == {r \in RowIds : rows[r].open}
\* "UNSEEN": inserted, and not committed.
NewOrders == {o \in DOMAIN orders : orders[o].status = "NEW"}
Job(kind, event, oid) == [kind |-> kind, closed |-> event.closed, oid |-> oid]
NoLocals == [row |-> 0, pos |-> Flat, fee |-> 0, order |-> 0]
-----------------------------------------------------------------------------
(* _apply: the awaits an event stands for, in the order of the code.       *)

JobsOf(e) ==
  (IF e.queued # 0 THEN <<Job("queue", e, e.queued)>> ELSE <<>>)
  \o (IF e.closed # NoClose THEN <<Job("close", e, 0), Job("book", e, 0)>>
      ELSE <<>>)
  \o (IF e.opened THEN <<Job("open", e, 0), Job("fee", e, 0)>> ELSE <<>>)
  \o (IF e.filledPending # 0 THEN <<Job("mark", e, e.filledPending)>>
      ELSE IF e.opened THEN <<Job("order", e, 0)>> ELSE <<>>)
  \o [i \in DOMAIN e.cancelled |-> Job("cancel", e, e.cancelled[i])]

Jobs(events) == FlattenSeq([i \in DOMAIN events |-> JobsOf(events[i])])

\* _mark_order of an order without a row, and record_fee of a zero fee, return
\* without an await.
Immediate(job, e, pend) ==
  \/ job.kind \in {"mark", "cancel"} /\ job.oid \notin DOMAIN pend
  \/ job.kind = "fee" /\ e.fee = 0

\* Task t runs on, with engine e, _pos_db_id p and _pending_db pend, up to the
\* next await of its jobs; new is the row just inserted, if any.
RunOn(t, jobs, e, p, pend, new) ==
  LET first == {i \in DOMAIN jobs : /\ ~Immediate(jobs[i], e, pend)
                                    /\ \A j \in 1..(i-1) : Immediate(jobs[j], e, pend)}
      rest == IF first = {} THEN <<>>
              ELSE SubSeq(jobs, CHOOSE i \in first : TRUE, Len(jobs))
      failed == rest # <<>> /\ rest[1].kind = "open" /\ e.pos = Flat
      job == rest[1]
      popped == rest # <<>> /\ job.kind \in {"mark", "cancel"}
  IN /\ eng' = e
     /\ posDb' = p
     /\ todo' = [todo EXCEPT ![t] = IF failed THEN <<>> ELSE rest]
     /\ raised' = (raised \/ (failed /\ t = Ticks))
     /\ pendingDb' = IF popped THEN [o \in DOMAIN pend \ {job.oid} |-> pend[o]]
                     ELSE pend
     /\ loc' = [loc EXCEPT ![t] =
          IF rest = <<>> \/ failed THEN NoLocals
          ELSE [row   |-> IF job.kind = "fee" THEN new ELSE p,
                pos   |-> e.pos,
                fee   |-> e.fee,
                order |-> IF popped THEN pend[job.oid] ELSE 0]]

\* The net result of the trades that events close.
Net(events) ==
  FoldLeft(LAMBDA sum, e : sum + e.closed.gross - e.closed.entryFee - e.closed.exitFee,
           0, events)
Handle(t, result) ==
  /\ RunOn(t, Jobs(result.events), result.eng, posDb, pendingDb, 0)
  /\ made' = IF used.crash = 0 THEN made + Net(result.events) ELSE made

\* The awaited job of task t is done.
Done(t, p, pend, new) == RunOn(t, Tail(todo[t]), eng, p, pend, new) /\ UNCHANGED made

Waiting(t, kind) == todo[t] # <<>> /\ todo[t][1].kind = kind
-----------------------------------------------------------------------------
(* The handlers.                                                           *)

Idle(t) == app = "up" /\ todo[t] = <<>>
\* Bound: position rows there are, or may come of what is already under way.
Room ==
  Len(rows) + Len(eng.pending)
    + Cardinality({x \in Tasks \X (1..20) : /\ x[2] \in DOMAIN todo[x[1]]
                                           /\ todo[x[1]][x[2]].kind = "open"})
    + Cardinality({t \in Apis : Waiting(t, "audit") /\ request[t] = "order"})
  < MaxPos
\* SL and TP of an order: none, or one of each on the proper sides.
Brackets(side) ==
  {[sl |-> 0, tp |-> 0]} \cup
  IF side = "BUY" THEN [sl : Lows, tp : Highs] ELSE [sl : Highs, tp : Lows]

\* on_price; an exception ends ManualTrader's price loop, but not a runner.
Tick(p) ==
  /\ Idle(Ticks)
  /\ ~(Manual /\ raised)
  /\ price' = p
  /\ Handle(Ticks, OnPrice(eng, p))
  /\ UNCHANGED <<app, tables, request, used>>

\* submit of a BUY or SELL, at the market or with a limit price.
PlaceOrder(t, action) ==
  /\ action = "LIMIT" => eng.oid < MaxLimits
  /\ \E side \in {"BUY", "SELL"}, at \in IF action = "LIMIT" THEN LimitAt ELSE {0} :
     \E b \in Brackets(side) :
       Handle(t, Submit(eng, [action |-> action, side |-> side, price |-> at,
                              sl |-> b.sl, tp |-> b.tp], price'))

\* The strategy's signal at the close of a candle.
Signal(action) ==
  /\ action \in SignalOps
  /\ Idle(Ticks) /\ ~Manual
  /\ price # 0
  /\ UNCHANGED price
  /\ \/ action \in {"MARKET", "LIMIT"} /\ Room /\ PlaceOrder(Ticks, action)
     \/ /\ action \in {"CLOSE", "CANCEL"}
        /\ Handle(Ticks, Submit(eng, [action |-> action], price))
  /\ UNCHANGED <<app, tables, request, used>>

\* A route finds its row (OPEN position, NEW order) and writes the audit entry.
ApiRequest(t, op) ==
  /\ op \in ApiOps
  /\ Idle(t)
  /\ used.api < MaxApi
  /\ op \in {"close", "sltp"} => OpenRows # {}
  /\ op = "cancel" => NewOrders # {}
  /\ op = "order" => Manual /\ Room
  /\ used' = [used EXCEPT !.api = @ + 1]
  /\ request' = [request EXCEPT ![t] = op]
  /\ todo' = [todo EXCEPT ![t] = <<Job("audit", Event, 0)>>]
  /\ UNCHANGED <<memory, tables, loc, made>>

\* The audit entry is written; what the request does now, it does to the
\* engine of this moment.
ApiAct(t) ==
  /\ Waiting(t, "audit")
  /\ \/ /\ request[t] = "order"
        /\ \/ price' \in Prices /\ PlaceOrder(t, "MARKET")  \* seed_price
           \/ UNCHANGED price /\ PlaceOrder(t, "LIMIT")
     \/ /\ UNCHANGED price
        /\ \/ request[t] = "close"  /\ Handle(t, ForceClose(eng, price))
           \/ request[t] = "cancel" /\ Handle(t, CancelAll(eng))
           \/ request[t] = "sltp" /\ eng.pos = Flat /\ Handle(t, Result(eng, <<>>))
           \/ /\ request[t] = "sltp" /\ eng.pos # Flat
              /\ \E b \in Brackets(IF eng.pos.side = "LONG" THEN "BUY" ELSE "SELL") :
                   RunOn(t, IF posDb = 0 THEN <<>> ELSE <<Job("sltp", Event, 0)>>,
                         [eng EXCEPT !.pos.sl = b.sl, !.pos.tp = b.tp],
                         posDb, pendingDb, 0)
              /\ UNCHANGED made
  /\ UNCHANGED <<app, tables, request, used>>
-----------------------------------------------------------------------------
(* The jobs.                                                               *)

\* _pending_db with one more order.
Remember(oid, row) ==
  [o \in DOMAIN pendingDb \cup {oid} |-> IF o = oid THEN row ELSE pendingDb[o]]
FlushQueuedMutant(t) ==  \* the order id is not remembered
  /\ Waiting(t, "queue") /\ loc[t].order = 0
  /\ orders' = Append(orders, [status |-> "UNSEEN", pos |-> 0, intent |-> "none"])
  /\ loc' = [loc EXCEPT ![t].order = Len(orders) + 1]
  /\ UNCHANGED <<app, eng, price, posDb, pendingDb, raised, rows, booked, todo,
                 request, used, made>>
\* _persist_queued up to its commit: the row has its id, remembered under the
\* engine's order id, and no other session sees it yet.
FlushQueued(t) ==
  /\ Waiting(t, "queue") /\ loc[t].order = 0
  /\ orders' = Append(orders, [status |-> "UNSEEN", pos |-> 0, intent |-> "none"])
  /\ pendingDb' = Remember(todo[t][1].oid, Len(orders) + 1)
  /\ loc' = [loc EXCEPT ![t].order = Len(orders) + 1]
  /\ UNCHANGED <<app, eng, price, posDb, raised, rows, booked, todo, request,
                 used, made>>
\* _persist_queued's commit: a NEW row.
PersistQueued(t) ==
  /\ Waiting(t, "queue") /\ loc[t].order # 0
  /\ orders' = [orders EXCEPT ![loc[t].order].status = "NEW"]
  /\ Done(t, posDb, pendingDb, 0)
  /\ UNCHANGED <<app, price, rows, booked, request, used>>

PersistCloseMutant(t) ==  \* the row stays OPEN
  /\ Waiting(t, "close")
  /\ orders' = Append(orders,
       [status |-> "FILLED", pos |-> loc[t].row, intent |-> "CLOSE"])
  /\ Done(t, posDb, pendingDb, 0)
  /\ UNCHANGED <<app, price, rows, booked, request, used>>
\* _persist_close up to its commit: the position is CLOSED, with its order.
PersistClose(t) ==
  /\ Waiting(t, "close")
  /\ LET c == todo[t][1].closed
         r == loc[t].row
     IN /\ rows' = IF r = 0 THEN rows
                   ELSE [rows EXCEPT ![r].open = FALSE,
                           ![r].pnl = c.gross - c.entryFee - c.exitFee,
                           ![r].fee = c.entryFee + c.exitFee]
        /\ orders' = Append(orders,
             [status |-> "FILLED", pos |-> r, intent |-> "CLOSE"])
  /\ Done(t, posDb, pendingDb, 0)
  /\ UNCHANGED <<app, price, booked, request, used>>

BookCloseMutant(t) ==  \* the exit fee is not booked
  /\ Waiting(t, "book")
  /\ LET c == todo[t][1].closed
     IN booked' = [booked EXCEPT ![loc[t].row] = @ + c.gross]
  /\ Done(t, 0, pendingDb, 0)
  /\ UNCHANGED <<app, price, rows, orders, request, used>>
\* record_close books gross and exit fee; then _pos_db_id = None.
BookClose(t) ==
  /\ Waiting(t, "book")
  /\ LET c == todo[t][1].closed
     IN booked' = [booked EXCEPT ![loc[t].row] = @ + c.gross - c.exitFee]
  /\ Done(t, 0, pendingDb, 0)
  /\ UNCHANGED <<app, price, rows, orders, request, used>>

\* _persist_position_open: the row is the engine's position at the INSERT.
PersistOpen(t) ==
  /\ Waiting(t, "open")
  /\ rows' = Append(rows, [side |-> loc[t].pos.side, entry |-> loc[t].pos.entry,
                           sl |-> loc[t].pos.sl, tp |-> loc[t].pos.tp,
                           fee |-> loc[t].fee, open |-> TRUE, pnl |-> 0])
  /\ booked' = [r \in 0..Len(rows) + 1 |-> IF r \in DOMAIN booked THEN booked[r] ELSE 0]
  /\ Done(t, Len(rows) + 1, pendingDb, Len(rows) + 1)
  /\ UNCHANGED <<app, price, orders, request, used>>

\* record_fee books the fee the engine held when the row was committed.
BookFee(t) ==
  /\ Waiting(t, "fee")
  /\ booked' = [booked EXCEPT ![loc[t].row] = @ - loc[t].fee]
  /\ Done(t, posDb, pendingDb, 0)
  /\ UNCHANGED <<app, price, rows, orders, request, used>>

\* _persist_order_filled: a market order, linked to what it opened.
PersistFilled(t) ==
  /\ Waiting(t, "order")
  /\ orders' = Append(orders,
       IF loc[t].pos = Flat
       THEN [status |-> "FILLED", pos |-> 0, intent |-> "none"]
       ELSE [status |-> "FILLED", pos |-> loc[t].row, intent |-> "OPEN"])
  /\ Done(t, posDb, pendingDb, 0)
  /\ UNCHANGED <<app, price, rows, booked, request, used>>

MarkOrderMutant(t) ==  \* the filled order is not linked to the position
  /\ Waiting(t, "mark") \/ Waiting(t, "cancel")
  /\ orders' = [orders EXCEPT ![loc[t].order].status =
       IF Waiting(t, "mark") THEN "FILLED" ELSE "CANCELLED"]
  /\ Done(t, posDb, pendingDb, 0)
  /\ UNCHANGED <<app, price, rows, booked, request, used>>
MarkOrderDirty(t) ==  \* the row is written before it is committed
  /\ Waiting(t, "mark") \/ Waiting(t, "cancel")
  /\ orders' = [orders EXCEPT ![loc[t].order] =
       IF Waiting(t, "mark") THEN [status |-> "FILLED", pos |-> posDb, intent |-> "OPEN"]
       ELSE [status |-> "CANCELLED", pos |-> 0, intent |-> "none"]]
  /\ Done(t, posDb, pendingDb, 0)
  /\ UNCHANGED <<app, price, rows, booked, request, used>>
Committed(o) == orders[o].status # "UNSEEN"
\* _mark_order: a LIMIT order's row becomes FILLED or CANCELLED.  Of a row that is
\* not committed yet the UPDATE of a cancel finds nothing.
MarkOrder(t) ==
  /\ LET o == loc[t].order
     IN \/ /\ Waiting(t, "mark") /\ Committed(o)
           /\ orders' = [orders EXCEPT ![o] =
                [status |-> "FILLED", pos |-> posDb, intent |-> "OPEN"]]
        \/ /\ Waiting(t, "cancel")
           /\ orders' = IF Committed(o) THEN [orders EXCEPT ![o].status = "CANCELLED"]
                        ELSE orders
  /\ Done(t, posDb, pendingDb, 0)
  /\ UNCHANGED <<app, price, rows, booked, request, used>>

\* ... and the session.get of a fill finds None: the exception ends the handler.
MarkFails(t) ==
  /\ Waiting(t, "mark") /\ ~Committed(loc[t].order)
  /\ todo' = [todo EXCEPT ![t] = <<>>]
  /\ loc' = [loc EXCEPT ![t] = NoLocals]
  /\ raised' = (raised \/ t = Ticks)
  /\ UNCHANGED <<app, eng, price, posDb, pendingDb, tables, request, used, made>>

\* modify_sltp's UPDATE.
PersistSltp(t) ==
  /\ Waiting(t, "sltp")
  /\ rows' = [rows EXCEPT ![loc[t].row].sl = loc[t].pos.sl,
                          ![loc[t].row].tp = loc[t].pos.tp]
  /\ Done(t, posDb, pendingDb, 0)
  /\ UNCHANGED <<app, price, orders, booked, request, used>>
-----------------------------------------------------------------------------
(* The process.                                                            *)

Crash ==
  /\ app = "up" /\ used.crash < MaxCrash
  /\ used' = [used EXCEPT !.crash = @ + 1]
  /\ app' = "down"
  /\ eng' = Engine0 /\ price' = 0 /\ posDb' = 0 /\ pendingDb' = <<>>
  /\ raised' = FALSE
  /\ todo' = [t \in Tasks |-> <<>>]
  /\ loc' = [t \in Tasks |-> NoLocals]
  /\ made' = 0
  /\ UNCHANGED <<tables, request>>

\* restore_open: the newest OPEN row goes back into the engine; LIMIT orders
\* do not.
Restart ==
  /\ app = "down"
  /\ app' = "up"
  /\ IF OpenRows = {}
     THEN UNCHANGED <<eng, posDb>>
     ELSE LET r == CHOOSE x \in OpenRows : \A y \in OpenRows : y <= x
          IN /\ posDb' = r
             /\ eng' = [Engine0 EXCEPT !.fee = rows[r].fee,
                          !.pos = [side |-> rows[r].side, entry |-> rows[r].entry,
                                   sl |-> rows[r].sl, tp |-> rows[r].tp]]
  /\ UNCHANGED <<price, pendingDb, raised, tables, todo, loc, request, used, made>>
-----------------------------------------------------------------------------
Init ==
  /\ app = "up" /\ eng = Engine0 /\ price = 0 /\ posDb = 0 /\ pendingDb = <<>>
  /\ rows = <<>> /\ orders = <<>>
  /\ booked = [r \in 0..0 |-> 0]
  /\ todo = [t \in Tasks |-> <<>>] /\ loc = [t \in Tasks |-> NoLocals]
  /\ request = [t \in Apis |-> "none"]
  /\ raised = FALSE
  /\ used = [api |-> 0, crash |-> 0] /\ made = 0

JobStep(t) ==
  \/ FlushQueued(t) \/ PersistQueued(t) \/ PersistClose(t) \/ BookClose(t)
  \/ PersistOpen(t) \/ BookFee(t) \/ PersistFilled(t) \/ MarkOrder(t) \/ MarkFails(t)

Next ==
  \/ \E p \in Prices : Tick(p)
  \/ \E action \in {"MARKET", "LIMIT", "CLOSE", "CANCEL"} : Signal(action)
  \/ \E t \in Apis :
       \/ \E op \in {"order", "close", "sltp", "cancel"} : ApiRequest(t, op)
       \/ ApiAct(t) \/ PersistSltp(t)
  \/ \E t \in Tasks : JobStep(t)
  \/ Crash \/ Restart

Spec == Init /\ [][Next]_vars
-----------------------------------------------------------------------------
(* Properties.                                                             *)

\* Every variable holds a value of the kind the code stores in it.
TypeOK ==
  /\ app \in {"up", "down"} /\ raised \in BOOLEAN
  /\ eng.pos.side \in {"LONG", "SHORT", "FLAT"} /\ eng.fee \in Nat
  /\ posDb \in RowIds \cup {0}
  /\ \A o \in DOMAIN pendingDb : o \in 1..MaxLimits /\ pendingDb[o] \in DOMAIN orders
  /\ \A r \in RowIds : rows[r].side \in {"LONG", "SHORT"} /\ rows[r].pnl \in Int
  /\ \A o \in DOMAIN orders :
       /\ orders[o].status \in {"UNSEEN", "NEW", "FILLED", "CANCELLED"}
       /\ orders[o].pos \in RowIds \cup {0}
  /\ booked \in [0..Len(rows) -> Int] /\ made \in Int

AtRest == app = "up" /\ \A t \in Tasks : todo[t] = <<>>
\* No request has reached the executor.  (What a close that meets a tick does to the
\* rows is AtMostOnePosition.)
Alone == used.api = 0

\* Database and memory agree whenever no handler of a bot is running (paper.py:120-138):
\* one OPEN row, the engine's, with its SL and TP and its entry fee; none when
\* the engine is flat.
RowsMatchEngine ==
  AtRest /\ Alone =>
    IF eng.pos = Flat
    THEN OpenRows = {}
    ELSE /\ OpenRows = {posDb}
         /\ [side |-> rows[posDb].side, entry |-> rows[posDb].entry,
             sl |-> rows[posDb].sl, tp |-> rows[posDb].tp] = eng.pos
         /\ rows[posDb].fee = eng.fee

Balanced(r) == booked[r] = IF rows[r].open THEN -rows[r].fee ELSE rows[r].pnl

\* What the ledger holds is what the engine has made: the net result of each trade it
\* closed and the entry fee of the one it has open.
LedgerComplete == FoldFunction(+, 0, booked) = made - eng.fee

\* "every PnL/fee is booked" (paper.py:46), at rest and while the process lives.  It does
\* not hold: a tick that fills a LIMIT order and takes the new position out again trips
\* the assertion of paper.py:172, and neither fee nor loss is booked.
EveryPnlBooked == AtRest /\ used.crash = 0 => LedgerComplete

\* Until an exception has ended a handler of the tick's task, and for a bot that has
\* placed at most one LIMIT order (two that fill on one tick are both written with the
\* fee of the last), each row's entries are its entry fee and, once closed, its net
\* result, and nothing the engine made is missing from the ledger (paper.py:120-211).
TradesBooked ==
  AtRest /\ Alone /\ used.crash = 0 /\ ~raised /\ eng.oid <= 1 =>
    LedgerComplete /\ booked[0] = 0 /\ \A r \in RowIds : Balanced(r)

Linked(r, intent) == {o \in DOMAIN orders : orders[o].pos = r /\ orders[o].intent = intent}

\* The trade review joins orders to positions: while the process lives, a trade
\* has one OPEN order and, once closed, one CLOSE order.
TradesPaired ==
  AtRest /\ Alone /\ used.crash = 0 =>
    \A r \in RowIds :
      /\ Cardinality(Linked(r, "OPEN")) = 1
      /\ Cardinality(Linked(r, "CLOSE")) = IF rows[r].open THEN 0 ELSE 1

\* A LIMIT order resting in the engine can be seen and cancelled: at rest its row is
\* committed and NEW, and _pending_db leads to it, whatever was filled or cancelled
\* while a row was on its way (paper.py:140-150).
PendingTracked ==
  AtRest =>
    \A i \in DOMAIN eng.pending :
      /\ eng.pending[i].oid \in DOMAIN pendingDb
      /\ orders[pendingDb[eng.pending[i].oid]].status = "NEW"

\* Of two handlers that fill and cancel the same LIMIT order only one writes its row
\* (the engine drops the order, and _mark_order pops it, before anyone awaits;
\* paper.py:153-158): what is FILLED or CANCELLED stays so, and is not made NEW by a
\* commit that comes late.
OrdersSettleOnce ==
  [][\A o \in DOMAIN orders :
       orders[o].status \in {"FILLED", "CANCELLED"} => orders'[o] = orders[o]]_vars

\* "a bot holds at most 1 position" (docs/05-Strategy-Dev-Guide.md:51), for the
\* table a restart reads: at rest at most one row is OPEN.
AtMostOnePosition == AtRest => Cardinality(OpenRows) <= 1

Book == INSTANCE TradeBook WITH
  book <- [r \in RowIds |-> IF rows[r].open THEN "OPEN" ELSE "CLOSED"]
\* The positions table is a TradeBook: one trade at a time, closed for good.
IsTradeBook == Book!Spec
=============================================================================
