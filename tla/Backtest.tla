------------------------------ MODULE Backtest ------------------------------
(***************************************************************************)
(* The account-simulation backtest: app/backtest/sim.py with the sizing    *)
(* and the guards of app/account/risk.py, run by app/api/backtest.py, over *)
(* the matching engine of PaperEngine.                                     *)
(*                                                                         *)
(* One step is one candle.  The strategy is any: when a candle closes it   *)
(* may send one signal of Orders, and a CLOSE before an entry, which is as *)
(* much as on_candle returns in any strategy there is.  Prices are whole   *)
(* ticks, quantities whole units, money is counted in Scale-ths of a tick, *)
(* and divisions round down.  A limit of 0 stands for None.                *)
(***************************************************************************)
EXTENDS Integers, Sequences, FiniteSets, SequencesExt

CONSTANTS
  Capital, Scale,
  TakerFee, MakerFee,  \* money per tick of price
  Slip,                \* ticks
  LiqDistance,         \* ticks from the entry to the liquidation of a leveraged position
  MaxRiskPct, MaxOpenRiskPct, DailyLossPct, MaxDdPct,
  MinNotional,
  DayLength,           \* candles of a day
  MinCandles,          \* fewer are refused
  MaxCandles,          \* bound
  MaxPending,          \* bound: resting LIMIT orders
  Starts,              \* where in a day the history may begin, in candles
  Bars,                \* the candles that may come: open, high, low, close
  Orders,              \* the signals a strategy may send
  Variants             \* the sizing variants of a request: method, value, leverage

ASSUME BacktestConstants ==
  /\ {Capital, Scale, DayLength} \subseteq Nat \ {0}
  /\ {TakerFee, MakerFee, Slip, LiqDistance, MaxRiskPct, MaxOpenRiskPct, DailyLossPct, MaxDdPct,
      MinNotional, MinCandles, MaxCandles, MaxPending} \subseteq Nat
  /\ Starts \subseteq Nat
  /\ Bars \subseteq [{"open", "high", "low", "close"} -> Nat]
  /\ \A b \in Bars : /\ b.low <= b.open /\ b.low <= b.close /\ b.open <= b.high /\ b.close <= b.high
                     /\ Slip < b.low  \* slippage is a fraction of the price
  /\ Orders \subseteq [action : {"none", "MARKET", "LIMIT", "CLOSE", "CANCEL"}, side : {"", "BUY", "SELL"},
                      price : Nat, sl : Nat, tp : Nat, size : Nat, qty : {0}, target : {0}]
  /\ \A o \in Orders : /\ {o.price, o.sl, o.tp} \cap 1..Slip = {}
                       /\ o.action \in {"MARKET", "LIMIT"} => o.side # ""
                       /\ o.action = "LIMIT" => o.price # 0
  /\ Variants \subseteq
       [method : {"risk_pct", "risk_usdt", "notional_pct", "notional_usdt", "fixed_qty"},
        value : Nat, leverage : Nat]

VARIABLES
  cfg,     \* the variant that runs: method, value, leverage
  start,   \* the first candle's time, in candles
  sim,     \* the _Sim
  n,       \* candles done
  outcome, \* "running", "done" (saved), "failed" (an exception: HTTP 500)
  \* not in the code, which remembers until when it is halted:
  met,     \* the limits that entries have met: the drawdown; the day's loss, last on day
           \* `on`, as the loss of day `of`
  denied   \* the last candle's entry was refused as halted

backtestVars == <<cfg, start, sim, n, outcome, met, denied>>

Liq == IF cfg.leverage > 1 THEN LiqDistance ELSE 0
\* The engine: gap_fill is on, but for the ticks within a candle.
Gapped == INSTANCE PaperEngine WITH GapFill <- TRUE, LiqGap <- Liq
Smooth == INSTANCE PaperEngine WITH GapFill <- FALSE, LiqGap <- Liq

Market == {"SPOT", "FUTURES"}
Never == -1
NoTrade == [entryTs |-> Never, entry |-> 0, sl |-> 0, qty |-> 0, type |-> "none", target |-> 0]
NoLast == [pnl |-> 0, fee |-> 0, qty |-> 0, reason |-> "none", gap |-> FALSE, type |-> "none", target |-> 0]

\* cfg_for: no leverage on SPOT, and never below 1.
ConfigFor(v, market) ==
  [method |-> v.method, value |-> v.value,
   leverage |-> IF market = "SPOT" \/ v.leverage < 1 THEN 1 ELSE v.leverage]

SimInit ==
  [eng |-> Gapped!Engine0, qty |-> 0, balance |-> Capital, peak |-> Capital,
   day |-> Never, dayStart |-> Capital, realized |-> 0,
   haltedUntil |-> Never, ddHalt |-> Never, liquidated |-> FALSE,
   open |-> NoTrade, fees |-> 0,
   \* the trades: how many, the sums of their pnl and fee, and the last one
   trades |-> 0, pnl |-> 0, tradeFees |-> 0, last |-> NoLast,
   \* not in the code: an exception was raised; one price filled two resting orders
   failed |-> FALSE, twice |-> FALSE]

BacktestInit ==
  /\ \E v \in Variants, market \in Market : cfg = ConfigFor(v, market)
  /\ start \in Starts
  /\ sim = SimInit
  /\ n = 0
  /\ outcome = "running"
  /\ met = [drawdown |-> FALSE, on |-> Never, of |-> Never]
  /\ denied = FALSE

--------------------------------------------------------------------------------
(* The account *)

Unrealized(s, price) ==
  IF s.eng.pos.side = "FLAT" THEN 0
  ELSE Scale * s.qty * Gapped!Profit(s.eng.pos, price)
Margin(s) == (Scale * s.eng.pos.entry * s.qty) \div cfg.leverage

\* position_risk: what the stop would lose, the whole notional without one.
PositionRisk(side, qty, entry, sl) ==
  LET loss == IF side = "LONG" THEN entry - sl ELSE sl - entry IN
  IF sl = 0 THEN Scale * qty * entry ELSE IF loss > 0 THEN Scale * qty * loss ELSE 0
OpenRisk(s) == PositionRisk(s.eng.pos.side, s.qty, s.eng.pos.entry, s.eng.pos.sl)

AccountState(s, price) ==
  LET eq == s.balance + Unrealized(s, price) IN
  [equity |-> eq, available |-> eq - Margin(s),
   openRisk |-> IF s.eng.pos.side = "FLAT" THEN 0 ELSE OpenRisk(s),
   dailyPnl |-> s.realized + Unrealized(s, price),
   dayStart |-> IF s.dayStart # 0 THEN s.dayStart ELSE s.balance,
   peak |-> IF eq > s.peak THEN eq ELSE s.peak]

DrawdownHit(a) == MaxDdPct > 0 /\ (a.peak - a.equity) * 100 >= MaxDdPct * a.peak
DailyLossHit(a) == DailyLossPct > 0 /\ a.dayStart > 0 /\ -a.dailyPnl * 100 >= DailyLossPct * a.dayStart

NewDay(s, ts) ==
  IF ts \div DayLength = s.day THEN s
  ELSE [s EXCEPT !.day = ts \div DayLength, !.dayStart = s.balance, !.realized = 0]

--------------------------------------------------------------------------------
(* Engine events and the books *)

CloseTradeFeeTwice(s, c, qty, ts, gap) ==  \* the entry fee again
  LET pnl == Scale * qty * c.gross - qty * (c.entryFee + c.exitFee)
      fee == qty * (c.entryFee + c.exitFee) IN
  [s EXCEPT !.balance = @ + pnl, !.realized = @ + pnl, !.fees = @ + qty * c.exitFee,
            !.trades = @ + 1, !.pnl = @ + pnl, !.tradeFees = @ + fee,
            !.last = [pnl |-> pnl, fee |-> fee, qty |-> qty, reason |-> c.reason, gap |-> gap,
                      type |-> s.open.type, target |-> s.open.target],
            !.open = NoTrade, !.liquidated = @ \/ s.balance + pnl <= 0]
CloseTrade(s, c, qty, ts, gap) ==
  LET net == Scale * qty * c.gross - qty * c.exitFee
      pnl == net - qty * c.entryFee
      fee == qty * (c.entryFee + c.exitFee) IN
  [s EXCEPT !.balance = @ + net, !.realized = @ + net, !.fees = @ + qty * c.exitFee,
            !.trades = @ + 1, !.pnl = @ + pnl, !.tradeFees = @ + fee,
            !.last = [pnl |-> pnl, fee |-> fee, qty |-> qty, reason |-> c.reason, gap |-> gap,
                      type |-> s.open.type, target |-> s.open.target],
            !.open = NoTrade, !.liquidated = @ \/ s.balance + net <= 0]

\* _open reads the position of the engine, as it is after all the events of the call.
OpenTrade(s, order, ts) ==
  LET pos == s.eng.pos
      fee == s.qty * s.eng.fee IN
  IF pos.side = "FLAT" THEN [s EXCEPT !.failed = TRUE]
  ELSE [s EXCEPT !.balance = @ - fee, !.realized = @ - fee, !.fees = @ + fee,
                 !.open = [entryTs |-> ts, entry |-> pos.entry, sl |-> pos.sl, qty |-> s.qty,
                           type |-> order.action, target |-> order.target]]

\* result: what the engine left and reported.
OpensTwice(events) ==
  \E i, j \in 1..Len(events) : i < j /\ events[i].opened /\ events[j].opened
Took(s, result, q) ==
  [s EXCEPT !.eng = result.eng, !.qty = IF result.eng.pos.side = "FLAT" THEN 0 ELSE q,
            !.twice = @ \/ OpensTwice(result.events)]
Book(acc, e, order, qty, ts, gap) ==
  CASE ~acc.failed /\ e.opened -> OpenTrade(acc, order, ts)
    [] ~acc.failed /\ ~e.opened /\ e.closed.reason # "none" -> CloseTrade(acc, e.closed, qty, ts, gap)
    [] OTHER -> acc

\* The order that opened: a resting one that filled, or the one just placed.
Resting(s, oid) ==
  LET i == CHOOSE i \in 1..Len(s.eng.pending) : s.eng.pending[i].oid = oid
  IN s.eng.pending[i].order
OrderOf(s, e, placed) == IF e.filledPending = 0 THEN placed ELSE Resting(s, e.filledPending)

\* PaperEngine's orders have quantity 1: qty[i] is the quantity that event i is about.
Apply(s, result, placed, ts, gap) ==
  LET events == result.events
      m == Len(events)
      qty[i \in 0..m] ==
        IF i = 0 THEN s.qty
        ELSE IF events[i].opened THEN OrderOf(s, events[i], placed).qty ELSE qty[i - 1]
      book[i \in 0..m] ==
        IF i = 0 THEN Took(s, result, qty[m])
        ELSE Book(book[i - 1], events[i], OrderOf(s, events[i], placed), qty[i], ts, gap)
  IN book[m]

GapFillAlways(opening) == TRUE
\* Only the opening tick of a candle can jump over a stop.
GapFillAt(opening) == opening
Tick(s, price, opening, ts) ==
  IF s.failed THEN s
  ELSE Apply(s, IF GapFillAt(opening) THEN Gapped!OnPrice(s.eng, price) ELSE Smooth!OnPrice(s.eng, price),
             NoTrade, ts, opening)

\* _path: the prices a candle is taken to have gone through.
Path(b) == IF b.close >= b.open THEN <<b.open, b.low, b.high, b.close>>
           ELSE <<b.open, b.high, b.low, b.close>>
InCandle(s, b, ts) ==
  LET p == Path(b) IN
  IF s.eng.pos.side = "FLAT" /\ s.eng.pending = <<>> THEN s
  ELSE Tick(Tick(Tick(Tick(s, p[1], TRUE, ts), p[2], FALSE, ts), p[3], FALSE, ts), p[4], FALSE, ts)

--------------------------------------------------------------------------------
(* Sizing: size_order.  A quantity of 0 is a RiskReject. *)

AtMost(a, b) == IF a < b THEN a ELSE b

RiskTarget(a) == IF cfg.method = "risk_pct" THEN (a.equity * cfg.value) \div 100 ELSE cfg.value
WantedQty(order, entry, a) ==
  LET stop == IF order.sl > entry THEN order.sl - entry ELSE entry - order.sl IN
  CASE cfg.method \in {"risk_pct", "risk_usdt"} ->
         IF order.sl = 0 \/ stop = 0 THEN 0 ELSE RiskTarget(a) \div (Scale * stop)
    [] cfg.method = "notional_pct" -> (a.equity * cfg.value) \div (100 * Scale * entry)
    [] cfg.method = "notional_usdt" -> cfg.value \div (Scale * entry)
    [] cfg.method = "fixed_qty" -> IF cfg.value # 0 THEN cfg.value ELSE order.size

SizeOrderUnfreed(order, entry, a, freedMargin, freedRisk) ==  \* no margin check
  LET stop == IF order.sl > entry THEN order.sl - entry ELSE entry - order.sl
      unit == Scale * (IF order.sl = 0 \/ stop = 0 THEN entry ELSE stop)
      wanted == WantedQty(order, entry, a)
      capped == IF MaxRiskPct = 0 THEN wanted
                ELSE AtMost(wanted, (a.equity * MaxRiskPct) \div (100 * unit))
      room == (a.equity * MaxOpenRiskPct) \div 100 - (a.openRisk - freedRisk)
      roomy == IF MaxOpenRiskPct = 0 THEN capped ELSE AtMost(capped, room \div unit) IN
  IF wanted <= 0 \/ (MaxOpenRiskPct # 0 /\ room <= 0) \/ Scale * roomy * entry < MinNotional
  THEN 0 ELSE roomy
SizeOrder(order, entry, a, freedMargin, freedRisk) ==
  LET stop == IF order.sl > entry THEN order.sl - entry ELSE entry - order.sl
      unit == Scale * (IF order.sl = 0 \/ stop = 0 THEN entry ELSE stop)
      wanted == WantedQty(order, entry, a)
      capped == IF MaxRiskPct = 0 THEN wanted
                ELSE AtMost(wanted, (a.equity * MaxRiskPct) \div (100 * unit))
      room == (a.equity * MaxOpenRiskPct) \div 100 - (a.openRisk - freedRisk)
      roomy == IF MaxOpenRiskPct = 0 THEN capped ELSE AtMost(capped, room \div unit)
      avail == a.available + freedMargin
      unitCost == (Scale * entry + cfg.leverage - 1) \div cfg.leverage + entry * TakerFee
      qty == AtMost(roomy, avail \div unitCost) IN
  IF wanted <= 0 \/ (MaxOpenRiskPct # 0 /\ room <= 0) \/ avail <= 0 \/ Scale * qty * entry < MinNotional
  THEN 0 ELSE qty

--------------------------------------------------------------------------------
(* Guards *)

Stopped(s, ts) == s.liquidated \/ s.ddHalt # Never \/ ts \div DayLength < s.haltedUntil

\* blocked: the verdict, and the halt it leaves behind.
BlockedUntilToday(s, ts, price) ==  \* the day that halts is taken for the first that does not
  LET a == AccountState(s, price) IN
  IF Stopped(s, ts) THEN [blocked |-> TRUE, sim |-> s]
  ELSE IF DrawdownHit(a) THEN [blocked |-> TRUE, sim |-> [s EXCEPT !.ddHalt = ts]]
  ELSE IF DailyLossHit(a)
       THEN [blocked |-> TRUE, sim |-> [s EXCEPT !.haltedUntil = ts \div DayLength]]
  ELSE [blocked |-> FALSE, sim |-> s]
Blocked(s, ts, price) ==
  LET a == AccountState(s, price) IN
  IF Stopped(s, ts) THEN [blocked |-> TRUE, sim |-> s]
  ELSE IF DrawdownHit(a) THEN [blocked |-> TRUE, sim |-> [s EXCEPT !.ddHalt = ts]]
  ELSE IF DailyLossHit(a)
       THEN [blocked |-> TRUE, sim |-> [s EXCEPT !.haltedUntil = ts \div DayLength + 1]]
  ELSE [blocked |-> FALSE, sim |-> s]

\* Entries are sized; the order keeps, for the properties, what it was allowed to risk.
SizedOrder(s, order, entry, a) ==
  LET held == s.eng.pos.side # "FLAT" IN
  [order EXCEPT !.qty = SizeOrder(order, entry, a, IF held THEN Margin(s) ELSE 0,
                                  IF held THEN OpenRisk(s) ELSE 0),
                !.target = RiskTarget(a)]
Place(s, sized, close, ts) ==
  IF sized.qty = 0 THEN s
  ELSE Apply(s, Gapped!Submit(s.eng, sized, close), sized, ts, FALSE)
Enter(s, order, close, ts) ==
  LET entry == IF order.action = "LIMIT" THEN order.price ELSE close
      Admitted(gate) ==
        IF gate.blocked THEN gate.sim
        ELSE Place(gate.sim, SizedOrder(s, order, entry, AccountState(s, close)), close, ts) IN
  IF s.eng.pos.side = Gapped!Long(order.side) THEN s
  ELSE Admitted(Blocked(s, ts, close))

OnSignal(s, order, close, ts) ==
  CASE s.failed \/ order.action = "none" -> s
    [] ~s.failed /\ order.action \in {"CLOSE", "CANCEL"} ->
         Apply(s, Gapped!Submit(s.eng, order, close), order, ts, FALSE)
    [] OTHER -> Enter(s, order, close, ts)

--------------------------------------------------------------------------------
(* simulate_with *)

Settled(s, close) ==
  LET eq == s.balance + Unrealized(s, close) IN
  [s EXCEPT !.peak = IF eq > @ THEN eq ELSE @]

Now == start + n

\* What is still open after the last candle is closed at its price, marked END.
AtEnd(s, close) ==
  IF s.failed \/ s.eng.pos.side = "FLAT" THEN s
  ELSE [Apply(s, Gapped!ForceClose(s.eng, close), NoTrade, Now + 1, FALSE)
          EXCEPT !.last.reason = "END"]

CloseFirst == [action |-> "CLOSE", side |-> "", price |-> 0, sl |-> 0, tp |-> 0, size |-> 0,
               qty |-> 0, target |-> 0]
\* What the last signal of a candle finds, and what it leaves.
Deciding(b, closes) ==
  LET inside == InCandle(NewDay(sim, Now), b, Now) IN
  IF closes THEN OnSignal(inside, CloseFirst, b.close, Now + 1) ELSE inside
AfterCandle(at, order, close) == Settled(OnSignal(at, order, close, Now + 1), close)

\* What the guards mean: from an entry that meets a limit the account is halted, by the
\* drawdown for good and by the day's loss as long as the day is the same.
Asks(s, order) ==
  ~s.failed /\ order.action \in {"MARKET", "LIMIT"} /\ s.eng.pos.side # Gapped!Long(order.side)
Halted(m, ts) == m.drawdown \/ m.on = ts \div DayLength
Meets(m, s, a, ts) ==
  CASE Halted(m, ts) \/ s.liquidated -> m
    [] ~(Halted(m, ts) \/ s.liquidated) /\ DrawdownHit(a) -> [m EXCEPT !.drawdown = TRUE]
    [] ~(Halted(m, ts) \/ s.liquidated) /\ ~DrawdownHit(a) /\ DailyLossHit(a) ->
         [m EXCEPT !.on = ts \div DayLength, !.of = s.day]
    [] OTHER -> m

\* The last candle is the end of the history or the one that leaves no balance.  Then
\* the run and its trades are saved; an exception saves nothing.
Candle(b, closes, order, isLast) ==
  LET ts == Now + 1 IN
  /\ outcome = "running" /\ n < MaxCandles
  /\ isLast => n + 1 >= MinCandles
  /\ closes => order.action \in {"MARKET", "LIMIT"}
  /\ \E at \in {Deciding(b, closes)} : \E after \in {AfterCandle(at, order, b.close)} :
       LET over == isLast \/ after.liquidated IN
       /\ order.action = "LIMIT" => Len(at.eng.pending) < MaxPending
       /\ sim' = IF over THEN AtEnd(after, b.close) ELSE after
       /\ outcome' = IF after.failed THEN "failed" ELSE IF over THEN "done" ELSE outcome
       /\ met' = IF Asks(at, order) THEN Meets(met, at, AccountState(at, b.close), ts) ELSE met
       /\ denied' = (Asks(at, order) /\ ~at.liquidated /\ Blocked(at, ts, b.close).blocked)
  /\ n' = n + 1
  /\ UNCHANGED <<cfg, start>>

BacktestNext ==
  \E b \in Bars, closes \in BOOLEAN, order \in Orders, isLast \in BOOLEAN :
    Candle(b, closes, order, isLast)

BacktestSpec == BacktestInit /\ [][BacktestNext]_backtestVars

--------------------------------------------------------------------------------
BacktestTypeOK ==
  /\ n \in 0..MaxCandles
  /\ outcome \in {"running", "done", "failed"}
  /\ cfg.leverage >= 1
  /\ sim.eng.pos.side = "FLAT" <=> sim.qty = 0
  /\ outcome = "done" => sim.eng.pos.side = "FLAT"
  /\ sim.haltedUntil \in {Never} \cup 1..((start + MaxCandles) \div DayLength + 1)

\* The report explains the account: the balance is the capital, the trades' PnL and
\* the fee of the position still open, and every fee is some trade's, unless one
\* price filled two resting orders.
BooksBalance ==
  ~sim.failed /\ ~sim.twice =>
    /\ sim.balance = Capital + sim.pnl - sim.qty * sim.eng.fee
    /\ sim.fees = sim.tradeFees + sim.qty * sim.eng.fee
    /\ sim.open = NoTrade <=> sim.eng.pos.side = "FLAT"

\* A stop that is reached inside a candle loses what the order was sized to risk, with
\* slippage on both sides and the fees; only a gap at the opening loses more.
StopLosesRisk ==
  cfg.method \in {"risk_pct", "risk_usdt"} /\ sim.last.reason = "SL" /\ ~sim.last.gap /\ ~sim.twice =>
    -sim.last.pnl <= sim.last.target + sim.last.qty * 2 * Scale * Slip + sim.last.fee

\* A halt is set, lasts and ends: from the entry that meets a limit no market order opens
\* a position until the next day, or ever after a drawdown, whatever happens to equity
\* meanwhile; and no entry is refused as halted without such an entry before it that day.
\* (A LIMIT order that rests when the account halts still fills: nothing cancels it.)
EntersByMarket == sim'.open.type = "MARKET" /\ sim'.open # sim.open
HaltLasts ==
  [][/\ EntersByMarket => ~Halted(met', Now')
     /\ denied' => Halted(met', Now')]_backtestVars

\* "daily loss -> halt for the rest of the UTC day" (sim.py): who is refused on a day for a
\* daily loss has made the loss on that day.
HaltEndsWithDay == denied /\ ~met.drawdown => met.of = (Now - 1) \div DayLength

\* What is bought can be paid for: after a market entry the margin is covered by the
\* balance, but for slippage and, on a reversal, what the exit of the old position cost.
MarginCovered ==
  [][EntersByMarket =>
       LET reversal == IF sim'.trades = sim.trades THEN 0
                       ELSE sim'.last.qty * Scale * Slip + sim'.last.fee IN
       Margin(sim)' <= sim'.balance + sim'.qty * (Scale + TakerFee) * Slip + reversal]_backtestVars

\* The docstring has limit orders checked inside the candle; a backtest that has five
\* candles ends with a report.
NeverFails == outcome # "failed"
=============================================================================
