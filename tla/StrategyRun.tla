----------------------------- MODULE StrategyRun -----------------------------
(***************************************************************************)
(* A paper bot and its strategy: the candles that close one after another, *)
(* the runner's window of them, what the strategy decides, what becomes of *)
(* the signals, and the matching engine that holds the position.  What the *)
(* strategy believes (st) and what the engine holds (eng) are two states   *)
(* that only the signals keep together.                                    *)
(***************************************************************************)
EXTENDS IctPo3

CONSTANTS
  Cases  \* strategies with parameters, the market they meet, and a bound on its candles (last)
         \* and on refused entries, pauses and restarts together (troubles)

VARIABLES
  case,      \* the strategy and its parameters; never changes
  now,       \* ts of the next candle
  window,    \* the runner's deque of closed candles
  history,   \* of a stateless strategy: all of them, as a backtest gets them
  st,        \* the strategy instance
  eng,       \* the engine
  decided,   \* what on_candle last returned, and the position it was shown
  diary,     \* entries signalled today, and the day of the engine's position
  status,    \* RUNNING or PAUSED
  refused, pauses, restarts
candleVars == <<case, now, window, history>>
vars == <<candleVars, st, eng, decided, diary, status, refused, pauses, restarts>>

\* Fees, slippage and liquidation are left to PaperExecutor.
Engine == INSTANCE PaperEngine
            WITH TakerFee <- 0, MakerFee <- 0, Slip <- 0, LiqGap <- 0, GapFill <- TRUE

--------------------------------------------------------------------------------
(* The registry *)

Ict == {"ict1", "ict2", "ict3", "ict4"}
Names == Stateless \cup Ict \cup {"vol_breakout", "donchian2", "ichimoku2"}
ASSUME StrategyRunConstants ==
  /\ Cases # {}
  /\ \A c \in Cases :
       /\ c.name \in Names
       /\ {c.troubles, c.last} \subseteq Nat /\ {c.hours, c.lookback} \subseteq Nat \ {0}
       /\ c.name \in Ict => {c.asiaEndH, c.flattenH} \subseteq 1..23
       /\ c.name \in {"ict3", "ict4"} => c.maxPerDay \in Nat

InitialState(name) ==
  CASE name \in Ict -> IctInit
    [] name = "vol_breakout" -> VolInit
    [] name = "donchian2" -> DonchianInit
    [] name = "ichimoku2" -> TrailInit
    [] OTHER -> [side |-> "FLAT"]
OnCandle(p, s, cs, side) ==
  CASE p.name = "ict1" -> OnCandleV1(p, s, cs)
    [] p.name = "ict2" -> OnCandleV2(p, s, cs)
    [] p.name = "ict3" -> OnCandleV3(p, s, cs)
    [] p.name = "ict4" -> OnCandleV4(p, s, cs)
    [] p.name = "vol_breakout" -> VolBreakout(p, s, cs)
    [] p.name = "donchian2" -> DonchianV2(p, s, cs)
    [] p.name = "ichimoku2" -> IchimokuTrail(p, s, cs)
    [] p.name \in Stateless -> Result(s, Decide(p, cs, side))
Drawn(p, cs) ==
  CASE p.name \in Stateless -> Lines(p, cs)
    [] p.name = "vol_breakout" -> VolPlot(p, cs)
    [] p.name = "donchian2" -> DonchianPlot(p, cs)
    [] p.name = "ichimoku2" -> IchimokuPlot(p, cs)
    [] p.name \in Ict -> AsiaPlot(p, cs)

\* The position that the backtest engine shows the strategy after each candle.
SideAfterEntries(side, action) ==  \* a CLOSE is not followed
  CASE action = "BUY" -> "LONG" [] action = "SELL" -> "SHORT" [] action = "CLOSE" -> side
SideAfter(side, action) ==
  CASE action = "BUY" -> "LONG" [] action = "SELL" -> "SHORT" [] action = "CLOSE" -> "FLAT"
Replay(p, cs) ==
  LET Followed(r, side) ==
        [st |-> r.st, side |-> FoldLeft(LAMBDA held, sig : SideAfter(held, sig.action), side, r.signals)]
      Step(before, i) == Followed(OnCandle(p, before.st, SubSeq(cs, 1, i), before.side), before.side)
  IN FoldLeftDomain(Step, [st |-> InitialState(p.name), side |-> "FLAT"], cs)

--------------------------------------------------------------------------------
(* The runner *)

KeepLast(cs, k) == FinalPart(cs, Min({Len(cs), k}))
ReplaysIn(p) == p.name \in Stateless

NoEntries == [action \in {"BUY", "SELL"} |-> 0]
Init ==
  /\ case \in Cases
  /\ now = 0 /\ window = <<>> /\ history = <<>>
  /\ st = InitialState(case.name)
  /\ eng = Engine!Engine0
  /\ status = "RUNNING"
  /\ decided = [ran |-> FALSE, signals |-> <<>>, side |-> "FLAT"]
  /\ diary = [day |-> 0, entries |-> NoEntries, since |-> None]
  /\ refused = 0 /\ pauses = 0 /\ restarts = 0

MoreTrouble == refused + pauses + restarts < case.troubles

\* The ticks of a candle, the low first or the high first.
Ticks(b, lowFirst) == IF lowFirst THEN <<b.open, b.low, b.high, b.close>> ELSE <<b.open, b.high, b.low, b.close>>
AfterTick(e, price) == Engine!OnPrice(e, price).eng
AfterTicks(e, t) == AfterTick(AfterTick(AfterTick(AfterTick(e, t[1]), t[2]), t[3]), t[4])

IsEntry(sig) == sig.action # "CLOSE"
\* An entry on the side already held is not sized, so that nothing can refuse it.
Turns(e, sig) == IsEntry(sig) /\ e.pos.side # Engine!Long(sig.action)
Submitted(e, sig, price) ==
  Engine!Submit(e, IF IsEntry(sig) THEN [action |-> "MARKET", side |-> sig.action, sl |-> sig.sl, tp |-> sig.tp]
                   ELSE [action |-> "CLOSE"], price).eng
Dispatch(e, sig, price, refuse) == IF refuse /\ Turns(e, sig) THEN e ELSE Submitted(e, sig, price)

Sent(signals, action) == Cardinality({i \in DOMAIN signals : signals[i].action = action})
DiaryOf(ts, signals, ticked, after) ==
  LET today == IF diary.day = Day(ts) THEN diary.entries ELSE NoEntries
      kept == ticked.pos = eng.pos /\ after.pos = eng.pos /\ Close[1] \notin ToSet(signals) IN
  [day |-> Day(ts), entries |-> [action \in {"BUY", "SELL"} |-> today[action] + Sent(signals, action)],
   since |-> IF after.pos.side = "FLAT" THEN None ELSE IF kept THEN diary.since ELSE Day(ts)]

Asked(cs, side) ==
  IF status = "PAUSED" THEN Result(st, <<>>) ELSE OnCandle(case, st, cs, side)
Dispatched(ticked, signals, price, refuse) ==
  LET after[i \in 0..Len(signals)] ==
        IF i = 0 THEN ticked ELSE Dispatch(after[i - 1], signals[i], price, refuse)
  IN after[Len(signals)]

Stamped(b, ts) ==
  [ts |-> ts, open |-> b.open, high |-> b.high, low |-> b.low, close |-> b.close, volume |-> b.volume]
CandleCloses(b, lowFirst, refuse) ==
  LET c == Stamped(b, now)
      cs == KeepLast(Append(window, c), case.lookback) IN
  /\ now < case.last
  /\ now' = now + case.hours
  /\ window' = cs
  /\ history' = IF ReplaysIn(case) THEN Append(history, c) ELSE history
  /\ \E ticked \in {AfterTicks(eng, Ticks(b, lowFirst))} : \E r \in {Asked(cs, ticked.pos.side)} :
       /\ refuse => MoreTrouble /\ \E i \in DOMAIN r.signals : Turns(ticked, r.signals[i])
       /\ st' = r.st
       /\ eng' = Dispatched(ticked, r.signals, c.close, refuse)
       /\ decided' = [ran |-> status = "RUNNING", signals |-> r.signals, side |-> ticked.pos.side]
       /\ diary' = DiaryOf(c.ts, r.signals, ticked, eng')
  /\ refused' = IF refuse THEN refused + 1 ELSE refused
  /\ UNCHANGED <<case, status, pauses, restarts>>

\* A paused bot fills its window and does not ask its strategy.
Pause ==
  /\ status = "RUNNING" /\ MoreTrouble
  /\ status' = "PAUSED" /\ pauses' = pauses + 1
  /\ UNCHANGED <<candleVars, st, eng, decided, diary, refused, restarts>>
Resume ==
  /\ status = "PAUSED" /\ status' = "RUNNING"
  /\ UNCHANGED <<candleVars, st, eng, decided, diary, refused, pauses, restarts>>

\* A new instance, the window from the database, the position from its row.
Restart ==
  /\ MoreTrouble /\ window # <<>>
  /\ restarts' = restarts + 1
  /\ st' = InitialState(case.name)
  /\ UNCHANGED <<candleVars, eng, decided, diary, status, refused, pauses>>

Next ==
  \/ \E b \in case.market, lowFirst, refuse \in BOOLEAN : CandleCloses(b, lowFirst, refuse)
  \/ Pause
  \/ Resume
  \/ Restart

Spec == Init /\ [][Next]_vars

--------------------------------------------------------------------------------
(* Properties *)

\* The window is the candles that closed last, and the strategy's state is one of its own:
\* a trade it believes in has levels, a setup that is armed has an entry level.
TypeOK ==
  /\ case \in Cases /\ now \in 0..case.last
  /\ Len(window) <= case.lookback
  /\ \A i \in DOMAIN window : window[i].ts = now - (Len(window) - i + 1) * case.hours
  /\ st.side \in {"FLAT", "LONG", "SHORT"} /\ eng.pos.side \in {"FLAT", "LONG", "SHORT"}
  /\ case.name \in Ict =>
       /\ (st.side # "FLAT") = (st.sl # None) /\ (st.side # "FLAT") = (st.tp # None)
       /\ st.armed => st.sweep # "none" /\ st.prox # None
       /\ st.sweep # "none" => st.asiaHigh # None /\ st.since > 0

\* The bot never holds a position its strategy has forgotten or believes to be on the other
\* side, unless the application restarted or, with a strategy that reverses, a reversal was refused.
BeliefCovers ==
  restarts = 0 /\ case.name \notin Stateless /\ (case.name \in {"donchian2", "ichimoku2"} => refused = 0)
    => eng.pos.side \in {"FLAT", st.side}

\* Once the first candle of a day has closed, the strategies for one day hold nothing that
\* was opened the day before, and once a candle that opens at flatten_h or later has closed
\* the ICT ones hold nothing: unless the bot has been paused, or the application has
\* restarted and forgotten the trade.
DayTradesEnd ==
  restarts = 0 /\ pauses = 0 /\ case.name \in Ict \cup {"vol_breakout"} /\ eng.pos.side # "FLAT" =>
    /\ diary.since = diary.day
    /\ case.name \in Ict => Hour(now - case.hours) < case.flattenH

EntriesToday == diary.entries["BUY"] + diary.entries["SELL"]
\* At most one entry a day (ICT 1 and 2), maxPerDay (ICT 3 and 4, 0 for no limit) or one in
\* each direction (volatility breakout), refused entries included: unless the application
\* has restarted, for the strategy then forgets the day's count and enters again.
EntriesCapped ==
  restarts = 0 =>
    /\ case.name \in {"ict1", "ict2"} => EntriesToday <= 1
    /\ case.name \in {"ict3", "ict4"} /\ case.maxPerDay > 0 => EntriesToday <= case.maxPerDay
    /\ case.name = "vol_breakout" => diary.entries["BUY"] <= 1 /\ diary.entries["SELL"] <= 1

\* "at most 1 trade/day" (ict_po3.py:9), of a strategy that has no limit unless max_per_day
\* is set (ict_po3.py:56): it enters again after a close.
OneTradeADay == restarts = 0 /\ case.name = "ict3" => EntriesToday <= 1

\* The chart of a candle shows what was known when it closed: once every line has begun,
\* what was drawn stays when a candle is added.  (Only an Asia range moves until it is complete.)
NoRepaint ==
  LET cs == IF ReplaysIn(case) THEN history ELSE window
      Begun(old) == \A name \in DOMAIN old : Len(cs) - 1 \in DOMAIN old[name]
      Stays(old, new) ==
        \A name \in DOMAIN old : \A i \in 1..(Len(cs) - 1) :
          /\ i \in DOMAIN old[name] <=> i \in DOMAIN new[name]
          /\ i \in DOMAIN new[name] => new[name][i] = old[name][i] IN
  /\ cs # <<>>
  /\ case.name \in Ict => Hour(Last(cs).ts) >= case.asiaEndH
  => \A old \in {Drawn(case, Front(cs))} : Begun(old) => Stays(old, Drawn(case, cs))

\* What is drawn at the last candle, and one before, explains what was decided.
Drawn2(line) == Len(window) - 1 \in DOMAIN line /\ Len(window) \in DOMAIN line
CrossDrawn(l, m) ==
  LET n == Len(window) IN
  IF Drawn2(l) /\ Drawn2(m) THEN CrossSignal(l[n - 1], l[n], m[n - 1], m[n]) ELSE Hold
AtLast(line, Signals(_)) == IF Len(window) \in DOMAIN line THEN Signals(line[Len(window)]) ELSE Hold
Explained(lines) ==
  LET n == Len(window)
      price == LastClose(window)
      closes == Closes(window) IN
  CASE case.name = "ema_cross" -> CrossDrawn(lines.fast, lines.slow)
    [] case.name = "macd" -> CrossDrawn(lines.line, lines.signal)
    [] case.name = "vwap" -> IF Drawn2(lines.vwap) THEN CrossDrawn(closes, lines.vwap) ELSE Hold
    [] case.name = "rsi_rev" -> AtLast(lines.rsi, LAMBDA x : Reversion(x, case.oversold, case.overbought))
    [] case.name = "stoch" -> AtLast(lines.k, LAMBDA x : Reversion(x, case.oversold, case.overbought))
    [] case.name \in {"keltner", "donchian"} -> AtLast(lines.upper, LAMBDA x : Breakout(price, lines.lower[n], x))
    [] case.name = "bollinger" -> AtLast(lines.mid, LAMBDA x :
         IF price <= lines.lower[n] THEN Buy ELSE IF price >= lines.upper[n] THEN Sell ELSE Hold)
    [] case.name = "adx" -> AtLast(lines.adx, LAMBDA x :
         IF x >= case.adxMin THEN CrossDrawn(lines.plus, lines.minus) ELSE Hold)
    [] case.name = "ichimoku" -> AtLast(lines.spanB, LAMBDA x :
         LET cross == IF Drawn2(lines.spanB) THEN CrossDrawn(lines.tenkan, lines.kijun) ELSE Hold IN
         IF \/ cross = Buy /\ price > Max({x, lines.spanA[n]})
            \/ cross = Sell /\ price < Min({x, lines.spanA[n]}) THEN cross ELSE Hold)
\* A chart of the candles that the bot had shows why it acted: the crossing, the level
\* passed, the cloud, at the candle of the signal and not one beside it.
DecisionsAreDrawn ==
  decided.ran /\ case.name \in Stateless \ {"ema_cross2", "grid", "supertrend", "psar"} =>
    [i \in DOMAIN decided.signals |-> decided.signals[i].action]
      = LET e == Explained(Lines(case, window)) IN [i \in DOMAIN e |-> e[i].action]

\* While a trend lasts its line only comes closer, and the close of a supertrend does not
\* pass it.  (The candle that turns a PSAR may be beyond the new line and push it back.)
Tightens(before, after) == Way(IF after.up THEN "LONG" ELSE "SHORT") * (after.line - before.line) >= 0
StopLinesTighten ==
  /\ case.name = "supertrend" =>
       LET run == SupertrendRun(window, case.period, case.mult) IN
       \A j \in DOMAIN run :
         /\ Way(IF run[j].up THEN "LONG" ELSE "SHORT") * (window[case.period + j].close - run[j].line) >= 0
         /\ j > 1 /\ run[j].up = run[j - 1].up => Tightens(run[j - 1], run[j])
  /\ case.name = "psar" =>
       LET run == PsarRun(window, case.step, case.maxAf)
           line(j) == [up |-> run[j].up, line |-> run[j].sar] IN
       \A j \in 3..Len(run) :
         run[j].up = run[j - 1].up /\ run[j - 1].up = run[j - 2].up => Tightens(line(j - 1), line(j))

\* A strategy that only looks at a window of candles does as a bot what it did in a
\* backtest of the same candles, as long as nothing is refused and it is not paused.
Windowed == {"stoch", "bollinger", "donchian", "grid", "vwap", "ichimoku"}
BacktestAgrees ==
  /\ case.name \in Windowed /\ refused = 0 /\ pauses = 0
  /\ case.name = "donchian" => case.slPct = 0 /\ case.tpPct = 0
  => Replay(case, history).side = eng.pos.side
=============================================================================
