---------------------------- MODULE MC_Strategies ----------------------------
(***************************************************************************)
(* Every strategy as a bot (StrategyRun), with short periods so that each  *)
(* of its branches is reached within a few candles, in a market of three   *)
(* kinds of candle; and the backtest's account (Backtest) under any        *)
(* strategy: `part` tells which one runs, the other stays where it starts, *)
(* and no step belongs to both.                                            *)
(***************************************************************************)
EXTENDS StrategyRun, Backtest

CONSTANT Parts  \* which parts run: "bot", "backtest"

Bar(open, high, low, close, volume) == [open |-> open, high |-> high, low |-> low, close |-> close, volume |-> volume]
Waves == {Bar(100, 101, 94, 95, 1), Bar(97, 104, 96, 100, 2), Bar(100, 110, 99, 108, 1)}
\* A dip below the range, and a jump that leaves a gap; and the other way round.
Dips == {Bar(100, 101, 94, 95, 1), Bar(100, 104, 96, 100, 1), Bar(105, 112, 105, 110, 1)}
Rejections == {Bar(100, 101, 93, 99, 1), Bar(100, 104, 96, 100, 1), Bar(105, 113, 105, 113, 1)}
Calm == {Bar(100, 101, 99, 100, 1), Bar(100, 111, 100, 110, 1), Bar(100, 100, 89, 90, 1)}
Outside == {Bar(100, 104, 96, 100, 1), Bar(100, 115, 85, 90, 1), Bar(100, 110, 99, 108, 1)}
Peaks == {Bar(100, 106, 99, 105, 1), Bar(100, 104, 96, 100, 1), Bar(95, 95, 88, 90, 1)}

On(market, hours, lookback, candles) ==
  [market |-> market, hours |-> hours, lookback |-> lookback, last |-> hours * candles, troubles |-> 0]
Trouble == [troubles |-> 1]
Quick(name, params) == [name |-> name] @@ params @@ On(Waves, 4, 4, 5)
Averages == {
  Quick("ema_cross", [fast |-> 1, slow |-> 3]),
  Quick("ema_cross2", [fast |-> 1, slow |-> 2, gapPct |-> 2]),
  Quick("macd", [fast |-> 1, slow |-> 2, signal |-> 2]),
  Trouble @@ Quick("vwap", [period |-> 2]),
  Quick("bollinger", [period |-> 3, mult |-> 1]),
  [name |-> "keltner", period |-> 4, mult |-> 1] @@ On(Calm, 4, 6, 7),
  Trouble @@ Quick("grid", [period |-> 3, stepPct |-> 2])}
Oscillators == {
  Quick("rsi_rev", [period |-> 2, oversold |-> 30, overbought |-> 70]),
  Quick("stoch", [period |-> 3, oversold |-> 20, overbought |-> 80])}
Trends == {
  Trouble @@ Quick("donchian", [period |-> 2, slPct |-> 0, tpPct |-> 0]),
  Quick("donchian", [period |-> 2, slPct |-> 3, tpPct |-> 3]),
  [name |-> "supertrend", period |-> 2, mult |-> 1] @@ On(Calm, 4, 6, 6),
  [name |-> "psar", step |-> 20, maxAf |-> 40] @@ On(Outside, 4, 6, 6),
  [name |-> "adx", period |-> 2, adxMin |-> 20] @@ On(Waves, 4, 5, 6),
  [name |-> "ichimoku", conv |-> 1, base |-> 2, spanB |-> 2] @@ On(Waves, 4, 6, 7)}

Donchian2 == [name |-> "donchian2", period |-> 2, exitPeriod |-> 1, exitMode |-> 2, atrLen |-> 2, atrMult |-> 1,
              adxMin |-> 0, adxLen |-> 2, dowFilter |-> 1]
Trailing == {
  Donchian2 @@ On(Calm, 12, 4, 10),
  Trouble @@ [Donchian2 EXCEPT !.adxMin = 20, !.exitMode = 0] @@ On(Calm, 4, 4, 7),
  Trouble @@ [name |-> "ichimoku2", conv |-> 1, base |-> 2, spanB |-> 2, atrLen |-> 2, atrMult |-> 1] @@ On(Waves, 4, 6, 7)}

Vol == [name |-> "vol_breakout", k |-> 50, kMode |-> 0, noiseLen |-> 5, direction |-> 1, trendLen |-> 0,
        slMode |-> 1, slPct |-> 2, atrLen |-> 2, atrMult |-> 1, cutoffH |-> 17, cbThresh |-> 0, cbWindow |-> 2, cbPause |-> 1]
Volatility == {
  Trouble @@ Vol @@ On(Waves, 8, 3, 7),
  [Vol EXCEPT !.slMode = 3, !.cbThresh = 20, !.trendLen = 2] @@ On(Waves, 8, 3, 8),
  [Vol EXCEPT !.kMode = 1, !.slMode = 2] @@ On(Dips \ {Bar(100, 104, 96, 100, 1)}, 12, 3, 12)}

IctParams == [biasMode |-> 0, biasLen |-> 2, confluence |-> 2, mssLookback |-> 1, swing |-> 1, tpMode |-> 0, rrTarget |-> 1,
        slMode |-> 0, atrLen |-> 2, atrMult |-> 1, slBuffer |-> 1, asiaEndH |-> 3, flattenH |-> 21,
        newsFilter |-> 0, newsStartH |-> 12, newsEndH |-> 14, maxPerDay |-> 0, rejectSweep |-> 0, dispPct |-> 0,
        entryCutoffH |-> 20, minRr |-> 1]
PowerOfThree == {
  Trouble @@ [name |-> "ict1"] @@ IctParams @@ On(Dips, 3, 4, 9),
  [name |-> "ict2"] @@ [IctParams EXCEPT !.newsFilter = 1, !.confluence = 1, !.tpMode = 1] @@ On(Peaks, 3, 4, 10),
  Trouble @@ [name |-> "ict3"] @@ [IctParams EXCEPT !.confluence = 3, !.slMode = 1] @@ On(Peaks, 3, 4, 9),
  [name |-> "ict3"] @@ [IctParams EXCEPT !.confluence = 1, !.newsFilter = 2, !.biasMode = 1] @@ On(Dips, 4, 4, 13),
  [name |-> "ict3"] @@ [IctParams EXCEPT !.confluence = 1, !.slMode = 1, !.asiaEndH = 2, !.maxPerDay = 2] @@ On(Dips, 2, 4, 13),
  [name |-> "ict4"] @@ [IctParams EXCEPT !.asiaEndH = 6, !.maxPerDay = 1, !.rejectSweep = 1, !.dispPct = 50, !.tpMode = 1]
    @@ On(Rejections, 3, 5, 10)}

AllCases == Averages \cup Oscillators \cup Trends \cup Trailing \cup Volatility \cup PowerOfThree

--------------------------------------------------------------------------------
Prices(o, h, l, c) == [open |-> o, high |-> h, low |-> l, close |-> c]
MCBars == {Prices(10, 10, 10, 10), Prices(10, 13, 10, 12), Prices(10, 11, 7, 9), Prices(5, 6, 5, 6)}

Sends(action, side, price, sl, tp) ==
  [action |-> action, side |-> side, price |-> price, sl |-> sl, tp |-> tp, size |-> 1, qty |-> 0, target |-> 0]
MCOrders == {Sends("none", "", 0, 0, 0), Sends("MARKET", "BUY", 0, 8, 12), Sends("MARKET", "SELL", 0, 13, 9),
             Sends("LIMIT", "BUY", 9, 8, 0), Sends("LIMIT", "SELL", 8, 12, 0), Sends("CLOSE", "", 0, 0, 0),
             Sends("CANCEL", "", 0, 0, 0)}
Variant(m, v, l) == [method |-> m, value |-> v, leverage |-> l]
MCVariants == {Variant("risk_pct", 10, 2), Variant("notional_pct", 200, 3), Variant("risk_usdt", 1200, 0)}

--------------------------------------------------------------------------------
VARIABLE part
allVars == <<part, vars, backtestVars>>

MCInit ==
  /\ part \in Parts /\ Init /\ BacktestInit
  /\ part # "bot" => case = CHOOSE c \in Cases : TRUE
  /\ part # "backtest" =>
       cfg = ConfigFor(CHOOSE v \in Variants : TRUE, "SPOT") /\ start = CHOOSE t \in Starts : TRUE
MCNext ==
  \/ part = "bot" /\ Next /\ UNCHANGED <<part, backtestVars>>
  \/ part = "backtest" /\ BacktestNext /\ UNCHANGED <<part, vars>>
MCSpec == MCInit /\ [][MCNext]_allVars
=============================================================================
