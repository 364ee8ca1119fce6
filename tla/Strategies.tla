----------------------------- MODULE Strategies -----------------------------
(***************************************************************************)
(* The strategies of app/strategy/strategies/ that keep no state: what     *)
(* on_candle decides from the candles it is given, whose last one has just *)
(* closed, and the lines plot draws under the same parameters p.           *)
(***************************************************************************)
EXTENDS Indicators

Signal(action) == [action |-> action, sl |-> 0, tp |-> 0]
Hold == <<>>
Buy == <<Signal("BUY")>>
Sell == <<Signal("SELL")>>
Close == <<Signal("CLOSE")>>

\* One line passes another between the last two candles.
CrossSignal(prev, now, otherPrev, otherNow) ==
  CASE prev <= otherPrev /\ now > otherNow -> Buy
    [] prev >= otherPrev /\ now < otherNow -> Sell
    [] OTHER -> Hold
FlipSignal(up) ==
  LET n == Len(up) IN
  CASE n < 2 -> Hold
    [] n >= 2 /\ ~up[n - 1] /\ up[n] -> Buy
    [] n >= 2 /\ up[n - 1] /\ ~up[n] -> Sell
    [] OTHER -> Hold
\* Below one level buy, above the other sell.
Reversion(price, lower, upper) ==
  CASE price < lower -> Buy [] price > upper -> Sell [] OTHER -> Hold
Breakout(price, lower, upper) ==
  CASE price > upper -> Buy [] price < lower -> Sell [] OTHER -> Hold

LastClose(cs) == Last(cs).close

--------------------------------------------------------------------------------
EmaCross(p, cs) ==
  LET f == Ema(Closes(cs), p.fast)
      s == Ema(Closes(cs), p.slow) IN
  IF Len(f) < 2 \/ Len(s) < 2 THEN Hold
  ELSE CrossSignal(f[Len(f) - 1], Last(f), s[Len(s) - 1], Last(s))
\* A cross counts only when the lines are gap_pct apart.
EmaCrossV2(p, cs) ==
  LET f == Ema(Closes(cs), p.fast)
      s == Ema(Closes(cs), p.slow)
      apart == Last(s) > 0 /\ Magnitude(Last(f) - Last(s)) * 100 >= p.gapPct * Last(s) IN
  IF Len(f) < 2 \/ Len(s) < 2 \/ ~apart THEN Hold ELSE EmaCross(p, cs)
EmaPlot(p, cs) ==
  [fast |-> PadLeft(Ema(Closes(cs), p.fast), Len(cs)), slow |-> PadLeft(Ema(Closes(cs), p.slow), Len(cs))]

MacdSignal(m) ==
  LET n == Len(m.signal) IN
  IF n < 2 THEN Hold ELSE CrossSignal(m.line[n - 1], m.line[n], m.signal[n - 1], m.signal[n])
MacdCross(p, cs) == MacdSignal(Macd(Closes(cs), p.fast, p.slow, p.signal))
MacdPlot(p, cs) ==
  LET Padded(m) == [line |-> PadLeft(m.line, Len(cs)), signal |-> PadLeft(m.signal, Len(cs))]
  IN Padded(Macd(Closes(cs), p.fast, p.slow, p.signal))

RsiReversal(p, cs) ==
  LET r == Rsi(Closes(cs), p.period) IN
  IF r = <<>> THEN Hold ELSE Reversion(Last(r), p.oversold, p.overbought)
RsiPlot(p, cs) == [rsi |-> PadLeft(Rsi(Closes(cs), p.period), Len(cs))]

Stochastic(p, cs) ==
  LET k == StochasticK(cs, p.period) IN
  IF k = None THEN Hold ELSE Reversion(k, p.oversold, p.overbought)
StochasticPlot(p, cs) == [k |-> StochasticSeries(cs, p.period)]

BollingerReversion(p, cs) ==
  LET mid == Sma(Closes(cs), p.period)
      sd == Stdev(Closes(cs), p.period) IN
  CASE mid = None -> Hold
    [] mid # None /\ LastClose(cs) <= mid - p.mult * sd -> Buy
    [] mid # None /\ LastClose(cs) > mid - p.mult * sd /\ LastClose(cs) >= mid + p.mult * sd -> Sell
    [] OTHER -> Hold
BollingerPlot(p, cs) ==
  LET window(i) == SubSeq(Closes(cs), i - p.period + 1, i)
      mid(i) == Sum(window(i)) \div p.period
      warm == p.period..Len(cs) IN
  [mid |-> [i \in warm |-> mid(i)],
   upper |-> [i \in warm |-> mid(i) + p.mult * Deviation(window(i))],
   lower |-> [i \in warm |-> mid(i) - p.mult * Deviation(window(i))]]

KeltnerBreakout(p, cs) ==
  LET mid == Ema(Closes(cs), p.period)
      a == Atr(cs, p.period) IN
  IF mid = <<>> \/ a = None THEN Hold
  ELSE Breakout(LastClose(cs), Last(mid) - p.mult * a, Last(mid) + p.mult * a)
KeltnerPlot(p, cs) == KeltnerBands(cs, p.period, p.mult)

DonchianWithCurrent(p, cs) ==  \* the channel holds the candle that breaks it
  IF Len(cs) < p.period + 1 THEN Hold
  ELSE Breakout(LastClose(cs), Lowest(cs, Len(cs) - p.period, Len(cs)),
                Highest(cs, Len(cs) - p.period, Len(cs)))
\* The channel of the candles before the current one; sl and tp are percents.
DonchianBreakout(p, cs) ==
  LET n == Len(cs)
      price == LastClose(cs)
      way == IF price > Highest(cs, n - p.period, n - 1) THEN 1 ELSE -1 IN
  IF n < p.period + 1 THEN Hold
  ELSE IF Lowest(cs, n - p.period, n - 1) <= price /\ price <= Highest(cs, n - p.period, n - 1) THEN Hold
  ELSE <<[action |-> IF way = 1 THEN "BUY" ELSE "SELL",
          sl |-> IF p.slPct = 0 THEN 0 ELSE price - way * ((price * p.slPct) \div 100),
          tp |-> IF p.tpPct = 0 THEN 0 ELSE price + way * ((price * p.tpPct) \div 100)]>>
DonchianPlot(p, cs) ==
  [upper |-> [i \in (p.period + 1)..Len(cs) |-> Highest(cs, i - p.period, i - 1)],
   lower |-> [i \in (p.period + 1)..Len(cs) |-> Lowest(cs, i - p.period, i - 1)]]

\* The only one that looks at the position: one step away enters, back at the SMA closes.
Grid(p, cs, side) ==
  LET ref == Sma(Closes(cs), p.period)
      price == LastClose(cs) IN
  CASE ref = None -> Hold
    [] ref # None /\ side = "FLAT" ->
         IF price * 100 <= ref * (100 - p.stepPct) THEN Buy
         ELSE IF price * 100 >= ref * (100 + p.stepPct) THEN Sell ELSE Hold
    [] ref # None /\ side = "LONG" -> IF price >= ref THEN Close ELSE Hold
    [] ref # None /\ side = "SHORT" -> IF price <= ref THEN Close ELSE Hold
GridPlot(p, cs) ==
  LET ref(i) == Sum(SubSeq(Closes(cs), i - p.period + 1, i)) \div p.period
      warm == p.period..Len(cs) IN
  [ref |-> [i \in warm |-> ref(i)],
   upper |-> [i \in warm |-> (ref(i) * (100 + p.stepPct)) \div 100],
   lower |-> [i \in warm |-> (ref(i) * (100 - p.stepPct)) \div 100]]

VwapCross(p, cs) ==
  LET n == Len(cs)
      now == Vwap(cs, p.period)
      prev == Vwap(Front(cs), p.period) IN
  IF n < p.period + 1 THEN Hold
  ELSE IF now = None \/ prev = None THEN Hold
  ELSE CrossSignal(cs[n - 1].close, cs[n].close, prev, now)
VwapPlot(p, cs) ==
  LET at(i) == VwapOf(SubSeq(cs, i - p.period + 1, i))
  IN [vwap |-> [i \in {i \in p.period..Len(cs) : at(i) # None} |-> at(i)]]

SupertrendFlip(p, cs) == FlipSignal(Supertrend(cs, p.period, p.mult))
SupertrendPlot(p, cs) == [line |-> SupertrendLine(cs, p.period, p.mult)]

ParabolicSar(p, cs) == FlipSignal(Psar(cs, p.step, p.maxAf))
PsarPlot(p, cs) == [sar |-> PsarLine(cs, p.step, p.maxAf)]

AdxSignal(p, d) ==
  IF d.adx < p.adxMin THEN Hold
  ELSE CrossSignal(d.plusPrev, d.plusNow, d.minusPrev, d.minusNow)
AdxCross(p, cs) == IF AdxReady(cs, p.period) THEN AdxSignal(p, AdxDmi(cs, p.period)) ELSE Hold
AdxPlot(p, cs) == AdxSeries(cs, p.period)

\* A cross of tenkan and kijun beyond the cloud.
IchimokuSignal(ich, price) ==
  LET cross == CrossSignal(ich.tenkanPrev, ich.tenkanNow, ich.kijunPrev, ich.kijunNow) IN
  IF \/ cross = Buy /\ price > ich.top
     \/ cross = Sell /\ price < ich.bottom
  THEN cross ELSE Hold
Ichimoku(p, cs) ==
  IF ~IchimokuReady(cs, p.spanB, p.base) THEN Hold
  ELSE IchimokuSignal(IchimokuNow(cs, p.conv, p.base, p.spanB, p.base), LastClose(cs))
IchimokuPlot(p, cs) == IchimokuLines(cs, p.conv, p.base, p.spanB, p.base)

--------------------------------------------------------------------------------
\* The registry: what the strategy named p.name decides and draws.
Stateless == {"ema_cross", "ema_cross2", "macd", "rsi_rev", "stoch", "bollinger", "keltner", "donchian",
              "grid", "vwap", "supertrend", "psar", "adx", "ichimoku"}
Decide(p, cs, side) ==
  CASE p.name = "ema_cross"  -> EmaCross(p, cs)
    [] p.name = "ema_cross2" -> EmaCrossV2(p, cs)
    [] p.name = "macd"       -> MacdCross(p, cs)
    [] p.name = "rsi_rev"    -> RsiReversal(p, cs)
    [] p.name = "stoch"      -> Stochastic(p, cs)
    [] p.name = "bollinger"  -> BollingerReversion(p, cs)
    [] p.name = "keltner"    -> KeltnerBreakout(p, cs)
    [] p.name = "donchian"   -> DonchianBreakout(p, cs)
    [] p.name = "grid"       -> Grid(p, cs, side)
    [] p.name = "vwap"       -> VwapCross(p, cs)
    [] p.name = "supertrend" -> SupertrendFlip(p, cs)
    [] p.name = "psar"       -> ParabolicSar(p, cs)
    [] p.name = "adx"        -> AdxCross(p, cs)
    [] p.name = "ichimoku"   -> Ichimoku(p, cs)
Lines(p, cs) ==
  CASE p.name \in {"ema_cross", "ema_cross2"} -> EmaPlot(p, cs)
    [] p.name = "macd"       -> MacdPlot(p, cs)
    [] p.name = "rsi_rev"    -> RsiPlot(p, cs)
    [] p.name = "stoch"      -> StochasticPlot(p, cs)
    [] p.name = "bollinger"  -> BollingerPlot(p, cs)
    [] p.name = "keltner"    -> KeltnerPlot(p, cs)
    [] p.name = "donchian"   -> DonchianPlot(p, cs)
    [] p.name = "grid"       -> GridPlot(p, cs)
    [] p.name = "vwap"       -> VwapPlot(p, cs)
    [] p.name = "supertrend" -> SupertrendPlot(p, cs)
    [] p.name = "psar"       -> PsarPlot(p, cs)
    [] p.name = "adx"        -> AdxPlot(p, cs)
    [] p.name = "ichimoku"   -> IchimokuPlot(p, cs)
=============================================================================
