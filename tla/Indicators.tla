----------------------------- MODULE Indicators -----------------------------
(***************************************************************************)
(* app/strategy/ta.py: the indicators of the strategies, as operators on   *)
(* sequences of candles.  Prices are whole numbers, percentages whole      *)
(* percents, and divisions round down.                                     *)
(*                                                                         *)
(* A list without its warm-up is a sequence.  A series that the code pads  *)
(* with None to one value per candle is a function whose domain is the     *)
(* candles that have a value.                                              *)
(***************************************************************************)
EXTENDS Integers, Sequences, FiniteSets, SequencesExt

None == -1  \* a scalar that is not ready; no indicator returned alone is negative

Magnitude(x) == IF x < 0 THEN -x ELSE x
Ratio(part, whole) == IF whole = 0 THEN 0 ELSE (100 * part) \div whole

Closes(cs) == [i \in DOMAIN cs |-> cs[i].close]
FinalPart(s, k) == SubSeq(s, Len(s) - k + 1, Len(s))
Sum(s) == FoldLeft(LAMBDA total, x : total + x, 0, s)
Highest(cs, from, to) == Max({cs[i].high : i \in from..to})
Lowest(cs, from, to) == Min({cs[i].low : i \in from..to})

PadLeft(s, n) == [i \in (n - Len(s) + 1)..n |-> s[i - (n - Len(s))]]

--------------------------------------------------------------------------------
(* Averages *)

\* A first value for the first `period` values, then one value per value.
Smoothed(first, values, period, Step(_, _)) ==
  IF Len(values) < period THEN <<>>
  ELSE FoldLeft(LAMBDA out, v : Append(out, Step(Last(out), v)), <<first>>,
                SubSeq(values, period + 1, Len(values)))
Mean(values, period) == Sum(SubSeq(values, 1, period)) \div period

Ema(values, period) ==
  Smoothed(Mean(values, period), values, period,
           LAMBDA e, v : (2 * v + (period - 1) * e) \div (period + 1))
\* Wilder's smoothing, of ATR, ADX and RSI; and his running sum, of the DMI.
Wilder(values, period) ==
  Smoothed(Mean(values, period), values, period, LAMBDA a, v : (a * (period - 1) + v) \div period)
WilderSum(values, period) ==
  Smoothed(Sum(SubSeq(values, 1, period)), values, period, LAMBDA a, v : a - a \div period + v)

Sma(values, period) ==
  IF Len(values) < period THEN None ELSE Sum(FinalPart(values, period)) \div period

Root(x) == CHOOSE r \in 0..x : r * r <= x /\ (r + 1) * (r + 1) > x
Deviation(window) ==
  LET mean == Sum(window) \div Len(window)
  IN Root(Sum([i \in DOMAIN window |-> (window[i] - mean) * (window[i] - mean)]) \div Len(window))
Stdev(values, period) ==
  IF Len(values) < period THEN None ELSE Deviation(FinalPart(values, period))

\* Two lists, the shorter one's length from their ends.
Apart(longs, shorts) ==
  LET n == Min({Len(longs), Len(shorts)})
  IN [i \in 1..n |-> longs[Len(longs) - n + i] - shorts[Len(shorts) - n + i]]
MacdOf(line, sig) ==
  [line |-> IF sig = <<>> THEN line ELSE FinalPart(line, Len(sig)), signal |-> sig]
Macd(values, fast, slow, signal) ==
  LET WithSignal(line) == MacdOf(line, IF line = <<>> THEN <<>> ELSE Ema(line, signal))
  IN WithSignal(Apart(Ema(values, fast), Ema(values, slow)))

RsiValue(gain, loss) == IF loss = 0 THEN 100 ELSE 100 - (100 * loss) \div (gain + loss)
Rsi(values, period) ==
  LET change == [i \in 1..(Len(values) - 1) |-> values[i + 1] - values[i]]
      gains == Wilder([i \in DOMAIN change |-> Max({change[i], 0})], period)
      losses == Wilder([i \in DOMAIN change |-> Max({-change[i], 0})], period) IN
  IF Len(values) <= period THEN <<>> ELSE [i \in DOMAIN gains |-> RsiValue(gains[i], losses[i])]

--------------------------------------------------------------------------------
(* Volatility *)

TrueRanges(cs) ==
  [i \in 1..(Len(cs) - 1) |->
     LET c == cs[i + 1]
         before == cs[i].close
     IN Max({c.high - c.low, Magnitude(c.high - before), Magnitude(c.low - before)})]

Atr(cs, period) ==
  IF Len(cs) < period + 1 THEN None ELSE Last(Wilder(TrueRanges(cs), period))
AtrSeries(cs, period) ==
  LET a == IF Len(cs) < period + 1 THEN <<>> ELSE Wilder(TrueRanges(cs), period)
  IN [i \in (period + 1)..Len(cs) |-> a[i - period]]

KeltnerBands(cs, period, mult) ==
  LET mid == PadLeft(Ema(Closes(cs), period), Len(cs))
      a == AtrSeries(cs, period)
      ready == DOMAIN mid \cap DOMAIN a IN
  [mid |-> [i \in ready |-> mid[i]],
   upper |-> [i \in ready |-> mid[i] + mult * a[i]],
   lower |-> [i \in ready |-> mid[i] - mult * a[i]]]

--------------------------------------------------------------------------------
(* Trend lines *)

TrendPoint(c, wasUp, upper, lower) ==
  LET up == IF wasUp THEN c.close >= lower ELSE c.close > upper
  IN [up |-> up, upper |-> upper, lower |-> lower, line |-> IF up THEN lower ELSE upper]
UpperBand(c, width) == (c.high + c.low) \div 2 + width
LowerBand(c, width) == (c.high + c.low) \div 2 - width
HeldUpper(band, was, before) == IF band < was.upper \/ before > was.upper THEN band ELSE was.upper
HeldLower(band, was, before) == IF band > was.lower \/ before < was.lower THEN band ELSE was.lower

SupertrendFreeBands(cs, period, mult) ==  \* the bands do not hold
  LET Step(out, c, width) ==
        Append(out, TrendPoint(c, out # <<>> /\ Last(out).up, UpperBand(c, width), LowerBand(c, width)))
      Run(atrs) == FoldLeftDomain(LAMBDA out, j : Step(out, cs[period + j], mult * atrs[j]), <<>>, atrs)
  IN Run(IF Len(cs) < period + 1 THEN <<>> ELSE Wilder(TrueRanges(cs), period))
\* One step of the loop per candle after the warm-up: the final bands, which only
\* tighten until the close has passed them, the direction, and the line.
SupertrendRun(cs, period, mult) ==
  LET Following(was, c, before, width) ==
        TrendPoint(c, was.up, HeldUpper(UpperBand(c, width), was, before),
                   HeldLower(LowerBand(c, width), was, before))
      Step(out, j, width) ==
        Append(out, IF out = <<>>
                    THEN TrendPoint(cs[period + j], FALSE, UpperBand(cs[period + j], width),
                                    LowerBand(cs[period + j], width))
                    ELSE Following(Last(out), cs[period + j], cs[period + j - 1].close, width))
      Run(atrs) == FoldLeftDomain(LAMBDA out, j : Step(out, j, mult * atrs[j]), <<>>, atrs)
  IN Run(IF Len(cs) < period + 1 THEN <<>> ELSE Wilder(TrueRanges(cs), period))
Ups(run) == [j \in DOMAIN run |-> run[j].up]
Supertrend(cs, period, mult) == Ups(SupertrendRun(cs, period, mult))
SupertrendLine(cs, period, mult) ==
  LET Levels(run) == [j \in DOMAIN run |-> run[j].line]
  IN PadLeft(Levels(SupertrendRun(cs, period, mult)), Len(cs))

\* step and maxAf are percents.
PsarRun(cs, step, maxAf) ==
  LET First(rising) ==
        [up |-> rising, af |-> step,
         sar |-> IF rising THEN cs[1].low ELSE cs[1].high,
         ep  |-> IF rising THEN cs[1].high ELSE cs[1].low]
      Clamped(was, earlier) ==
        LET moved == was.sar + (was.af * (was.ep - was.sar)) \div 100 IN
        IF was.up THEN Min({moved} \cup {e.low : e \in earlier})
                  ELSE Max({moved} \cup {e.high : e \in earlier})
      After(was, c, sar) ==
        CASE (was.up /\ c.low < sar) \/ (~was.up /\ c.high > sar) ->
               [up |-> ~was.up, af |-> step, sar |-> was.ep,
                ep |-> IF was.up THEN c.low ELSE c.high]
          [] was.up /\ c.low >= sar /\ c.high > was.ep ->
               [up |-> TRUE, af |-> Min({was.af + step, maxAf}), sar |-> sar, ep |-> c.high]
          [] ~was.up /\ c.high <= sar /\ c.low < was.ep ->
               [up |-> FALSE, af |-> Min({was.af + step, maxAf}), sar |-> sar, ep |-> c.low]
          [] OTHER -> [was EXCEPT !.sar = sar]
      Step(out, k) ==
        Append(out, After(Last(out), cs[k + 1],
                          Clamped(Last(out), {cs[k], cs[IF k >= 2 THEN k - 1 ELSE k]}))) IN
  IF Len(cs) < 2 THEN <<>>
  ELSE FoldLeftDomain(Step, <<First(cs[2].high >= cs[1].high)>>, Tail(cs))
Psar(cs, step, maxAf) == Ups(PsarRun(cs, step, maxAf))
PsarLine(cs, step, maxAf) ==
  LET Levels(run) == [i \in DOMAIN run |-> run[i].sar]
  IN Levels(PsarRun(cs, step, maxAf))

--------------------------------------------------------------------------------
(* Directional movement *)

\* +DI, -DI and DX from the candle after the first `period` on, and their ADX.
Dmi(cs, period) ==
  LET up(i) == cs[i + 1].high - cs[i].high
      down(i) == cs[i].low - cs[i + 1].low
      moves == 1..(Len(cs) - 1)
      plus == WilderSum([i \in moves |-> IF up(i) > down(i) /\ up(i) > 0 THEN up(i) ELSE 0], period)
      minus == WilderSum([i \in moves |-> IF down(i) > up(i) /\ down(i) > 0 THEN down(i) ELSE 0], period)
      Share(moved, range) == [i \in DOMAIN range |-> Ratio(moved[i], range[i])]
      Index(pdi, mdi) ==
        [plus |-> pdi, minus |-> mdi,
         adx |-> Wilder([i \in DOMAIN pdi |-> Ratio(Magnitude(pdi[i] - mdi[i]), pdi[i] + mdi[i])], period)]
      Over(range) == Index(Share(plus, range), Share(minus, range))
  IN Over(WilderSum(TrueRanges(cs), period))

\* The last two DI and the ADX, for on_candle; ready when AdxReady.
AdxReady(cs, period) == Len(cs) >= 2 * period
LastTwo(d) ==
  LET n == Len(d.plus) IN
  [plusPrev |-> d.plus[n - 1], plusNow |-> d.plus[n],
   minusPrev |-> d.minus[n - 1], minusNow |-> d.minus[n], adx |-> Last(d.adx)]
AdxDmi(cs, period) == LastTwo(Dmi(cs, period))

AdxSeries(cs, period) ==
  LET n == Len(cs)
      ready == IF AdxReady(cs, period) THEN (period + 1)..n ELSE {}
      Padded(d) ==
        [plus |-> [i \in ready |-> d.plus[i - period]],
         minus |-> [i \in ready |-> d.minus[i - period]],
         adx |-> [i \in ready \cap (2 * period)..n |-> d.adx[i - 2 * period + 1]]]
  IN Padded(Dmi(cs, period))

--------------------------------------------------------------------------------
(* Windows *)

KAt(cs, i, period) ==
  LET hh == Highest(cs, i - period + 1, i)
      ll == Lowest(cs, i - period + 1, i)
  IN IF hh = ll THEN 50 ELSE (100 * (cs[i].close - ll)) \div (hh - ll)
StochasticK(cs, period) == IF Len(cs) < period THEN None ELSE KAt(cs, Len(cs), period)
StochasticSeries(cs, period) == [i \in period..Len(cs) |-> KAt(cs, i, period)]

VwapOf(window) ==
  LET volume == Sum([i \in DOMAIN window |-> window[i].volume])
      traded == Sum([i \in DOMAIN window |->
                       ((window[i].high + window[i].low + window[i].close) * window[i].volume) \div 3])
  IN IF volume = 0 THEN None ELSE traded \div volume
Vwap(cs, period) == IF Len(cs) < period THEN None ELSE VwapOf(FinalPart(cs, period))

HlMidAhead(cs, end, period) ==  \* the candle after `end` too, when there is one
  (Highest(cs, end - period + 1, Min({end + 1, Len(cs)}))
   + Lowest(cs, end - period + 1, Min({end + 1, Len(cs)}))) \div 2
HlMid(cs, end, period) ==
  (Highest(cs, end - period + 1, end) + Lowest(cs, end - period + 1, end)) \div 2

\* ready when IchimokuReady; the cloud is that of `shift` candles ago.
IchimokuReady(cs, spanB, shift) == Len(cs) >= spanB + shift + 1
IchimokuNow(cs, conv, base, spanB, shift) ==
  LET i == Len(cs)
      a == (HlMid(cs, i - shift, conv) + HlMid(cs, i - shift, base)) \div 2
      b == HlMid(cs, i - shift, spanB) IN
  [tenkanPrev |-> HlMid(cs, i - 1, conv), tenkanNow |-> HlMid(cs, i, conv),
   kijunPrev |-> HlMid(cs, i - 1, base), kijunNow |-> HlMid(cs, i, base),
   top |-> Max({a, b}), bottom |-> Min({a, b})]
IchimokuLines(cs, conv, base, spanB, shift) ==
  LET n == Len(cs) IN
  [tenkan |-> [i \in conv..n |-> HlMid(cs, i, conv)],
   kijun |-> [i \in base..n |-> HlMid(cs, i, base)],
   spanA |-> [i \in (Max({conv, base}) + shift)..n |->
                (HlMid(cs, i - shift, conv) + HlMid(cs, i - shift, base)) \div 2],
   spanB |-> [i \in (spanB + shift)..n |-> HlMid(cs, i - shift, spanB)]]
=============================================================================
