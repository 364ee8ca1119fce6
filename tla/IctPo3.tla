------------------------------- MODULE IctPo3 -------------------------------
(***************************************************************************)
(* The four versions of the ICT Power of Three strategy: ict_po3_v1.py,    *)
(* ict_po3_v2.py, ict_po3.py (version 3) and ict_po3_v4.py.  OnCandleV<n>  *)
(* is on_candle: from the parameters, the state of the instance and the    *)
(* candles, whose last one has just closed, to the state it leaves and the *)
(* signals it returns.                                                     *)
(***************************************************************************)
EXTENDS Breakouts

Fresh(day) ==
  [day |-> day, asiaHigh |-> None, asiaLow |-> None, nToday |-> 0, side |-> "FLAT", sl |-> None, tp |-> None,
   sweep |-> "none", extreme |-> None, reactHigh |-> None, reactLow |-> None, sweepTs |-> None,
   since |-> 0, armed |-> FALSE, armedDir |-> "none", prox |-> None]
IctInit == Fresh(None)

ResetSetup(st) ==
  [st EXCEPT !.sweep = "none", !.extreme = None, !.reactHigh = None, !.reactLow = None, !.sweepTs = None,
             !.since = 0, !.armed = FALSE, !.armedDir = "none", !.prox = None]
ClearTrade(st) == [st EXCEPT !.side = "FLAT", !.sl = None, !.tp = None]

Reaches(dir, level, price) == Way(dir) * (price - level) >= 0

--------------------------------------------------------------------------------
(* The parts of on_candle *)

AsiaRange(st, c) ==
  [st EXCEPT !.asiaHigh = IF @ = None THEN c.high ELSE Max({@, c.high}),
             !.asiaLow  = IF @ = None THEN c.low ELSE Min({@, c.low})]

\* The trade that is thought to be open is closed at its SL or TP, or for the night.
Ends(p, st, c) ==
  \/ Reaches(st.side, st.tp, c.close)
  \/ Way(st.side) * (st.sl - c.close) >= 0
  \/ Hour(c.ts) >= p.flattenH

NewsBlocked(p, ts) ==
  /\ p.newsFilter >= 1
  /\ \/ p.newsStartH <= Hour(ts) /\ Hour(ts) < p.newsEndH
     \/ p.newsFilter >= 2 /\ FirstFriday(ts)
NoHunt(p, st, c) == Hour(c.ts) >= p.flattenH \/ st.asiaHigh = None

\* The first candle beyond the Asia range; with `rejection`, one that closes inside it.
Swept(st, c, rejection) ==
  LET above == c.high > st.asiaHigh /\ (~rejection \/ c.close < st.asiaHigh)
      below == c.low < st.asiaLow /\ (~rejection \/ c.close > st.asiaLow) IN
  CASE above -> [st EXCEPT !.sweep = "HIGH", !.extreme = c.high, !.since = 1]
    [] ~above /\ below -> [st EXCEPT !.sweep = "LOW", !.extreme = c.low, !.since = 1]
    [] OTHER -> st
SweptAt(st, c, rejection) ==
  LET after == Swept(st, c, rejection) IN
  IF after.sweep = "none" THEN st ELSE [after EXCEPT !.sweepTs = c.ts]

Extended(st, c) ==
  [st EXCEPT !.since = @ + 1,
             !.extreme = IF st.sweep = "HIGH" THEN Max({@, c.high}) ELSE Min({@, c.low})]

\* The near edge of the latest gap between a candle and the next but one, of the last six.
FindFvg(cs, dir) ==
  LET n == Len(cs)
      gaps == {i \in 3..n : /\ i > n - 4
                            /\ IF dir = "LONG" THEN cs[i].low > cs[i - 2].high
                                               ELSE cs[i].high < cs[i - 2].low}
      c == cs[Max(gaps)] IN
  IF gaps = {} THEN None ELSE IF dir = "LONG" THEN c.low ELSE c.high
\* A candle of the other colour among the last five.
HasOrderBlock(cs, dir) ==
  \E i \in DOMAIN cs : i > Len(cs) - 5 /\ Way(dir) * (cs[i].close - cs[i].open) < 0

\* The latest pivot from the sweep on that has w candles behind it.
RecentSwing(cs, start, w, dir) ==
  LET n == Len(cs)
      at(i) == IF dir = "LONG" THEN cs[i].high ELSE cs[i].low
      pivots == {j \in Max({start, w + 1})..(n - 1 - w) :
                   \A d \in 1..w : Way(dir) * (at(j) - at(j - d)) > 0 /\ Way(dir) * (at(j) - at(j + d)) > 0}
  IN IF pivots = {} THEN None ELSE at(Max(pivots))

WithTrend(p, cs, dir) ==
  LET e == Ema(Closes(cs), p.biasLen) IN
  p.biasMode = 1 => /\ e # <<>>
                    /\ (dir = "LONG") = (LastClose(cs) > Last(e))

--------------------------------------------------------------------------------
(* Opening a trade *)

Opened(st, dir, sl, tp) ==
  Result([st EXCEPT !.side = dir, !.sl = sl, !.tp = tp, !.nToday = @ + 1, !.armed = FALSE],
         Order(dir, sl, tp))
\* tpMode 1: the far side of the Asia range, when the price is not beyond it.
Liquidity(p, st, dir, entry) ==
  LET far == IF dir = "LONG" THEN st.asiaHigh ELSE st.asiaLow
  IN IF p.tpMode = 1 /\ Way(dir) * (far - entry) > 0 THEN far ELSE None
Target(p, st, dir, entry, risk) ==
  IF Liquidity(p, st, dir, entry) # None THEN Liquidity(p, st, dir, entry)
  ELSE entry + Way(dir) * p.rrTarget * risk

\* Versions 1 and 2: the SL is slBuffer beyond the sweep's extreme.
OpenV1(p, st, cs, dir) ==
  LET entry == LastClose(cs)
      sl == st.extreme - Way(dir) * p.slBuffer
      risk == Way(dir) * (entry - sl) IN
  IF risk <= 0 THEN Result(st, <<>>) ELSE Opened(st, dir, sl, Target(p, st, dir, entry, risk))

\* Versions 3 and 4: a distance, by ATR or to the extreme.
SlDistance(p, st, cs) ==
  LET entry == LastClose(cs)
      a == Atr(cs, p.atrLen) IN
  IF p.slMode = 1 THEN IF a > 0 /\ p.atrMult > 0 THEN p.atrMult * a ELSE (entry * 5) \div 1000
  ELSE Magnitude(entry - st.extreme) + p.slBuffer
OpenV3(p, st, cs, dir) ==
  LET entry == LastClose(cs)
      risk == SlDistance(p, st, cs) IN
  IF risk <= 0 THEN Result(st, <<>>)
  ELSE Opened(st, dir, entry - Way(dir) * risk, Target(p, st, dir, entry, risk))
\* Version 4 skips a target closer than minRr times the risk, and stays armed.
OpenV4(p, st, cs, dir) ==
  LET entry == LastClose(cs)
      tp == Liquidity(p, st, dir, entry)
      poor == p.minRr > 0 /\ tp # None /\ Way(dir) * (tp - entry) < p.minRr * SlDistance(p, st, cs)
  IN IF poor THEN Result(st, <<>>) ELSE OpenV3(p, st, cs, dir)

--------------------------------------------------------------------------------
(* A setup: armed, or a break of structure *)

\* Armed: a candle beyond the sweep ends the setup, one back in the gap enters.
Retest(p, st, cs, Open(_, _, _, _)) ==
  LET c == Last(cs)
      beyond == IF st.armedDir = "LONG" THEN c.low < st.extreme ELSE c.high > st.extreme
      back == IF st.armedDir = "LONG" THEN c.low <= st.prox ELSE c.high >= st.prox IN
  CASE beyond -> Result(ResetSetup(st), <<>>)
    [] ~beyond /\ back -> Open(p, st, cs, st.armedDir)
    [] OTHER -> Result(st, <<>>)

\* A break of structure enters at once, or arms.
Broke(p, st, cs, dir, Open(_, _, _, _)) ==
  LET prox == FindFvg(cs, dir) IN
  CASE dir = "none" -> Result(st, <<>>)
    [] dir # "none" /\ ~WithTrend(p, cs, dir) -> Result(st, <<>>)
    [] dir # "none" /\ WithTrend(p, cs, dir) /\ p.confluence = 1 -> Open(p, st, cs, dir)
    [] OTHER -> Result(IF prox = None \/ (p.confluence >= 3 /\ ~HasOrderBlock(cs, dir)) THEN st
                       ELSE [st EXCEPT !.armed = TRUE, !.armedDir = dir, !.prox = prox], <<>>)

\* Versions 1 and 2: the close passes the highest or lowest candle since the sweep.
ReactionBreak(p, st, cs) ==
  LET c == Last(cs)
      dir == CASE st.since >= p.mssLookback /\ st.sweep = "LOW" /\ c.close > st.reactHigh -> "LONG"
               [] st.since >= p.mssLookback /\ st.sweep = "HIGH" /\ c.close < st.reactLow -> "SHORT"
               [] OTHER -> "none"
      after == [Extended(st, c) EXCEPT !.reactHigh = Max({@, c.high}), !.reactLow = Min({@, c.low})]
  IN Broke(p, after, cs, dir, OpenV1)

\* Versions 3 and 4: the close passes the latest swing since the sweep, which is found by
\* its ts; a sweep that has left the window ends the setup.
SwingBreak(p, st, cs, minBody, Open(_, _, _, _)) ==
  LET c == Last(cs)
      at == {i \in DOMAIN cs : cs[i].ts = st.sweepTs}
      dir == IF st.sweep = "LOW" THEN "LONG" ELSE "SHORT"
      ref == RecentSwing(cs, Max(at), p.swing, dir)
      broke == /\ st.since >= p.mssLookback
               /\ ref # None
               /\ Way(dir) * (c.close - ref) > 0
               /\ Magnitude(c.close - c.open) >= minBody IN
  IF at = {} THEN Result(ResetSetup(st), <<>>)
  ELSE Broke(p, Extended(st, c), cs, IF broke THEN dir ELSE "none", Open)

--------------------------------------------------------------------------------
(* on_candle *)

\* A new day closes the trade and forgets everything; before asiaEndH the range grows.
\* Then the version's own Managed, Hunt and so on.
Session(p, before, cs, Trade(_, _, _), Hunt(_, _, _)) ==
  LET c == Last(cs)
      newDay == before.day # Day(c.ts)
      st == IF newDay THEN Fresh(Day(c.ts)) ELSE before
      rest == CASE Hour(c.ts) < p.asiaEndH -> Result(AsiaRange(st, c), <<>>)
                [] Hour(c.ts) >= p.asiaEndH /\ st.side # "FLAT" -> Trade(p, st, c)
                [] OTHER -> Hunt(p, st, cs)
  IN Result(rest.st, (IF newDay /\ before.side # "FLAT" THEN Close ELSE <<>>) \o rest.signals)

TradeV1(p, st, c) == IF Ends(p, st, c) THEN Result(ClearTrade(st), Close) ELSE Result(st, <<>>)
TradeV3(p, st, c) == IF Ends(p, st, c) THEN Result(ResetSetup(ClearTrade(st)), Close) ELSE Result(st, <<>>)

ReactSweep(st, c) ==
  LET after == Swept(st, c, FALSE) IN
  IF after.sweep = "none" THEN st ELSE [after EXCEPT !.reactHigh = c.high, !.reactLow = c.low]
HuntV1Twice(p, st, cs) ==  \* the trade of the day is forgotten
  CASE NoHunt(p, st, Last(cs)) -> Result(st, <<>>)
    [] ~NoHunt(p, st, Last(cs)) /\ st.armed -> Retest(p, st, cs, OpenV1)
    [] ~NoHunt(p, st, Last(cs)) /\ ~st.armed /\ st.sweep = "none" -> Result(ReactSweep(st, Last(cs)), <<>>)
    [] OTHER -> ReactionBreak(p, st, cs)
HuntV1(p, st, cs) ==
  LET c == Last(cs) IN
  IF NoHunt(p, st, c) \/ st.nToday > 0 THEN Result(st, <<>>)
  ELSE IF st.armed THEN Retest(p, st, cs, OpenV1)
  ELSE IF st.sweep = "none" THEN Result(ReactSweep(st, c), <<>>)
  ELSE ReactionBreak(p, st, cs)
HuntV2(p, st, cs) == IF NewsBlocked(p, Last(cs).ts) THEN Result(st, <<>>) ELSE HuntV1(p, st, cs)
HuntV3(p, st, cs) ==
  LET c == Last(cs) IN
  IF NoHunt(p, st, c) \/ (p.maxPerDay > 0 /\ st.nToday >= p.maxPerDay) \/ NewsBlocked(p, c.ts)
  THEN Result(st, <<>>)
  ELSE IF st.armed THEN Retest(p, st, cs, OpenV3)
  ELSE IF st.sweep = "none" THEN Result(SweptAt(st, c, FALSE), <<>>)
  ELSE SwingBreak(p, st, cs, 0, OpenV3)
HuntV4(p, st, cs) ==
  LET c == Last(cs)
      a == Atr(cs, p.atrLen) IN
  IF NoHunt(p, st, c) \/ (p.maxPerDay > 0 /\ st.nToday >= p.maxPerDay) \/ Hour(c.ts) >= p.entryCutoffH
       \/ NewsBlocked(p, c.ts)
  THEN Result(st, <<>>)
  ELSE IF st.armed THEN Retest(p, st, cs, OpenV4)
  ELSE IF st.sweep = "none" THEN Result(SweptAt(st, c, p.rejectSweep = 1), <<>>)
  ELSE SwingBreak(p, st, cs, IF a > 0 THEN (p.dispPct * a) \div 100 ELSE 0, OpenV4)

OnCandleV1(p, st, cs) == Session(p, st, cs, TradeV1, HuntV1)
OnCandleV2(p, st, cs) == Session(p, st, cs, TradeV1, HuntV2)
OnCandleV3(p, st, cs) == Session(p, st, cs, TradeV3, HuntV3)
OnCandleV4(p, st, cs) == Session(p, st, cs, TradeV3, HuntV4)

\* The range of each day over its whole day, and the average of the trend filter.
AsiaPlot(p, cs) ==
  LET asia(i) == {j \in DOMAIN cs : Day(cs[j].ts) = Day(cs[i].ts) /\ Hour(cs[j].ts) < p.asiaEndH}
      ranged == {i \in DOMAIN cs : asia(i) # {}} IN
  [high |-> [i \in ranged |-> Max({cs[j].high : j \in asia(i)})],
   low |-> [i \in ranged |-> Min({cs[j].low : j \in asia(i)})]]
  @@ (IF p.biasMode = 1 THEN [bias |-> PadLeft(Ema(Closes(cs), p.biasLen), Len(cs))] ELSE <<>>)
=============================================================================
