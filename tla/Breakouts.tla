------------------------------ MODULE Breakouts ------------------------------
(***************************************************************************)
(* The strategies that remember a trade of theirs between candles:         *)
(* vol_breakout.py, donchian_v2.py and ichimoku_v2.py.  Each on_candle is  *)
(* an operator from the parameters, the state of the instance and the      *)
(* candles, whose last one has just closed, to the state it leaves and the *)
(* signals it returns.                                                     *)
(***************************************************************************)
EXTENDS Strategies, Calendar

Result(st, signals) == [st |-> st, signals |-> signals]

\* Long ways up, short ways down.
Way(dir) == IF dir = "LONG" THEN 1 ELSE -1
Order(dir, sl, tp) == <<[action |-> IF dir = "LONG" THEN "BUY" ELSE "SELL", sl |-> sl, tp |-> tp]>>
Below(dir, price, level) == Way(dir) * (level - price) > 0

--------------------------------------------------------------------------------
(* Volatility breakout: `closed` are the trades of the circuit breaker, as ts and *)
(* per mille; `done` the directions entered today.                                *)

NoiseDays == 5

VolInit == [day |-> None, dayOpen |-> None, prevHi |-> None, prevLo |-> None, curHi |-> None, curLo |-> None,
            curClose |-> None, days |-> <<>>, side |-> "FLAT", sl |-> None, entry |-> None, done |-> {},
            closed |-> <<>>, pauseUntil |-> 0]

Recent(closed, since) == SelectSeq(closed, LAMBDA t : t.ts > since)
RecordClose(p, st, c) ==
  LET pnl == Way(st.side) * ((1000 * c.close) \div st.entry - 1000) - 1
      recent == Recent(Append(st.closed, [ts |-> c.ts, pnl |-> pnl]), c.ts - 24 * p.cbWindow)
      lost == Sum([i \in DOMAIN recent |-> recent[i].pnl]) <= -p.cbThresh IN
  IF p.cbThresh <= 0 THEN st
  ELSE [st EXCEPT !.closed = IF lost THEN <<>> ELSE recent,
                  !.pauseUntil = IF lost THEN c.ts + 24 * p.cbPause ELSE @]
VolExit(p, st, c) == [RecordClose(p, st, c) EXCEPT !.side = "FLAT", !.sl = None, !.entry = None]

VolNewDayKeepsTrade(p, st, c) ==  \* held over the midnight
  [st EXCEPT !.prevHi = st.curHi, !.prevLo = st.curLo, !.curHi = None, !.curLo = None,
             !.day = Day(c.ts), !.dayOpen = c.open, !.done = {}]
VolNewDay(p, st, c) ==
  LET yesterday == [open |-> st.dayOpen, high |-> st.curHi, low |-> st.curLo, close |-> st.curClose]
      days == IF st.curHi = None THEN st.days ELSE Append(st.days, yesterday)
      new == [st EXCEPT !.days = FinalPart(days, Min({Len(days), p.noiseLen})),
                        !.prevHi = st.curHi, !.prevLo = st.curLo, !.curHi = None, !.curLo = None,
                        !.day = Day(c.ts), !.dayOpen = c.open, !.done = {}]
  IN IF st.side = "FLAT" THEN new ELSE VolExit(p, new, c)
\* The day so far.
VolSeen(p, st, c) ==
  LET today == IF st.day = Day(c.ts) THEN st ELSE VolNewDay(p, st, c) IN
  [today EXCEPT !.curHi = Max({@, c.high}), !.curLo = IF @ = None THEN c.low ELSE Min({@, c.low}),
                !.curClose = c.close]

NoiseK(days) ==
  LET real == SelectSeq(days, LAMBDA d : d.high > d.low)
      quiet == [i \in DOMAIN real |-> 100 - Ratio(Magnitude(real[i].open - real[i].close), real[i].high - real[i].low)]
  IN IF Len(real) < NoiseDays THEN None ELSE Min({Max({Sum(quiet) \div Len(quiet), 30}), 90})

MakeSl(p, st, cs, dir) ==
  LET close == LastClose(cs)
      a == Atr(cs, p.atrLen) IN
  CASE p.slMode = 1 -> st.dayOpen
    [] p.slMode = 2 /\ a # None -> close - Way(dir) * p.atrMult * a
    [] p.slMode = 3 -> close - Way(dir) * ((close * p.slPct) \div 100)
    [] OTHER -> None

\* The close is k of yesterday's range away from the day's open; k is a percentage.
BreaksOut(p, st, cs, dir) ==
  LET k == IF p.kMode = 1 THEN NoiseK(st.days) ELSE p.k
      e == Ema(Closes(cs), p.trendLen) IN
  /\ dir = "SHORT" => p.direction = 1
  /\ dir \notin st.done
  /\ k # None
  /\ Way(dir) * (LastClose(cs) - st.dayOpen) * 100 > k * (st.prevHi - st.prevLo)
  /\ p.trendLen > 0 /\ Len(cs) >= p.trendLen => Below(dir, Last(e), LastClose(cs))
MayEnter(p, st, c) ==
  /\ st.side = "FLAT"
  /\ st.prevHi # None /\ st.prevHi > st.prevLo
  /\ Hour(c.ts) < p.cutoffH
  /\ c.ts >= st.pauseUntil

\* Once the day is known: the stop, then the two breakouts.
VolEnter(p, st, cs, dir, earlier) ==
  LET To(sl) == Result([st EXCEPT !.side = dir, !.sl = sl, !.entry = LastClose(cs), !.done = @ \cup {dir}],
                       earlier \o Order(dir, Max({sl, 0}), 0)) IN
  To(MakeSl(p, st, cs, dir))
VolDecide(p, st, cs, earlier) ==
  LET stopped == st.side # "FLAT" /\ st.sl # None /\ Way(st.side) * (st.sl - LastClose(cs)) >= 0 IN
  IF stopped THEN Result(VolExit(p, st, Last(cs)), Close)
  ELSE IF ~MayEnter(p, st, Last(cs)) THEN Result(st, earlier)
  ELSE IF BreaksOut(p, st, cs, "LONG") THEN VolEnter(p, st, cs, "LONG", earlier)
  ELSE IF BreaksOut(p, st, cs, "SHORT") THEN VolEnter(p, st, cs, "SHORT", earlier)
  ELSE Result(st, earlier)
VolBreakout(p, before, cs) ==
  LET Today(st) ==
        VolDecide(p, st, cs, IF before.side # "FLAT" /\ st.side = "FLAT" THEN Close ELSE <<>>) IN
  Today(VolSeen(p, before, Last(cs)))

\* The levels of each candle, times 100.
VolPlot(p, cs) ==
  LET start(i) == Min({j \in 1..i : Day(cs[j].ts) = Day(cs[i].ts)})
      later == {i \in DOMAIN cs : start(i) > 1}
      range(i) == LET last == start(i) - 1 IN Highest(cs, start(last), last) - Lowest(cs, start(last), last) IN
  [upper |-> [i \in later |-> 100 * cs[start(i)].open + p.k * range(i)],
   lower |-> [i \in later |-> 100 * cs[start(i)].open - p.k * range(i)]]

--------------------------------------------------------------------------------
(* Donchian, version 2: `ext` is the best close of the trade. *)

DonchianInit == [side |-> "FLAT", ext |-> None]
Weekend(ts) == Weekday(ts) = 5 \/ (Weekday(ts) = 6 /\ Hour(ts) < 20)

\* The close is past the lowest (for a short, the highest) of the k candles before.
PastChannel(cs, k, dir) ==
  LET n == Len(cs) IN
  IF dir = "LONG" THEN LastClose(cs) < Lowest(cs, n - k, n - 1) ELSE LastClose(cs) > Highest(cs, n - k, n - 1)
Other(dir) == IF dir = "LONG" THEN "SHORT" ELSE "LONG"
Entered(cs, dir) == Result([side |-> dir, ext |-> LastClose(cs)], Order(dir, 0, 0))

TrailsOut(p, cs, st) ==
  LET a == Atr(cs, p.atrLen)
  IN p.exitMode \in {0, 2} /\ a # None /\ Below(st.side, LastClose(cs), st.ext - Way(st.side) * p.atrMult * a)
ChannelOut(p, cs, st) ==
  p.exitMode \in {1, 2} /\ Len(cs) > p.exitPeriod /\ PastChannel(cs, p.exitPeriod, st.side)
ManageDonchianForgets(p, before, cs) ==  \* the trade is forgotten and not closed
  LET st == [before EXCEPT !.ext = IF before.side = "LONG" THEN Max({@, LastClose(cs)}) ELSE Min({@, LastClose(cs)})]
  IN IF PastChannel(cs, p.period, st.side) THEN Entered(cs, Other(st.side))
     ELSE Result(IF TrailsOut(p, cs, st) \/ ChannelOut(p, cs, st) THEN DonchianInit ELSE st, <<>>)
ManageDonchian(p, before, cs) ==
  LET st == [before EXCEPT !.ext = IF before.side = "LONG" THEN Max({@, LastClose(cs)}) ELSE Min({@, LastClose(cs)})] IN
  IF PastChannel(cs, p.period, st.side) THEN Entered(cs, Other(st.side))
  ELSE IF TrailsOut(p, cs, st) \/ ChannelOut(p, cs, st) THEN Result(DonchianInit, Close)
  ELSE Result(st, <<>>)
DonchianV2(p, st, cs) ==
  LET trending == p.adxMin > 0 => AdxReady(cs, p.adxLen) /\ AdxDmi(cs, p.adxLen).adx >= p.adxMin
      quiet == p.dowFilter = 1 /\ Weekend(Last(cs).ts) IN
  IF Len(cs) < p.period + 1 THEN Result(st, <<>>)
  ELSE IF st.side # "FLAT" THEN ManageDonchian(p, st, cs)
  ELSE IF quiet \/ ~trending THEN Result(st, <<>>)
  ELSE IF PastChannel(cs, p.period, "SHORT") THEN Entered(cs, "LONG")
  ELSE IF PastChannel(cs, p.period, "LONG") THEN Entered(cs, "SHORT")
  ELSE Result(st, <<>>)

--------------------------------------------------------------------------------
(* Ichimoku, version 2: a trailing stop. *)

TrailInit == [side |-> "FLAT", stop |-> None]

Trail(p, st, cs) ==
  LET a == Atr(cs, p.atrLen)
      next == LastClose(cs) - Way(st.side) * p.atrMult * a IN
  CASE a <= 0 -> st.stop
    [] a > 0 /\ st.side = "LONG" -> Max({st.stop, next})
    [] a > 0 /\ st.side = "SHORT" -> Min({st.stop, next})
IchimokuTrail(p, before, cs) ==
  LET st == IF before.side = "FLAT" THEN before ELSE [before EXCEPT !.stop = Trail(p, before, cs)]
      a == Atr(cs, p.atrLen)
      signal == Ichimoku(p, cs)
      dir == IF signal = Buy THEN "LONG" ELSE "SHORT" IN
  IF st.side # "FLAT" /\ Way(st.side) * (st.stop - LastClose(cs)) >= 0 THEN Result(TrailInit, Close)
  ELSE IF a <= 0 \/ signal = Hold \/ dir = st.side THEN Result(st, <<>>)
  ELSE Result([side |-> dir, stop |-> LastClose(cs) - Way(dir) * p.atrMult * a], signal)
=============================================================================
