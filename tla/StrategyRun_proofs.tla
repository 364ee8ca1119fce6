------------------------- MODULE StrategyRun_proofs -------------------------
(***************************************************************************)
(* Three promises of the strategies that remember a trade, for every       *)
(* parameter set, market and bound: the bot holds nothing its strategy has *)
(* forgotten, a day has its cap of entries, and a day's trade ends with it.*)
(* Then four of the account simulation, for every history and strategy:    *)
(* the report explains the balance, a stop loses what was risked, a halt is*)
(* set, lasts and ends, and what is bought can be paid for.                *)
(*                                                                         *)
(* Bottom up: what one call of on_candle may answer (IctStep, VolStep and  *)
(* Moves), what the engine makes of an answer (EngineFollows), and the     *)
(* invariant that ties the belief, the engine and the diary together.  For *)
(* the simulation: what the engine reports (OnPriceDoes, LimitDoes and     *)
(* MarketSubmits), what the books make of a report (ApplyGood), and the    *)
(* invariant Good that ties the books, the engine and what was risked, with*)
(* Latched, which ties the halts to the limits that were met.              *)
(***************************************************************************)
EXTENDS StrategyRun, Backtest, FiniteSetTheorems, SequenceTheorems, WellFoundedInduction, TLAPS

Dirs == {"LONG", "SHORT"}
Action(dir) == IF dir = "LONG" THEN "BUY" ELSE "SELL"
\* The signals are one of each of these actions.
Acts(s, a) ==
  /\ s = [i \in 1..Len(a) |-> s[i]]
  /\ \A i \in 1..Len(a) : s[i].action = a[i] /\ (a[i] = "CLOSE" => s[i] = Signal("CLOSE"))

\* What the three ways to write signals are.
LEMMA ActsOf ==
  /\ Acts(<<>>, <<>>) /\ Acts(Close, <<"CLOSE">>)
  /\ \A dir, sl, tp : Acts(Order(dir, sl, tp), <<Action(dir)>>)
BY DEF Acts, Close, Signal, Order, Action

\* One signal is the first and only one.
LEMMA ActsOne ==
  ASSUME NEW a, NEW s, Acts(s, <<a>>)
  PROVE s = <<s[1]>> /\ s[1].action = a /\ (a = "CLOSE" => s[1] = Signal("CLOSE"))
<1>1. Len(<<a>>) = 1
  OBVIOUS
<1>2. s = [i \in 1..1 |-> s[i]] /\ s[1].action = a /\ (a = "CLOSE" => s[1] = Signal("CLOSE"))
  BY <1>1 DEF Acts
<1> QED BY <1>2

LEMMA ActsNone ==
  ASSUME NEW s, Acts(s, <<>>)
  PROVE s = <<>>
BY DEF Acts

\* A signal after closing.
LEMMA ClosesThen ==
  ASSUME NEW s, NEW a
  PROVE /\ Acts(s, <<>>) => Acts(<<>> \o s, <<>>) /\ Acts(Close \o s, <<"CLOSE">>)
        /\ Acts(s, <<a>>) => Acts(<<>> \o s, <<a>>) /\ Acts(Close \o s, <<"CLOSE", a>>)
<1>1. ASSUME Acts(s, <<>>) PROVE Acts(<<>> \o s, <<>>) /\ Acts(Close \o s, <<"CLOSE">>)
  <2>1. s = <<>>
    BY <1>1, ActsNone
  <2>2. <<>> \o <<>> = <<>> /\ Close \o <<>> = Close
    BY DEF Close
  <2> QED BY <2>1, <2>2, ActsOf
<1>2. ASSUME Acts(s, <<a>>) PROVE Acts(<<>> \o s, <<a>>) /\ Acts(Close \o s, <<"CLOSE", a>>)
  <2> DEFINE x == s[1]
             c == Signal("CLOSE")
  <2>1. s = <<s[1]>> /\ s[1].action = a /\ (a = "CLOSE" => s[1] = c)
    BY <1>2, ActsOne
  <2>2. <<>> \o <<x>> = <<x>> /\ <<c>> \o <<x>> = <<c, x>>
    <3> HIDE DEF x, c
    <3> DEFINE S == {c, x}
    <3>1. <<x>> \in Seq(S) /\ <<c>> \in Seq(S) /\ Len(<<x>>) = 1 /\ Len(<<c>>) = 1
      OBVIOUS
    <3>2. <<>> \o <<x>> = <<x>>
      BY <3>1, ConcatEmptySeq
    <3> DEFINE cx == <<c>> \o <<x>>
    <3>3. cx \in Seq(S) /\ Len(cx) = 2 /\ cx[1] = c /\ cx[2] = x
      BY <3>1, ConcatProperties
    <3> HIDE DEF cx, S
    <3>4. cx = <<c, x>>
      BY <3>3
    <3> QED BY <3>2, <3>4 DEF cx
  <2>3. c.action = "CLOSE" /\ Close = <<c>>
    BY DEF Close, Signal
  <2> HIDE DEF c
  <2>4. Acts(<<c, x>>, <<"CLOSE", a>>)
    <3>1. c = Signal("CLOSE")
      BY DEF c
    <3> QED BY <2>1, <2>3, <3>1 DEF Acts
  <2> QED BY <1>2, <2>1, <2>2, <2>3, <2>4
<1> QED BY <1>1, <1>2

--------------------------------------------------------------------------------
(* What one call of on_candle does, of the Power of Three. *)

Fields(s) ==
  /\ {"day", "nToday", "side", "armed", "armedDir"} \subseteq DOMAIN s
  /\ s.armed => s.armedDir \in Dirs
Keeps(s, t) == Fields(t) /\ t.day = s.day /\ t.nToday = s.nToday /\ t.side = s.side
\* on_candle sends nothing, closes or enters.
Waits(s, r) == Acts(r.signals, <<>>) /\ Keeps(s, r.st)
Leaves(s, r) ==
  /\ Acts(r.signals, <<"CLOSE">>)
  /\ Fields(r.st) /\ r.st.day = s.day /\ r.st.nToday = s.nToday /\ r.st.side = "FLAT"
Enters(s, r) ==
  /\ Fields(r.st) /\ r.st.day = s.day /\ r.st.nToday = s.nToday + 1
  /\ r.st.side \in Dirs
  /\ Acts(r.signals, <<Action(r.st.side)>>)
Tries(s, r) == Waits(s, r) \/ Enters(s, r)

\* A new day has no range, no trade and no setup.
LEMMA FreshIs ==
  ASSUME NEW d
  PROVE LET s == Fresh(d) IN
        Fields(s) /\ s.day = d /\ s.nToday = 0 /\ s.side = "FLAT" /\ s.asiaHigh = None
BY DEF Fresh, Fields

\* A sweep, a reset and a growing range leave the day, its counter and the trade alone.
LEMMA SweptKeeps ==
  ASSUME NEW s, Fields(s), NEW c, NEW rejection
  PROVE Keeps(s, Swept(s, c, rejection)) /\ Keeps(s, SweptAt(s, c, rejection)) /\ Keeps(s, ReactSweep(s, c))
BY DEF Swept, SweptAt, ReactSweep, Keeps, Fields

LEMMA ResetKeeps ==
  ASSUME NEW s, Fields(s)
  PROVE Keeps(s, s) /\ Keeps(s, ResetSetup(s))
BY DEF ResetSetup, Keeps, Fields

LEMMA RangeKeeps ==
  ASSUME NEW s, Fields(s), NEW c
  PROVE Keeps(s, Extended(s, c)) /\ Keeps(s, AsiaRange(s, c))
BY DEF Extended, AsiaRange, Keeps, Fields

LEMMA WaitsIs ==
  ASSUME NEW s, NEW t, Keeps(s, t)
  PROVE Waits(s, Result(t, <<>>))
BY ActsOf DEF Waits, Result

\* The only place that counts an entry also sends it.
LEMMA OpenedEnters ==
  ASSUME NEW s, Fields(s), NEW dir \in Dirs, NEW sl, NEW tp
  PROVE Enters(s, Opened(s, dir, sl, tp))
<1> DEFINE r == Opened(s, dir, sl, tp)
<1>1. Fields(r.st) /\ r.st.day = s.day /\ r.st.nToday = s.nToday + 1 /\ r.st.side = dir
  BY DEF Opened, Result, Fields
<1>2. r.signals = Order(dir, sl, tp)
  BY DEF Opened, Result
<1> QED
  BY <1>1, <1>2, ActsOf DEF Enters

LEMMA OpenTries ==
  ASSUME NEW s, Fields(s), NEW p, NEW cs, NEW dir \in Dirs
  PROVE /\ Tries(s, OpenV1(p, s, cs, dir))
        /\ Tries(s, OpenV3(p, s, cs, dir))
        /\ Tries(s, OpenV4(p, s, cs, dir))
<1>1. Waits(s, Result(s, <<>>))
  BY ResetKeeps, WaitsIs
<1>2. Tries(s, OpenV1(p, s, cs, dir))
  BY <1>1, OpenedEnters DEF OpenV1, Tries
<1>3. Tries(s, OpenV3(p, s, cs, dir))
  BY <1>1, OpenedEnters DEF OpenV3, Tries
<1>4. Tries(s, OpenV4(p, s, cs, dir))
  BY <1>1, <1>3 DEF OpenV4, Tries
<1> QED BY <1>2, <1>3, <1>4

\* Armed or at a break of structure, each version waits or enters.
LEMMA RetestTries ==
  ASSUME NEW s, Fields(s), s.armed, NEW p, NEW cs
  PROVE /\ Tries(s, Retest(p, s, cs, OpenV1))
        /\ Tries(s, Retest(p, s, cs, OpenV3))
        /\ Tries(s, Retest(p, s, cs, OpenV4))
<1>1. Waits(s, Result(s, <<>>)) /\ Waits(s, Result(ResetSetup(s), <<>>)) /\ s.armedDir \in Dirs
  BY ResetKeeps, WaitsIs DEF Fields
<1>2. Tries(s, Retest(p, s, cs, OpenV1))
  BY <1>1, OpenTries DEF Retest, Tries
<1>3. Tries(s, Retest(p, s, cs, OpenV3))
  BY <1>1, OpenTries DEF Retest, Tries
<1>4. Tries(s, Retest(p, s, cs, OpenV4))
  BY <1>1, OpenTries DEF Retest, Tries
<1> QED BY <1>2, <1>3, <1>4

LEMMA BrokeTries ==
  ASSUME NEW s, Fields(s), NEW p, NEW cs, NEW dir \in Dirs \cup {"none"}
  PROVE /\ Tries(s, Broke(p, s, cs, dir, OpenV1))
        /\ Tries(s, Broke(p, s, cs, dir, OpenV3))
        /\ Tries(s, Broke(p, s, cs, dir, OpenV4))
<1> DEFINE armed(prox) == [s EXCEPT !.armed = TRUE, !.armedDir = dir, !.prox = prox]
<1>1. Waits(s, Result(s, <<>>))
  BY ResetKeeps, WaitsIs
<1>2. ASSUME NEW prox, dir # "none" PROVE Waits(s, Result(armed(prox), <<>>))
  <2>1. Keeps(s, armed(prox))
    BY <1>2 DEF Keeps, Fields
  <2> QED BY <2>1, WaitsIs
<1> HIDE DEF armed
<1>3. Tries(s, Broke(p, s, cs, dir, OpenV1))
  BY <1>1, <1>2, OpenTries DEF Broke, Tries, armed
<1>4. Tries(s, Broke(p, s, cs, dir, OpenV3))
  BY <1>1, <1>2, OpenTries DEF Broke, Tries, armed
<1>5. Tries(s, Broke(p, s, cs, dir, OpenV4))
  BY <1>1, <1>2, OpenTries DEF Broke, Tries, armed
<1> QED BY <1>3, <1>4, <1>5

\* What is tried from a state that keeps the day is tried from the state before.
LEMMA TriesOn ==
  ASSUME NEW s, NEW t, Keeps(s, t), NEW r, Tries(t, r)
  PROVE Tries(s, r)
BY DEF Tries, Waits, Enters, Keeps

LEMMA BreakTries ==
  ASSUME NEW s, Fields(s), NEW p, NEW cs
  PROVE /\ Tries(s, ReactionBreak(p, s, cs))
        /\ \A m : Tries(s, SwingBreak(p, s, cs, m, OpenV3)) /\ Tries(s, SwingBreak(p, s, cs, m, OpenV4))
<1>1. Waits(s, Result(ResetSetup(s), <<>>))
  BY ResetKeeps, WaitsIs
<1>2. Keeps(s, Extended(s, Last(cs)))
  BY RangeKeeps
<1>3. Tries(s, ReactionBreak(p, s, cs))
  <2> DEFINE c == Last(cs)
             dir == CASE s.since >= p.mssLookback /\ s.sweep = "LOW" /\ c.close > s.reactHigh -> "LONG"
                      [] s.since >= p.mssLookback /\ s.sweep = "HIGH" /\ c.close < s.reactLow -> "SHORT"
                      [] OTHER -> "none"
             e == Extended(s, c)
             after == [e EXCEPT !.reactHigh = Max({@, c.high}), !.reactLow = Min({@, c.low})]
  <2>1. dir \in Dirs \cup {"none"}
    BY DEF Dirs
  <2>2. Keeps(s, after) /\ Fields(after)
    BY <1>2 DEF Keeps, Fields
  <2>3. ReactionBreak(p, s, cs) = Broke(p, after, cs, dir, OpenV1)
    BY DEF ReactionBreak
  <2> HIDE DEF dir, after, e
  <2> QED BY <2>1, <2>2, <2>3, BrokeTries, TriesOn
<1>4. ASSUME NEW m PROVE Tries(s, SwingBreak(p, s, cs, m, OpenV3)) /\ Tries(s, SwingBreak(p, s, cs, m, OpenV4))
  <2> DEFINE e == Extended(s, Last(cs))
  <2>1. \A dir \in Dirs \cup {"none"} : Tries(s, Broke(p, e, cs, dir, OpenV3)) /\ Tries(s, Broke(p, e, cs, dir, OpenV4))
    BY <1>2, BrokeTries, TriesOn DEF Keeps
  <2>2. /\ \E dir \in Dirs \cup {"none"} : \/ SwingBreak(p, s, cs, m, OpenV3) = Broke(p, e, cs, dir, OpenV3)
                                           \/ SwingBreak(p, s, cs, m, OpenV3) = Result(ResetSetup(s), <<>>)
        /\ \E dir \in Dirs \cup {"none"} : \/ SwingBreak(p, s, cs, m, OpenV4) = Broke(p, e, cs, dir, OpenV4)
                                           \/ SwingBreak(p, s, cs, m, OpenV4) = Result(ResetSetup(s), <<>>)
    BY DEF SwingBreak, Dirs
  <2> QED BY <1>1, <2>1, <2>2 DEF Tries
<1> QED BY <1>3, <1>4

\* The version's bound on the trades of a day.
MayTrade(p, s) ==
  /\ p.name \in {"ict1", "ict2"} => ~(s.nToday > 0)
  /\ p.name \in {"ict3", "ict4"} => ~(p.maxPerDay > 0 /\ s.nToday >= p.maxPerDay)
\* What a hunt finds: nothing, or an entry while it may still enter.
Hunts(p, s, c, r) == Waits(s, r) \/ (Enters(s, r) /\ ~NoHunt(p, s, c) /\ MayTrade(p, s))

\* Each version looks at its guards before it enters.
LEMMA HuntV1Finds ==
  ASSUME NEW s, Fields(s), NEW p, p.name \in {"ict1", "ict2"}, NEW cs
  PROVE Hunts(p, s, Last(cs), HuntV1(p, s, cs)) /\ Hunts(p, s, Last(cs), HuntV2(p, s, cs))
<1> DEFINE c == Last(cs)
           r == HuntV1(p, s, cs)
<1>1. Waits(s, Result(s, <<>>)) /\ Waits(s, Result(ReactSweep(s, c), <<>>))
  BY ResetKeeps, SweptKeeps, WaitsIs
<1>2. CASE NoHunt(p, s, c) \/ s.nToday > 0
  BY <1>1, <1>2 DEF HuntV1, HuntV2, Hunts
<1>3. CASE ~(NoHunt(p, s, c) \/ s.nToday > 0)
  <2>1. Tries(s, r)
    BY <1>1, <1>3, RetestTries, BreakTries DEF HuntV1, Tries
  <2>2. MayTrade(p, s)
    BY <1>3 DEF MayTrade
  <2> QED BY <1>1, <1>3, <2>1, <2>2 DEF Tries, Hunts, HuntV2
<1> QED BY <1>2, <1>3

LEMMA HuntV3Finds ==
  ASSUME NEW s, Fields(s), NEW p, p.name = "ict3", NEW cs
  PROVE Hunts(p, s, Last(cs), HuntV3(p, s, cs))
<1> DEFINE c == Last(cs)
           r == HuntV3(p, s, cs)
           full == p.maxPerDay > 0 /\ s.nToday >= p.maxPerDay
           barred == NoHunt(p, s, c) \/ full \/ NewsBlocked(p, c.ts)
<1>1. Waits(s, Result(s, <<>>)) /\ Waits(s, Result(SweptAt(s, c, FALSE), <<>>))
  BY ResetKeeps, SweptKeeps, WaitsIs
<1>2. CASE barred
  BY <1>1, <1>2 DEF HuntV3, Hunts
<1>3. CASE ~barred
  <2>1. Tries(s, r)
    BY <1>1, <1>3, RetestTries, BreakTries DEF HuntV3, Tries
  <2>2. MayTrade(p, s)
    BY <1>3 DEF MayTrade
  <2> QED BY <1>3, <2>1, <2>2 DEF Tries, Hunts
<1> QED BY <1>2, <1>3

LEMMA HuntV4Finds ==
  ASSUME NEW s, Fields(s), NEW p, p.name = "ict4", NEW cs
  PROVE Hunts(p, s, Last(cs), HuntV4(p, s, cs))
<1> DEFINE c == Last(cs)
           r == HuntV4(p, s, cs)
           full == p.maxPerDay > 0 /\ s.nToday >= p.maxPerDay
           barred == NoHunt(p, s, c) \/ full \/ Hour(c.ts) >= p.entryCutoffH \/ NewsBlocked(p, c.ts)
<1>1. Waits(s, Result(s, <<>>)) /\ Waits(s, Result(SweptAt(s, c, p.rejectSweep = 1), <<>>))
  BY ResetKeeps, SweptKeeps, WaitsIs
<1>2. CASE barred
  BY <1>1, <1>2 DEF HuntV4, Hunts
<1>3. CASE ~barred
  <2>1. Tries(s, r)
    BY <1>1, <1>3, RetestTries, BreakTries DEF HuntV4, Tries
  <2>2. MayTrade(p, s)
    BY <1>3 DEF MayTrade
  <2> QED BY <1>3, <2>1, <2>2 DEF Tries, Hunts
<1> QED BY <1>2, <1>3

\* A day that has no range yet is not hunted in.
LEMMA NoRangeNoHunt ==
  ASSUME NEW s, s.asiaHigh = None, NEW p, NEW cs
  PROVE /\ HuntV1(p, s, cs) = Result(s, <<>>) /\ HuntV2(p, s, cs) = Result(s, <<>>)
        /\ HuntV3(p, s, cs) = Result(s, <<>>) /\ HuntV4(p, s, cs) = Result(s, <<>>)
BY DEF HuntV1, HuntV2, HuntV3, HuntV4, NoHunt

\* A trade ends, or it is before flatten_h.
LEMMA TradeEnds ==
  ASSUME NEW s, Fields(s), NEW p, NEW c
  PROVE /\ Leaves(s, TradeV1(p, s, c)) \/ (Waits(s, TradeV1(p, s, c)) /\ ~(Hour(c.ts) >= p.flattenH))
        /\ Leaves(s, TradeV3(p, s, c)) \/ (Waits(s, TradeV3(p, s, c)) /\ ~(Hour(c.ts) >= p.flattenH))
<1>1. Waits(s, Result(s, <<>>))
  BY ResetKeeps, WaitsIs
<1>2. Leaves(s, Result(ClearTrade(s), Close)) /\ Fields(ClearTrade(s))
  BY ActsOf DEF Leaves, Result, ClearTrade, Fields
<1>3. Leaves(s, Result(ResetSetup(ClearTrade(s)), Close))
  BY <1>2, ResetKeeps DEF Leaves, Result, Keeps
<1> QED BY <1>1, <1>2, <1>3 DEF TradeV1, TradeV3, Ends

\* on_candle of the Power of Three: on a new day it forgets, and closes what it held; on
\* the same day it waits, leaves its trade or, flat, enters.
NewDayStep(s, d, r) ==
  /\ Fields(r.st) /\ r.st.day = d /\ r.st.nToday = 0 /\ r.st.side = "FLAT"
  /\ Acts(r.signals, IF s.side = "FLAT" THEN <<>> ELSE <<"CLOSE">>)
SameDayStep(p, s, c, r) ==
  \/ Waits(s, r) /\ (s.side # "FLAT" => Hour(c.ts) < p.asiaEndH \/ ~(Hour(c.ts) >= p.flattenH))
  \/ Leaves(s, r)
  \/ /\ Enters(s, r) /\ s.side = "FLAT" /\ MayTrade(p, s)
     /\ ~NoHunt(p, s, c) /\ Hour(c.ts) >= p.asiaEndH
IctStep(p, s, c, r) ==
  IF s.day = Day(c.ts) THEN SameDayStep(p, s, c, r) ELSE NewDayStep(s, Day(c.ts), r)

NewDayResult(p, s, c) ==
  LET f == Fresh(Day(c.ts))
      rest == IF Hour(c.ts) < p.asiaEndH THEN Result(AsiaRange(f, c), <<>>) ELSE Result(f, <<>>)
  IN Result(rest.st, (IF s.side # "FLAT" THEN Close ELSE <<>>) \o rest.signals)
SameDayResult(p, s, c, trade, hunt) ==
  LET rest == CASE Hour(c.ts) < p.asiaEndH -> Result(AsiaRange(s, c), <<>>)
                [] Hour(c.ts) >= p.asiaEndH /\ s.side # "FLAT" -> trade
                [] OTHER -> hunt
  IN Result(rest.st, <<>> \o rest.signals)
Ends1(p, s, c, trade) == Leaves(s, trade) \/ (Waits(s, trade) /\ ~(Hour(c.ts) >= p.flattenH))

\* What Session answers on a new day, and on the same one.
LEMMA NewDayResultIs ==
  ASSUME NEW s, NEW p, NEW c
  PROVE NewDayStep(s, Day(c.ts), NewDayResult(p, s, c))
<1> DEFINE d == Day(c.ts)
           f == Fresh(d)
           rest == IF Hour(c.ts) < p.asiaEndH THEN Result(AsiaRange(f, c), <<>>) ELSE Result(f, <<>>)
<1>1. Fields(f) /\ f.day = d /\ f.nToday = 0 /\ f.side = "FLAT"
  BY FreshIs
<1>2. Waits(f, rest)
  <2> HIDE DEF f
  <2> QED BY <1>1, RangeKeeps, ResetKeeps, WaitsIs
<1>3. NewDayResult(p, s, c) = Result(rest.st, (IF s.side # "FLAT" THEN Close ELSE <<>>) \o rest.signals)
  BY DEF NewDayResult
<1> HIDE DEF f, rest
<1>4. Acts(<<>> \o rest.signals, <<>>) /\ Acts(Close \o rest.signals, <<"CLOSE">>)
  BY <1>2, ClosesThen DEF Waits
<1>5. Fields(rest.st) /\ rest.st.day = d /\ rest.st.nToday = 0 /\ rest.st.side = "FLAT"
  BY <1>1, <1>2 DEF Waits, Keeps
<1> DEFINE sig == (IF s.side # "FLAT" THEN Close ELSE <<>>) \o rest.signals
<1>6. NewDayResult(p, s, c).st = rest.st /\ NewDayResult(p, s, c).signals = sig
  <2>1. NewDayResult(p, s, c) = Result(rest.st, sig)
    BY <1>3
  <2> HIDE DEF sig
  <2> QED BY <2>1 DEF Result
<1>7. sig = IF s.side # "FLAT" THEN Close \o rest.signals ELSE <<>> \o rest.signals
  <2>1. CASE s.side = "FLAT"
    BY <2>1
  <2>2. CASE s.side # "FLAT"
    BY <2>2
  <2> QED BY <2>1, <2>2
<1> HIDE DEF sig
<1>8. Acts(NewDayResult(p, s, c).signals, IF s.side = "FLAT" THEN <<>> ELSE <<"CLOSE">>)
  BY <1>4, <1>6, <1>7
<1> QED BY <1>5, <1>6, <1>8 DEF NewDayStep

LEMMA SameDayResultIs ==
  ASSUME NEW s, Fields(s), NEW p, NEW c, Hour(c.ts) \in Int, p.asiaEndH \in Int,
         NEW trade, Ends1(p, s, c, trade), NEW hunt, Hunts(p, s, c, hunt)
  PROVE SameDayStep(p, s, c, SameDayResult(p, s, c, trade, hunt))
<1> DEFINE r(rest) == Result(rest.st, <<>> \o rest.signals)
<1>1. ASSUME NEW rest
      PROVE  /\ Waits(s, rest) => Waits(s, r(rest))
             /\ Leaves(s, rest) => Leaves(s, r(rest))
             /\ Enters(s, rest) => Enters(s, r(rest))
  BY ClosesThen DEF Waits, Leaves, Enters, Result
<1>2. Waits(s, Result(AsiaRange(s, c), <<>>))
  BY RangeKeeps, WaitsIs
<1> HIDE DEF r
<1>3. CASE Hour(c.ts) < p.asiaEndH
  <2>1. SameDayResult(p, s, c, trade, hunt) = r(Result(AsiaRange(s, c), <<>>))
    BY <1>3 DEF SameDayResult, r
  <2> QED BY <1>1, <1>2, <1>3, <2>1 DEF SameDayStep
<1>4. CASE ~(Hour(c.ts) < p.asiaEndH) /\ s.side # "FLAT"
  <2>1. SameDayResult(p, s, c, trade, hunt) = r(trade)
    BY <1>4 DEF SameDayResult, r
  <2> QED BY <1>1, <2>1 DEF SameDayStep, Ends1
<1>5. CASE ~(Hour(c.ts) < p.asiaEndH) /\ s.side = "FLAT"
  <2>1. SameDayResult(p, s, c, trade, hunt) = r(hunt)
    BY <1>5 DEF SameDayResult, r
  <2> QED BY <1>1, <1>5, <2>1 DEF SameDayStep, Hunts
<1> QED BY <1>3, <1>4, <1>5

\* on_candle of the four versions.
LEMMA IctSteps ==
  ASSUME NEW s, Fields(s), NEW p, NEW cs, Hour(Last(cs).ts) \in Int, p.asiaEndH \in Int
  PROVE /\ p.name = "ict1" => IctStep(p, s, Last(cs), OnCandleV1(p, s, cs))
        /\ p.name = "ict2" => IctStep(p, s, Last(cs), OnCandleV2(p, s, cs))
        /\ p.name = "ict3" => IctStep(p, s, Last(cs), OnCandleV3(p, s, cs))
        /\ p.name = "ict4" => IctStep(p, s, Last(cs), OnCandleV4(p, s, cs))
<1> DEFINE c == Last(cs)
<1>1. CASE s.day # Day(c.ts)
  <2>1. LET f == Fresh(Day(c.ts)) IN f.side = "FLAT" /\ f.asiaHigh = None
    BY FreshIs
  <2>2. /\ OnCandleV1(p, s, cs) = NewDayResult(p, s, c) /\ OnCandleV2(p, s, cs) = NewDayResult(p, s, c)
        /\ OnCandleV3(p, s, cs) = NewDayResult(p, s, c) /\ OnCandleV4(p, s, cs) = NewDayResult(p, s, c)
    BY <1>1, <2>1, NoRangeNoHunt DEF OnCandleV1, OnCandleV2, OnCandleV3, OnCandleV4, Session, NewDayResult
  <2> QED BY <1>1, <2>2, NewDayResultIs DEF IctStep
<1>2. CASE s.day = Day(c.ts)
  <2>1. Ends1(p, s, c, TradeV1(p, s, c)) /\ Ends1(p, s, c, TradeV3(p, s, c))
    BY TradeEnds DEF Ends1
  <2>2. /\ OnCandleV1(p, s, cs) = SameDayResult(p, s, c, TradeV1(p, s, c), HuntV1(p, s, cs))
        /\ OnCandleV2(p, s, cs) = SameDayResult(p, s, c, TradeV1(p, s, c), HuntV2(p, s, cs))
        /\ OnCandleV3(p, s, cs) = SameDayResult(p, s, c, TradeV3(p, s, c), HuntV3(p, s, cs))
        /\ OnCandleV4(p, s, cs) = SameDayResult(p, s, c, TradeV3(p, s, c), HuntV4(p, s, cs))
    BY <1>2 DEF OnCandleV1, OnCandleV2, OnCandleV3, OnCandleV4, Session, SameDayResult
  <2> QED BY <1>2, <2>1, <2>2, SameDayResultIs, HuntV1Finds, HuntV3Finds, HuntV4Finds DEF IctStep
<1> QED BY <1>1, <1>2
--------------------------------------------------------------------------------
(* The volatility breakout. *)

VolFields(s) == {"day", "side", "done"} \subseteq DOMAIN s
VolSide(s, c) == IF s.day = Day(c.ts) THEN s.side ELSE "FLAT"
VolDone(s, c) == IF s.day = Day(c.ts) THEN s.done ELSE {}
\* It closes what it held on a new day, and then enters in a direction that is not done.
VolWaits(s, c, r) ==
  /\ r.st.side = VolSide(s, c) /\ r.st.done = VolDone(s, c)
  /\ Acts(r.signals, IF s.side # VolSide(s, c) THEN <<"CLOSE">> ELSE <<>>)
VolLeaves(s, c, r) ==
  /\ r.st.side = "FLAT" /\ r.st.done = VolDone(s, c) /\ Acts(r.signals, <<"CLOSE">>)
VolEnters(s, c, r) ==
  /\ VolSide(s, c) = "FLAT" /\ r.st.side \in Dirs
  /\ r.st.side \notin VolDone(s, c) /\ r.st.done = VolDone(s, c) \cup {r.st.side}
  /\ Acts(r.signals, IF s.side # VolSide(s, c) THEN <<"CLOSE", Action(r.st.side)>> ELSE <<Action(r.st.side)>>)
VolStep(s, c, r) ==
  /\ VolFields(r.st) /\ r.st.day = Day(c.ts)
  /\ VolWaits(s, c, r) \/ VolLeaves(s, c, r) \/ VolEnters(s, c, r)

\* A closed trade leaves the day and what is done of it.
LEMMA ExitKeeps ==
  ASSUME NEW p, NEW s, VolFields(s), NEW c
  PROVE  LET t == VolExit(p, s, c) IN
         VolFields(t) /\ t.day = s.day /\ t.done = s.done /\ t.side = "FLAT"
<1> DEFINE u == RecordClose(p, s, c)
<1>1. VolFields(u) /\ u.day = s.day /\ u.done = s.done
  BY DEF RecordClose, VolFields
<1> HIDE DEF u
<1> QED BY <1>1 DEF VolExit, VolFields, u

\* Once the candle is seen, the day is its day and yesterday's trade is gone.
LEMMA SeenIs ==
  ASSUME NEW p, NEW s, VolFields(s), NEW c
  PROVE  LET t == VolSeen(p, s, c) IN
         /\ VolFields(t) /\ t.day = Day(c.ts)
         /\ t.side = VolSide(s, c) /\ t.done = VolDone(s, c)
<1> DEFINE today == IF s.day = Day(c.ts) THEN s ELSE VolNewDay(p, s, c)
<1>1. CASE s.day = Day(c.ts)
  <2>1. today = s
    BY <1>1
  <2> QED BY <1>1, <2>1 DEF VolSeen, VolSide, VolDone, VolFields
<1>2. CASE s.day # Day(c.ts)
  <2> DEFINE yesterday == [open |-> s.dayOpen, high |-> s.curHi, low |-> s.curLo, close |-> s.curClose]
             days == IF s.curHi = None THEN s.days ELSE Append(s.days, yesterday)
             kept == FinalPart(days, Min({Len(days), p.noiseLen}))
             new == [s EXCEPT !.days = kept,
                              !.prevHi = s.curHi, !.prevLo = s.curLo, !.curHi = None, !.curLo = None,
                              !.day = Day(c.ts), !.dayOpen = c.open, !.done = {}]
  <2>1. VolNewDay(p, s, c) = IF s.side = "FLAT" THEN new ELSE VolExit(p, new, c)
    BY DEF VolNewDay
  <2>2. VolFields(new) /\ new.day = Day(c.ts) /\ new.done = {} /\ new.side = s.side
    <3> HIDE DEF kept
    <3> QED BY DEF VolFields
  <2> HIDE DEF new
  <2>3. today = VolNewDay(p, s, c)
    BY <1>2
  <2>4. VolFields(today) /\ today.day = Day(c.ts) /\ today.done = {} /\ today.side = "FLAT"
    BY <2>1, <2>2, <2>3, ExitKeeps
  <2> HIDE DEF today
  <2> QED BY <1>2, <2>4 DEF VolSeen, VolSide, VolDone, VolFields, today
<1> QED BY <1>1, <1>2

LEMMA VolEntersIs ==
  ASSUME NEW p, NEW s, VolFields(s), NEW cs, NEW dir \in Dirs, NEW earlier
  PROVE  LET r == VolEnter(p, s, cs, dir, earlier) IN
         /\ VolFields(r.st) /\ r.st.day = s.day /\ r.st.side = dir /\ r.st.done = s.done \cup {dir}
         /\ Acts(earlier, <<>>) => Acts(r.signals, <<Action(dir)>>)
         /\ earlier = Close => Acts(r.signals, <<"CLOSE", Action(dir)>>)
<1> DEFINE sl == MakeSl(p, s, cs, dir)
           o == Order(dir, Max({sl, 0}), 0)
           t == [s EXCEPT !.side = dir, !.sl = sl, !.entry = LastClose(cs), !.done = @ \cup {dir}]
           r == VolEnter(p, s, cs, dir, earlier)
<1>1. r = Result(t, earlier \o o)
  BY DEF VolEnter
<1>2. Acts(o, <<Action(dir)>>)
  <2> DEFINE top == Max({sl, 0})
  <2> HIDE DEF top
  <2>1. Acts(Order(dir, top, 0), <<Action(dir)>>)
    BY ActsOf
  <2> QED BY <2>1 DEF top
<1>3. VolFields(t) /\ t.day = s.day /\ t.side = dir /\ t.done = s.done \cup {dir}
  <2> HIDE DEF sl
  <2> QED BY DEF VolFields
<1> HIDE DEF o, t, r
<1>4. r.st = t /\ r.signals = earlier \o o
  BY <1>1 DEF Result
<1>5. Acts(earlier, <<>>) => Acts(earlier \o o, <<Action(dir)>>)
  BY <1>2, ActsNone, ClosesThen
<1>6. earlier = Close => Acts(earlier \o o, <<"CLOSE", Action(dir)>>)
  BY <1>2, ClosesThen
<1> QED BY <1>3, <1>4, <1>5, <1>6 DEF r

\* on_candle of the volatility breakout.
LEMMA VolSteps ==
  ASSUME NEW p, NEW s, VolFields(s), NEW cs
  PROVE  VolStep(s, Last(cs), VolBreakout(p, s, cs))
<1> DEFINE c == Last(cs)
           t == VolSeen(p, s, c)
           earlier == IF s.side # "FLAT" /\ t.side = "FLAT" THEN Close ELSE <<>>
           r == VolDecide(p, t, cs, earlier)
<1>1. VolBreakout(p, s, cs) = r
  BY DEF VolBreakout
<1>2. /\ VolFields(t) /\ t.day = Day(c.ts)
      /\ t.side = VolSide(s, c) /\ t.done = VolDone(s, c)
  BY SeenIs
<1>3. earlier = IF s.side # VolSide(s, c) THEN Close ELSE <<>>
  BY <1>2 DEF VolSide
<1> HIDE DEF c, t, earlier
<1>4. /\ Acts(earlier, IF s.side # VolSide(s, c) THEN <<"CLOSE">> ELSE <<>>)
      /\ IF s.side # VolSide(s, c) THEN earlier = Close ELSE Acts(earlier, <<>>)
  BY <1>3, ActsOf
<1>5. VolStep(s, c, Result(t, earlier))
  BY <1>2, <1>4 DEF VolStep, VolWaits, Result
<1>6. VolStep(s, c, Result(VolExit(p, t, c), Close))
  BY <1>2, ExitKeeps, ActsOf DEF VolStep, VolLeaves, Result
<1>7. ASSUME NEW dir \in Dirs, t.side = "FLAT", dir \notin t.done
      PROVE  VolStep(s, c, VolEnter(p, t, cs, dir, earlier))
  <2> DEFINE e == VolEnter(p, t, cs, dir, earlier)
  <2>1. /\ VolFields(e.st) /\ e.st.day = t.day /\ e.st.side = dir /\ e.st.done = t.done \cup {dir}
        /\ Acts(earlier, <<>>) => Acts(e.signals, <<Action(dir)>>)
        /\ earlier = Close => Acts(e.signals, <<"CLOSE", Action(dir)>>)
    BY <1>2, VolEntersIs
  <2> HIDE DEF e
  <2> QED BY <1>2, <1>4, <1>7, <2>1 DEF VolStep, VolEnters, e
<1>8. \/ r = Result(t, earlier) \/ r = Result(VolExit(p, t, c), Close)
      \/ \E dir \in Dirs : t.side = "FLAT" /\ dir \notin t.done /\ r = VolEnter(p, t, cs, dir, earlier)
  BY DEF VolDecide, MayEnter, BreaksOut, Dirs, c
<1> QED BY <1>1, <1>5, <1>6, <1>7, <1>8 DEF c

--------------------------------------------------------------------------------
(* What every strategy that keeps a state has in common. *)

Reversing == {"donchian2", "ichimoku2"}
\* The signals take the position to the side that the strategy believes in afterwards:
\* those that close first, and those that enter, which must be flat unless they reverse.
Moves(reverses, side, r) ==
  \/ Acts(r.signals, <<>>) /\ r.st.side = side
  \/ Acts(r.signals, <<"CLOSE">>) /\ r.st.side = "FLAT"
  \/ r.st.side \in Dirs /\ Acts(r.signals, <<Action(r.st.side)>>) /\ (side = "FLAT" \/ reverses)
  \/ r.st.side \in Dirs /\ Acts(r.signals, <<"CLOSE", Action(r.st.side)>>)

LEMMA EnteredMoves ==
  ASSUME NEW side, NEW cs, NEW dir \in Dirs
  PROVE  Moves(TRUE, side, Entered(cs, dir)) /\ "side" \in DOMAIN Entered(cs, dir).st
<1> DEFINE r == Entered(cs, dir)
<1>1. r.st.side = dir /\ "side" \in DOMAIN r.st /\ r.signals = Order(dir, 0, 0)
  BY DEF Entered, Result
<1>2. Acts(Order(dir, 0, 0), <<Action(dir)>>)
  BY ActsOf
<1> QED BY <1>1, <1>2 DEF Moves

\* on_candle of the second Donchian, and of the second Ichimoku.
LEMMA DonchianMoves ==
  ASSUME NEW p, NEW s, "side" \in DOMAIN s, NEW cs
  PROVE  LET r == DonchianV2(p, s, cs) IN Moves(TRUE, s.side, r) /\ "side" \in DOMAIN r.st
<1>1. ASSUME NEW t, "side" \in DOMAIN t, t.side = s.side
      PROVE  LET r == Result(t, <<>>) IN Moves(TRUE, s.side, r) /\ "side" \in DOMAIN r.st
  BY <1>1, ActsOf DEF Moves, Result
<1>2. LET r == Result(DonchianInit, Close) IN Moves(TRUE, s.side, r) /\ "side" \in DOMAIN r.st
  BY ActsOf DEF Moves, Result, DonchianInit
<1>3. \A dir \in Dirs : LET r == Entered(cs, dir) IN Moves(TRUE, s.side, r) /\ "side" \in DOMAIN r.st
  BY EnteredMoves
<1>4. LET r == ManageDonchian(p, s, cs) IN Moves(TRUE, s.side, r) /\ "side" \in DOMAIN r.st
  <2> DEFINE best == IF s.side = "LONG" THEN Max({s.ext, LastClose(cs)}) ELSE Min({s.ext, LastClose(cs)})
             t == [s EXCEPT !.ext = best]
  <2>1. "side" \in DOMAIN t /\ t.side = s.side
    OBVIOUS
  <2>2. \/ ManageDonchian(p, s, cs) = Entered(cs, Other(t.side))
        \/ ManageDonchian(p, s, cs) = Result(DonchianInit, Close)
        \/ ManageDonchian(p, s, cs) = Result(t, <<>>)
    BY DEF ManageDonchian
  <2>3. Other(t.side) \in Dirs
    BY DEF Other, Dirs
  <2> HIDE DEF t
  <2> QED BY <1>1, <1>2, <1>3, <2>1, <2>2, <2>3
<1>5. \/ DonchianV2(p, s, cs) = ManageDonchian(p, s, cs)
      \/ DonchianV2(p, s, cs) = Result(s, <<>>)
      \/ \E dir \in Dirs : DonchianV2(p, s, cs) = Entered(cs, dir)
  BY DEF DonchianV2, Dirs
<1> QED BY <1>1, <1>3, <1>4, <1>5

LEMMA IchimokuMoves ==
  ASSUME NEW p, NEW s, "side" \in DOMAIN s, NEW cs
  PROVE  LET r == IchimokuTrail(p, s, cs) IN Moves(TRUE, s.side, r) /\ "side" \in DOMAIN r.st
<1> DEFINE stop == Trail(p, s, cs)
           t == IF s.side = "FLAT" THEN s ELSE [s EXCEPT !.stop = stop]
           signal == Ichimoku(p, cs)
           dir == IF signal = Buy THEN "LONG" ELSE "SHORT"
           level == LastClose(cs) - Way(dir) * p.atrMult * Atr(cs, p.atrLen)
           r == IchimokuTrail(p, s, cs)
<1>1. "side" \in DOMAIN t /\ t.side = s.side
  <2> HIDE DEF stop
  <2> QED OBVIOUS
<1>2. signal \in {Buy, Sell, Hold}
  BY DEF Ichimoku, IchimokuSignal, CrossSignal
<1>3. \/ r = Result(TrailInit, Close) \/ r = Result(t, <<>>)
      \/ signal # Hold /\ r = Result([side |-> dir, stop |-> level], signal)
  BY DEF IchimokuTrail
<1>4. signal # Hold => Acts(signal, <<Action(dir)>>)
  <2>1. Acts(Buy, <<"BUY">>) /\ Acts(Sell, <<"SELL">>)
    BY DEF Acts, Buy, Sell, Signal
  <2>2. Action("LONG") = "BUY" /\ Action("SHORT") = "SELL"
    BY DEF Action
  <2> QED BY <1>2, <2>1, <2>2
<1>5. dir \in Dirs
  BY DEF Dirs
<1> HIDE DEF t, signal, dir, level, r
<1>6. CASE r = Result(TrailInit, Close)
  BY <1>6, ActsOf DEF Moves, Result, TrailInit, r
<1>7. CASE r = Result(t, <<>>)
  BY <1>1, <1>7, ActsOf DEF Moves, Result, r
<1>8. CASE signal # Hold /\ r = Result([side |-> dir, stop |-> level], signal)
  <2>1. r.st.side = dir /\ "side" \in DOMAIN r.st /\ r.signals = signal
    BY <1>8 DEF Result
  <2> QED BY <1>4, <1>5, <1>8, <2>1 DEF Moves, r
<1> QED BY <1>3, <1>6, <1>7, <1>8

\* A new day is known and closes the trade of the day before.
NewDayCloses(s, d, r) ==
  r.st.day = d /\ (s.day # d /\ s.side # "FLAT" => \E i \in DOMAIN r.signals : r.signals[i] = Signal("CLOSE"))

LEMMA ClosesFirst ==
  ASSUME NEW s, NEW a, Acts(s, <<"CLOSE">>) \/ Acts(s, <<"CLOSE", a>>)
  PROVE  \E i \in DOMAIN s : s[i] = Signal("CLOSE")
<1>1. CASE Acts(s, <<"CLOSE">>)
  BY <1>1 DEF Acts
<1>2. CASE Acts(s, <<"CLOSE", a>>)
  BY <1>2 DEF Acts
<1> QED BY <1>1, <1>2

\* What the strategies of a day have in common with the others.
LEMMA VolMoves ==
  ASSUME NEW s, NEW c, NEW r, VolStep(s, c, r)
  PROVE  Moves(FALSE, s.side, r) /\ NewDayCloses(s, Day(c.ts), r)
<1>1. CASE VolWaits(s, c, r)
  BY <1>1, ClosesFirst DEF VolStep, VolWaits, Moves, NewDayCloses, VolSide
<1>2. CASE VolLeaves(s, c, r)
  BY <1>2, ClosesFirst DEF VolStep, VolLeaves, Moves, NewDayCloses, VolSide
<1>3. CASE VolEnters(s, c, r)
  BY <1>3, ClosesFirst DEF VolStep, VolEnters, Moves, NewDayCloses, VolSide
<1> QED BY <1>1, <1>2, <1>3 DEF VolStep

LEMMA IctMoves ==
  ASSUME NEW p, NEW s, NEW c, NEW r, IctStep(p, s, c, r)
  PROVE  Moves(FALSE, s.side, r) /\ NewDayCloses(s, Day(c.ts), r) /\ Fields(r.st)
<1>1. CASE s.day # Day(c.ts)
  BY <1>1, ClosesFirst DEF IctStep, NewDayStep, Moves, NewDayCloses
<1>2. CASE s.day = Day(c.ts)
  BY <1>2 DEF IctStep, SameDayStep, Waits, Leaves, Enters, Keeps, Moves, NewDayCloses
<1> QED BY <1>1, <1>2

--------------------------------------------------------------------------------
(* The engine *)

Sides == {"FLAT", "LONG", "SHORT"}
\* No strategy sends a LIMIT order, so that none waits.
EngineIs(e) ==
  /\ {"pos", "fee", "pending", "oid"} \subseteq DOMAIN e
  /\ e.pending = <<>> /\ e.pos.side \in Sides
Stays(e, after) == EngineIs(after) /\ (after.pos = e.pos \/ after.pos.side = "FLAT")

\* A close leaves the engine flat.
LEMMA CloseAtFlat ==
  ASSUME NEW e, EngineIs(e), NEW price, NEW reason
  PROVE  LET after == Engine!CloseAt(e, price, reason).eng IN EngineIs(after) /\ after.pos.side = "FLAT"
<1> DEFINE flat == Engine!Flat
           after == [e EXCEPT !.pos = flat, !.fee = 0]
<1>1. Engine!CloseAt(e, price, reason).eng = after
  BY DEF Engine!CloseAt, Engine!Result
<1>2. flat.side = "FLAT"
  BY DEF Engine!Flat
<1> HIDE DEF flat
<1>3. EngineIs(after) /\ after.pos = flat
  BY <1>2 DEF EngineIs, Sides
<1> HIDE DEF after
<1> QED BY <1>1, <1>2, <1>3

\* No order waits, and none fills.
LEMMA NoneFills ==
  ASSUME NEW e, EngineIs(e), NEW price
  PROVE  Engine!FillPending(e, price).eng = [e EXCEPT !.pending = <<>>]
<1> DEFINE first == Engine!Result([e EXCEPT !.pending = <<>>], <<>>)
           step(x, i) == Engine!Tried(x, e.pending[i], price)
           Is(f) == f = [i \in 0..0 |-> IF i = 0 THEN first ELSE step(f[i - 1], i)]
           after == CHOOSE f : Is(f)
<1>1. Len(e.pending) = 0
  BY DEF EngineIs
<1>2. Engine!FillPending(e, price) = after[0]
  BY <1>1 DEF Engine!FillPending
<1> HIDE DEF first, step
<1>3. \E f : Is(f)
  <2>1. PICK g : g = [i \in 0..0 |-> first]
    OBVIOUS
  <2>2. g = [i \in 0..0 |-> IF i = 0 THEN first ELSE step(g[i - 1], i)]
    BY <2>1
  <2> QED BY <2>2
<1>4. Is(after)
  <2> HIDE DEF Is
  <2> QED BY <1>3
<1> HIDE DEF after
<1>5. after[0] = first
  BY <1>4
<1> QED BY <1>2, <1>5 DEF first, Engine!Result

\* A price leaves the position or closes it.
LEMMA TickStays ==
  ASSUME NEW e, EngineIs(e), NEW price
  PROVE  Stays(e, AfterTick(e, price))
<1> DEFINE f == Engine!FillPending(e, price).eng
           after == Engine!Triggered(f, price).eng
<1>1. AfterTick(e, price) = after
  BY DEF AfterTick, Engine!OnPrice, Engine!Then, Engine!Result
<1>2. f = [e EXCEPT !.pending = <<>>]
  BY NoneFills
<1>3. EngineIs(f) /\ f.pos = e.pos
  BY <1>2 DEF EngineIs
<1> HIDE DEF f
<1>4. \/ after = f
      \/ \E at, reason : after = Engine!CloseAt(f, at, reason).eng
  BY DEF Engine!Triggered, Engine!LevelExit, Engine!Result
<1> HIDE DEF after
<1>5. CASE after = f
  BY <1>1, <1>3, <1>5 DEF Stays
<1>6. CASE \E at, reason : after = Engine!CloseAt(f, at, reason).eng
  BY <1>1, <1>3, <1>6, CloseAtFlat DEF Stays
<1> QED BY <1>4, <1>5, <1>6

LEMMA TicksStay ==
  ASSUME NEW e, EngineIs(e), NEW t
  PROVE  Stays(e, AfterTicks(e, t))
<1>1. \A a, b : Stays(e, a) /\ Stays(a, b) => Stays(e, b)
  BY DEF Stays
<1>2. \A a, price : Stays(e, a) => Stays(e, AfterTick(a, price))
  BY <1>1, TickStays DEF Stays
<1>3. Stays(e, e)
  BY DEF Stays
<1> QED BY <1>2, <1>3 DEF AfterTicks

\* A signal that is refused leaves the engine; the others do what they say.
LEMMA DispatchDoes ==
  ASSUME NEW e, EngineIs(e), NEW sig, sig.action \in {"BUY", "SELL", "CLOSE"}, NEW price, NEW refuse \in BOOLEAN
  PROVE  LET after == Dispatch(e, sig, price, refuse) IN
         /\ EngineIs(after)
         /\ sig.action = "CLOSE" => after.pos.side = "FLAT"
         /\ sig.action # "CLOSE" => after.pos.side = Engine!Long(sig.action) \/ (refuse /\ after = e)
<1> DEFINE side == Engine!Long(sig.action)
           order == [action |-> "MARKET", side |-> sig.action, sl |-> sig.sl, tp |-> sig.tp]
           after == Dispatch(e, sig, price, refuse)
<1>1. CASE sig.action = "CLOSE"
  <2>1. after = Engine!Submit(e, [action |-> "CLOSE"], price).eng
    BY <1>1 DEF Dispatch, Submitted, Turns, IsEntry
  <2>2. after = IF e.pos = Engine!Flat THEN e ELSE Engine!CloseAt(e, price, "SIGNAL").eng
    BY <2>1 DEF Engine!Submit, Engine!Result
  <2>3. Engine!Flat.side = "FLAT"
    BY DEF Engine!Flat
  <2> HIDE DEF after
  <2> QED BY <1>1, <2>2, <2>3, CloseAtFlat DEF after
<1>2. CASE sig.action # "CLOSE"
  <2>1. (after = e /\ refuse) \/ after = Engine!Submit(e, order, price).eng
    BY <1>2 DEF Dispatch, Submitted, IsEntry
  <2>2. Engine!Submit(e, order, price) = Engine!ApplyMarket(e, order, price, "MARKET")
    BY DEF Engine!Submit
  <2>3. order.side = sig.action /\ side \in Sides
    BY DEF Engine!Long, Sides
  <2> HIDE DEF order, after
  <2>4. LET a == Engine!ApplyMarket(e, order, price, "MARKET").eng IN EngineIs(a) /\ a.pos.side = side
    <3>1. ASSUME NEW x, EngineIs(x), NEW at, NEW rate
          PROVE  LET a == Engine!OpenAt(x, side, at, order.sl, order.tp, rate).eng IN EngineIs(a) /\ a.pos.side = side
      <4> DEFINE pos == [side |-> side, entry |-> at, sl |-> order.sl, tp |-> order.tp]
                 fee == rate * at
                 a == [x EXCEPT !.pos = pos, !.fee = fee]
      <4>1. Engine!OpenAt(x, side, at, order.sl, order.tp, rate).eng = a
        BY DEF Engine!OpenAt, Engine!Result
      <4>2. pos.side = side
        OBVIOUS
      <4> HIDE DEF pos, fee, side
      <4>3. EngineIs(a) /\ a.pos = pos
        BY <2>3, <3>1, <4>2 DEF EngineIs
      <4> HIDE DEF a
      <4> QED BY <4>1, <4>2, <4>3
    <3>2. \E at, rate : \E x \in {e, Engine!CloseAt(e, at, "SIGNAL").eng} :
            \/ Engine!ApplyMarket(e, order, price, "MARKET").eng = Engine!OpenAt(x, side, at, order.sl, order.tp, rate).eng
            \/ e.pos.side = side /\ Engine!ApplyMarket(e, order, price, "MARKET").eng = e
      BY <2>3 DEF Engine!ApplyMarket, Engine!Then, Engine!Result
    <3> QED BY <3>1, <3>2, CloseAtFlat
  <2> QED BY <1>2, <2>1, <2>2, <2>4 DEF after
<1> QED BY <1>1, <1>2

\* Of at most two signals, the second meets the engine that the first has left.
LEMMA DispatchedIs ==
  ASSUME NEW e, NEW s, Len(s) \in 0..2, NEW price, NEW refuse
  PROVE  LET first == Dispatch(e, s[1], price, refuse) IN
         Dispatched(e, s, price, refuse)
           = IF Len(s) = 0 THEN e ELSE IF Len(s) = 1 THEN first ELSE Dispatch(first, s[2], price, refuse)
<1> DEFINE m == Len(s)
           step(x, i) == Dispatch(x, s[i], price, refuse)
           Is(f) == f = [i \in 0..m |-> IF i = 0 THEN e ELSE step(f[i - 1], i)]
           after == CHOOSE f : Is(f)
<1>1. Dispatched(e, s, price, refuse) = after[m]
  BY DEF Dispatched
<1>2. \E f : Is(f)
  <2>1. PICK g : g = [i \in 0..m |-> IF i = 0 THEN e ELSE IF i = 1 THEN step(e, 1) ELSE step(step(e, 1), 2)]
    OBVIOUS
  <2> HIDE DEF step
  <2>2. \A i \in 0..m : g[i] = IF i = 0 THEN e ELSE step(g[i - 1], i)
    <3>1. m \in 0..2
      OBVIOUS
    <3> HIDE DEF m
    <3>2. \A i \in 0..m : i = 0 \/ (i = 1 /\ 0 \in 0..m) \/ (i = 2 /\ 1 \in 0..m)
      BY <3>1
    <3> QED BY <2>1, <3>2
  <2>3. g = [i \in 0..m |-> IF i = 0 THEN e ELSE step(g[i - 1], i)]
    BY <2>1, <2>2
  <2> QED BY <2>3
<1>3. Is(after)
  <2> HIDE DEF Is
  <2> QED BY <1>2
<1> HIDE DEF after, step
<1>4. /\ after[0] = e
      /\ m >= 1 => after[1] = step(e, 1)
      /\ m = 2 => after[2] = step(step(e, 1), 2)
  <2>1. \A i \in 0..m : after[i] = IF i = 0 THEN e ELSE step(after[i - 1], i)
    BY <1>3
  <2>2. after[0] = e
    BY <2>1
  <2>3. m >= 1 => after[1] = step(e, 1)
    BY <2>1, <2>2
  <2>4. m = 2 => after[2] = step(after[1], 2)
    BY <2>1
  <2> QED BY <2>2, <2>3, <2>4
<1>5. after[m] = IF m = 0 THEN e ELSE IF m = 1 THEN step(e, 1) ELSE step(step(e, 1), 2)
  <2>1. m \in {0, 1, 2}
    OBVIOUS
  <2> HIDE DEF m
  <2> QED BY <1>4, <2>1
<1> QED BY <1>1, <1>5 DEF step

LEMMA ActsLength ==
  ASSUME NEW s, NEW a
  PROVE  /\ Acts(s, <<>>) => Len(s) = 0
         /\ Acts(s, <<a>>) => Len(s) = 1 /\ s[1].action = a
         /\ Acts(s, <<"CLOSE", a>>) => Len(s) = 2 /\ s[1].action = "CLOSE" /\ s[2].action = a
<1>1. Acts(s, <<>>) => Len(s) = 0
  BY ActsNone
<1>2. Acts(s, <<a>>) => Len(s) = 1 /\ s[1].action = a
  BY ActsOne
<1>3. ASSUME Acts(s, <<"CLOSE", a>>) PROVE Len(s) = 2 /\ s[1].action = "CLOSE" /\ s[2].action = a
  <2>1. s = [i \in 1..2 |-> s[i]]
    BY <1>3 DEF Acts
  <2>2. s \in Seq({s[1], s[2]}) /\ Len(s) = 2
    BY <2>1
  <2> QED BY <1>3, <2>2 DEF Acts
<1> QED BY <1>1, <1>2, <1>3

\* An entry is to the side it is named for.
LEMMA LongAction == \A dir \in Dirs : Engine!Long(Action(dir)) = dir /\ Action(dir) \in {"BUY", "SELL"}
BY DEF Dirs, Action, Engine!Long

\* The engine follows the strategy: to the side it believes in, or it stays flat.
LEMMA EngineFollows ==
  ASSUME NEW e, EngineIs(e), NEW reverses, NEW side, NEW r, Moves(reverses, side, r),
         NEW price, NEW refuse \in BOOLEAN
  PROVE  LET after == Dispatched(e, r.signals, price, refuse) IN
         /\ EngineIs(after)
         /\ e.pos.side \in {"FLAT", side} /\ (reverses => ~refuse) => after.pos.side \in {"FLAT", r.st.side}
<1> DEFINE s == r.signals
           dir == r.st.side
           after == Dispatched(e, s, price, refuse)
           first == Dispatch(e, s[1], price, refuse)
           second == Dispatch(first, s[2], price, refuse)
<1>0. Len(s) \in 0..2 => after = IF Len(s) = 0 THEN e ELSE IF Len(s) = 1 THEN first ELSE second
  BY DispatchedIs
<1> HIDE DEF after
<1>1. CASE Acts(s, <<>>) /\ dir = side
  <2>0. Len(s) = 0
    BY <1>1, ActsLength
  <2>1. after = e
    BY <1>0, <2>0
  <2> QED BY <1>1, <2>1 DEF after
<1>2. CASE Acts(s, <<"CLOSE">>) /\ dir = "FLAT"
  <2>0. Len(s) = 1 /\ s[1].action = "CLOSE"
    BY <1>2, ActsLength
  <2>1. after = first /\ s[1].action = "CLOSE"
    BY <1>0, <2>0
  <2>2. EngineIs(first) /\ first.pos.side = "FLAT"
    BY <2>1, DispatchDoes
  <2> QED BY <2>1, <2>2 DEF after
<1>3. CASE dir \in Dirs /\ Acts(s, <<Action(dir)>>) /\ (side = "FLAT" \/ reverses)
  <2>0. Len(s) = 1 /\ s[1].action = Action(dir)
    BY <1>3, ActsLength
  <2>1. after = first /\ s[1].action = Action(dir)
    BY <1>0, <2>0
  <2>2. Action(dir) \in {"BUY", "SELL"} /\ Engine!Long(Action(dir)) = dir
    BY <1>3, LongAction
  <2>3. EngineIs(first) /\ (first.pos.side = dir \/ (refuse /\ first = e))
    BY <2>1, <2>2, DispatchDoes
  <2> HIDE DEF first
  <2> QED BY <1>3, <2>1, <2>3 DEF after
<1>4. CASE dir \in Dirs /\ Acts(s, <<"CLOSE", Action(dir)>>)
  <2>0. Len(s) = 2 /\ s[1].action = "CLOSE" /\ s[2].action = Action(dir)
    BY <1>4, ActsLength
  <2>1. after = second /\ s[1].action = "CLOSE" /\ s[2].action = Action(dir)
    BY <1>0, <2>0
  <2>2. Action(dir) \in {"BUY", "SELL"} /\ Engine!Long(Action(dir)) = dir
    BY <1>4, LongAction
  <2>3. EngineIs(first) /\ first.pos.side = "FLAT"
    BY <2>1, DispatchDoes
  <2> HIDE DEF first
  <2>4. EngineIs(second) /\ (second.pos.side = dir \/ second = first)
    BY <2>1, <2>2, <2>3, DispatchDoes
  <2> HIDE DEF second
  <2> QED BY <2>1, <2>3, <2>4 DEF after
<1> QED BY <1>1, <1>2, <1>3, <1>4 DEF Moves

--------------------------------------------------------------------------------
(* The window, the clock and the diary *)

IsSeq(s) == Len(s) \in Nat /\ s = [i \in 1..Len(s) |-> s[i]]

\* The deque keeps the candle that was added last.
LEMMA LeastOfTwo ==
  ASSUME NEW a \in Int, NEW b \in Int
  PROVE  Min({a, b}) \in {a, b} /\ Min({a, b}) <= a /\ Min({a, b}) <= b
<1>1. \E x \in {a, b} : \A y \in {a, b} : x <= y
  <2>1. CASE a <= b
    BY <2>1
  <2>2. CASE b <= a
    BY <2>2
  <2> QED BY <2>1, <2>2
<1> QED BY <1>1 DEF Min

LEMMA LastKept ==
  ASSUME NEW s, IsSeq(s), NEW c, NEW k \in Nat \ {0}
  PROVE  IsSeq(KeepLast(Append(s, c), k)) /\ Last(KeepLast(Append(s, c), k)) = c
<1> DEFINE S == {s[i] : i \in 1..Len(s)} \cup {c}
           a == Append(s, c)
           kept == Min({Len(a), k})
           t == KeepLast(a, k)
<1>1. s \in Seq(S) /\ Len(s) \in Nat
  <2>1. s \in [1..Len(s) -> S]
    BY DEF IsSeq
  <2> QED BY <2>1 DEF IsSeq
<1> HIDE DEF S
<1>2. a \in Seq(S \cup {c}) /\ Len(a) = Len(s) + 1 /\ a[Len(a)] = c
  BY <1>1
<1>3. kept \in 1..Len(a)
  <2>1. Len(a) \in Int /\ k \in Int
    BY <1>1, <1>2
  <2> HIDE DEF a
  <2>2. kept \in {Len(a), k} /\ kept <= Len(a) /\ kept <= k
    BY <2>1, LeastOfTwo
  <2> HIDE DEF kept
  <2> QED BY <1>1, <1>2, <2>2
<1>4. t = SubSeq(a, Len(a) - kept + 1, Len(a))
  BY DEF KeepLast, FinalPart
<1> HIDE DEF a, kept
<1>5. t \in Seq(S \cup {c}) /\ Len(t) = kept /\ t[kept] = a[Len(a)]
  <2> HIDE DEF t
  <2>1. Len(a) - kept + 1 \in 1..Len(a) /\ Len(a) \in Nat
    BY <1>1, <1>2, <1>3
  <2>2. SubSeq(a, Len(a) - kept + 1, Len(a)) \in Seq(S \cup {c})
    BY <1>2, <2>1
  <2>3. LET u == SubSeq(a, Len(a) - kept + 1, Len(a)) IN Len(u) = kept /\ u[kept] = a[Len(a)]
    BY <1>2, <1>3, <2>1
  <2> QED BY <1>4, <2>2, <2>3 DEF t
<1> HIDE DEF t
<1> QED BY <1>2, <1>3, <1>5 DEF IsSeq, Last, t, a

\* Within a day the hour only grows.
LEMMA Clock ==
  ASSUME NEW ts \in Nat, NEW hours \in Nat \ {0}, Day(ts) = Day(ts - hours), hours <= ts
  PROVE  Hour(ts) \in 0..23 /\ Hour(ts - hours) <= Hour(ts)
BY DEF Day, Hour

LEMMA HourIs == \A ts \in Nat : Hour(ts) \in 0..23 /\ Day(ts) \in Nat
BY DEF Hour, Day

\* What the diary counts of an answer.
LEMMA SentOf ==
  ASSUME NEW s, NEW a, NEW action \in {"BUY", "SELL"}
  PROVE  /\ Acts(s, <<>>) \/ Acts(s, <<"CLOSE">>) => Sent(s, action) = 0
         /\ Acts(s, <<a>>) \/ Acts(s, <<"CLOSE", a>>) => Sent(s, action) = IF a = action THEN 1 ELSE 0
<1> DEFINE D == {i \in DOMAIN s : s[i].action = action}
<1>0. Sent(s, action) = Cardinality(D)
  BY DEF Sent
<1>1. Cardinality({}) = 0 /\ \A x : Cardinality({x}) = 1
  BY FS_EmptySet, FS_Singleton
<1>2. ASSUME Acts(s, <<>>) \/ Acts(s, <<"CLOSE">>) PROVE Sent(s, action) = 0
  <2>1. D = {}
    BY <1>2 DEF Acts
  <2> QED BY <1>0, <1>1, <2>1
<1>3. ASSUME Acts(s, <<a>>) PROVE Sent(s, action) = IF a = action THEN 1 ELSE 0
  <2>1. DOMAIN s = {1} /\ s[1].action = a
    <3>1. s = <<s[1]>> /\ s[1].action = a
      BY <1>3, ActsOne
    <3>2. DOMAIN <<s[1]>> = {1}
      OBVIOUS
    <3> QED BY <3>1, <3>2
  <2>2. D = IF a = action THEN {1} ELSE {}
    BY <2>1
  <2> QED BY <1>0, <1>1, <2>2
<1>4. ASSUME Acts(s, <<"CLOSE", a>>) PROVE Sent(s, action) = IF a = action THEN 1 ELSE 0
  <2>1. s = [i \in 1..2 |-> s[i]] /\ s[1].action = "CLOSE" /\ s[2].action = a
    BY <1>4 DEF Acts
  <2>2. DOMAIN s = {1, 2}
    BY <2>1
  <2>3. D = IF a = action THEN {2} ELSE {}
    BY <2>1, <2>2
  <2> QED BY <1>0, <1>1, <2>3
<1> QED BY <1>2, <1>3, <1>4

--------------------------------------------------------------------------------
(* The invariant *)

DayBound == case.name \in Ict \cup {"vol_breakout"}
Aware == DayBound \/ case.name \in Reversing
StateIs(name, s) ==
  /\ name \in Ict => Fields(s) /\ s.nToday \in Nat
  /\ name = "vol_breakout" => VolFields(s)
  /\ name \in Reversing => "side" \in DOMAIN s

Bounds ==
  /\ case \in Cases /\ now \in Nat /\ IsSeq(window)
  /\ refused \in Nat /\ pauses \in Nat /\ restarts \in Nat
  /\ pauses = 0 => status # "PAUSED"
Known == Aware => EngineIs(eng) /\ StateIs(case.name, st)
\* What was sent today is what the strategy has counted.
Counted ==
  restarts = 0 /\ DayBound =>
    /\ diary.entries \in [{"BUY", "SELL"} -> Nat]
    /\ case.name \in Ict =>
         /\ EntriesToday <= IF st.day = diary.day THEN st.nToday ELSE 0
         /\ case.name \in {"ict1", "ict2"} => st.nToday <= 1
         /\ case.name \in {"ict3", "ict4"} /\ case.maxPerDay > 0 => st.nToday <= case.maxPerDay
    /\ case.name = "vol_breakout" =>
         \A dir \in Dirs :
           diary.entries[Action(dir)] <= IF st.day = diary.day /\ dir \in st.done THEN 1 ELSE 0
\* A trade is of the day of the last candle, and of its hours.
Today ==
  restarts = 0 /\ pauses = 0 /\ DayBound =>
    /\ st.side # "FLAT" =>
         /\ case.hours <= now /\ st.day = diary.day /\ st.day = Day(now - case.hours)
         /\ case.name \in Ict =>
              case.asiaEndH <= Hour(now - case.hours) /\ Hour(now - case.hours) < case.flattenH
    /\ eng.pos.side # "FLAT" => diary.since = diary.day
IInv == Bounds /\ Known /\ BeliefCovers /\ Counted /\ Today

\* The constants of the bot at hand.
LEMMA OfCase ==
  ASSUME case \in Cases
  PROVE  /\ case.hours \in Nat \ {0} /\ case.lookback \in Nat \ {0} /\ case.last \in Nat
         /\ case.name \in Ict => case.asiaEndH \in 1..23 /\ case.flattenH \in 1..23
         /\ case.name \in {"ict3", "ict4"} => case.maxPerDay \in Nat
         /\ case.name \in Stateless \/ Aware
         /\ case.name \in Stateless => ~Aware
<1>1. /\ case.name \in Names
      /\ {case.troubles, case.last} \subseteq Nat /\ {case.hours, case.lookback} \subseteq Nat \ {0}
      /\ case.name \in Ict => {case.asiaEndH, case.flattenH} \subseteq 1..23
      /\ case.name \in {"ict3", "ict4"} => case.maxPerDay \in Nat
  BY StrategyRunConstants
<1>2. case.name \in Stateless \/ Aware
  BY <1>1 DEF Names, Aware, DayBound, Reversing
<1>3. case.name \in Stateless => ~Aware
  BY DEF Stateless, Ict, Aware, DayBound, Reversing
<1> QED BY <1>1, <1>2, <1>3

\* The invariant holds at first.
LEMMA InitHolds == Init => IInv
<1> SUFFICES ASSUME Init PROVE IInv
  OBVIOUS
<1>1. Bounds
  BY DEF Init, Bounds, IsSeq
<1>2. LET s == IctInit IN Fields(s) /\ s.nToday = 0 /\ s.side = "FLAT"
  BY FreshIs DEF IctInit
<1>3. LET s == VolInit IN VolFields(s) /\ s.side = "FLAT"
  BY DEF VolInit, VolFields
<1>4. "side" \in DOMAIN DonchianInit /\ "side" \in DOMAIN TrailInit
  BY DEF DonchianInit, TrailInit
<1>5. EngineIs(eng) /\ eng.pos.side = "FLAT"
  BY DEF Init, Engine!Engine0, Engine!Flat, EngineIs, Sides
<1>6. /\ case.name \in Ict => st = IctInit
      /\ case.name = "vol_breakout" => st = VolInit
      /\ case.name = "donchian2" => st = DonchianInit
      /\ case.name = "ichimoku2" => st = TrailInit
  BY DEF Init, InitialState, Ict
<1>7. Known
  BY <1>2, <1>3, <1>4, <1>5, <1>6 DEF Known, Aware, StateIs, Reversing, Ict
<1>8. BeliefCovers
  BY <1>5 DEF BeliefCovers
<1>9. Counted
  <2>1. diary.entries = [action \in {"BUY", "SELL"} |-> 0]
    BY DEF Init, NoEntries
  <2>2. EntriesToday = 0 /\ \A dir \in Dirs : diary.entries[Action(dir)] = 0
    BY <2>1, LongAction DEF EntriesToday
  <2>3. case.name \in Ict => st.nToday = 0
    BY <1>2, <1>6
  <2>4. case.name \in {"ict3", "ict4"} => case.maxPerDay \in Nat
    BY <1>1, OfCase DEF Bounds
  <2> QED BY <2>1, <2>2, <2>3, <2>4 DEF Counted, Ict
<1>10. Today
  BY <1>2, <1>3, <1>5, <1>6 DEF Today, DayBound
<1> QED BY <1>1, <1>7, <1>8, <1>9, <1>10 DEF IInv

\* What the runner gets from its strategy.
LEMMA AskedIs ==
  ASSUME Bounds, Aware, StateIs(case.name, st), NEW cs, Last(cs).ts \in Nat, NEW side
  PROVE  LET r == Asked(cs, side)
             c == Last(cs) IN
         /\ Moves(case.name \in Reversing, st.side, r) /\ StateIs(case.name, r.st)
         /\ status = "PAUSED" => r = Result(st, <<>>)
         /\ status # "PAUSED" /\ DayBound => NewDayCloses(st, Day(c.ts), r)
         /\ status # "PAUSED" /\ case.name \in Ict => IctStep(case, st, c, r)
         /\ status # "PAUSED" /\ case.name = "vol_breakout" => VolStep(st, c, r)
<1> DEFINE c == Last(cs)
           r == Asked(cs, side)
<1>1. CASE status = "PAUSED"
  <2>1. r = Result(st, <<>>)
    BY <1>1 DEF Asked
  <2>2. r.st = st /\ Acts(r.signals, <<>>)
    BY <2>1, ActsOf DEF Result
  <2> QED BY <1>1, <2>1, <2>2 DEF Moves
<1>2. CASE status # "PAUSED"
  <2>1. r = OnCandle(case, st, cs, side)
    BY <1>2 DEF Asked
  <2>2. ASSUME case.name \in Ict
        PROVE  /\ IctStep(case, st, c, r) /\ Moves(FALSE, st.side, r) /\ NewDayCloses(st, Day(c.ts), r)
               /\ Fields(r.st) /\ r.st.nToday \in Nat /\ case.name \notin Reversing
    <3>1. Hour(c.ts) \in Int /\ case.asiaEndH \in Int /\ Fields(st) /\ st.nToday \in Nat
      BY <2>2, HourIs, OfCase DEF Bounds, StateIs
    <3>2. /\ case.name = "ict1" => r = OnCandleV1(case, st, cs)
          /\ case.name = "ict2" => r = OnCandleV2(case, st, cs)
          /\ case.name = "ict3" => r = OnCandleV3(case, st, cs)
          /\ case.name = "ict4" => r = OnCandleV4(case, st, cs)
      BY <2>1 DEF OnCandle, Stateless
    <3> HIDE DEF r
    <3>3. IctStep(case, st, c, r)
      BY <2>2, <3>1, <3>2, IctSteps DEF Ict
    <3>4. r.st.nToday \in Nat
      BY <3>1, <3>3 DEF IctStep, NewDayStep, SameDayStep, Waits, Leaves, Enters, Keeps
    <3> QED BY <2>2, <3>3, <3>4, IctMoves DEF Ict, Reversing
  <2>3. ASSUME case.name = "vol_breakout"
        PROVE  /\ VolStep(st, c, r) /\ Moves(FALSE, st.side, r) /\ NewDayCloses(st, Day(c.ts), r)
               /\ VolFields(r.st)
    <3>1. r = VolBreakout(case, st, cs)
      BY <2>1, <2>3 DEF OnCandle, Stateless
    <3>2. VolStep(st, c, r)
      BY <2>3, <3>1, VolSteps DEF StateIs
    <3> QED BY <3>2, VolMoves DEF VolStep
  <2>4. ASSUME case.name \in Reversing
        PROVE  Moves(TRUE, st.side, r) /\ "side" \in DOMAIN r.st
    <3>1. /\ case.name = "donchian2" => r = DonchianV2(case, st, cs)
          /\ case.name = "ichimoku2" => r = IchimokuTrail(case, st, cs)
      BY <2>1 DEF OnCandle, Stateless
    <3> HIDE DEF r
    <3> QED BY <2>4, <3>1, DonchianMoves, IchimokuMoves DEF StateIs, Reversing
  <2>5. \/ case.name \in Ict /\ case.name # "vol_breakout" /\ case.name \notin Reversing
        \/ case.name = "vol_breakout" /\ case.name \notin Ict /\ case.name \notin Reversing
        \/ case.name \in Reversing /\ case.name \notin Ict /\ case.name # "vol_breakout"
    BY DEF Aware, DayBound, Ict, Reversing
  <2> HIDE DEF r, c
  <2>0. Moves(FALSE, st.side, r) => Moves(case.name \in Reversing, st.side, r)
    BY DEF Moves
  <2>6. CASE case.name \in Ict /\ case.name # "vol_breakout" /\ case.name \notin Reversing
    BY <1>2, <2>0, <2>2, <2>6 DEF StateIs, DayBound, r, c
  <2>7. CASE case.name = "vol_breakout" /\ case.name \notin Ict /\ case.name \notin Reversing
    BY <1>2, <2>0, <2>3, <2>7 DEF StateIs, DayBound, r, c
  <2>8. CASE case.name \in Reversing /\ case.name \notin Ict /\ case.name # "vol_breakout"
    BY <1>2, <2>4, <2>8 DEF StateIs, DayBound, r, c
  <2> QED BY <2>5, <2>6, <2>7, <2>8
<1> QED BY <1>1, <1>2

\* Since when the diary says that the position is held.
LEMMA SinceIs ==
  ASSUME NEW ts, NEW signals, NEW ticked, NEW after, after.pos.side # "FLAT"
  PROVE  LET since == DiaryOf(ts, signals, ticked, after).since IN
         \/ since = Day(ts)
         \/ since = diary.since /\ after.pos = eng.pos /\ \A i \in DOMAIN signals : signals[i] # Signal("CLOSE")
<1> DEFINE kept == ticked.pos = eng.pos /\ after.pos = eng.pos /\ Close[1] \notin ToSet(signals)
           since == IF after.pos.side = "FLAT" THEN None ELSE IF kept THEN diary.since ELSE Day(ts)
<1>1. Close[1] = Signal("CLOSE")
  BY DEF Close
<1>2. kept => after.pos = eng.pos /\ \A i \in DOMAIN signals : signals[i] # Signal("CLOSE")
  BY <1>1 DEF ToSet
<1>3. DiaryOf(ts, signals, ticked, after).since = since
  BY DEF DiaryOf
<1> HIDE DEF kept
<1> QED BY <1>2, <1>3

\* What the diary counts of a day after a call of on_candle.
CountedOf(d, r, ts) ==
  /\ d.day = Day(ts)
  /\ d.entries = [action \in {"BUY", "SELL"} |->
       (IF diary.day = Day(ts) THEN diary.entries ELSE NoEntries)[action] + Sent(r.signals, action)]

\* Entries and the counter of the day go together.
LEMMA IctSends ==
  ASSUME NEW p, NEW s, NEW c, NEW r, IctStep(p, s, c, r) \/ r = Result(s, <<>>)
  PROVE  LET buys == Sent(r.signals, "BUY")
             sells == Sent(r.signals, "SELL") IN
         \/ /\ buys = 0 /\ sells = 0
            /\ \/ r.st.day = s.day /\ r.st.nToday = s.nToday
               \/ s.day # Day(c.ts) /\ r.st.day = Day(c.ts) /\ r.st.nToday = 0
         \/ /\ buys \in {0, 1} /\ sells \in {0, 1} /\ buys + sells = 1 /\ MayTrade(p, s)
            /\ s.day = Day(c.ts) /\ r.st.day = s.day /\ r.st.nToday = s.nToday + 1
<1> DEFINE buys == Sent(r.signals, "BUY")
           sells == Sent(r.signals, "SELL")
<1>1. Acts(r.signals, <<>>) \/ Acts(r.signals, <<"CLOSE">>) => buys = 0 /\ sells = 0
  BY SentOf
<1>2. ASSUME r = Result(s, <<>>) PROVE Acts(r.signals, <<>>) /\ r.st = s
  BY <1>2, ActsOf DEF Result
<1>3. ASSUME NEW dir \in Dirs, Acts(r.signals, <<Action(dir)>>)
      PROVE  buys \in {0, 1} /\ sells \in {0, 1} /\ buys + sells = 1
  <2>1. Action(dir) = "BUY" \/ Action(dir) = "SELL"
    BY LongAction
  <2>2. /\ buys = IF Action(dir) = "BUY" THEN 1 ELSE 0
        /\ sells = IF Action(dir) = "SELL" THEN 1 ELSE 0
    BY <1>3, SentOf
  <2> HIDE DEF buys, sells
  <2> QED BY <2>1, <2>2
<1> HIDE DEF buys, sells
<1>4. CASE r = Result(s, <<>>)
  BY <1>1, <1>2, <1>4 DEF buys, sells
<1>5. CASE NewDayStep(s, Day(c.ts), r) /\ s.day # Day(c.ts)
  BY <1>1, <1>5 DEF NewDayStep, buys, sells
<1>6. CASE (Waits(s, r) \/ Leaves(s, r)) /\ s.day = Day(c.ts)
  BY <1>1, <1>6 DEF Waits, Leaves, Keeps, buys, sells
<1>7. CASE Enters(s, r) /\ MayTrade(p, s) /\ s.day = Day(c.ts)
  BY <1>3, <1>7 DEF Enters, buys, sells
<1> QED BY <1>4, <1>5, <1>6, <1>7 DEF IctStep, SameDayStep

\* The sum of a day's entries is what was counted before, of this day, and what is sent now.
LEMMA TotalOf ==
  ASSUME NEW d, NEW r, NEW ts, CountedOf(d, r, ts), diary.entries \in [{"BUY", "SELL"} -> Nat],
         Sent(r.signals, "BUY") \in Nat, Sent(r.signals, "SELL") \in Nat
  PROVE  LET before(a) == IF diary.day = Day(ts) THEN diary.entries[a] ELSE 0 IN
         /\ d.entries["BUY"] = before("BUY") + Sent(r.signals, "BUY")
         /\ d.entries["SELL"] = before("SELL") + Sent(r.signals, "SELL")
         /\ d.entries \in [{"BUY", "SELL"} -> Nat]
<1> DEFINE today == IF diary.day = Day(ts) THEN diary.entries ELSE NoEntries
<1>1. today \in [{"BUY", "SELL"} -> Nat]
  BY DEF NoEntries
<1>2. /\ today["BUY"] = IF diary.day = Day(ts) THEN diary.entries["BUY"] ELSE 0
      /\ today["SELL"] = IF diary.day = Day(ts) THEN diary.entries["SELL"] ELSE 0
  BY DEF NoEntries
<1>3. d.entries = [action \in {"BUY", "SELL"} |-> today[action] + Sent(r.signals, action)]
  BY DEF CountedOf
<1> HIDE DEF today
<1>4. /\ d.entries["BUY"] = today["BUY"] + Sent(r.signals, "BUY")
      /\ d.entries["SELL"] = today["SELL"] + Sent(r.signals, "SELL")
  BY <1>3
<1>5. \A action \in {"BUY", "SELL"} : today[action] + Sent(r.signals, action) \in Nat
  BY <1>1
<1> QED BY <1>2, <1>3, <1>4, <1>5

\* The Power of Three keeps its counter ahead of the diary, and within its cap.
LEMMA IctCounts ==
  ASSUME Bounds, Known, Counted, case.name \in Ict, restarts = 0, NEW c, c.ts = now,
         NEW r, IctStep(case, st, c, r) \/ r = Result(st, <<>>), NEW d, CountedOf(d, r, now)
  PROVE  /\ d.entries \in [{"BUY", "SELL"} -> Nat]
         /\ d.entries["BUY"] + d.entries["SELL"] <= IF r.st.day = d.day THEN r.st.nToday ELSE 0
         /\ case.name \in {"ict1", "ict2"} => r.st.nToday <= 1
         /\ case.name \in {"ict3", "ict4"} /\ case.maxPerDay > 0 => r.st.nToday <= case.maxPerDay
<1> DEFINE before == IF diary.day = Day(now) THEN EntriesToday ELSE 0
           buys == Sent(r.signals, "BUY")
           sells == Sent(r.signals, "SELL")
           entries == st.nToday
           total == d.entries["BUY"] + d.entries["SELL"]
<1>1. diary.entries["BUY"] \in Nat /\ diary.entries["SELL"] \in Nat /\ entries \in Nat
  BY DEF Known, StateIs, Counted, Aware, DayBound
<1>2. before \in Nat /\ before <= IF st.day = Day(now) THEN entries ELSE 0
  BY <1>1 DEF Counted, EntriesToday, DayBound
<1>3. /\ case.name \in {"ict1", "ict2"} => entries <= 1
      /\ case.name \in {"ict3", "ict4"} /\ case.maxPerDay > 0 => entries <= case.maxPerDay
      /\ case.name \in {"ict3", "ict4"} => case.maxPerDay \in Nat
      /\ d.day = Day(now)
  BY OfCase DEF Counted, Bounds, CountedOf, DayBound
<1>4. \/ /\ buys = 0 /\ sells = 0
         /\ \/ r.st.day = st.day /\ r.st.nToday = entries
            \/ st.day # Day(now) /\ r.st.day = Day(now) /\ r.st.nToday = 0
      \/ /\ buys \in {0, 1} /\ sells \in {0, 1} /\ buys + sells = 1 /\ MayTrade(case, st)
         /\ st.day = Day(now) /\ r.st.day = st.day /\ r.st.nToday = entries + 1
  BY IctSends
<1>5. buys \in Nat /\ sells \in Nat
  BY <1>4
<1>6. total = before + buys + sells /\ d.entries \in [{"BUY", "SELL"} -> Nat]
  <2>1. diary.entries \in [{"BUY", "SELL"} -> Nat]
    BY DEF Counted, DayBound
  <2>2. /\ d.entries["BUY"] = (IF diary.day = Day(now) THEN diary.entries["BUY"] ELSE 0) + buys
        /\ d.entries["SELL"] = (IF diary.day = Day(now) THEN diary.entries["SELL"] ELSE 0) + sells
        /\ d.entries \in [{"BUY", "SELL"} -> Nat]
    BY <1>5, <2>1, TotalOf
  <2> HIDE DEF buys, sells
  <2> QED BY <1>1, <1>5, <2>2 DEF EntriesToday
<1> HIDE DEF before, buys, sells, entries, total
<1>7. CASE buys = 0 /\ sells = 0 /\ r.st.day = st.day /\ r.st.nToday = entries
  BY <1>1, <1>2, <1>3, <1>6, <1>7 DEF total
<1>8. CASE buys = 0 /\ sells = 0 /\ st.day # Day(now) /\ r.st.day = Day(now) /\ r.st.nToday = 0
  BY <1>1, <1>2, <1>3, <1>6, <1>8 DEF total
<1>9. CASE buys \in {0, 1} /\ sells \in {0, 1} /\ buys + sells = 1 /\ MayTrade(case, st)
           /\ st.day = Day(now) /\ r.st.day = st.day /\ r.st.nToday = entries + 1
  <2>1. /\ case.name \in {"ict1", "ict2"} => ~(entries > 0)
        /\ case.name \in {"ict3", "ict4"} => ~(case.maxPerDay > 0 /\ entries >= case.maxPerDay)
    BY <1>9 DEF MayTrade, entries
  <2>2. total <= r.st.nToday
    BY <1>1, <1>2, <1>6, <1>9
  <2> QED BY <1>1, <1>3, <1>6, <1>9, <2>1, <2>2 DEF total
<1> QED BY <1>4, <1>7, <1>8, <1>9

\* The volatility breakout enters once in each direction that is not done.
LEMMA VolCounts ==
  ASSUME Bounds, Known, Counted, case.name = "vol_breakout", restarts = 0, NEW c, c.ts = now,
         NEW r, VolStep(st, c, r) \/ r = Result(st, <<>>), NEW d, CountedOf(d, r, now)
  PROVE  /\ d.entries \in [{"BUY", "SELL"} -> Nat]
         /\ \A dir \in Dirs : d.entries[Action(dir)] <= IF r.st.day = d.day /\ dir \in r.st.done THEN 1 ELSE 0
<1> DEFINE sent(dir) == Sent(r.signals, Action(dir))
           before(dir) == IF diary.day = Day(now) THEN diary.entries[Action(dir)] ELSE 0
<1>1. /\ diary.entries \in [{"BUY", "SELL"} -> Nat] /\ d.day = Day(now)
      /\ \A dir \in Dirs : diary.entries[Action(dir)] <= IF st.day = diary.day /\ dir \in st.done THEN 1 ELSE 0
  BY DEF Counted, CountedOf, DayBound
<1>2. ASSUME NEW dir \in Dirs
      PROVE  before(dir) \in Nat /\ before(dir) <= IF st.day = Day(now) /\ dir \in st.done THEN 1 ELSE 0
  BY <1>1, LongAction
<1>3. Acts(r.signals, <<>>) \/ Acts(r.signals, <<"CLOSE">>) => \A dir \in Dirs : sent(dir) = 0
  BY SentOf, LongAction
<1>4. ASSUME NEW way \in Dirs, Acts(r.signals, <<Action(way)>>) \/ Acts(r.signals, <<"CLOSE", Action(way)>>)
      PROVE  \A dir \in Dirs : sent(dir) = IF dir = way THEN 1 ELSE 0
  <2>1. \A dir \in Dirs : sent(dir) = IF Action(way) = Action(dir) THEN 1 ELSE 0
    BY <1>4, SentOf, LongAction
  <2>2. \A dir \in Dirs : Action(way) = Action(dir) <=> dir = way
    BY DEF Dirs, Action
  <2> QED BY <2>1, <2>2
<1> HIDE DEF sent
<1>5. ASSUME NEW dir \in Dirs
      PROVE  /\ sent(dir) \in {0, 1}
             /\ sent(dir) = 1 => r.st.day = Day(now) /\ dir \in r.st.done /\ ~(st.day = Day(now) /\ dir \in st.done)
             /\ st.day = Day(now) /\ dir \in st.done => r.st.day = Day(now) /\ dir \in r.st.done
  <2>1. CASE r = Result(st, <<>>)
    <3>1. r.st = st /\ Acts(r.signals, <<>>)
      BY <2>1, ActsOf DEF Result
    <3> QED BY <1>3, <3>1
  <2>2. CASE VolStep(st, c, r) /\ VolWaits(st, c, r)
    <3>1. sent(dir) = 0
      BY <1>3, <2>2 DEF VolWaits
    <3> QED BY <2>2, <3>1 DEF VolStep, VolWaits, VolDone
  <2>3. CASE VolStep(st, c, r) /\ VolLeaves(st, c, r)
    <3>1. sent(dir) = 0
      BY <1>3, <2>3 DEF VolLeaves
    <3> QED BY <2>3, <3>1 DEF VolStep, VolLeaves, VolDone
  <2>4. CASE VolStep(st, c, r) /\ VolEnters(st, c, r)
    <3>1. sent(dir) = IF dir = r.st.side THEN 1 ELSE 0
      BY <1>4, <2>4 DEF VolEnters
    <3> QED BY <2>4, <3>1 DEF VolStep, VolEnters, VolDone
  <2> QED BY <2>1, <2>2, <2>3, <2>4 DEF VolStep
<1>6. Sent(r.signals, "BUY") = sent("LONG") /\ Sent(r.signals, "SELL") = sent("SHORT")
  BY DEF sent, Action
<1>7. sent("LONG") \in Nat /\ sent("SHORT") \in Nat
  BY <1>5 DEF Dirs
<1>8. /\ d.entries \in [{"BUY", "SELL"} -> Nat]
      /\ \A dir \in Dirs : d.entries[Action(dir)] = before(dir) + sent(dir)
  <2>1. /\ d.entries \in [{"BUY", "SELL"} -> Nat]
        /\ d.entries["BUY"] = (IF diary.day = Day(now) THEN diary.entries["BUY"] ELSE 0) + sent("LONG")
        /\ d.entries["SELL"] = (IF diary.day = Day(now) THEN diary.entries["SELL"] ELSE 0) + sent("SHORT")
    BY <1>1, <1>6, <1>7, TotalOf
  <2> QED BY <2>1 DEF Dirs, Action
<1> HIDE DEF before
<1>9. ASSUME NEW dir \in Dirs
      PROVE  d.entries[Action(dir)] <= IF r.st.day = d.day /\ dir \in r.st.done THEN 1 ELSE 0
  BY <1>1, <1>2, <1>5, <1>8
<1> QED BY <1>8, <1>9

\* A candle keeps the invariant.
LEMMA CandleStep ==
  ASSUME IInv, NEW b, NEW lowFirst, NEW refuse \in BOOLEAN, CandleCloses(b, lowFirst, refuse)
  PROVE  IInv'
<1> DEFINE c == Stamped(b, now)
           cs == KeepLast(Append(window, c), case.lookback)
           ticked == AfterTicks(eng, Ticks(b, lowFirst))
           r == Asked(cs, ticked.pos.side)
           reverses == case.name \in Reversing
<1>1. /\ now' = now + case.hours /\ window' = cs
      /\ st' = r.st /\ eng' = Dispatched(ticked, r.signals, c.close, refuse)
      /\ diary' = DiaryOf(c.ts, r.signals, ticked, eng')
      /\ refused' = IF refuse THEN refused + 1 ELSE refused
      /\ UNCHANGED <<case, status, pauses, restarts>>
  BY DEF CandleCloses
<1>2. c.ts = now
  BY DEF Stamped
<1>3. /\ case.hours \in Nat \ {0} /\ case.lookback \in Nat \ {0}
      /\ case.name \in Ict => case.asiaEndH \in 1..23 /\ case.flattenH \in 1..23
      /\ case.name \in Stateless => ~Aware
  BY OfCase DEF IInv, Bounds
<1> HIDE DEF c
<1>4. IsSeq(cs) /\ Last(cs) = c
  BY <1>3, LastKept DEF IInv, Bounds
<1>5. now \in Nat /\ Last(cs).ts = now
  BY <1>2, <1>4 DEF IInv, Bounds
<1> HIDE DEF cs
<1>6. Bounds'
  BY <1>1, <1>3, <1>4 DEF IInv, Bounds
<1>7. Aware' = Aware /\ DayBound' = DayBound
  BY <1>1 DEF Aware, DayBound
<1>8. CASE ~Aware
  <2>1. ~Aware' /\ ~DayBound'
    BY <1>7, <1>8 DEF Aware
  <2>2. case'.name \in Stateless \/ Aware'
    BY <1>1, <1>8, OfCase DEF IInv, Bounds, Aware, DayBound
  <2>3. Known' /\ Counted' /\ Today' /\ BeliefCovers'
    BY <2>1, <2>2 DEF Known, Counted, Today, BeliefCovers
  <2> QED BY <1>6, <2>3 DEF IInv
<1>9. CASE Aware
  <2>1. EngineIs(eng) /\ StateIs(case.name, st)
    BY <1>9 DEF IInv, Known
  <2>2. Stays(eng, ticked)
    BY <2>1, TicksStay
  <2> HIDE DEF ticked
  <2>3. /\ Moves(reverses, st.side, r) /\ StateIs(case.name, r.st)
        /\ status = "PAUSED" => r = Result(st, <<>>)
        /\ status # "PAUSED" /\ DayBound => NewDayCloses(st, Day(now), r)
        /\ status # "PAUSED" /\ case.name \in Ict => IctStep(case, st, Last(cs), r)
        /\ status # "PAUSED" /\ case.name = "vol_breakout" => VolStep(st, Last(cs), r)
    BY <1>5, <1>9, <2>1, AskedIs DEF IInv
  <2> HIDE DEF r
  <2>4. /\ EngineIs(eng')
        /\ ticked.pos.side \in {"FLAT", st.side} /\ (reverses => ~refuse) => eng'.pos.side \in {"FLAT", st'.side}
    <3>1. EngineIs(ticked)
      BY <2>2 DEF Stays
    <3>2. refuse \in BOOLEAN
      OBVIOUS
    <3> HIDE DEF reverses
    <3> DEFINE after == Dispatched(ticked, r.signals, c.close, refuse)
    <3>3. EngineIs(after) /\ (ticked.pos.side \in {"FLAT", st.side} /\ (reverses => ~refuse)
                                => after.pos.side \in {"FLAT", r.st.side})
      BY <2>3, <3>1, <3>2, EngineFollows
    <3>4. eng' = after /\ st' = r.st
      BY <1>1
    <3> HIDE DEF after
    <3> QED BY <3>3, <3>4
  <2>5. Known'
    BY <1>1, <2>3, <2>4 DEF Known
  <2>6. BeliefCovers'
    <3>1. refused \in Nat
      BY DEF IInv, Bounds
    <3>2. ASSUME restarts = 0, reverses => refused' = 0
          PROVE  eng'.pos.side \in {"FLAT", st'.side}
      <4>1. reverses => refused = 0 /\ ~refuse
        BY <1>1, <3>1, <3>2
      <4>2. eng.pos.side \in {"FLAT", st.side}
        BY <1>3, <1>9, <3>2, <4>1 DEF IInv, BeliefCovers, Reversing
      <4> QED BY <2>2, <2>4, <4>1, <4>2 DEF Stays
    <3> QED BY <1>1, <3>2 DEF BeliefCovers, Reversing
  <2>7. CountedOf(diary', r, now)
    BY <1>1, <1>2 DEF CountedOf, DiaryOf
  <2>8. Counted'
    <3>1. CASE case.name \in Ict /\ restarts = 0
      <4>1. /\ diary'.entries \in [{"BUY", "SELL"} -> Nat]
            /\ diary'.entries["BUY"] + diary'.entries["SELL"] <= IF st'.day = diary'.day THEN st'.nToday ELSE 0
            /\ case.name \in {"ict1", "ict2"} => st'.nToday <= 1
            /\ case.name \in {"ict3", "ict4"} /\ case.maxPerDay > 0 => st'.nToday <= case.maxPerDay
        BY <1>1, <1>5, <2>3, <2>7, <3>1, IctCounts DEF IInv
      <4> QED BY <1>1, <3>1, <4>1 DEF Counted, EntriesToday, Ict
    <3>2. CASE case.name = "vol_breakout" /\ restarts = 0
      <4>1. /\ diary'.entries \in [{"BUY", "SELL"} -> Nat]
            /\ \A dir \in Dirs : diary'.entries[Action(dir)] <= IF st'.day = diary'.day /\ dir \in st'.done THEN 1 ELSE 0
        BY <1>1, <1>5, <2>3, <2>7, <3>2, VolCounts DEF IInv
      <4> QED BY <1>1, <3>2, <4>1 DEF Counted, Ict
    <3> QED BY <1>1, <1>7, <3>1, <3>2 DEF Counted, DayBound
  <2>9. Today'
    <3> SUFFICES ASSUME restarts = 0, pauses = 0, DayBound
                 PROVE  Today'
      BY <1>1, <1>7 DEF Today
    <3>1. status # "PAUSED" /\ NewDayCloses(st, Day(now), r) /\ case.name \notin Stateless \cup Reversing
      BY <1>3, <1>9, <2>3 DEF IInv, Bounds, DayBound, Reversing, Ict
    <3>2. st'.day = Day(now) /\ diary'.day = Day(now) /\ now' - case.hours = now /\ case.hours <= now'
      BY <1>1, <1>3, <1>5, <2>7, <3>1 DEF NewDayCloses, CountedOf
    <3>3. ASSUME case.name \in Ict, st'.side # "FLAT"
          PROVE  case.asiaEndH <= Hour(now) /\ Hour(now) < case.flattenH
      <4>1. IctStep(case, st, c, r) /\ Hour(now) \in Int /\ case.asiaEndH \in Int /\ case.flattenH \in Int
        <5>1. Hour(now) \in 0..23
          BY <1>5, HourIs
        <5>2. IctStep(case, st, Last(cs), r)
          BY <2>3, <3>1, <3>3
        <5> QED BY <1>3, <1>4, <3>3, <5>1, <5>2
      <4>2. SameDayStep(case, st, c, r) /\ st.day = Day(now)
        BY <1>1, <1>2, <3>3, <4>1 DEF IctStep, NewDayStep
      <4>3. ASSUME st.side # "FLAT"
            PROVE  case.asiaEndH <= Hour(now)
        <5>1. /\ case.hours <= now /\ st.day = Day(now - case.hours)
              /\ case.asiaEndH <= Hour(now - case.hours)
          BY <3>3, <4>3 DEF IInv, Today
        <5>2. Hour(now - case.hours) <= Hour(now)
          BY <1>3, <1>5, <4>2, <5>1, Clock
        <5>3. Hour(now - case.hours) \in Int
          BY <1>3, <1>5, <5>1, HourIs
        <5> QED BY <4>1, <5>1, <5>2, <5>3
      <4>4. CASE Waits(st, r) /\ (st.side # "FLAT" => Hour(now) < case.asiaEndH \/ ~(Hour(now) >= case.flattenH))
        <5>1. st.side # "FLAT"
          BY <1>1, <3>3, <4>4 DEF Waits, Keeps
        <5> QED BY <4>1, <4>3, <4>4, <5>1
      <4>5. CASE Leaves(st, r)
        BY <1>1, <3>3, <4>5 DEF Leaves
      <4>6. CASE ~NoHunt(case, st, c) /\ Hour(now) >= case.asiaEndH
        BY <1>2, <4>1, <4>6 DEF NoHunt
      <4> QED BY <1>2, <4>2, <4>4, <4>5, <4>6 DEF SameDayStep
    <3>4. ASSUME eng'.pos.side # "FLAT"
          PROVE  diary'.since = diary'.day
      <4>1. CASE diary'.since = Day(now)
        BY <3>2, <4>1
      <4>2. CASE diary'.since = diary.since /\ eng'.pos = eng.pos /\ \A i \in DOMAIN r.signals : r.signals[i] # Signal("CLOSE")
        <5>1. eng.pos.side # "FLAT" /\ st.side = eng.pos.side
          BY <3>1, <3>4, <4>2 DEF IInv, BeliefCovers, Reversing
        <5>2. diary.since = diary.day /\ st.day = diary.day
          BY <5>1 DEF IInv, Today
        <5>3. st.day = Day(now)
          BY <3>1, <4>2, <5>1 DEF NewDayCloses
        <5> QED BY <3>2, <4>2, <5>2, <5>3
      <4>3. diary' = DiaryOf(now, r.signals, ticked, eng')
        BY <1>1, <1>2
      <4> DEFINE after == eng'
      <4>4. diary' = DiaryOf(now, r.signals, ticked, after) /\ after.pos.side # "FLAT"
        BY <3>4, <4>3
      <4> HIDE DEF after
      <4>5. LET since == DiaryOf(now, r.signals, ticked, after).since IN
              \/ since = Day(now)
              \/ since = diary.since /\ after.pos = eng.pos /\ \A i \in DOMAIN r.signals : r.signals[i] # Signal("CLOSE")
        BY <4>4, SinceIs
      <4> QED BY <4>1, <4>2, <4>4, <4>5 DEF after
    <3> QED BY <1>1, <3>2, <3>3, <3>4 DEF Today
  <2> QED BY <1>6, <2>5, <2>6, <2>8, <2>9 DEF IInv
<1> QED BY <1>8, <1>9

\* So does every other step.
LEMMA NextKeeps == IInv /\ [Next]_vars => IInv'
<1> SUFFICES ASSUME IInv, [Next]_vars PROVE IInv'
  OBVIOUS
<1>1. CASE \E b \in case.market, lowFirst, refuse \in BOOLEAN : CandleCloses(b, lowFirst, refuse)
  BY <1>1, CandleStep
<1>2. CASE Pause \/ Resume
  <2>1. /\ UNCHANGED <<candleVars, st, eng, decided, diary, refused, restarts>>
        /\ pauses \in Nat /\ pauses' \in Nat /\ (pauses' = 0 => pauses = 0 /\ status' # "PAUSED")
    BY <1>2 DEF Pause, Resume, IInv, Bounds
  <2> QED BY <2>1 DEF IInv, Bounds, Known, BeliefCovers, Counted, Today, candleVars, Aware, DayBound, EntriesToday
<1>3. CASE Restart
  <2>1. /\ UNCHANGED <<candleVars, eng, decided, diary, status, refused, pauses>>
        /\ st' = InitialState(case.name)
        /\ restarts \in Nat /\ restarts' \in Nat /\ restarts' # 0
    BY <1>3 DEF Restart, IInv, Bounds
  <2>2. StateIs(case.name, InitialState(case.name))
    <3>1. LET s == IctInit IN Fields(s) /\ s.nToday \in Nat
      BY FreshIs DEF IctInit
    <3>2. VolFields(VolInit) /\ "side" \in DOMAIN DonchianInit /\ "side" \in DOMAIN TrailInit
      BY DEF VolInit, VolFields, DonchianInit, TrailInit
    <3>3. /\ case.name \in Ict => InitialState(case.name) = IctInit
          /\ case.name = "vol_breakout" => InitialState(case.name) = VolInit
          /\ case.name = "donchian2" => InitialState(case.name) = DonchianInit
          /\ case.name = "ichimoku2" => InitialState(case.name) = TrailInit
      BY DEF InitialState, Ict
    <3> QED BY <3>1, <3>2, <3>3 DEF StateIs, Reversing
  <2>3. Bounds' /\ Known'
    BY <2>1, <2>2 DEF IInv, Bounds, Known, candleVars, Aware, DayBound
  <2> QED BY <2>1, <2>3 DEF IInv, BeliefCovers, Counted, Today
<1>4. CASE UNCHANGED vars
  BY <1>4 DEF vars, IInv, Bounds, Known, BeliefCovers, Counted, Today, candleVars, Aware, DayBound, EntriesToday
<1> QED BY <1>1, <1>2, <1>3, <1>4 DEF Next

\* The invariant implies what is promised.
LEMMA CountsCap == IInv => EntriesCapped
<1> SUFFICES ASSUME IInv, restarts = 0 PROVE EntriesCapped
  BY DEF EntriesCapped
<1>1. CASE case.name \in Ict
  <2>1. /\ EntriesToday <= IF st.day = diary.day THEN st.nToday ELSE 0
        /\ case.name \in {"ict1", "ict2"} => st.nToday <= 1
        /\ case.name \in {"ict3", "ict4"} /\ case.maxPerDay > 0 => st.nToday <= case.maxPerDay
        /\ diary.entries \in [{"BUY", "SELL"} -> Nat] /\ st.nToday \in Nat
    BY <1>1 DEF IInv, Counted, Known, StateIs, Aware, DayBound
  <2>2. EntriesToday \in Nat
    BY <2>1 DEF EntriesToday
  <2>3. EntriesToday <= st.nToday
    BY <2>1, <2>2
  <2>4. case.name \in {"ict3", "ict4"} => case.maxPerDay \in Nat
    BY OfCase DEF IInv, Bounds
  <2>5. case.name # "vol_breakout"
    BY <1>1 DEF Ict
  <2> QED BY <2>1, <2>2, <2>3, <2>4, <2>5 DEF EntriesCapped
<1>2. CASE case.name = "vol_breakout"
  <2>1. /\ diary.entries \in [{"BUY", "SELL"} -> Nat]
        /\ \A dir \in Dirs : diary.entries[Action(dir)] <= IF st.day = diary.day /\ dir \in st.done THEN 1 ELSE 0
    BY <1>2 DEF IInv, Counted, DayBound
  <2>2. /\ diary.entries["BUY"] <= IF st.day = diary.day /\ "LONG" \in st.done THEN 1 ELSE 0
        /\ diary.entries["SELL"] <= IF st.day = diary.day /\ "SHORT" \in st.done THEN 1 ELSE 0
    BY <2>1 DEF Dirs, Action
  <2>3. diary.entries["BUY"] <= 1 /\ diary.entries["SELL"] <= 1
    BY <2>1, <2>2
  <2> QED BY <1>2, <2>3 DEF EntriesCapped
<1>3. CASE case.name \notin Ict /\ case.name # "vol_breakout"
  BY <1>3 DEF EntriesCapped, Ict
<1> QED BY <1>1, <1>2, <1>3

LEMMA TradesEnd == IInv => DayTradesEnd
<1> SUFFICES ASSUME IInv, restarts = 0, pauses = 0, DayBound, eng.pos.side # "FLAT"
             PROVE  diary.since = diary.day /\ (case.name \in Ict => Hour(now - case.hours) < case.flattenH)
  BY DEF DayTradesEnd, DayBound
<1>1. case.name \notin Stateless \cup Reversing
  BY OfCase DEF IInv, Bounds, Aware, DayBound, Ict, Reversing
<1>2. st.side # "FLAT"
  BY <1>1 DEF IInv, BeliefCovers, Reversing
<1> QED BY <1>2 DEF IInv, Today

\* However the candles come, ticks cross a stop first and entries are refused: the engine
\* is flat or on the side the strategy believes in (StrategyRunner._handle, the on_candle of
\* the seven stateful strategies, PaperEngine), for as long as the process lives.
THEOREM HoldsWhatItBelieves == Spec => []BeliefCovers
<1>1. IInv => BeliefCovers
  BY DEF IInv
<1> QED BY <1>1, InitHolds, NextKeeps, PTL DEF Spec

\* For as long as the process lives, the counters of the strategies cap what reaches the
\* diary: a day has at most one entry (_traded_today), max_per_day of them (_n_today), or
\* one in each direction (_done_long and _done_short).
THEOREM EntersOnceADay == Spec => []EntriesCapped
BY InitHolds, NextKeeps, CountsCap, PTL DEF Spec

\* Without a pause or a restart, a trade of a day strategy ends by the close of the next
\* day's first candle, an ICT one by the close of the first candle that opens at flatten_h
\* or later (on_candle's new-day branch and its flatten branch).
THEOREM HoldsForADay == Spec => []DayTradesEnd
BY InitHolds, NextKeeps, TradesEnd, PTL DEF Spec

--------------------------------------------------------------------------------
(***************************************************************************)
(* The backtest: what the engine of a simulation may report of a price and *)
(* of an order, what the books make of a report, and what a candle leaves. *)
(***************************************************************************)

Flat0 == Gapped!Flat
\* Prices that slippage leaves positive, and 0 for none.
Level == {x \in Nat : x = 0 \/ Slip < x}
PosSet == [side : Sides, entry : Nat, sl : Level, tp : Level]
PlacedSet == [action : {"MARKET", "LIMIT"}, side : {"BUY", "SELL"}, price : Level, sl : Level, tp : Level,
              size : Nat, qty : Nat, target : Int]
RestSet == [oid : Nat \ {0}, order : {o \in PlacedSet : o.action = "LIMIT" /\ o.price # 0}]
EngSet == [pos : PosSet, fee : Nat, pending : Seq(RestSet), oid : Nat]
\* An engine: without a position it has no fee, and resting orders have ids of their own.
Running(e) ==
  /\ e \in EngSet
  /\ e.pos.side = "FLAT" => e.pos = Flat0 /\ e.fee = 0
  /\ \A i \in 1..Len(e.pending) : e.pending[i].oid <= e.oid
  /\ \A i, j \in 1..Len(e.pending) : i # j => e.pending[i].oid # e.pending[j].oid

Event5(queued, c, opened, filled, cancelled) ==
  [queued |-> queued, closed |-> c, opened |-> opened, filledPending |-> filled, cancelled |-> cancelled]
Shuts(c) == Event5(0, c, FALSE, 0, <<>>)
Opens(oid) == Event5(0, Gapped!NoClose, TRUE, oid, <<>>)
Reasons == {"SIGNAL", "SL", "TP", "LIQUIDATION", "MANUAL"}
ClosedSet == [gross : Int, entryFee : Nat, exitFee : Nat, reason : Reasons]
Told == {Shuts(c) : c \in ClosedSet} \cup {Opens(oid) : oid \in Nat}
\* What closing e at this price reports, and the engine without or with a position.
Closed(e, exit, why) ==
  [gross |-> Gapped!Profit(e.pos, exit), entryFee |-> e.fee, exitFee |-> TakerFee * exit, reason |-> why]
Holding(e, pos, fee) == [e EXCEPT !.pos = pos, !.fee = fee]
PosOf(o, at) == [side |-> Gapped!Long(o.side), entry |-> at, sl |-> o.sl, tp |-> o.tp]

LEMMA Numbers ==
  /\ Capital \in Nat \ {0} /\ Scale \in Nat \ {0} /\ DayLength \in Nat \ {0}
  /\ {TakerFee, MakerFee, Slip, LiqDistance, MaxRiskPct, MaxOpenRiskPct, DailyLossPct, MaxDdPct,
      MinNotional, MinCandles, MaxCandles, MaxPending} \subseteq Nat
  /\ TakerFee \in Nat /\ MakerFee \in Nat /\ Slip \in Nat /\ LiqDistance \in Nat /\ MinNotional \in Nat
BY BacktestConstants

LEMMA EventsAre ==
  ASSUME NEW c, NEW oid
  PROVE  /\ [Gapped!Event EXCEPT !.closed = c] = Shuts(c)
         /\ [Gapped!Event EXCEPT !.opened = TRUE] = Opens(0)
         /\ [Opens(0) EXCEPT !.filledPending = oid] = Opens(oid)
         /\ Opens(oid).opened /\ Opens(oid).filledPending = oid
         /\ ~Shuts(c).opened /\ Shuts(c).closed = c /\ Shuts(c).filledPending = 0
<1> DEFINE zero == 0
           no == FALSE
           yes == TRUE
           none == <<>>
<1>1. /\ Gapped!Event = Event5(zero, Gapped!NoClose, no, zero, none)
      /\ Shuts(c) = Event5(zero, c, no, zero, none)
      /\ Opens(0) = Event5(zero, Gapped!NoClose, yes, zero, none)
      /\ Opens(oid) = Event5(zero, Gapped!NoClose, yes, oid, none)
  BY DEF Gapped!Event, Event5, Shuts, Opens
<1>2. yes /\ ~no /\ zero = 0
  OBVIOUS
<1>3. [Gapped!Event EXCEPT !.opened = yes] = [Gapped!Event EXCEPT !.opened = TRUE]
  OBVIOUS
<1> HIDE DEF zero, no, yes, none
<1>4. [Gapped!Event EXCEPT !.closed = c] = Shuts(c)
  BY <1>1 DEF Event5
<1>5. [Gapped!Event EXCEPT !.opened = yes] = Opens(0)
  BY <1>1 DEF Event5
<1>6. [Opens(0) EXCEPT !.filledPending = oid] = Opens(oid)
  BY <1>1 DEF Event5
<1>7. Opens(oid).opened = yes /\ Opens(oid).filledPending = oid /\ Shuts(c).opened = no
      /\ Shuts(c).closed = c /\ Shuts(c).filledPending = zero
  BY <1>1 DEF Event5
<1> QED BY <1>2, <1>3, <1>4, <1>5, <1>6, <1>7

\* An engine with another position.
LEMMA HoldingIs ==
  ASSUME NEW e, e \in EngSet, NEW pos \in PosSet, NEW fee \in Nat
  PROVE  LET h == Holding(e, pos, fee) IN
         /\ h \in EngSet /\ h.pos = pos /\ h.fee = fee /\ h.pending = e.pending /\ h.oid = e.oid
         /\ \A pos2 \in PosSet, fee2 \in Nat : Holding(h, pos2, fee2) = Holding(e, pos2, fee2)
BY DEF Holding, EngSet

\* Two sequences of one and two.
LEMMA TwoOf ==
  ASSUME NEW a, NEW b
  PROVE  /\ <<>> \o <<a>> = <<a>>
         /\ <<a>> \o <<b>> = <<a, b>>
         /\ <<>> \o <<a, b>> = <<a, b>>
<1> DEFINE S == {a, b}
<1>1. <<a>> \in Seq(S) /\ <<b>> \in Seq(S) /\ <<a, b>> \in Seq(S)
  OBVIOUS
<1>2. <<>> \o <<a>> = <<a>> /\ <<>> \o <<a, b>> = <<a, b>>
  BY <1>1, ConcatEmptySeq
<1> DEFINE ab == <<a>> \o <<b>>
<1>3. ab \in Seq(S) /\ Len(ab) = 2 /\ ab[1] = a /\ ab[2] = b
  BY <1>1, ConcatProperties
<1> HIDE DEF ab, S
<1>4. ab = <<a, b>>
  BY <1>3
<1> QED BY <1>2, <1>4 DEF ab

LEMMA ExitsAt ==
  ASSUME NEW e, Running(e), e.pos.side # "FLAT", NEW exit \in Nat, NEW why \in Reasons
  PROVE  /\ Closed(e, exit, why) \in ClosedSet
         /\ Gapped!CloseAt(e, exit, why) = Gapped!Result(Holding(e, Flat0, 0), <<Shuts(Closed(e, exit, why))>>)
         /\ Running(Holding(e, Flat0, 0))
<1> DEFINE c == Closed(e, exit, why)
           zero == 0
<1>1. e \in EngSet /\ e.pos \in PosSet /\ e.fee \in Nat
  BY DEF Running, EngSet
<1>2. Gapped!Profit(e.pos, exit) \in Int /\ TakerFee * exit \in Nat
  BY <1>1, Numbers DEF Gapped!Profit, PosSet
<1>3. c \in ClosedSet
  BY <1>1, <1>2 DEF ClosedSet, Closed
<1>5. Gapped!CloseAt(e, exit, why) = Gapped!Result(Holding(e, Flat0, 0), <<Shuts(c)>>)
  BY EventsAre DEF Gapped!CloseAt, Closed, Flat0, Holding
<1>6. Flat0 \in PosSet /\ Flat0.side = "FLAT"
  BY Numbers DEF Flat0, Gapped!Flat, PosSet, Level, Sides
<1>7. Running(Holding(e, Flat0, 0))
  <2> DEFINE h == Holding(e, Flat0, zero)
  <2>1. zero \in Nat /\ zero = 0
    OBVIOUS
  <2> HIDE DEF zero
  <2>2. h \in EngSet /\ h.pos = Flat0 /\ h.fee = zero /\ h.pending = e.pending /\ h.oid = e.oid
    BY <1>1, <1>6, <2>1, HoldingIs
  <2> HIDE DEF h
  <2>3. Running(h)
    BY <2>1, <2>2 DEF Running
  <2> QED BY <2>1, <2>3 DEF h
<1> QED BY <1>3, <1>5, <1>7

\* _apply_market: nothing, or the order's position, after a close if there was one.
MarketLeaves(e, o, fill, rate, r) ==
  LET new == Holding(e, PosOf(o, fill), rate * fill) IN
  /\ fill \in Nat /\ rate * fill \in Nat /\ PosOf(o, fill) \in PosSet /\ PosOf(o, fill).side # "FLAT"
  /\ Running(new)
  /\ \/ e.pos.side = Gapped!Long(o.side) /\ r = Gapped!Result(e, <<>>)
     \/ e.pos.side = "FLAT" /\ r = Gapped!Result(new, <<Opens(0)>>)
     \/ /\ e.pos.side \notin {"FLAT", Gapped!Long(o.side)}
        /\ r = Gapped!Result(new, <<Shuts(Closed(e, fill, "SIGNAL")), Opens(0)>>)
LEMMA MarketDoes ==
  ASSUME NEW e, Running(e), NEW o \in PlacedSet, NEW at \in Nat, NEW type \in {"MARKET", "LIMIT"},
         type = "MARKET" => Slip < at
  PROVE  MarketLeaves(e, o, IF type = "LIMIT" THEN at ELSE Gapped!Slipped(o.side, at),
                      IF type = "LIMIT" THEN MakerFee ELSE TakerFee, Gapped!ApplyMarket(e, o, at, type))
<1> DEFINE fill == IF type = "LIMIT" THEN at ELSE Gapped!Slipped(o.side, at)
           rate == IF type = "LIMIT" THEN MakerFee ELSE TakerFee
           side == Gapped!Long(o.side)
           pos == PosOf(o, fill)
           fee == rate * fill
           new == Holding(e, pos, fee)
           r == Gapped!ApplyMarket(e, o, at, type)
           opened(x) == Gapped!OpenAt(x, side, fill, o.sl, o.tp, rate)
           nothing == e.pos.side = side /\ r = Gapped!Result(e, <<>>)
           enters == e.pos.side = "FLAT" /\ r = Gapped!Result(new, <<Opens(0)>>)
           turns == /\ e.pos.side \notin {"FLAT", side}
                    /\ r = Gapped!Result(new, <<Shuts(Closed(e, fill, "SIGNAL")), Opens(0)>>)
<1>0. o.side \in {"BUY", "SELL"} /\ o.sl \in Level /\ o.tp \in Level
  BY DEF PlacedSet
<1>1. fill \in Nat /\ rate \in Nat
  BY <1>0, Numbers DEF Gapped!Slipped
<1>2. fee \in Nat
  BY <1>1
<1>3. side \in {"LONG", "SHORT"}
  BY DEF Gapped!Long
<1>4. pos \in PosSet /\ pos.side = side
  BY <1>0, <1>1, <1>3 DEF PosOf, PosSet, Sides
<1>5. e \in EngSet
  BY DEF Running
<1>6. ASSUME NEW x, x \in {e, Holding(e, Flat0, 0)}
      PROVE  opened(x) = Gapped!Result(new, <<Opens(0)>>)
  <2>1. opened(x) = Gapped!Result(Holding(x, pos, fee), <<Opens(0)>>)
    BY EventsAre DEF Gapped!OpenAt, PosOf, Holding
  <2>2. Flat0 \in PosSet /\ 0 \in Nat
    BY Numbers DEF Flat0, Gapped!Flat, PosSet, Level, Sides
  <2> HIDE DEF pos, fee, opened
  <2>3. Holding(x, pos, fee) = new
    BY <1>2, <1>4, <1>5, <1>6, <2>2, HoldingIs
  <2> QED BY <2>1, <2>3
<1>7. Running(new)
  <2> HIDE DEF pos, fee, side
  <2>1. new \in EngSet /\ new.pos = pos /\ new.fee = fee /\ new.pending = e.pending /\ new.oid = e.oid
    BY <1>2, <1>4, <1>5, HoldingIs
  <2> HIDE DEF new
  <2> QED BY <1>3, <1>4, <2>1 DEF Running
<1>8. \/ e.pos.side = side /\ r = Gapped!Result(e, <<>>)
      \/ e.pos.side # side /\ e.pos = Flat0 /\ r = Gapped!Then(Gapped!Result(e, <<>>), opened(e))
      \/ /\ e.pos.side # side /\ e.pos # Flat0
         /\ r = Gapped!Then(Gapped!CloseAt(e, fill, "SIGNAL"), opened(Gapped!CloseAt(e, fill, "SIGNAL").eng))
  <2>1. r = IF e.pos.side = side THEN Gapped!Result(e, <<>>)
            ELSE IF e.pos = Flat0 THEN Gapped!Then(Gapped!Result(e, <<>>), opened(e))
            ELSE Gapped!Then(Gapped!CloseAt(e, fill, "SIGNAL"), opened(Gapped!CloseAt(e, fill, "SIGNAL").eng))
    <3>1. Gapped!Result(e, <<>>).eng = e
      BY DEF Gapped!Result
    <3>2. e.pos = Flat0 => e.pos.side # side
      BY <1>3 DEF Flat0, Gapped!Flat
    <3> QED BY <3>1, <3>2 DEF Gapped!ApplyMarket, Flat0
  <2> HIDE DEF r, side, fill, opened
  <2> QED BY <2>1
<1>9. e.pos = Flat0 <=> e.pos.side = "FLAT"
  BY DEF Running, Flat0, Gapped!Flat
<1>10. ASSUME e.pos.side = "FLAT" PROVE enters
  <2>1. r = Gapped!Then(Gapped!Result(e, <<>>), opened(e))
    BY <1>3, <1>8, <1>9, <1>10
  <2>2. opened(e) = Gapped!Result(new, <<Opens(0)>>)
    BY <1>6
  <2> HIDE DEF opened, r, new
  <2>3. r = Gapped!Result(new, <<Opens(0)>>)
    BY <2>1, <2>2, TwoOf DEF Gapped!Then, Gapped!Result
  <2> QED BY <1>10, <2>3
<1>11. ASSUME e.pos.side \notin {"FLAT", side} PROVE turns
  <2> DEFINE shut == Gapped!CloseAt(e, fill, "SIGNAL")
             h == Holding(e, Flat0, 0)
             c == Closed(e, fill, "SIGNAL")
  <2>1. r = Gapped!Then(shut, opened(shut.eng))
    BY <1>8, <1>9, <1>11
  <2>2. shut = Gapped!Result(h, <<Shuts(c)>>) /\ Running(h)
    BY <1>1, <1>11, ExitsAt DEF Reasons
  <2>3. h \in {e, Holding(e, Flat0, 0)}
    OBVIOUS
  <2> HIDE DEF h, c, shut
  <2>4. opened(h) = Gapped!Result(new, <<Opens(0)>>)
    BY <1>6, <2>3
  <2> HIDE DEF opened, r, new
  <2>5. shut.eng = h
    BY <2>2 DEF Gapped!Result
  <2>6. r = Gapped!Result(new, <<Shuts(c), Opens(0)>>)
    <3>1. r = Gapped!Then(Gapped!Result(h, <<Shuts(c)>>), Gapped!Result(new, <<Opens(0)>>))
      BY <2>1, <2>2, <2>4, <2>5
    <3>2. <<Shuts(c)>> \o <<Opens(0)>> = <<Shuts(c), Opens(0)>>
      BY TwoOf
    <3> QED BY <3>1, <3>2 DEF Gapped!Then, Gapped!Result
  <2> QED BY <1>11, <2>6 DEF c
<1>12. ASSUME e.pos.side = side PROVE nothing
  BY <1>8, <1>12
<1>13. nothing \/ enters \/ turns
  <2> HIDE DEF nothing, enters, turns
  <2> QED BY <1>10, <1>11, <1>12
<1> QED BY <1>1, <1>2, <1>3, <1>4, <1>7, <1>13 DEF MarketLeaves

--------------------------------------------------------------------------------
(* The loop over the resting orders *)

\* A set of numbers with 0 and every successor.
LEMMA FromZero ==
  ASSUME NEW S, 0 \in S, \A i \in Nat : i \in S => i + 1 \in S
  PROVE  Nat \subseteq S
<1> DEFINE T == Nat \ S
           R == OpToRel(<, Nat)
<1>1. SUFFICES ASSUME T # {} PROVE FALSE
  OBVIOUS
<1>2. IsWellFoundedOn(R, Nat)
  BY NatLessThanWellFounded
<1>3. T \subseteq Nat
  OBVIOUS
<1>4. R = {ss \in Nat \X Nat : ss[1] < ss[2]}
  BY DEF OpToRel
<1> HIDE DEF R
<1>5. PICK x \in T : \A y \in T : ~(<<y, x>> \in R)
  BY <1>1, <1>2, <1>3, WFMin
<1>6. x - 1 \in T /\ x - 1 \in Nat /\ x \in Nat
  BY <1>5
<1>7. <<x - 1, x>> \in R
  BY <1>4, <1>6
<1> QED BY <1>5, <1>6, <1>7

IsFill(f, first, list, p, m) ==
  f = [i \in 0..m |-> IF i = 0 THEN first ELSE Gapped!Tried(f[i - 1], list[i], p)]
LEMMA FillExists ==
  ASSUME NEW first, NEW list, NEW p, NEW m \in Nat
  PROVE  \E f : IsFill(f, first, list, p, m)
<1> DEFINE step(x, i) == Gapped!Tried(x, list[i], p)
           S == {k \in Nat : \E f : f = [i \in 0..k |-> IF i = 0 THEN first ELSE step(f[i - 1], i)]}
<1> HIDE DEF step
<1>1. 0 \in S
  <2>1. PICK g : g = [i \in 0..0 |-> first]
    OBVIOUS
  <2>2. g = [i \in 0..0 |-> IF i = 0 THEN first ELSE step(g[i - 1], i)]
    BY <2>1
  <2> QED BY <2>2
<1>2. ASSUME NEW k \in Nat, k \in S PROVE k + 1 \in S
  <2>1. PICK f : f = [i \in 0..k |-> IF i = 0 THEN first ELSE step(f[i - 1], i)]
    BY <1>2
  <2>2. PICK g : g = [i \in 0..(k + 1) |-> IF i \in 0..k THEN f[i] ELSE step(f[k], i)]
    OBVIOUS
  <2>3. ASSUME NEW i \in 0..(k + 1) PROVE g[i] = IF i = 0 THEN first ELSE step(g[i - 1], i)
    <3>1. CASE i \in 0..k
      <4>1. g[i] = IF i = 0 THEN first ELSE step(f[i - 1], i)
        BY <2>1, <2>2, <3>1
      <4>2. i # 0 => g[i - 1] = f[i - 1]
        BY <2>2, <3>1
      <4> QED BY <4>1, <4>2
    <3>2. CASE i = k + 1
      BY <2>2, <3>2
    <3> QED BY <3>1, <3>2
  <2>4. g = [i \in 0..(k + 1) |-> IF i = 0 THEN first ELSE step(g[i - 1], i)]
    BY <2>2, <2>3
  <2> QED BY <2>4
<1>3. Nat \subseteq S
  <2> HIDE DEF S
  <2> QED BY <1>1, <1>2, FromZero
<1> QED BY <1>3 DEF step, IsFill

LEMMA FillsBySteps ==
  ASSUME NEW e, NEW p, Len(e.pending) \in Nat
  PROVE  \E f : /\ f[0] = Gapped!Result([e EXCEPT !.pending = <<>>], <<>>)
                /\ \A i \in 1..Len(e.pending) : f[i] = Gapped!Tried(f[i - 1], e.pending[i], p)
                /\ Gapped!FillPending(e, p) = f[Len(e.pending)]
<1> DEFINE m == Len(e.pending)
           first == Gapped!Result([e EXCEPT !.pending = <<>>], <<>>)
           step(x, i) == Gapped!Tried(x, e.pending[i], p)
           f == CHOOSE f : IsFill(f, first, e.pending, p, m)
<1>1. Gapped!FillPending(e, p) = f[m]
  BY DEF Gapped!FillPending, IsFill
<1>2. IsFill(f, first, e.pending, p, m)
  <2>1. \E g : IsFill(g, first, e.pending, p, m)
    BY FillExists
  <2> QED BY <2>1
<1> HIDE DEF first, step
<1>3. f = [i \in 0..m |-> IF i = 0 THEN first ELSE step(f[i - 1], i)]
  BY <1>2 DEF IsFill, step
<1> HIDE DEF f
<1>4. f[0] = first
  BY <1>3
<1>5. \A i \in 1..m : f[i] = step(f[i - 1], i)
  BY <1>3, SMTT(20)
<1> QED BY <1>1, <1>4, <1>5 DEF first, step

\* One resting order opened, after a close if there was a position.
FilledBy(e, r, x) ==
  /\ r.eng.pos = PosOf(x.order, x.order.price) /\ r.eng.fee = MakerFee * x.order.price
  /\ r.events = IF e.pos.side = "FLAT" THEN <<Opens(x.oid)>>
                ELSE <<Shuts(Closed(e, x.order.price, "SIGNAL")), Opens(x.oid)>>
\* r is where the loop is after the first m orders of e.
Fills(e, r, m) ==
  /\ r = Gapped!Result(r.eng, r.events) /\ Running(r.eng) /\ r.eng.oid = e.oid
  /\ \A k \in 1..Len(r.eng.pending) : \E j \in 1..m : r.eng.pending[k] = e.pending[j]
  /\ r.events \in Seq(Told)
  /\ \A k \in 1..Len(r.events) :
       r.events[k].opened => \E j \in 1..m : r.events[k].filledPending = e.pending[j].oid
  /\ \/ r.events = <<>> /\ r.eng.pos = e.pos /\ r.eng.fee = e.fee
     \/ \E j \in 1..m : FilledBy(e, r, e.pending[j])
     \/ OpensTwice(r.events)

LEMMA ToldIs ==
  /\ \A x \in Told : \/ ~x.opened /\ x.closed \in ClosedSet /\ x.filledPending = 0
                     \/ x.opened = TRUE /\ x.filledPending \in Nat
  /\ \A c \in ClosedSet : Shuts(c) \in Told
  /\ \A oid \in Nat : Opens(oid) \in Told
<1>1. \A c : ~Shuts(c).opened /\ Shuts(c).closed = c /\ Shuts(c).filledPending = 0
  BY EventsAre
<1>2. \A oid : Opens(oid).opened = TRUE /\ Opens(oid).filledPending = oid
  BY DEF Opens, Event5
<1> QED BY <1>1, <1>2 DEF Told

\* The order that filled is named in what it opened.
LEMMA MarkDoes ==
  ASSUME NEW e, Running(e), NEW x \in RestSet
  PROVE  LET o == x.order
             new == Holding(e, PosOf(o, o.price), MakerFee * o.price)
             r == Gapped!Marked(Gapped!ApplyMarket(e, o, o.price, "LIMIT"), x.oid) IN
         /\ o.price \in Nat /\ MakerFee * o.price \in Nat /\ PosOf(o, o.price) \in PosSet
         /\ PosOf(o, o.price).side # "FLAT" /\ Running(new)
         /\ \/ r = Gapped!Result(e, <<>>)
            \/ e.pos.side = "FLAT" /\ r = Gapped!Result(new, <<Opens(x.oid)>>)
            \/ /\ e.pos.side # "FLAT"
               /\ r = Gapped!Result(new, <<Shuts(Closed(e, o.price, "SIGNAL")), Opens(x.oid)>>)
<1> DEFINE o == x.order
           new == Holding(e, PosOf(o, o.price), MakerFee * o.price)
           a == Gapped!ApplyMarket(e, o, o.price, "LIMIT")
           r == Gapped!Marked(a, x.oid)
           c == Shuts(Closed(e, o.price, "SIGNAL"))
<1>1. o \in PlacedSet /\ o.price \in Nat
  BY DEF RestSet, PlacedSet, Level
<1>2. /\ o.price \in Nat /\ MakerFee * o.price \in Nat /\ PosOf(o, o.price) \in PosSet
      /\ PosOf(o, o.price).side # "FLAT" /\ Running(new)
      /\ \/ a = Gapped!Result(e, <<>>)
         \/ e.pos.side = "FLAT" /\ a = Gapped!Result(new, <<Opens(0)>>)
         \/ e.pos.side # "FLAT" /\ a = Gapped!Result(new, <<c, Opens(0)>>)
  <2> DEFINE type == "LIMIT"
             at == o.price
             fill == IF type = "LIMIT" THEN at ELSE Gapped!Slipped(o.side, at)
             rate == IF type = "LIMIT" THEN MakerFee ELSE TakerFee
  <2>1. type \in {"MARKET", "LIMIT"} /\ (type = "MARKET" => Slip < at) /\ at \in Nat
    BY <1>1
  <2>2. fill = o.price /\ rate = MakerFee
    OBVIOUS
  <2> HIDE DEF type, at, o
  <2>3. /\ fill \in Nat /\ rate * fill \in Nat /\ PosOf(o, fill) \in PosSet /\ PosOf(o, fill).side # "FLAT"
        /\ Running(Holding(e, PosOf(o, fill), rate * fill))
        /\ \/ Gapped!ApplyMarket(e, o, at, type) = Gapped!Result(e, <<>>)
           \/ /\ e.pos.side = "FLAT"
              /\ Gapped!ApplyMarket(e, o, at, type)
                   = Gapped!Result(Holding(e, PosOf(o, fill), rate * fill), <<Opens(0)>>)
           \/ /\ e.pos.side # "FLAT"
              /\ Gapped!ApplyMarket(e, o, at, type)
                   = Gapped!Result(Holding(e, PosOf(o, fill), rate * fill),
                                   <<Shuts(Closed(e, fill, "SIGNAL")), Opens(0)>>)
    <3>1. MarketLeaves(e, o, fill, rate, Gapped!ApplyMarket(e, o, at, type))
      BY <1>1, <2>1, MarketDoes
    <3> QED BY <3>1 DEF MarketLeaves
  <2> QED BY <2>2, <2>3 DEF type, at
<1>3. [Opens(0) EXCEPT !.filledPending = x.oid] = Opens(x.oid) /\ Opens(0).opened /\ ~c.opened
  BY EventsAre
<1>4. r = Gapped!Result(a.eng, [i \in DOMAIN a.events |->
             IF a.events[i].opened THEN [a.events[i] EXCEPT !.filledPending = x.oid] ELSE a.events[i]])
  BY DEF Gapped!Marked
<1> HIDE DEF a, r, c, new
<1>5. CASE a = Gapped!Result(e, <<>>)
  <2>1. a.eng = e /\ a.events = <<>>
    BY <1>5 DEF Gapped!Result
  <2>2. r = Gapped!Result(e, <<>>)
    BY <1>4, <2>1
  <2> QED BY <1>2, <2>2 DEF r, a, new
<1>6. CASE e.pos.side = "FLAT" /\ a = Gapped!Result(new, <<Opens(0)>>)
  <2>1. a.eng = new /\ a.events = <<Opens(0)>>
    BY <1>6 DEF Gapped!Result
  <2>2. r = Gapped!Result(new, <<Opens(x.oid)>>)
    BY <1>3, <1>4, <2>1
  <2> QED BY <1>2, <1>6, <2>2 DEF r, a, new
<1>7. CASE e.pos.side # "FLAT" /\ a = Gapped!Result(new, <<c, Opens(0)>>)
  <2>1. a.eng = new /\ a.events = <<c, Opens(0)>>
    BY <1>7 DEF Gapped!Result
  <2>2. r = Gapped!Result(new, <<c, Opens(x.oid)>>)
    BY <1>3, <1>4, <2>1
  <2> QED BY <1>2, <1>7, <2>2 DEF r, a, new, c
<1> QED BY <1>2, <1>5, <1>6, <1>7

LEMMA Twice ==
  ASSUME NEW a \in Seq(Told), NEW b \in Seq(Told)
  PROVE  /\ a \o b \in Seq(Told)
         /\ OpensTwice(a) => OpensTwice(a \o b)
         /\ (\E i \in 1..Len(a) : a[i].opened) /\ (\E i \in 1..Len(b) : b[i].opened) => OpensTwice(a \o b)
         /\ \A k \in 1..Len(a \o b) : \/ k \in 1..Len(a) /\ (a \o b)[k] = a[k]
                                      \/ k - Len(a) \in 1..Len(b) /\ (a \o b)[k] = b[k - Len(a)]
<1> DEFINE c == a \o b
<1>1. c \in Seq(Told) /\ Len(c) = Len(a) + Len(b) /\ Len(a) \in Nat /\ Len(b) \in Nat
      /\ \A i \in 1..Len(c) : c[i] = IF i <= Len(a) THEN a[i] ELSE b[i - Len(a)]
  BY ConcatProperties
<1> HIDE DEF c
<1>2. ASSUME NEW i \in 1..Len(a) PROVE i \in 1..Len(c) /\ c[i] = a[i]
  BY <1>1
<1>3. ASSUME NEW i \in 1..Len(b) PROVE i + Len(a) \in 1..Len(c) /\ c[i + Len(a)] = b[i]
  <2>1. Len(a) \in Nat /\ Len(b) \in Nat /\ i \in Nat /\ i >= 1 /\ i <= Len(b)
    BY <1>1
  <2>2. i + Len(a) \in 1..Len(c) /\ ~(i + Len(a) <= Len(a)) /\ (i + Len(a)) - Len(a) = i
    BY <1>1, <2>1
  <2> QED BY <1>1, <2>2
<1>4. OpensTwice(a) => OpensTwice(c)
  BY <1>2 DEF OpensTwice
<1>5. ASSUME NEW i \in 1..Len(a), a[i].opened, NEW j \in 1..Len(b), b[j].opened PROVE OpensTwice(c)
  <2>1. i < j + Len(a)
    BY <1>1
  <2> QED BY <1>2, <1>3, <1>5, <2>1 DEF OpensTwice
<1>6. ASSUME NEW k \in 1..Len(c)
      PROVE  \/ k \in 1..Len(a) /\ c[k] = a[k]
             \/ k - Len(a) \in 1..Len(b) /\ c[k] = b[k - Len(a)]
  BY <1>1
<1> QED BY <1>1, <1>4, <1>5, <1>6 DEF c

LEMMA TriedDoes ==
  ASSUME NEW e, Running(e), NEW p \in Nat, NEW i \in 1..Len(e.pending), NEW acc, Fills(e, acc, i - 1)
  PROVE  Fills(e, Gapped!Tried(acc, e.pending[i], p), i)
<1> DEFINE x == e.pending[i]
           t == Gapped!Tried(acc, x, p)
<1>1. e \in EngSet /\ x \in RestSet /\ Len(e.pending) \in Nat /\ i \in Nat
  BY DEF Running, EngSet
<1>2. /\ acc = Gapped!Result(acc.eng, acc.events) /\ Running(acc.eng) /\ acc.eng.oid = e.oid
      /\ acc.eng \in EngSet /\ acc.events \in Seq(Told)
  BY DEF Fills, Running
<1>3. CASE ~Gapped!Crosses(x.order, p)
  <2> DEFINE new == [acc.eng EXCEPT !.pending = Append(@, x)]
             list == acc.eng.pending
  <2>1. t = Gapped!Result(new, acc.events)
    BY <1>2, <1>3 DEF Gapped!Tried, Gapped!Result
  <2>2. list \in Seq(RestSet) /\ Len(list) \in Nat
    BY <1>2 DEF EngSet
  <2>3. /\ Append(list, x) \in Seq(RestSet) /\ Len(Append(list, x)) = Len(list) + 1
        /\ \A k \in 1..Len(list) : Append(list, x)[k] = list[k]
        /\ Append(list, x)[Len(list) + 1] = x
    BY <1>1, <2>2, AppendProperties
  <2>4. /\ new \in EngSet /\ new.pos = acc.eng.pos /\ new.fee = acc.eng.fee /\ new.oid = e.oid
        /\ new.pending = Append(list, x)
    BY <1>2, <2>3 DEF EngSet
  <2>5. \A k \in 1..Len(list) : \E j \in 1..(i - 1) : list[k] = e.pending[j]
    BY DEF Fills
  <2>6. \A k \in 1..Len(new.pending) : \E j \in 1..i : new.pending[k] = e.pending[j]
    <3> TAKE k \in 1..Len(new.pending)
    <3>1. CASE k \in 1..Len(list)
      BY <1>1, <2>3, <2>4, <2>5, <3>1
    <3>2. CASE k = Len(list) + 1
      BY <1>1, <2>3, <2>4, <3>2
    <3> QED BY <2>2, <2>3, <2>4, <3>1, <3>2
  <2>7. \A k \in 1..Len(list) : list[k].oid # x.oid
    <3> TAKE k \in 1..Len(list)
    <3>1. PICK j \in 1..(i - 1) : list[k] = e.pending[j]
      BY <2>5
    <3>2. j \in 1..Len(e.pending) /\ j # i
      BY <1>1
    <3> QED BY <3>1, <3>2 DEF Running
  <2>8. x.oid <= e.oid
    BY DEF Running
  <2> HIDE DEF new
  <2>9. \A k \in 1..Len(new.pending) : new.pending[k].oid <= new.oid
    <3> TAKE k \in 1..Len(new.pending)
    <3>1. k \in 1..Len(list) \/ k = Len(list) + 1
      BY <2>2, <2>3, <2>4
    <3> QED BY <1>2, <2>3, <2>4, <2>8, <3>1 DEF Running
  <2>10. \A k, j \in 1..Len(new.pending) : k # j => new.pending[k].oid # new.pending[j].oid
    <3> TAKE k, j \in 1..Len(new.pending)
    <3>1. /\ k \in 1..Len(list) \/ k = Len(list) + 1
          /\ j \in 1..Len(list) \/ j = Len(list) + 1
      BY <2>2, <2>3, <2>4
    <3> QED BY <1>2, <2>3, <2>4, <2>7, <3>1 DEF Running
  <2>11. Running(new)
    BY <1>2, <2>4, <2>9, <2>10 DEF Running
  <2>12. t.eng = new /\ t.events = acc.events /\ t = Gapped!Result(t.eng, t.events)
    BY <2>1 DEF Gapped!Result
  <2> HIDE DEF t
  <2>13. \A k \in 1..Len(t.events) :
           t.events[k].opened => \E j \in 1..i : t.events[k].filledPending = e.pending[j].oid
    BY <1>1, <2>12 DEF Fills
  <2>14. \/ t.events = <<>> /\ t.eng.pos = e.pos /\ t.eng.fee = e.fee
         \/ \E j \in 1..i : FilledBy(e, t, e.pending[j])
         \/ OpensTwice(t.events)
    BY <1>1, <2>4, <2>12 DEF Fills, FilledBy
  <2> QED BY <1>2, <2>4, <2>6, <2>11, <2>12, <2>13, <2>14 DEF Fills, t
<1>4. CASE Gapped!Crosses(x.order, p)
  <2> DEFINE o == x.order
             new == Holding(acc.eng, PosOf(o, o.price), MakerFee * o.price)
             r == Gapped!Marked(Gapped!ApplyMarket(acc.eng, o, o.price, "LIMIT"), x.oid)
             shut == Shuts(Closed(acc.eng, o.price, "SIGNAL"))
  <2>1. t = Gapped!Then(acc, r)
    BY <1>4 DEF Gapped!Tried
  <2>2. /\ o.price \in Nat /\ MakerFee * o.price \in Nat /\ PosOf(o, o.price) \in PosSet
        /\ PosOf(o, o.price).side # "FLAT" /\ Running(new)
        /\ \/ r = Gapped!Result(acc.eng, <<>>)
           \/ acc.eng.pos.side = "FLAT" /\ r = Gapped!Result(new, <<Opens(x.oid)>>)
           \/ acc.eng.pos.side # "FLAT" /\ r = Gapped!Result(new, <<shut, Opens(x.oid)>>)
    BY <1>1, <1>2, MarkDoes
  <2>3. /\ new.pos = PosOf(o, o.price) /\ new.fee = MakerFee * o.price
        /\ new.pending = acc.eng.pending /\ new.oid = e.oid
    <3>1. acc.eng \in EngSet /\ acc.eng.oid = e.oid
      BY <1>2 DEF Running
    <3>2. PosOf(o, o.price) \in PosSet /\ MakerFee * o.price \in Nat
      BY <2>2
    <3> HIDE DEF o
    <3> QED BY <3>1, <3>2, HoldingIs
  <2>4. t.eng = r.eng /\ t.events = acc.events \o r.events /\ t = Gapped!Result(t.eng, t.events)
    <3> HIDE DEF t, r
    <3> QED BY <2>1 DEF Gapped!Then, Gapped!Result
  <2>5. Opens(x.oid) \in Told /\ Opens(x.oid).opened /\ Opens(x.oid).filledPending = x.oid
    BY <1>1, ToldIs, EventsAre DEF RestSet
  <2>6. acc.eng.pos.side # "FLAT" => shut \in Told /\ ~shut.opened
    <3> SUFFICES ASSUME acc.eng.pos.side # "FLAT" PROVE shut \in Told /\ ~shut.opened
      OBVIOUS
    <3>1. "SIGNAL" \in Reasons
      BY DEF Reasons
    <3> HIDE DEF o
    <3>2. Closed(acc.eng, o.price, "SIGNAL") \in ClosedSet
      BY <1>2, <2>2, <3>1, ExitsAt
    <3> QED BY <3>2, ToldIs, EventsAre
  <2>14. 1..(i - 1) \subseteq 1..i /\ i \in 1..i
    BY <1>1
  <2>7. \A k \in 1..Len(acc.eng.pending) : \E j \in 1..i : acc.eng.pending[k] = e.pending[j]
    <3>1. \A k \in 1..Len(acc.eng.pending) : \E j \in 1..(i - 1) : acc.eng.pending[k] = e.pending[j]
      BY DEF Fills
    <3> HIDE DEF x
    <3> QED BY <2>14, <3>1
  <2>8. \A k \in 1..Len(acc.events) :
          acc.events[k].opened => \E j \in 1..i : acc.events[k].filledPending = e.pending[j].oid
    <3>1. \A k \in 1..Len(acc.events) :
            acc.events[k].opened => \E j \in 1..(i - 1) : acc.events[k].filledPending = e.pending[j].oid
      BY DEF Fills
    <3> QED BY <2>14, <3>1
  <2>9. \/ acc.events = <<>> /\ acc.eng.pos = e.pos /\ acc.eng.fee = e.fee
        \/ \E j \in 1..(i - 1) : FilledBy(e, acc, e.pending[j])
        \/ OpensTwice(acc.events)
    BY DEF Fills
  <2>10. CASE r = Gapped!Result(acc.eng, <<>>)
    <3>1. r.eng = acc.eng /\ r.events = <<>>
      BY <2>10 DEF Gapped!Result
    <3> HIDE DEF t, r
    <3>2. t.eng = acc.eng /\ t.events = acc.events
      BY <1>2, <2>4, <3>1, ConcatEmptySeq
    <3>3. \/ t.events = <<>> /\ t.eng.pos = e.pos /\ t.eng.fee = e.fee
          \/ \E j \in 1..i : FilledBy(e, t, e.pending[j])
          \/ OpensTwice(t.events)
      BY <1>1, <2>9, <3>2 DEF FilledBy
    <3> QED BY <1>2, <2>4, <2>7, <2>8, <3>2, <3>3 DEF Fills, t
  <2>11. ASSUME NEW b \in Seq(Told), r = Gapped!Result(new, b), NEW l \in 1..Len(b), b[l].opened,
                \A k \in 1..Len(b) : b[k].opened => b[k].filledPending = x.oid,
                acc.events = <<>> => b = IF acc.eng.pos.side = "FLAT" THEN <<Opens(x.oid)>> ELSE <<shut, Opens(x.oid)>>
         PROVE  Fills(e, t, i)
    <3>1. r.eng = new /\ r.events = b
      BY <2>11 DEF Gapped!Result
    <3> HIDE DEF t, r, new, o, shut
    <3>2. t.eng = new /\ t.events = acc.events \o b
      BY <2>4, <3>1
    <3>3. t.events \in Seq(Told) /\ (OpensTwice(acc.events) => OpensTwice(t.events))
          /\ ((\E k \in 1..Len(acc.events) : acc.events[k].opened) => OpensTwice(t.events))
      BY <1>2, <2>11, <3>2, Twice
    <3>4. \A k \in 1..Len(t.events) :
            t.events[k].opened => \E j \in 1..i : t.events[k].filledPending = e.pending[j].oid
      <4> TAKE k \in 1..Len(t.events)
      <4>1. \/ k \in 1..Len(acc.events) /\ t.events[k] = acc.events[k]
            \/ k - Len(acc.events) \in 1..Len(b) /\ t.events[k] = b[k - Len(acc.events)]
        <5> DEFINE a == acc.events
        <5>1. a \in Seq(Told)
          BY <1>2
        <5> HIDE DEF a
        <5>2. \A l1 \in 1..Len(a \o b) : \/ l1 \in 1..Len(a) /\ (a \o b)[l1] = a[l1]
                                         \/ l1 - Len(a) \in 1..Len(b) /\ (a \o b)[l1] = b[l1 - Len(a)]
          BY <2>11, <5>1, Twice
        <5> QED BY <3>2, <5>2 DEF a
      <4>2. k - Len(acc.events) \in 1..Len(b) /\ t.events[k] = b[k - Len(acc.events)] /\ t.events[k].opened
              => t.events[k].filledPending = x.oid
        BY <2>11
      <4> QED BY <2>8, <2>14, <4>1, <4>2
    <3>5. ASSUME NEW j \in 1..(i - 1), FilledBy(e, acc, e.pending[j])
          PROVE  acc.eng.pos.side # "FLAT" /\ \E k \in 1..Len(acc.events) : acc.events[k].opened
      <4> DEFINE y == e.pending[j]
      <4>1. y \in RestSet
        BY <1>1 DEF EngSet
      <4>2. acc.eng.pos.side = Gapped!Long(y.order.side)
        BY <3>5 DEF FilledBy, PosOf
      <4>3. Opens(y.oid).opened
        BY EventsAre
      <4>4. \/ acc.events = <<Opens(y.oid)>>
            \/ acc.events = <<Shuts(Closed(e, y.order.price, "SIGNAL")), Opens(y.oid)>>
        BY <3>5 DEF FilledBy
      <4>5. acc.eng.pos.side # "FLAT"
        BY <4>2 DEF Gapped!Long
      <4> HIDE DEF y
      <4>6. CASE acc.events = <<Opens(y.oid)>>
        <5>1. 1 \in 1..Len(acc.events) /\ acc.events[1] = Opens(y.oid)
          BY <4>6
        <5> QED BY <4>3, <4>5, <5>1
      <4>7. CASE acc.events = <<Shuts(Closed(e, y.order.price, "SIGNAL")), Opens(y.oid)>>
        <5>1. 2 \in 1..Len(acc.events) /\ acc.events[2] = Opens(y.oid)
          BY <4>7
        <5> QED BY <4>3, <4>5, <5>1
      <4> QED BY <4>4, <4>6, <4>7
    <3>6. ASSUME acc.events = <<>> /\ acc.eng.pos = e.pos /\ acc.eng.fee = e.fee
          PROVE  \E j \in 1..i : FilledBy(e, t, e.pending[j])
      <4>1. t.events = b
        BY <2>11, <3>2, <3>6, ConcatEmptySeq
      <4>2. Closed(acc.eng, o.price, "SIGNAL") = Closed(e, o.price, "SIGNAL")
        BY <3>6 DEF Closed
      <4>3. FilledBy(e, t, x)
        BY <2>3, <2>11, <3>2, <3>6, <4>1, <4>2 DEF FilledBy, o, shut
      <4> QED BY <2>14, <4>3
    <3>7. \/ \E j \in 1..i : FilledBy(e, t, e.pending[j])
          \/ OpensTwice(t.events)
      BY <2>9, <3>3, <3>5, <3>6
    <3> QED BY <2>2, <2>3, <2>4, <2>7, <3>2, <3>3, <3>4, <3>5, <3>7 DEF Fills
  <2>12. CASE acc.eng.pos.side = "FLAT" /\ r = Gapped!Result(new, <<Opens(x.oid)>>)
    <3> DEFINE b == <<Opens(x.oid)>>
    <3>1. b \in Seq(Told) /\ 1 \in 1..Len(b) /\ b[1].opened
          /\ \A k \in 1..Len(b) : b[k].opened => b[k].filledPending = x.oid
      BY <2>5
    <3> HIDE DEF t, r, new, shut, o, x
    <3>2. acc.events = <<>> => b = IF acc.eng.pos.side = "FLAT" THEN <<Opens(x.oid)>>
                                   ELSE <<shut, Opens(x.oid)>>
      BY <2>12
    <3>3. r = Gapped!Result(new, b)
      BY <2>12
    <3> HIDE DEF b
    <3>4. Fills(e, t, i)
      BY <2>11, <3>1, <3>2, <3>3
    <3> QED BY <3>4 DEF t, x
  <2>13. CASE acc.eng.pos.side # "FLAT" /\ r = Gapped!Result(new, <<shut, Opens(x.oid)>>)
    <3> DEFINE b == <<shut, Opens(x.oid)>>
    <3> HIDE DEF t, r, new, shut, o, x
    <3>1. b \in Seq(Told) /\ 2 \in 1..Len(b) /\ b[2].opened
          /\ \A k \in 1..Len(b) : b[k].opened => b[k].filledPending = x.oid
      BY <2>5, <2>6, <2>13
    <3>2. acc.events = <<>> => b = IF acc.eng.pos.side = "FLAT" THEN <<Opens(x.oid)>>
                                   ELSE <<shut, Opens(x.oid)>>
      BY <2>13
    <3>3. r = Gapped!Result(new, b)
      BY <2>13
    <3> HIDE DEF b
    <3>4. Fills(e, t, i)
      BY <2>11, <3>1, <3>2, <3>3
    <3> QED BY <3>4 DEF t, x
  <2> QED BY <2>2, <2>10, <2>12, <2>13
<1> QED BY <1>3, <1>4

\* The whole loop.
LEMMA FillEnds ==
  ASSUME NEW e, Running(e), NEW p \in Nat
  PROVE  Fills(e, Gapped!FillPending(e, p), Len(e.pending))
<1> DEFINE m == Len(e.pending)
           first == Gapped!Result([e EXCEPT !.pending = <<>>], <<>>)
<1>1. e \in EngSet /\ m \in Nat
  BY DEF Running, EngSet
<1>2. PICK f : /\ f[0] = first
               /\ \A i \in 1..m : f[i] = Gapped!Tried(f[i - 1], e.pending[i], p)
               /\ Gapped!FillPending(e, p) = f[m]
  BY <1>1, FillsBySteps
<1>3. Fills(e, first, 0)
  <2> DEFINE new == [e EXCEPT !.pending = <<>>]
             none == <<>>
  <2>1. none \in Seq(RestSet) /\ none \in Seq(Told) /\ Len(none) = 0 /\ none = <<>>
    OBVIOUS
  <2>2. new = [e EXCEPT !.pending = none] /\ first = Gapped!Result(new, none)
    OBVIOUS
  <2> HIDE DEF none, new, first
  <2>3. new \in EngSet /\ new.pos = e.pos /\ new.fee = e.fee /\ new.oid = e.oid /\ new.pending = none
    BY <1>1, <2>1, <2>2 DEF EngSet
  <2>4. Running(new)
    BY <2>1, <2>3 DEF Running
  <2>5. first.eng = new /\ first.events = none
    BY <2>2 DEF Gapped!Result
  <2>6. 1..Len(none) = {}
    BY <2>1
  <2>7. first = Gapped!Result(first.eng, first.events)
    BY <2>2, <2>5
  <2>8. 1..Len(first.eng.pending) = {} /\ 1..Len(first.events) = {}
    BY <2>3, <2>5, <2>6
  <2>9. first.events = <<>> /\ first.eng.pos = e.pos /\ first.eng.fee = e.fee /\ first.eng.oid = e.oid
        /\ first.events \in Seq(Told) /\ Running(first.eng)
    BY <2>1, <2>3, <2>4, <2>5
  <2> QED BY <2>7, <2>8, <2>9 DEF Fills
<1> DEFINE S == {i \in Nat : i <= m => Fills(e, f[i], i)}
<1>4. 0 \in S
  BY <1>2, <1>3
<1>5. ASSUME NEW i \in Nat, i \in S PROVE i + 1 \in S
  <2> SUFFICES ASSUME i + 1 <= m PROVE Fills(e, f[i + 1], i + 1)
    OBVIOUS
  <2> DEFINE k == i + 1
  <2>1. k \in 1..m /\ k - 1 = i
    BY <1>1
  <2>2. Fills(e, f[k - 1], k - 1)
    BY <1>1, <1>5, <2>1
  <2> HIDE DEF k
  <2>3. f[k] = Gapped!Tried(f[k - 1], e.pending[k], p)
    BY <1>2, <2>1
  <2>4. Fills(e, Gapped!Tried(f[k - 1], e.pending[k], p), k)
    BY <2>1, <2>2, TriedDoes
  <2> QED BY <2>3, <2>4 DEF k
<1>6. m \in S
  <2> HIDE DEF S
  <2> QED BY <1>1, <1>4, <1>5, FromZero
<1> QED BY <1>1, <1>2, <1>6

LEMMA SameFills ==
  ASSUME NEW e, NEW p
  PROVE  Smooth!FillPending(e, p) = Gapped!FillPending(e, p)
BY DEF Smooth!FillPending, Smooth!Tried, Smooth!Crosses, Smooth!Result, Smooth!Then, Smooth!Marked,
       Smooth!ApplyMarket, Smooth!OpenAt, Smooth!CloseAt, Smooth!Profit, Smooth!Slipped, Smooth!Long,
       Smooth!Flat, Smooth!Event, Smooth!NoClose,
       Gapped!FillPending, Gapped!Tried, Gapped!Crosses, Gapped!Result, Gapped!Then, Gapped!Marked,
       Gapped!ApplyMarket, Gapped!OpenAt, Gapped!CloseAt, Gapped!Profit, Gapped!Slipped, Gapped!Long,
       Gapped!Flat, Gapped!Event, Gapped!NoClose

\* Liquidation, SL and TP: the position is kept or closed, by a stop within the candle
\* at its level.
LEMMA TriggeredDoes ==
  ASSUME NEW e, Running(e), NEW p \in Nat, Slip < p, NEW opening \in BOOLEAN
  PROVE  LET t == IF opening THEN Gapped!Triggered(e, p) ELSE Smooth!Triggered(e, p) IN
         \/ t = Gapped!Result(e, <<>>)
         \/ /\ e.pos.side # "FLAT"
            /\ \E exit \in Nat, why \in Reasons :
                 /\ t = Gapped!CloseAt(e, exit, why)
                 /\ why = "SL" /\ ~opening => exit = Gapped!SlippedExit(e, e.pos.sl) /\ e.pos.sl # 0
<1> DEFINE t == IF opening THEN Gapped!Triggered(e, p) ELSE Smooth!Triggered(e, p)
           why == Gapped!SltpReason(e.pos, p)
           level == CASE why = "TP" -> e.pos.tp
                      [] why = "SL" -> IF opening THEN p ELSE e.pos.sl
           exit == Gapped!SlippedExit(e, level)
<1>1. e.pos \in PosSet
  BY DEF Running, EngSet
<1>2. t = IF Gapped!Liquidated(e.pos, p) THEN Gapped!CloseAt(e, p, "LIQUIDATION")
          ELSE IF why = "none" THEN Gapped!Result(e, <<>>) ELSE Gapped!CloseAt(e, exit, why)
  <2>1. CASE opening
    <3>1. why \in {"SL", "TP"} => Gapped!ExitLevel(e.pos, p, why) = level
      BY <2>1 DEF Gapped!ExitLevel
    <3>2. why \in {"SL", "TP", "none"}
      BY DEF Gapped!SltpReason
    <3>3. t = Gapped!Triggered(e, p)
      BY <2>1
    <3>4. Gapped!Triggered(e, p) = IF Gapped!Liquidated(e.pos, p) THEN Gapped!CloseAt(e, p, "LIQUIDATION")
                                   ELSE Gapped!LevelExit(e, p, why)
      BY DEF Gapped!Triggered
    <3> HIDE DEF why, level, t
    <3>5. Gapped!LevelExit(e, p, why) = IF why = "none" THEN Gapped!Result(e, <<>>)
             ELSE Gapped!CloseAt(e, Gapped!SlippedExit(e, Gapped!ExitLevel(e.pos, p, why)), why)
      BY DEF Gapped!LevelExit
    <3> QED BY <3>1, <3>2, <3>3, <3>4, <3>5
  <2>2. CASE ~opening
    BY <2>2 DEF Smooth!Triggered, Smooth!LevelExit, Smooth!ExitLevel, Smooth!Liquidated, Smooth!SltpReason,
                Smooth!CloseAt, Smooth!Result, Smooth!Event, Smooth!NoClose, Smooth!Profit, Smooth!Flat,
                Smooth!SlippedExit, Smooth!Slipped,
                Gapped!Liquidated, Gapped!SltpReason, Gapped!CloseAt, Gapped!Result, Gapped!Event,
                Gapped!NoClose, Gapped!Profit, Gapped!Flat, Gapped!SlippedExit, Gapped!Slipped
  <2> QED BY <2>1, <2>2
<1>3. Gapped!Liquidated(e.pos, p) => e.pos.side # "FLAT"
  BY DEF Gapped!Liquidated
<1>4. /\ why \in {"SL", "TP", "none"}
      /\ why # "none" => e.pos.side \in {"LONG", "SHORT"}
      /\ why = "SL" => e.pos.sl # 0
      /\ why = "TP" => e.pos.tp # 0
  BY DEF Gapped!SltpReason
<1>5. {"LIQUIDATION", "SL", "TP"} \subseteq Reasons
  BY DEF Reasons
<1>6. ASSUME why # "none" PROVE exit \in Nat
  <2>1. level \in Nat /\ Slip < level
    BY <1>1, <1>4, <1>6 DEF PosSet, Level
  <2> HIDE DEF level
  <2>2. exit = level - Slip \/ exit = level + Slip
    BY DEF Gapped!SlippedExit, Gapped!Slipped
  <2> HIDE DEF exit
  <2> QED BY <2>1, <2>2, Numbers
<1>7. why = "SL" /\ ~opening => exit = Gapped!SlippedExit(e, e.pos.sl)
  OBVIOUS
<1> HIDE DEF t, why, level, exit
<1> QED BY <1>2, <1>3, <1>4, <1>5, <1>6, <1>7 DEF t

--------------------------------------------------------------------------------
(* What an operation of the engine leaves, and what it reports *)

Idles(e, r) ==
  /\ r.eng.pos = e.pos /\ r.eng.fee = e.fee
  /\ \A i \in 1..Len(r.events) : ~r.events[i].opened /\ r.events[i].closed = Gapped!NoClose
GoesOut(e, r, exit, why) ==
  /\ e.pos.side # "FLAT" /\ r.eng.pos = Flat0 /\ r.eng.fee = 0
  /\ r.events = <<Shuts(Closed(e, exit, why))>>
GoesIn(e, r, o, at, rate, oid) ==
  /\ e.pos.side = "FLAT" /\ r.eng.pos = PosOf(o, at) /\ r.eng.fee = rate * at
  /\ r.events = <<Opens(oid)>>
Flips(e, r, o, at, rate, oid) ==
  /\ e.pos.side # "FLAT" /\ r.eng.pos = PosOf(o, at) /\ r.eng.fee = rate * at
  /\ r.events = <<Shuts(Closed(e, at, "SIGNAL")), Opens(oid)>>
\* What opened is closed again: _open finds no position.
Breaks(r) ==
  /\ r.eng.pos = Flat0 /\ Len(r.events) \in Nat
  /\ \/ Len(r.events) >= 1 /\ r.events[1].opened
     \/ /\ Len(r.events) >= 2 /\ r.events[2].opened
        /\ ~r.events[1].opened /\ r.events[1].closed.reason = "SIGNAL"
Heard(events) ==
  /\ Len(events) \in Nat
  /\ \A i \in 1..Len(events) :
       ~events[i].opened => events[i].closed = Gapped!NoClose \/ events[i].closed \in ClosedSet
Ended(e, r) ==
  /\ r = Gapped!Result(r.eng, r.events) /\ Running(r.eng) /\ Heard(r.events)
  /\ r.eng.pos.side = "FLAT" => r.eng.pos = Flat0

OnPriceAs(opening, e, p) == IF GapFillAt(opening) THEN Gapped!OnPrice(e, p) ELSE Smooth!OnPrice(e, p)
LEMMA OnPriceDoes ==
  ASSUME NEW e, Running(e), NEW p \in Nat, Slip < p, NEW opening \in BOOLEAN
  PROVE  LET r == OnPriceAs(opening, e, p) IN
         /\ Ended(e, r)
         /\ \A k \in 1..Len(r.eng.pending) :
              \E j \in 1..Len(e.pending) : r.eng.pending[k] = e.pending[j]
         /\ \A k \in 1..Len(r.events) :
              r.events[k].opened => \E j \in 1..Len(e.pending) : r.events[k].filledPending = e.pending[j].oid
         /\ \/ Idles(e, r)
            \/ \E exit \in Nat, why \in Reasons :
                 /\ GoesOut(e, r, exit, why)
                 /\ why = "SL" /\ ~opening => exit = Gapped!SlippedExit(e, e.pos.sl) /\ e.pos.sl # 0
            \/ \E j \in 1..Len(e.pending) :
                 LET x == e.pending[j] IN
                 \/ GoesIn(e, r, x.order, x.order.price, MakerFee, x.oid)
                 \/ Flips(e, r, x.order, x.order.price, MakerFee, x.oid)
            \/ Breaks(r)
            \/ OpensTwice(r.events)
<1> DEFINE r == OnPriceAs(opening, e, p)
           f == Gapped!FillPending(e, p)
           t == IF opening THEN Gapped!Triggered(f.eng, p) ELSE Smooth!Triggered(f.eng, p)
           m == Len(e.pending)
<1>1. r = Gapped!Then(f, t)
  BY SameFills DEF OnPriceAs, GapFillAt, Gapped!OnPrice, Smooth!OnPrice, Gapped!Then, Smooth!Then,
                   Gapped!Result, Smooth!Result
<1>2. Fills(e, f, m)
  BY FillEnds
<1> HIDE DEF r, f, m
<1>3. Running(f.eng) /\ f.events \in Seq(Told) /\ f = Gapped!Result(f.eng, f.events)
  BY <1>2 DEF Fills
<1>4. \/ t = Gapped!Result(f.eng, <<>>)
      \/ /\ f.eng.pos.side # "FLAT"
         /\ \E exit \in Nat, why \in Reasons :
              /\ t = Gapped!CloseAt(f.eng, exit, why)
              /\ why = "SL" /\ ~opening => exit = Gapped!SlippedExit(f.eng, f.eng.pos.sl) /\ f.eng.pos.sl # 0
  BY <1>3, TriggeredDoes
<1> HIDE DEF t
<1>5. r.eng = t.eng /\ r.events = f.events \o t.events /\ r = Gapped!Result(r.eng, r.events)
  BY <1>1 DEF Gapped!Then, Gapped!Result
<1>6. /\ \A k \in 1..Len(f.eng.pending) : \E j \in 1..m : f.eng.pending[k] = e.pending[j]
      /\ \A k \in 1..Len(f.events) :
           f.events[k].opened => \E j \in 1..m : f.events[k].filledPending = e.pending[j].oid
      /\ \/ f.events = <<>> /\ f.eng.pos = e.pos /\ f.eng.fee = e.fee
         \/ \E j \in 1..m : FilledBy(e, f, e.pending[j])
         \/ OpensTwice(f.events)
  BY <1>2 DEF Fills
<1>7. ASSUME NEW x, Running(x) PROVE x.pos.side = "FLAT" => x.pos = Flat0
  BY <1>7 DEF Running
<1>8. ASSUME NEW events \in Seq(Told) PROVE Heard(events)
  <2>1. Len(events) \in Nat
    OBVIOUS
  <2>2. ASSUME NEW i \in 1..Len(events)
        PROVE  ~events[i].opened => events[i].closed \in ClosedSet
    <3>1. events[i] \in Told
      OBVIOUS
    <3> QED BY <3>1, ToldIs
  <2> QED BY <2>1, <2>2 DEF Heard
<1>9. \A k \in 1..Len(f.events), j \in 1..m : FilledBy(e, f, e.pending[j]) =>
        \/ e.pos.side = "FLAT"
        \/ f.events = <<Shuts(Closed(e, e.pending[j].order.price, "SIGNAL")), Opens(e.pending[j].oid)>>
  BY DEF FilledBy
<1>10. CASE t = Gapped!Result(f.eng, <<>>)
  <2>1. t.eng = f.eng /\ t.events = <<>>
    BY <1>10 DEF Gapped!Result
  <2>2. r.eng = f.eng /\ r.events = f.events
    BY <1>3, <1>5, <2>1, ConcatEmptySeq
  <2>3. Ended(e, r)
    BY <1>3, <1>5, <1>7, <1>8, <2>2 DEF Ended
  <2>4. CASE f.events = <<>> /\ f.eng.pos = e.pos /\ f.eng.fee = e.fee
    <3>1. Idles(e, r)
      BY <2>2, <2>4 DEF Idles
    <3>2. /\ \A k \in 1..Len(r.eng.pending) :
               \E j \in 1..Len(e.pending) : r.eng.pending[k] = e.pending[j]
          /\ \A k \in 1..Len(r.events) :
               r.events[k].opened => \E j \in 1..Len(e.pending) : r.events[k].filledPending = e.pending[j].oid
      BY <1>6, <2>2 DEF m
    <3> QED BY <2>3, <3>1, <3>2 DEF r
  <2>5. ASSUME NEW j \in 1..m, FilledBy(e, f, e.pending[j])
        PROVE  LET x == e.pending[j] IN
               \/ GoesIn(e, r, x.order, x.order.price, MakerFee, x.oid)
               \/ Flips(e, r, x.order, x.order.price, MakerFee, x.oid)
    BY <2>2, <2>5 DEF FilledBy, GoesIn, Flips
  <2> QED BY <1>6, <2>2, <2>3, <2>4, <2>5 DEF r, m
<1>11. CASE /\ f.eng.pos.side # "FLAT"
            /\ \E exit \in Nat, why \in Reasons :
                 /\ t = Gapped!CloseAt(f.eng, exit, why)
                 /\ why = "SL" /\ ~opening => exit = Gapped!SlippedExit(f.eng, f.eng.pos.sl) /\ f.eng.pos.sl # 0
  <2>1. PICK exit \in Nat, why \in Reasons :
               /\ t = Gapped!CloseAt(f.eng, exit, why)
               /\ why = "SL" /\ ~opening => exit = Gapped!SlippedExit(f.eng, f.eng.pos.sl) /\ f.eng.pos.sl # 0
    BY <1>11
  <2> DEFINE c == Closed(f.eng, exit, why)
             h == Holding(f.eng, Flat0, 0)
             b == <<Shuts(c)>>
  <2>2. c \in ClosedSet /\ t = Gapped!Result(h, b) /\ Running(h)
    BY <1>3, <1>11, <2>1, ExitsAt
  <2>3. Shuts(c) \in Told /\ ~Shuts(c).opened
    BY <2>2, ToldIs, EventsAre
  <2>4. h.pos = Flat0 /\ h.fee = 0 /\ h.pending = f.eng.pending
    <3> DEFINE zero == 0
    <3>1. f.eng \in EngSet /\ zero \in Nat /\ zero = 0
      BY <1>3 DEF Running
    <3>2. Flat0 \in PosSet
      BY Numbers DEF Flat0, Gapped!Flat, PosSet, Level, Sides
    <3> HIDE DEF zero
    <3>3. Holding(f.eng, Flat0, zero).pos = Flat0 /\ Holding(f.eng, Flat0, zero).fee = zero
          /\ Holding(f.eng, Flat0, zero).pending = f.eng.pending
      BY <3>1, <3>2, HoldingIs
    <3> QED BY <3>1, <3>3
  <2>5. b \in Seq(Told) /\ Len(b) = 1 /\ b[1] = Shuts(c)
    BY <2>3
  <2> HIDE DEF h, b
  <2>6. t.eng = h /\ t.events = b
    BY <2>2 DEF Gapped!Result
  <2>7. r.eng = h /\ r.events = f.events \o b
    BY <1>5, <2>6
  <2>8. r.events \in Seq(Told) /\ (OpensTwice(f.events) => OpensTwice(r.events))
    BY <1>3, <2>5, <2>7, Twice
  <2>9. \A k \in 1..Len(r.events) : \/ k \in 1..Len(f.events) /\ r.events[k] = f.events[k]
                                    \/ k - Len(f.events) \in 1..Len(b) /\ r.events[k] = b[k - Len(f.events)]
    <3> DEFINE a == f.events
    <3>1. a \in Seq(Told)
      BY <1>3
    <3> HIDE DEF a
    <3>2. \A k \in 1..Len(a \o b) : \/ k \in 1..Len(a) /\ (a \o b)[k] = a[k]
                                    \/ k - Len(a) \in 1..Len(b) /\ (a \o b)[k] = b[k - Len(a)]
      BY <2>5, <3>1, Twice
    <3> QED BY <2>7, <3>2 DEF a
  <2>10. \A k \in 1..Len(f.events) : k \in 1..Len(r.events) /\ r.events[k] = f.events[k]
    BY <1>3, <2>5, <2>7, ConcatProperties
  <2>11. \A k \in 1..Len(r.events) : r.events[k].opened => k \in 1..Len(f.events) /\ r.events[k] = f.events[k]
    BY <2>3, <2>5, <2>9
  <2>12. Ended(e, r)
    BY <1>5, <1>7, <1>8, <2>2, <2>7, <2>8 DEF Ended
  <2>13. /\ \A k \in 1..Len(r.eng.pending) : \E j \in 1..m : r.eng.pending[k] = e.pending[j]
         /\ \A k \in 1..Len(r.events) :
              r.events[k].opened => \E j \in 1..m : r.events[k].filledPending = e.pending[j].oid
    BY <1>6, <2>4, <2>7, <2>11
  <2>14. CASE f.events = <<>> /\ f.eng.pos = e.pos /\ f.eng.fee = e.fee
    <3>1. r.events = b
      BY <2>5, <2>7, <2>14, ConcatEmptySeq
    <3>2. c = Closed(e, exit, why)
      BY <2>14 DEF Closed
    <3>3. GoesOut(e, r, exit, why)
      BY <1>11, <2>4, <2>7, <2>14, <3>1, <3>2 DEF GoesOut, b
    <3>4. why = "SL" /\ ~opening => exit = Gapped!SlippedExit(e, e.pos.sl) /\ e.pos.sl # 0
      BY <2>1, <2>14 DEF Gapped!SlippedExit
    <3> QED BY <2>12, <2>13, <3>3, <3>4 DEF r, m
  <2>15. ASSUME NEW j \in 1..m, FilledBy(e, f, e.pending[j]) PROVE Breaks(r)
    <3> DEFINE y == e.pending[j]
    <3>1. Opens(y.oid).opened
      BY EventsAre
    <3>2. \/ Len(f.events) >= 1 /\ f.events[1].opened
          \/ /\ Len(f.events) >= 2 /\ f.events[2].opened
             /\ ~f.events[1].opened /\ f.events[1].closed.reason = "SIGNAL"
      <4> DEFINE out == Closed(e, y.order.price, "SIGNAL")
      <4>1. \/ f.events = <<Opens(y.oid)>>
            \/ f.events = <<Shuts(out), Opens(y.oid)>>
        BY <2>15 DEF FilledBy
      <4>2. ~Shuts(out).opened /\ Shuts(out).closed = out
        BY EventsAre
      <4>3. out.reason = "SIGNAL"
        BY DEF Closed
      <4> HIDE DEF y, out
      <4>4. CASE f.events = <<Opens(y.oid)>>
        <5>1. Len(f.events) = 1 /\ f.events[1] = Opens(y.oid)
          BY <4>4
        <5> QED BY <3>1, <5>1
      <4>5. CASE f.events = <<Shuts(out), Opens(y.oid)>>
        <5>1. Len(f.events) = 2 /\ f.events[1] = Shuts(out) /\ f.events[2] = Opens(y.oid)
          BY <4>5
        <5> QED BY <3>1, <4>2, <4>3, <5>1
      <4> QED BY <4>1, <4>4, <4>5
    <3>3. Len(f.events) \in Nat /\ Len(r.events) \in Nat /\ Len(f.events) <= Len(r.events)
      BY <1>3, <2>5, <2>7, ConcatProperties
    <3>4. /\ Len(f.events) >= 1 => r.events[1] = f.events[1]
          /\ Len(f.events) >= 2 => r.events[2] = f.events[2]
      BY <2>10, <3>3
    <3> QED BY <2>4, <2>7, <3>2, <3>3, <3>4 DEF Breaks
  <2> QED BY <1>6, <2>8, <2>12, <2>13, <2>14, <2>15 DEF r, m
<1> QED BY <1>4, <1>10, <1>11

\* What rests of old's orders, no others.
RestsOf(old, new) == \A k \in 1..Len(new) : \E j \in 1..Len(old) : new[k] = old[j]

LEMMA NothingDone ==
  ASSUME NEW e, Running(e)
  PROVE  LET r == Gapped!Result(e, <<>>) IN
         Ended(e, r) /\ Idles(e, r) /\ RestsOf(e.pending, r.eng.pending) /\ r.events = <<>>
<1> DEFINE r == Gapped!Result(e, <<>>)
<1>1. r.eng = e /\ r.events = <<>> /\ r = Gapped!Result(r.eng, r.events)
  BY DEF Gapped!Result
<1>2. Len(r.events) \in Nat /\ 1..Len(r.events) = {}
  BY <1>1
<1> HIDE DEF r
<1>3. Ended(e, r) /\ Idles(e, r) /\ RestsOf(e.pending, r.eng.pending)
  BY <1>1, <1>2 DEF Ended, Idles, Heard, Running, RestsOf
<1> QED BY <1>1, <1>3 DEF r

\* One close.
LEMMA OutDoes ==
  ASSUME NEW e, Running(e), e.pos.side # "FLAT", NEW exit \in Nat, NEW why \in Reasons
  PROVE  LET r == Gapped!CloseAt(e, exit, why) IN
         Ended(e, r) /\ GoesOut(e, r, exit, why) /\ RestsOf(e.pending, r.eng.pending)
         /\ \A i \in 1..Len(r.events) : ~r.events[i].opened
<1> DEFINE r == Gapped!CloseAt(e, exit, why)
           zero == 0
           h == Holding(e, Flat0, zero)
           c == Closed(e, exit, why)
           b == <<Shuts(c)>>
<1>1. c \in ClosedSet /\ r = Gapped!Result(Holding(e, Flat0, 0), b) /\ Running(Holding(e, Flat0, 0))
  BY ExitsAt
<1>2. e \in EngSet /\ Flat0 \in PosSet /\ zero = 0 /\ zero \in Nat
  BY Numbers DEF Running, Flat0, Gapped!Flat, PosSet, Level, Sides
<1>3. ~Shuts(c).opened /\ Shuts(c).closed = c
  BY EventsAre
<1> HIDE DEF zero, c
<1>4. h.pos = Flat0 /\ h.fee = zero /\ h.pending = e.pending
  BY <1>2, HoldingIs
<1>5. Len(b) = 1 /\ Len(b) \in Nat /\ \A i \in 1..Len(b) : b[i] = Shuts(c)
  OBVIOUS
<1>6. h = Holding(e, Flat0, 0)
  BY <1>2
<1> HIDE DEF h, r, b
<1>7. r.eng = h /\ r.events = b /\ r = Gapped!Result(r.eng, r.events)
  BY <1>1, <1>6 DEF Gapped!Result
<1>8. Ended(e, r)
  BY <1>1, <1>3, <1>4, <1>5, <1>6, <1>7 DEF Ended, Heard
<1>9. RestsOf(e.pending, r.eng.pending)
  BY <1>4, <1>7 DEF RestsOf
<1>10. \A i \in 1..Len(r.events) : ~r.events[i].opened
  BY <1>3, <1>5, <1>7
<1>11. GoesOut(e, r, exit, why)
  BY <1>2, <1>4, <1>7 DEF GoesOut, b, c
<1> QED BY <1>8, <1>9, <1>10, <1>11 DEF r

LEMMA CancelDoes ==
  ASSUME NEW e, Running(e), NEW o, o.action = "CANCEL", NEW price
  PROVE  LET r == Gapped!Submit(e, o, price) IN
         Ended(e, r) /\ Idles(e, r) /\ RestsOf(e.pending, r.eng.pending)
<1> DEFINE r == Gapped!Submit(e, o, price)
           told == [i \in DOMAIN e.pending |-> e.pending[i].oid]
           ev == [Gapped!Event EXCEPT !.cancelled = told]
           none == <<>>
           new == [e EXCEPT !.pending = none]
<1>1. r = IF e.pending = <<>> THEN Gapped!Result(e, <<>>) ELSE Gapped!Result(new, <<ev>>)
  BY DEF Gapped!Submit, Gapped!CancelAll
<1>2. CASE e.pending = <<>>
  BY <1>1, <1>2, NothingDone
<1>3. CASE e.pending # <<>>
  <2>1. e \in EngSet
    BY DEF Running
  <2>2. none \in Seq(RestSet) /\ Len(none) = 0 /\ 1..Len(none) = {}
    OBVIOUS
  <2>3. ~ev.opened /\ ev.closed = Gapped!NoClose
    <3> HIDE DEF told
    <3> QED BY DEF Gapped!Event
  <2> HIDE DEF none, ev
  <2>4. new \in EngSet /\ new.pos = e.pos /\ new.fee = e.fee /\ new.oid = e.oid /\ new.pending = none
    BY <2>1, <2>2 DEF EngSet
  <2> HIDE DEF new
  <2>5. Running(new)
    BY <2>2, <2>4 DEF Running
  <2>6. r = Gapped!Result(new, <<ev>>)
    BY <1>1, <1>3
  <2> HIDE DEF r
  <2>7. r.eng = new /\ r.events = <<ev>> /\ r = Gapped!Result(r.eng, r.events)
    BY <2>6 DEF Gapped!Result
  <2>8. Len(r.events) \in Nat /\ \A i \in 1..Len(r.events) : r.events[i] = ev
    BY <2>7
  <2>9. Ended(e, r) /\ Idles(e, r) /\ RestsOf(e.pending, r.eng.pending)
    BY <2>2, <2>3, <2>4, <2>5, <2>7, <2>8 DEF Ended, Heard, Idles, Running, RestsOf
  <2> QED BY <2>9 DEF r
<1> QED BY <1>2, <1>3

LEMMA CloseDoes ==
  ASSUME NEW e, Running(e), NEW o, o.action = "CLOSE", NEW price \in Nat
  PROVE  LET r == Gapped!Submit(e, o, price) IN
         /\ Ended(e, r) /\ RestsOf(e.pending, r.eng.pending)
         /\ Idles(e, r) \/ GoesOut(e, r, price, "SIGNAL")
         /\ \A i \in 1..Len(r.events) : ~r.events[i].opened
<1> DEFINE r == Gapped!Submit(e, o, price)
<1>1. r = IF e.pos = Flat0 THEN Gapped!Result(e, <<>>) ELSE Gapped!CloseAt(e, price, "SIGNAL")
  BY DEF Gapped!Submit, Flat0
<1>2. e.pos # Flat0 => e.pos.side # "FLAT"
  BY DEF Running
<1>3. "SIGNAL" \in Reasons
  BY DEF Reasons
<1> HIDE DEF r
<1>4. CASE e.pos = Flat0
  <2>1. r = Gapped!Result(e, <<>>)
    BY <1>1, <1>4
  <2>2. Ended(e, r) /\ Idles(e, r) /\ RestsOf(e.pending, r.eng.pending) /\ r.events = <<>>
    BY <2>1, NothingDone
  <2>3. 1..Len(r.events) = {}
    BY <2>2
  <2> QED BY <2>2, <2>3 DEF r
<1>5. CASE e.pos # Flat0
  <2>1. r = Gapped!CloseAt(e, price, "SIGNAL")
    BY <1>1, <1>5
  <2>2. /\ Ended(e, r) /\ GoesOut(e, r, price, "SIGNAL") /\ RestsOf(e.pending, r.eng.pending)
        /\ \A i \in 1..Len(r.events) : ~r.events[i].opened
    BY <1>2, <1>3, <1>5, <2>1, OutDoes
  <2> QED BY <2>2 DEF r
<1> QED BY <1>4, <1>5

LEMMA ForceDoes ==
  ASSUME NEW e, Running(e), NEW price \in Nat, Slip < price
  PROVE  LET r == Gapped!ForceClose(e, price) IN
         /\ Ended(e, r) /\ RestsOf(e.pending, r.eng.pending)
         /\ Idles(e, r) \/ \E exit \in Nat : GoesOut(e, r, exit, "MANUAL")
         /\ \A i \in 1..Len(r.events) : ~r.events[i].opened
         /\ e.pos.side # "FLAT" => r.eng.pos = Flat0
<1> DEFINE r == Gapped!ForceClose(e, price)
           exit == Gapped!SlippedExit(e, price)
<1>1. r = IF e.pos = Flat0 THEN Gapped!Result(e, <<>>) ELSE Gapped!CloseAt(e, exit, "MANUAL")
  BY DEF Gapped!ForceClose, Flat0
<1>2. e.pos # Flat0 => e.pos.side # "FLAT"
  BY DEF Running
<1>3. "MANUAL" \in Reasons
  BY DEF Reasons
<1>4. exit \in Nat
  BY Numbers DEF Gapped!SlippedExit, Gapped!Slipped
<1> HIDE DEF r, exit
<1>5. CASE e.pos = Flat0
  <2>1. r = Gapped!Result(e, <<>>)
    BY <1>1, <1>5
  <2>2. Ended(e, r) /\ Idles(e, r) /\ RestsOf(e.pending, r.eng.pending) /\ r.events = <<>>
    BY <2>1, NothingDone
  <2>3. 1..Len(r.events) = {}
    BY <2>2
  <2>4. e.pos.side = "FLAT"
    BY <1>5 DEF Flat0, Gapped!Flat
  <2> QED BY <2>2, <2>3, <2>4 DEF r
<1>6. CASE e.pos # Flat0
  <2>1. r = Gapped!CloseAt(e, exit, "MANUAL")
    BY <1>1, <1>6
  <2>2. /\ Ended(e, r) /\ GoesOut(e, r, exit, "MANUAL") /\ RestsOf(e.pending, r.eng.pending)
        /\ \A i \in 1..Len(r.events) : ~r.events[i].opened
    BY <1>2, <1>3, <1>4, <1>6, <2>1, OutDoes
  <2>3. r.eng.pos = Flat0
    BY <2>2 DEF GoesOut
  <2> QED BY <1>4, <2>2, <2>3 DEF r
<1> QED BY <1>5, <1>6

LEMMA LimitDoes ==
  ASSUME NEW e, Running(e), NEW o \in PlacedSet, o.action = "LIMIT", o.price # 0, NEW price
  PROVE  LET r == Gapped!Submit(e, o, price)
             rest == [oid |-> e.oid + 1, order |-> o] IN
         /\ Ended(e, r) /\ Idles(e, r)
         /\ \A k \in 1..Len(r.eng.pending) :
              r.eng.pending[k].order = o \/ \E j \in 1..Len(e.pending) : r.eng.pending[k] = e.pending[j]
<1> DEFINE r == Gapped!Submit(e, o, price)
           id == e.oid + 1
           x == [oid |-> id, order |-> o]
           list == e.pending
           new == [e EXCEPT !.oid = id, !.pending = Append(list, x)]
           ev == [Gapped!Event EXCEPT !.queued = id]
<1>1. r = Gapped!Result(new, <<ev>>)
  BY DEF Gapped!Submit, Gapped!Queue
<1>2. e \in EngSet /\ list \in Seq(RestSet) /\ Len(list) \in Nat /\ e.oid \in Nat
  BY DEF Running, EngSet
<1>3. id \in Nat \ {0}
  BY <1>2
<1>4. x \in RestSet /\ x.order = o /\ x.oid = id
  BY <1>3 DEF RestSet
<1>5. ~ev.opened /\ ev.closed = Gapped!NoClose
  BY DEF Gapped!Event
<1> HIDE DEF x, ev
<1>6. /\ Append(list, x) \in Seq(RestSet) /\ Len(Append(list, x)) = Len(list) + 1
      /\ \A k \in 1..Len(list) : Append(list, x)[k] = list[k]
      /\ Append(list, x)[Len(list) + 1] = x
  BY <1>2, <1>4, AppendProperties
<1>7. /\ new \in EngSet /\ new.pos = e.pos /\ new.fee = e.fee /\ new.oid = id
      /\ new.pending = Append(list, x)
  BY <1>2, <1>3, <1>6 DEF EngSet
<1> HIDE DEF new
<1>8. ASSUME NEW k \in 1..Len(new.pending)
      PROVE  \/ k \in 1..Len(list) /\ new.pending[k] = list[k] /\ new.pending[k].oid < id
             \/ k = Len(list) + 1 /\ new.pending[k] = x /\ new.pending[k].oid = id
  <2>1. k \in 1..Len(list) \/ k = Len(list) + 1
    BY <1>2, <1>6, <1>7
  <2>2. CASE k \in 1..Len(list)
    <3>1. new.pending[k] = list[k] /\ list[k] \in RestSet
      BY <1>2, <1>6, <1>7, <2>2
    <3>2. list[k].oid <= e.oid /\ list[k].oid \in Nat
      BY <2>2, <3>1 DEF Running, RestSet
    <3> QED BY <1>2, <2>2, <3>1, <3>2
  <2>3. CASE k = Len(list) + 1
    BY <1>4, <1>6, <1>7, <2>3
  <2> QED BY <2>1, <2>2, <2>3
<1>9. Running(new)
  <2>1. \A k \in 1..Len(new.pending) : new.pending[k].oid <= new.oid
    <3> TAKE k \in 1..Len(new.pending)
    <3>1. new.pending[k] \in RestSet
      BY <1>6, <1>7
    <3> QED BY <1>3, <1>7, <1>8, <3>1 DEF RestSet
  <2>2. \A k, j \in 1..Len(new.pending) : k # j => new.pending[k].oid # new.pending[j].oid
    <3> SUFFICES ASSUME NEW k \in 1..Len(new.pending), NEW j \in 1..Len(new.pending), k # j
                 PROVE  new.pending[k].oid # new.pending[j].oid
      OBVIOUS
    <3>1. k \in 1..Len(list) /\ j \in 1..Len(list) => list[k].oid # list[j].oid
      BY DEF Running
    <3>2. /\ new.pending[k] \in RestSet /\ new.pending[j] \in RestSet
      BY <1>6, <1>7
    <3>3. new.pending[k].oid \in Nat /\ new.pending[j].oid \in Nat
      BY <3>2 DEF RestSet
    <3>4. \/ k \in 1..Len(list) /\ new.pending[k] = list[k] /\ new.pending[k].oid < id
          \/ k = Len(list) + 1 /\ new.pending[k].oid = id
      BY <1>8
    <3>5. \/ j \in 1..Len(list) /\ new.pending[j] = list[j] /\ new.pending[j].oid < id
          \/ j = Len(list) + 1 /\ new.pending[j].oid = id
      BY <1>8
    <3> HIDE DEF id, list
    <3> QED BY <1>3, <3>1, <3>3, <3>4, <3>5
  <2> QED BY <1>7, <2>1, <2>2 DEF Running
<1> HIDE DEF r
<1>10. r.eng = new /\ r.events = <<ev>> /\ r = Gapped!Result(r.eng, r.events)
  BY <1>1 DEF Gapped!Result
<1>11. Len(r.events) \in Nat /\ \A i \in 1..Len(r.events) : r.events[i] = ev
  BY <1>10
<1>12. Ended(e, r) /\ Idles(e, r)
  BY <1>5, <1>7, <1>9, <1>10, <1>11 DEF Ended, Heard, Idles, Running
<1>13. \A k \in 1..Len(r.eng.pending) :
         r.eng.pending[k].order = o \/ \E j \in 1..Len(list) : r.eng.pending[k] = list[j]
  BY <1>4, <1>8, <1>10
<1> QED BY <1>12, <1>13 DEF r

LEMMA MarketSubmits ==
  ASSUME NEW e, Running(e), NEW o \in PlacedSet, o.action = "MARKET", NEW price \in Nat, Slip < price
  PROVE  LET r == Gapped!Submit(e, o, price)
             fill == Gapped!Slipped(o.side, price) IN
         /\ fill \in Nat
         /\ Ended(e, r) /\ RestsOf(e.pending, r.eng.pending)
         /\ \/ Idles(e, r)
            \/ GoesIn(e, r, o, fill, TakerFee, 0)
            \/ Flips(e, r, o, fill, TakerFee, 0)
         /\ \A i \in 1..Len(r.events) : r.events[i].opened => r.events[i].filledPending = 0
<1> DEFINE r == Gapped!Submit(e, o, price)
           type == "MARKET"
           fill == IF type = "LIMIT" THEN price ELSE Gapped!Slipped(o.side, price)
           rate == IF type = "LIMIT" THEN MakerFee ELSE TakerFee
           new == Holding(e, PosOf(o, fill), rate * fill)
           shut == Shuts(Closed(e, fill, "SIGNAL"))
<1>1. r = Gapped!ApplyMarket(e, o, price, type)
  BY DEF Gapped!Submit
<1>2. type \in {"MARKET", "LIMIT"} /\ (type = "MARKET" => Slip < price)
  OBVIOUS
<1>3. fill = Gapped!Slipped(o.side, price) /\ rate = TakerFee
  OBVIOUS
<1> HIDE DEF r, type
<1>4. /\ fill \in Nat /\ rate * fill \in Nat /\ PosOf(o, fill) \in PosSet /\ PosOf(o, fill).side # "FLAT"
      /\ Running(new)
      /\ \/ r = Gapped!Result(e, <<>>)
         \/ e.pos.side = "FLAT" /\ r = Gapped!Result(new, <<Opens(0)>>)
         \/ e.pos.side # "FLAT" /\ r = Gapped!Result(new, <<shut, Opens(0)>>)
  <2>1. /\ fill \in Nat /\ rate * fill \in Nat /\ PosOf(o, fill) \in PosSet /\ PosOf(o, fill).side # "FLAT"
        /\ Running(Holding(e, PosOf(o, fill), rate * fill))
        /\ \/ Gapped!ApplyMarket(e, o, price, type) = Gapped!Result(e, <<>>)
           \/ /\ e.pos.side = "FLAT"
              /\ Gapped!ApplyMarket(e, o, price, type)
                   = Gapped!Result(Holding(e, PosOf(o, fill), rate * fill), <<Opens(0)>>)
           \/ /\ e.pos.side # "FLAT"
              /\ Gapped!ApplyMarket(e, o, price, type)
                   = Gapped!Result(Holding(e, PosOf(o, fill), rate * fill),
                                   <<Shuts(Closed(e, fill, "SIGNAL")), Opens(0)>>)
    <3>1. MarketLeaves(e, o, fill, rate, Gapped!ApplyMarket(e, o, price, type))
      BY <1>2, MarketDoes
    <3> QED BY <3>1 DEF MarketLeaves
  <2> QED BY <1>1, <2>1
<1>5. e \in EngSet
  BY DEF Running
<1> HIDE DEF fill, rate
<1>6. new.pos = PosOf(o, fill) /\ new.fee = rate * fill /\ new.pending = e.pending
  BY <1>4, <1>5, HoldingIs
<1>7. /\ Opens(0).opened /\ Opens(0).filledPending = 0 /\ ~shut.opened
      /\ e.pos.side # "FLAT" => shut.closed \in ClosedSet
  <2>1. "SIGNAL" \in Reasons
    BY DEF Reasons
  <2>2. e.pos.side # "FLAT" => Closed(e, fill, "SIGNAL") \in ClosedSet
    BY <1>4, <2>1, ExitsAt
  <2> QED BY <2>2, EventsAre
<1> HIDE DEF new, shut
<1>8. CASE r = Gapped!Result(e, <<>>)
  <2>1. Ended(e, r) /\ Idles(e, r) /\ RestsOf(e.pending, r.eng.pending) /\ r.events = <<>>
    BY <1>8, NothingDone
  <2>2. 1..Len(r.events) = {}
    BY <2>1
  <2> QED BY <1>3, <1>4, <2>1, <2>2 DEF r
<1>9. CASE e.pos.side = "FLAT" /\ r = Gapped!Result(new, <<Opens(0)>>)
  <2>1. r.eng = new /\ r.events = <<Opens(0)>> /\ r = Gapped!Result(r.eng, r.events)
    BY <1>9 DEF Gapped!Result
  <2>2. Len(r.events) \in Nat /\ \A i \in 1..Len(r.events) : r.events[i] = Opens(0)
    BY <2>1
  <2>3. Ended(e, r)
    BY <1>4, <1>6, <1>7, <2>1, <2>2 DEF Ended, Heard
  <2>4. GoesIn(e, r, o, fill, rate, 0)
    BY <1>6, <1>9, <2>1 DEF GoesIn
  <2>5. RestsOf(e.pending, r.eng.pending)
    BY <1>6, <2>1 DEF RestsOf
  <2> QED BY <1>3, <1>4, <1>7, <2>2, <2>3, <2>4, <2>5 DEF r
<1>10. CASE e.pos.side # "FLAT" /\ r = Gapped!Result(new, <<shut, Opens(0)>>)
  <2>1. r.eng = new /\ r.events = <<shut, Opens(0)>> /\ r = Gapped!Result(r.eng, r.events)
    BY <1>10 DEF Gapped!Result
  <2>2. Len(r.events) \in Nat /\ \A i \in 1..Len(r.events) : r.events[i] = Opens(0) \/ r.events[i] = shut
    BY <2>1
  <2>3. Ended(e, r)
    BY <1>4, <1>6, <1>7, <1>10, <2>1, <2>2 DEF Ended, Heard
  <2>4. Flips(e, r, o, fill, rate, 0)
    BY <1>6, <1>10, <2>1 DEF Flips, shut
  <2>5. RestsOf(e.pending, r.eng.pending)
    BY <1>6, <2>1 DEF RestsOf
  <2> QED BY <1>3, <1>4, <1>7, <2>2, <2>3, <2>4, <2>5 DEF r
<1> QED BY <1>4, <1>8, <1>9, <1>10

--------------------------------------------------------------------------------
(* The books *)

TypeSet == {"none", "MARKET", "LIMIT"}
TradeSet == [entryTs : Int, entry : Nat, sl : Nat, qty : Nat, type : TypeSet, target : Int]
LastSet == [pnl : Int, fee : Nat, qty : Nat, reason : Reasons \cup {"none", "END"}, gap : BOOLEAN,
            type : TypeSet, target : Int]
SimSet == [eng : EngSet, qty : Nat, balance : Int, peak : Int, day : Int, dayStart : Int, realized : Int,
           haltedUntil : Int, ddHalt : Int, liquidated : BOOLEAN, open : TradeSet, fees : Int,
           trades : Nat, pnl : Int, tradeFees : Int, last : LastSet, failed : BOOLEAN, twice : BOOLEAN]

LastOf(s, c, q, gap) ==
  [pnl |-> Scale * q * c.gross - q * c.exitFee - q * c.entryFee, fee |-> q * (c.entryFee + c.exitFee), qty |-> q,
   reason |-> c.reason, gap |-> gap, type |-> s.open.type, target |-> s.open.target]
LEMMA CloseTradeIs ==
  ASSUME NEW s \in SimSet, NEW c \in ClosedSet, NEW q \in Nat, NEW ts \in Int, NEW gap \in BOOLEAN
  PROVE  LET t == CloseTrade(s, c, q, ts, gap)
             net == Scale * q * c.gross - q * c.exitFee IN
         /\ t \in SimSet
         /\ t.eng = s.eng /\ t.qty = s.qty /\ t.peak = s.peak /\ t.day = s.day /\ t.dayStart = s.dayStart
         /\ t.haltedUntil = s.haltedUntil /\ t.ddHalt = s.ddHalt /\ t.failed = s.failed /\ t.twice = s.twice
         /\ s.liquidated => t.liquidated
         /\ t.open = NoTrade /\ t.last = LastOf(s, c, q, gap)
         /\ t.balance = s.balance + net
         /\ t.pnl = s.pnl + (net - q * c.entryFee)
         /\ t.fees = s.fees + q * c.exitFee
         /\ t.tradeFees = s.tradeFees + q * (c.entryFee + c.exitFee)
         /\ t.trades = s.trades + 1
<1> DEFINE net == Scale * q * c.gross - q * c.exitFee
           pnl == net - q * c.entryFee
           fee == q * (c.entryFee + c.exitFee)
           exitFee == q * c.exitFee
           last == LastOf(s, c, q, gap)
           none == NoTrade
           broke == s.liquidated \/ s.balance + net <= 0
           t == CloseTrade(s, c, q, ts, gap)
<1>1. net \in Int /\ pnl \in Int /\ fee \in Nat /\ exitFee \in Nat
  BY Numbers DEF ClosedSet
<1>2. last \in LastSet
  <2>1. s.open.type \in TypeSet /\ s.open.target \in Int /\ c.reason \in Reasons \cup {"none", "END"}
    BY DEF SimSet, TradeSet, ClosedSet
  <2>2. last = [pnl |-> pnl, fee |-> fee, qty |-> q, reason |-> c.reason, gap |-> gap, type |-> s.open.type,
                target |-> s.open.target]
    BY DEF LastOf
  <2> HIDE DEF pnl, fee, last
  <2> QED BY <1>1, <2>1, <2>2 DEF LastSet
<1>3. none \in TradeSet
  BY DEF NoTrade, TradeSet, Never, TypeSet
<1>4. t = [s EXCEPT !.balance = @ + net, !.realized = @ + net, !.fees = @ + exitFee,
                    !.trades = @ + 1, !.pnl = @ + pnl, !.tradeFees = @ + fee,
                    !.last = last, !.open = none, !.liquidated = broke]
  BY DEF CloseTrade, LastOf
<1>9. broke \in BOOLEAN /\ (s.liquidated => broke)
  OBVIOUS
<1> HIDE DEF net, pnl, fee, exitFee, last, none, broke, t
<1>5. t \in SimSet
  <2>1. /\ s.balance + net \in Int /\ s.realized + net \in Int /\ s.fees + exitFee \in Int
        /\ s.trades + 1 \in Nat /\ s.pnl + pnl \in Int /\ s.tradeFees + fee \in Int
    BY <1>1 DEF SimSet
  <2> QED BY <1>2, <1>3, <1>4, <1>9, <2>1 DEF SimSet
<1>6. /\ t.eng = s.eng /\ t.qty = s.qty /\ t.peak = s.peak /\ t.day = s.day /\ t.dayStart = s.dayStart
      /\ t.haltedUntil = s.haltedUntil /\ t.ddHalt = s.ddHalt /\ t.failed = s.failed /\ t.twice = s.twice
  BY <1>4 DEF SimSet
<1>7. s.liquidated => t.liquidated
  BY <1>4, <1>9 DEF SimSet
<1>8. t.open = none /\ t.last = last /\ t.balance = s.balance + net /\ t.pnl = s.pnl + pnl
      /\ t.fees = s.fees + exitFee /\ t.tradeFees = s.tradeFees + fee /\ t.trades = s.trades + 1
  BY <1>4 DEF SimSet
<1> QED BY <1>5, <1>6, <1>7, <1>8 DEF net, pnl, fee, exitFee, last, none, t

OpenedAs(pos, order, q, ts) ==
  [entryTs |-> ts, entry |-> pos.entry, sl |-> pos.sl, qty |-> q, type |-> order.action, target |-> order.target]
LEMMA OpenTradeIs ==
  ASSUME NEW s \in SimSet, s.eng.pos.side # "FLAT", NEW o \in PlacedSet, NEW ts \in Int
  PROVE  LET t == OpenTrade(s, o, ts)
             fee == s.qty * s.eng.fee IN
         /\ t \in SimSet
         /\ t.eng = s.eng /\ t.qty = s.qty /\ t.peak = s.peak /\ t.day = s.day /\ t.dayStart = s.dayStart
         /\ t.haltedUntil = s.haltedUntil /\ t.ddHalt = s.ddHalt /\ t.failed = s.failed /\ t.twice = s.twice
         /\ t.liquidated = s.liquidated /\ t.last = s.last /\ t.trades = s.trades /\ t.pnl = s.pnl
         /\ t.tradeFees = s.tradeFees
         /\ t.open = OpenedAs(s.eng.pos, o, s.qty, ts)
         /\ t.balance = s.balance - fee /\ t.fees = s.fees + fee
<1> DEFINE fee == s.qty * s.eng.fee
           new == OpenedAs(s.eng.pos, o, s.qty, ts)
           t == OpenTrade(s, o, ts)
<1>1. s.qty \in Nat /\ s.eng.fee \in Nat /\ s.eng.pos \in PosSet
  BY DEF SimSet, EngSet
<1>2. fee \in Nat
  BY <1>1
<1>3. new \in TradeSet
  BY <1>1 DEF OpenedAs, TradeSet, PosSet, Level, PlacedSet, TypeSet
<1>4. t = [s EXCEPT !.balance = @ - fee, !.realized = @ - fee, !.fees = @ + fee, !.open = new]
  BY DEF OpenTrade, OpenedAs
<1> HIDE DEF fee, new, t
<1>5. t \in SimSet
  <2>1. s.balance - fee \in Int /\ s.realized - fee \in Int /\ s.fees + fee \in Int
    BY <1>2 DEF SimSet
  <2> QED BY <1>3, <1>4, <2>1 DEF SimSet
<1>6. /\ t.eng = s.eng /\ t.qty = s.qty /\ t.peak = s.peak /\ t.day = s.day /\ t.dayStart = s.dayStart
      /\ t.haltedUntil = s.haltedUntil /\ t.ddHalt = s.ddHalt /\ t.failed = s.failed /\ t.twice = s.twice
      /\ t.liquidated = s.liquidated /\ t.last = s.last /\ t.trades = s.trades /\ t.pnl = s.pnl
      /\ t.tradeFees = s.tradeFees
  BY <1>4 DEF SimSet
<1>7. t.open = new /\ t.balance = s.balance - fee /\ t.fees = s.fees + fee
  BY <1>4 DEF SimSet
<1> QED BY <1>5, <1>6, <1>7 DEF fee, new, t

\* Without a position to read.
LEMMA OpenTradeFails ==
  ASSUME NEW s \in SimSet, s.eng.pos.side = "FLAT", NEW o, NEW ts
  PROVE  LET t == OpenTrade(s, o, ts) IN
         /\ t \in SimSet /\ t.failed
         /\ t.eng = s.eng /\ t.qty = s.qty /\ t.peak = s.peak /\ t.day = s.day /\ t.dayStart = s.dayStart
         /\ t.haltedUntil = s.haltedUntil /\ t.ddHalt = s.ddHalt /\ t.twice = s.twice
         /\ t.liquidated = s.liquidated /\ t.last = s.last /\ t.trades = s.trades /\ t.open = s.open
<1> DEFINE t == OpenTrade(s, o, ts)
           yes == TRUE
<1>1. t = [s EXCEPT !.failed = yes]
  BY DEF OpenTrade
<1>2. yes \in BOOLEAN /\ yes
  OBVIOUS
<1> HIDE DEF yes, t
<1>3. /\ t \in SimSet /\ t.failed = yes
      /\ t.eng = s.eng /\ t.qty = s.qty /\ t.peak = s.peak /\ t.day = s.day /\ t.dayStart = s.dayStart
      /\ t.haltedUntil = s.haltedUntil /\ t.ddHalt = s.ddHalt /\ t.twice = s.twice
      /\ t.liquidated = s.liquidated /\ t.last = s.last /\ t.trades = s.trades /\ t.open = s.open
  BY <1>1, <1>2 DEF SimSet
<1> QED BY <1>2, <1>3 DEF t

Alive(s) == ~s.failed
TookAs(s, r, q, t) ==
  /\ t \in SimSet /\ t.eng = r.eng /\ t.qty = IF r.eng.pos.side = "FLAT" THEN 0 ELSE q
  /\ t.balance = s.balance /\ t.peak = s.peak /\ t.day = s.day /\ t.dayStart = s.dayStart
  /\ t.haltedUntil = s.haltedUntil /\ t.ddHalt = s.ddHalt /\ t.failed = s.failed
  /\ t.liquidated = s.liquidated /\ t.last = s.last /\ t.trades = s.trades /\ t.pnl = s.pnl
  /\ t.tradeFees = s.tradeFees /\ t.fees = s.fees /\ t.open = s.open
  /\ s.twice \/ OpensTwice(r.events) <=> t.twice
LEMMA TookIs ==
  ASSUME NEW s \in SimSet, NEW r, Ended(s.eng, r), NEW q \in Nat
  PROVE  TookAs(s, r, q, Took(s, r, q))
<1> DEFINE t == Took(s, r, q)
           left == IF r.eng.pos.side = "FLAT" THEN 0 ELSE q
           two == s.twice \/ OpensTwice(r.events)
           new == r.eng
<1>1. new \in EngSet /\ left \in Nat /\ two \in BOOLEAN
  BY DEF Ended, Running
<1>2. t = [s EXCEPT !.eng = new, !.qty = left, !.twice = two]
  BY DEF Took
<1> HIDE DEF t, left, two, new
<1>3. t \in SimSet /\ t.eng = new /\ t.qty = left /\ t.twice = two
  BY <1>1, <1>2 DEF SimSet
<1>4. /\ t.balance = s.balance /\ t.peak = s.peak /\ t.day = s.day /\ t.dayStart = s.dayStart
      /\ t.haltedUntil = s.haltedUntil /\ t.ddHalt = s.ddHalt /\ t.failed = s.failed
      /\ t.liquidated = s.liquidated /\ t.last = s.last /\ t.trades = s.trades /\ t.pnl = s.pnl
      /\ t.tradeFees = s.tradeFees /\ t.fees = s.fees /\ t.open = s.open
  BY <1>2 DEF SimSet
<1> QED BY <1>3, <1>4 DEF t, left, two, new, TookAs

\* The order a resting event names.
LEMMA OrderIs ==
  ASSUME NEW s, Running(s.eng), NEW j \in 1..Len(s.eng.pending), NEW ev,
         ev.filledPending = s.eng.pending[j].oid, NEW placed
  PROVE  OrderOf(s, ev, placed) = s.eng.pending[j].order
<1> DEFINE list == s.eng.pending
           i == CHOOSE i \in 1..Len(list) : list[i].oid = list[j].oid
<1>1. list[j] \in RestSet /\ j \in 1..Len(list)
  BY DEF Running, EngSet
<1>2. ev.filledPending # 0
  BY <1>1 DEF RestSet
<1>3. i \in 1..Len(list) /\ list[i].oid = list[j].oid
  <2>1. \E k \in 1..Len(list) : list[k].oid = list[j].oid
    BY <1>1
  <2> QED BY <2>1
<1>4. OrderOf(s, ev, placed) = list[i].order
  BY <1>2 DEF OrderOf, Resting
<1> HIDE DEF i
<1>5. i = j
  BY <1>3 DEF Running
<1> QED BY <1>4, <1>5

\* The two recursions of Apply.
IsQty(f, s, events, placed, m) ==
  f = [i \in 0..m |->
        IF i = 0 THEN s.qty
        ELSE IF events[i].opened THEN OrderOf(s, events[i], placed).qty ELSE f[i - 1]]
LEMMA QtyExists ==
  ASSUME NEW s, NEW events, NEW placed, NEW m \in Nat
  PROVE  \E f : IsQty(f, s, events, placed, m)
<1> DEFINE step(x, i) == IF events[i].opened THEN OrderOf(s, events[i], placed).qty ELSE x
           S == {k \in Nat : \E f : f = [i \in 0..k |-> IF i = 0 THEN s.qty ELSE step(f[i - 1], i)]}
<1> HIDE DEF step
<1>1. 0 \in S
  <2>1. PICK g : g = [i \in 0..0 |-> s.qty]
    OBVIOUS
  <2>2. g = [i \in 0..0 |-> IF i = 0 THEN s.qty ELSE step(g[i - 1], i)]
    BY <2>1
  <2> QED BY <2>2
<1>2. ASSUME NEW k \in Nat, k \in S PROVE k + 1 \in S
  <2>1. PICK f : f = [i \in 0..k |-> IF i = 0 THEN s.qty ELSE step(f[i - 1], i)]
    BY <1>2
  <2>2. PICK g : g = [i \in 0..(k + 1) |-> IF i \in 0..k THEN f[i] ELSE step(f[k], i)]
    OBVIOUS
  <2>3. ASSUME NEW i \in 0..(k + 1) PROVE g[i] = IF i = 0 THEN s.qty ELSE step(g[i - 1], i)
    <3>1. CASE i \in 0..k
      <4>1. g[i] = IF i = 0 THEN s.qty ELSE step(f[i - 1], i)
        BY <2>1, <2>2, <3>1
      <4>2. i # 0 => g[i - 1] = f[i - 1]
        BY <2>2, <3>1
      <4> QED BY <4>1, <4>2
    <3>2. CASE i = k + 1
      BY <2>2, <3>2
    <3> QED BY <3>1, <3>2
  <2>4. g = [i \in 0..(k + 1) |-> IF i = 0 THEN s.qty ELSE step(g[i - 1], i)]
    BY <2>2, <2>3
  <2> QED BY <2>4
<1>3. Nat \subseteq S
  <2> HIDE DEF S
  <2> QED BY <1>1, <1>2, FromZero
<1> QED BY <1>3 DEF step, IsQty

IsBooks(f, s, r, placed, qty, ts, gap, m) ==
  f = [i \in 0..m |->
        IF i = 0 THEN Took(s, r, qty[m])
        ELSE Book(f[i - 1], r.events[i], OrderOf(s, r.events[i], placed), qty[i], ts, gap)]
LEMMA BooksExists ==
  ASSUME NEW s, NEW r, NEW placed, NEW qty, NEW ts, NEW gap, NEW m \in Nat
  PROVE  \E f : IsBooks(f, s, r, placed, qty, ts, gap, m)
<1> DEFINE first == Took(s, r, qty[m])
           step(x, i) == Book(x, r.events[i], OrderOf(s, r.events[i], placed), qty[i], ts, gap)
           S == {k \in Nat : \E f : f = [i \in 0..k |-> IF i = 0 THEN first ELSE step(f[i - 1], i)]}
<1> HIDE DEF step, first
<1>1. 0 \in S
  <2>1. PICK g : g = [i \in 0..0 |-> first]
    OBVIOUS
  <2>2. g = [i \in 0..0 |-> IF i = 0 THEN first ELSE step(g[i - 1], i)]
    BY <2>1
  <2> QED BY <2>2
<1>2. ASSUME NEW k \in Nat, k \in S PROVE k + 1 \in S
  <2>1. PICK f : f = [i \in 0..k |-> IF i = 0 THEN first ELSE step(f[i - 1], i)]
    BY <1>2
  <2>2. PICK g : g = [i \in 0..(k + 1) |-> IF i \in 0..k THEN f[i] ELSE step(f[k], i)]
    OBVIOUS
  <2>3. ASSUME NEW i \in 0..(k + 1) PROVE g[i] = IF i = 0 THEN first ELSE step(g[i - 1], i)
    <3>1. CASE i \in 0..k
      <4>1. g[i] = IF i = 0 THEN first ELSE step(f[i - 1], i)
        BY <2>1, <2>2, <3>1
      <4>2. i # 0 => g[i - 1] = f[i - 1]
        BY <2>2, <3>1
      <4> QED BY <4>1, <4>2
    <3>2. CASE i = k + 1
      BY <2>2, <3>2
    <3> QED BY <3>1, <3>2
  <2>4. g = [i \in 0..(k + 1) |-> IF i = 0 THEN first ELSE step(g[i - 1], i)]
    BY <2>2, <2>3
  <2> QED BY <2>4
<1>3. Nat \subseteq S
  <2> HIDE DEF S
  <2> QED BY <1>1, <1>2, FromZero
<1> QED BY <1>3 DEF step, first, IsBooks

\* qty[i] and books[i]: what event i is about, and the account once it is in the books.
Steps(s, r, placed, ts, gap, qty, books) ==
  /\ qty[0] = s.qty
  /\ \A i \in 1..Len(r.events) :
       qty[i] = IF r.events[i].opened THEN OrderOf(s, r.events[i], placed).qty ELSE qty[i - 1]
  /\ books[0] = Took(s, r, qty[Len(r.events)])
  /\ \A i \in 1..Len(r.events) :
       books[i] = Book(books[i - 1], r.events[i], OrderOf(s, r.events[i], placed), qty[i], ts, gap)
  /\ Apply(s, r, placed, ts, gap) = books[Len(r.events)]
LEMMA ApplyBySteps ==
  ASSUME NEW s, NEW r, Len(r.events) \in Nat, NEW placed, NEW ts, NEW gap
  PROVE  \E qty, books : Steps(s, r, placed, ts, gap, qty, books)
<1> DEFINE m == Len(r.events)
           stepQ(x, i) == IF r.events[i].opened THEN OrderOf(s, r.events[i], placed).qty ELSE x
           qty == CHOOSE f : IsQty(f, s, r.events, placed, m)
           first == Took(s, r, qty[m])
           stepB(x, i) == Book(x, r.events[i], OrderOf(s, r.events[i], placed), qty[i], ts, gap)
           books == CHOOSE f : IsBooks(f, s, r, placed, qty, ts, gap, m)
<1>1. Apply(s, r, placed, ts, gap) = books[m]
  BY DEF Apply, IsQty, IsBooks
<1>2. IsQty(qty, s, r.events, placed, m)
  <2>1. \E f : IsQty(f, s, r.events, placed, m)
    BY QtyExists
  <2> QED BY <2>1
<1> HIDE DEF qty
<1>3. IsBooks(books, s, r, placed, qty, ts, gap, m)
  <2>1. \E f : IsBooks(f, s, r, placed, qty, ts, gap, m)
    BY BooksExists
  <2> QED BY <2>1
<1> HIDE DEF books, first, stepQ, stepB
<1>4. qty = [i \in 0..m |-> IF i = 0 THEN s.qty ELSE stepQ(qty[i - 1], i)]
  BY <1>2 DEF IsQty, stepQ
<1>5. books = [i \in 0..m |-> IF i = 0 THEN first ELSE stepB(books[i - 1], i)]
  BY <1>3 DEF IsBooks, stepB, first
<1>6. qty[0] = s.qty /\ \A i \in 1..m : qty[i] = stepQ(qty[i - 1], i)
  <2>1. m \in Nat /\ 0 \in 0..m /\ \A i \in 1..m : i \in 0..m /\ i # 0
    OBVIOUS
  <2> HIDE DEF m
  <2> QED BY <1>4, <2>1, Zenon
<1>7. books[0] = first /\ \A i \in 1..m : books[i] = stepB(books[i - 1], i)
  <2>1. m \in Nat /\ 0 \in 0..m /\ \A i \in 1..m : i \in 0..m /\ i # 0
    OBVIOUS
  <2> HIDE DEF m
  <2> QED BY <1>5, <2>1, Zenon
<1> QED BY <1>1, <1>6, <1>7 DEF first, stepQ, stepB, Steps

\* t comes after s by what the engine reported: nothing is forgotten, and a trade that
\* is opened is of these types.
Follows(s, t, types) ==
  /\ t \in SimSet /\ t.eng = s.eng /\ t.qty = s.qty /\ t.peak = s.peak /\ t.day = s.day
  /\ t.haltedUntil = s.haltedUntil /\ t.ddHalt = s.ddHalt /\ (t.twice <=> s.twice)
  /\ s.liquidated => t.liquidated
  /\ s.failed => t.failed
  /\ t.trades >= s.trades
  /\ t.open = s.open \/ t.open.type \in types

LEMMA BookFollows ==
  ASSUME NEW s \in SimSet, NEW ev, ~ev.opened => ev.closed = Gapped!NoClose \/ ev.closed \in ClosedSet,
         NEW types, "none" \in types,
         NEW o, ev.opened => o \in PlacedSet /\ o.action \in types,
         NEW q \in Nat, NEW ts \in Int, NEW gap \in BOOLEAN
  PROVE  /\ Follows(s, Book(s, ev, o, q, ts, gap), types)
         /\ ev.opened /\ s.eng.pos.side = "FLAT" => Book(s, ev, o, q, ts, gap).failed
<1> DEFINE t == Book(s, ev, o, q, ts, gap)
<1>1. s.trades \in Nat
  BY DEF SimSet
<1>2. Follows(s, s, types)
  BY <1>1 DEF Follows
<1>3. NoTrade.type = "none"
  BY DEF NoTrade
<1>4. CASE ~s.failed /\ ev.opened
  <2>1. t = OpenTrade(s, o, ts) /\ o \in PlacedSet /\ o.action \in types
    BY <1>4 DEF Book
  <2> HIDE DEF t
  <2>2. CASE s.eng.pos.side = "FLAT"
    <3>1. /\ t \in SimSet /\ t.failed
          /\ t.eng = s.eng /\ t.qty = s.qty /\ t.peak = s.peak /\ t.day = s.day
          /\ t.haltedUntil = s.haltedUntil /\ t.ddHalt = s.ddHalt /\ t.twice = s.twice
          /\ t.liquidated = s.liquidated /\ t.trades = s.trades /\ t.open = s.open
      BY <2>1, <2>2, OpenTradeFails
    <3> QED BY <1>1, <3>1 DEF Follows, t
  <2>3. CASE s.eng.pos.side # "FLAT"
    <3>1. /\ t \in SimSet
          /\ t.eng = s.eng /\ t.qty = s.qty /\ t.peak = s.peak /\ t.day = s.day
          /\ t.haltedUntil = s.haltedUntil /\ t.ddHalt = s.ddHalt /\ t.failed = s.failed /\ t.twice = s.twice
          /\ t.liquidated = s.liquidated /\ t.trades = s.trades /\ t.open = OpenedAs(s.eng.pos, o, s.qty, ts)
      BY <2>1, <2>3, OpenTradeIs
    <3>2. t.open.type = o.action
      BY <3>1 DEF OpenedAs
    <3> QED BY <1>1, <2>1, <2>3, <3>1, <3>2 DEF Follows, t
  <2> QED BY <2>2, <2>3
<1>5. CASE ~s.failed /\ ~ev.opened /\ ev.closed.reason # "none"
  <2>1. t = CloseTrade(s, ev.closed, q, ts, gap)
    BY <1>5 DEF Book
  <2>2. ev.closed \in ClosedSet
    BY <1>5 DEF Gapped!NoClose
  <2> HIDE DEF t
  <2>3. /\ t \in SimSet
        /\ t.eng = s.eng /\ t.qty = s.qty /\ t.peak = s.peak /\ t.day = s.day
        /\ t.haltedUntil = s.haltedUntil /\ t.ddHalt = s.ddHalt /\ t.failed = s.failed /\ t.twice = s.twice
        /\ s.liquidated => t.liquidated
        /\ t.open = NoTrade /\ t.trades = s.trades + 1
    BY <2>1, <2>2, CloseTradeIs
  <2> QED BY <1>1, <1>3, <1>5, <2>3 DEF Follows, t
<1>6. CASE ~(~s.failed /\ ev.opened) /\ ~(~s.failed /\ ~ev.opened /\ ev.closed.reason # "none")
  <2>1. t = s
    BY <1>6 DEF Book
  <2> QED BY <1>2, <1>6, <2>1
<1> QED BY <1>4, <1>5, <1>6

LEMMA FollowsOn ==
  ASSUME NEW s \in SimSet, NEW t, NEW u, NEW types, Follows(s, t, types), Follows(t, u, types)
  PROVE  Follows(s, u, types)
<1>1. s.trades \in Nat /\ t.trades \in Nat /\ u.trades \in Nat
  BY DEF Follows, SimSet
<1>2. u.trades >= s.trades
  BY <1>1 DEF Follows
<1> QED BY <1>2 DEF Follows

Applied(s, r, t, types) ==
  /\ t \in SimSet /\ t.eng = r.eng /\ (r.eng.pos.side = "FLAT" => t.qty = 0)
  /\ t.peak = s.peak /\ t.day = s.day /\ t.haltedUntil = s.haltedUntil /\ t.ddHalt = s.ddHalt
  /\ t.twice <=> s.twice \/ OpensTwice(r.events)
  /\ s.liquidated => t.liquidated
  /\ s.failed \/ Breaks(r) => t.failed
  /\ t.trades >= s.trades
  /\ t.open = s.open \/ t.open.type \in types

OrdersKnown(s, r, placed, types) ==
  \A i \in 1..Len(r.events) : r.events[i].opened =>
    OrderOf(s, r.events[i], placed) \in PlacedSet /\ OrderOf(s, r.events[i], placed).action \in types
LEMMA ApplyFollows ==
  ASSUME NEW s \in SimSet, NEW r, Ended(s.eng, r), NEW placed, NEW types, "none" \in types,
         OrdersKnown(s, r, placed, types),
         NEW ts \in Int, NEW gap \in BOOLEAN
  PROVE  Applied(s, r, Apply(s, r, placed, ts, gap), types)
<1> DEFINE m == Len(r.events)
           order(i) == OrderOf(s, r.events[i], placed)
           t == Apply(s, r, placed, ts, gap)
<1>1. m \in Nat /\ s.qty \in Nat /\ s.trades \in Nat
  BY DEF Ended, Heard, SimSet
<1> PICK qty, books : Steps(s, r, placed, ts, gap, qty, books)
  BY <1>1, ApplyBySteps
<1>2. /\ qty[0] = s.qty
      /\ \A i \in 1..m : qty[i] = IF r.events[i].opened THEN order(i).qty ELSE qty[i - 1]
      /\ books[0] = Took(s, r, qty[m])
      /\ \A i \in 1..m : books[i] = Book(books[i - 1], r.events[i], order(i), qty[i], ts, gap)
      /\ t = books[m]
  BY DEF Steps
<1>3. \A i \in 1..m : r.events[i].opened => order(i) \in PlacedSet /\ order(i).action \in types
  BY DEF OrdersKnown
<1>4. \A i \in 1..m : order(i) \in PlacedSet => order(i).qty \in Nat
  BY DEF PlacedSet
<1> HIDE DEF order, m, t
<1>5. \A i \in 0..m : qty[i] \in Nat
  <2> DEFINE S == {i \in Nat : i <= m => qty[i] \in Nat}
  <2>1. 0 \in S
    BY <1>1, <1>2
  <2>2. ASSUME NEW i \in Nat, i \in S PROVE i + 1 \in S
    <3> SUFFICES ASSUME i + 1 <= m PROVE qty[i + 1] \in Nat
      OBVIOUS
    <3> DEFINE k == i + 1
    <3>1. k \in 1..m /\ k - 1 = i /\ qty[k - 1] \in Nat
      BY <1>1, <2>2
    <3> HIDE DEF k
    <3>2. qty[k] \in Nat
      BY <1>2, <1>3, <1>4, <3>1
    <3> QED BY <3>2 DEF k
  <2>3. Nat \subseteq S
    <3> HIDE DEF S
    <3> QED BY <2>1, <2>2, FromZero
  <2> QED BY <1>1, <2>3
<1> DEFINE first == Took(s, r, qty[m])
<1>6. qty[m] \in Nat
  BY <1>1, <1>5
<1>16. TookAs(s, r, qty[m], first)
  BY <1>6, TookIs
<1> HIDE DEF first
<1>7. /\ first \in SimSet /\ first.eng = r.eng /\ (r.eng.pos.side = "FLAT" => first.qty = 0)
      /\ first.peak = s.peak /\ first.day = s.day
      /\ first.haltedUntil = s.haltedUntil /\ first.ddHalt = s.ddHalt /\ first.failed = s.failed
      /\ first.liquidated = s.liquidated /\ first.trades = s.trades /\ first.open = s.open
      /\ first.twice <=> s.twice \/ OpensTwice(r.events)
  BY <1>16 DEF TookAs
<1>8. ASSUME NEW i \in 1..m, books[i - 1] \in SimSet
      PROVE  /\ Follows(books[i - 1], books[i], types)
             /\ r.events[i].opened /\ books[i - 1].eng.pos.side = "FLAT" => books[i].failed
  <2> DEFINE b == books[i - 1]
             ev == r.events[i]
             o == order(i)
             q == qty[i]
  <2>1. b \in SimSet /\ q \in Nat /\ (ev.opened => o \in PlacedSet /\ o.action \in types)
    BY <1>1, <1>3, <1>5, <1>8
  <2>2. ~ev.opened => ev.closed = Gapped!NoClose \/ ev.closed \in ClosedSet
    BY DEF Ended, Heard, m
  <2>3. books[i] = Book(b, ev, o, q, ts, gap)
    BY <1>2
  <2> HIDE DEF b, ev, o, q
  <2>4. /\ Follows(b, Book(b, ev, o, q, ts, gap), types)
        /\ ev.opened /\ b.eng.pos.side = "FLAT" => Book(b, ev, o, q, ts, gap).failed
    BY <2>1, <2>2, BookFollows
  <2> QED BY <2>3, <2>4 DEF b, ev
<1>9. first.trades \in Nat
  BY <1>1, <1>7
<1> DEFINE broken(i) == r.eng.pos.side = "FLAT" /\ \E j \in 1..i : r.events[j].opened
           S == {i \in Nat : i <= m => Follows(first, books[i], types) /\ (broken(i) => books[i].failed)}
<1>10. 0 \in S
  <2>1. Follows(first, first, types)
    BY <1>7, <1>9 DEF Follows
  <2>2. ~broken(0) /\ books[0] = first
    BY <1>2 DEF first
  <2> HIDE DEF broken
  <2> QED BY <2>1, <2>2
<1>11. ASSUME NEW i \in Nat, i \in S PROVE i + 1 \in S
  <2> SUFFICES ASSUME i + 1 <= m
               PROVE  Follows(first, books[i + 1], types) /\ (broken(i + 1) => books[i + 1].failed)
    OBVIOUS
  <2> DEFINE k == i + 1
  <2>1. k \in 1..m /\ k - 1 = i /\ Follows(first, books[i], types) /\ (broken(i) => books[i].failed)
    BY <1>1, <1>11
  <2>2. broken(k) => broken(i) \/ r.events[k].opened
    OBVIOUS
  <2> HIDE DEF k, S
  <2>3. books[i] \in SimSet /\ books[i].eng = r.eng
    BY <1>7, <2>1 DEF Follows
  <2>4. /\ Follows(books[i], books[k], types)
        /\ r.events[k].opened /\ books[i].eng.pos.side = "FLAT" => books[k].failed
    BY <1>8, <2>1, <2>3
  <2>5. Follows(first, books[k], types)
    BY <1>7, <2>1, <2>4, FollowsOn
  <2>6. broken(k) => books[k].failed
    <3>1. broken(k) => r.eng.pos.side = "FLAT"
      OBVIOUS
    <3>2. books[i].failed => books[k].failed
      BY <2>4 DEF Follows
    <3> HIDE DEF broken
    <3> QED BY <2>1, <2>2, <2>3, <2>4, <3>1, <3>2
  <2> QED BY <2>5, <2>6 DEF k
<1>12. m \in S
  <2> HIDE DEF S
  <2> QED BY <1>1, <1>10, <1>11, FromZero
<1>13. Follows(first, t, types) /\ (broken(m) => t.failed)
  BY <1>1, <1>2, <1>12
<1>14. Breaks(r) => broken(m)
  <2> SUFFICES ASSUME Breaks(r) PROVE broken(m)
    OBVIOUS
  <2>1. r.eng.pos.side = "FLAT"
    BY DEF Breaks, Flat0, Gapped!Flat
  <2>2. (1 \in 1..m /\ r.events[1].opened) \/ (2 \in 1..m /\ r.events[2].opened)
    BY DEF Breaks, m
  <2> QED BY <2>1, <2>2
<1> HIDE DEF broken
<1> QED BY <1>7, <1>13, <1>14 DEF Applied, Follows, t

\* Nothing opened or closed.
LEMMA ApplyIdles ==
  ASSUME NEW s, NEW r, Ended(s.eng, r), Idles(s.eng, r), NEW placed, NEW ts, NEW gap
  PROVE  Apply(s, r, placed, ts, gap) = Took(s, r, s.qty)
<1> DEFINE m == Len(r.events)
           order(i) == OrderOf(s, r.events[i], placed)
           t == Apply(s, r, placed, ts, gap)
           first == Took(s, r, s.qty)
<1>1. m \in Nat
  BY DEF Ended, Heard
<1> PICK qty, books : Steps(s, r, placed, ts, gap, qty, books)
  BY <1>1, ApplyBySteps
<1>2. /\ qty[0] = s.qty
      /\ \A i \in 1..m : qty[i] = IF r.events[i].opened THEN order(i).qty ELSE qty[i - 1]
      /\ books[0] = Took(s, r, qty[m])
      /\ \A i \in 1..m : books[i] = Book(books[i - 1], r.events[i], order(i), qty[i], ts, gap)
      /\ t = books[m]
  BY DEF Steps
<1>3. ASSUME NEW i \in 1..m, NEW acc, NEW o, NEW q PROVE Book(acc, r.events[i], o, q, ts, gap) = acc
  BY DEF Idles, Book, Gapped!NoClose
<1>4. \A i \in 1..m : ~r.events[i].opened
  BY DEF Idles
<1> HIDE DEF order, t, m, first
<1> DEFINE S == {i \in Nat : i <= m => qty[i] = s.qty}
           T == {i \in Nat : i <= m => books[i] = Took(s, r, qty[m])}
<1>5. 0 \in S /\ 0 \in T
  BY <1>2
<1>6. ASSUME NEW i \in Nat, i \in S PROVE i + 1 \in S
  <2> SUFFICES ASSUME i + 1 <= m PROVE qty[i + 1] = s.qty
    OBVIOUS
  <2> DEFINE k == i + 1
  <2>1. k \in 1..m /\ k - 1 = i /\ qty[i] = s.qty
    BY <1>1, <1>6
  <2> HIDE DEF k
  <2>2. qty[k] = s.qty
    BY <1>2, <1>4, <2>1
  <2> QED BY <2>2 DEF k
<1>7. ASSUME NEW i \in Nat, i \in T PROVE i + 1 \in T
  <2> SUFFICES ASSUME i + 1 <= m PROVE books[i + 1] = Took(s, r, qty[m])
    OBVIOUS
  <2> DEFINE k == i + 1
  <2>1. k \in 1..m /\ k - 1 = i /\ books[i] = Took(s, r, qty[m])
    BY <1>1, <1>7
  <2> HIDE DEF k
  <2>2. books[k] = books[i]
    BY <1>2, <1>3, <2>1
  <2> QED BY <2>1, <2>2 DEF k
<1>8. m \in S /\ m \in T
  <2> HIDE DEF S, T
  <2> QED BY <1>1, <1>5, <1>6, <1>7, FromZero
<1> QED BY <1>1, <1>2, <1>8 DEF t

\* One event, or two.
LEMMA ApplyOne ==
  ASSUME NEW s, NEW r, NEW ev, r.events = <<ev>>, NEW placed, NEW ts, NEW gap
  PROVE  LET q == IF ev.opened THEN OrderOf(s, ev, placed).qty ELSE s.qty IN
         Apply(s, r, placed, ts, gap) = Book(Took(s, r, q), ev, OrderOf(s, ev, placed), q, ts, gap)
<1>1. Len(r.events) = 1 /\ Len(r.events) \in Nat /\ r.events[1] = ev /\ 1 \in 1..Len(r.events) /\ 1 - 1 = 0
  OBVIOUS
<1> DEFINE t == Apply(s, r, placed, ts, gap)
<1> PICK qty, books : Steps(s, r, placed, ts, gap, qty, books)
  BY <1>1, ApplyBySteps
<1>2. /\ qty[0] = s.qty
      /\ \A i \in 1..Len(r.events) :
           qty[i] = IF r.events[i].opened THEN OrderOf(s, r.events[i], placed).qty ELSE qty[i - 1]
      /\ books[0] = Took(s, r, qty[Len(r.events)])
      /\ \A i \in 1..Len(r.events) :
           books[i] = Book(books[i - 1], r.events[i], OrderOf(s, r.events[i], placed), qty[i], ts, gap)
      /\ t = books[Len(r.events)]
  BY DEF Steps
<1> HIDE DEF t
<1>3. qty[1] = IF ev.opened THEN OrderOf(s, ev, placed).qty ELSE s.qty
  BY <1>1, <1>2
<1>4. t = Book(Took(s, r, qty[1]), ev, OrderOf(s, ev, placed), qty[1], ts, gap)
  BY <1>1, <1>2
<1> QED BY <1>3, <1>4 DEF t

LEMMA ApplyTwo ==
  ASSUME NEW s, NEW r, NEW shut, NEW ev, r.events = <<shut, ev>>, ~shut.opened, ev.opened,
         NEW placed, NEW ts, NEW gap
  PROVE  LET o == OrderOf(s, ev, placed) IN
         Apply(s, r, placed, ts, gap)
           = Book(Book(Took(s, r, o.qty), shut, OrderOf(s, shut, placed), s.qty, ts, gap), ev, o, o.qty, ts, gap)
<1>1. /\ Len(r.events) = 2 /\ Len(r.events) \in Nat /\ r.events[1] = shut /\ r.events[2] = ev
      /\ 1 \in 1..Len(r.events) /\ 2 \in 1..Len(r.events) /\ 1 - 1 = 0 /\ 2 - 1 = 1
  OBVIOUS
<1> DEFINE t == Apply(s, r, placed, ts, gap)
<1> PICK qty, books : Steps(s, r, placed, ts, gap, qty, books)
  BY <1>1, ApplyBySteps
<1>2. /\ qty[0] = s.qty
      /\ \A i \in 1..Len(r.events) :
           qty[i] = IF r.events[i].opened THEN OrderOf(s, r.events[i], placed).qty ELSE qty[i - 1]
      /\ books[0] = Took(s, r, qty[Len(r.events)])
      /\ \A i \in 1..Len(r.events) :
           books[i] = Book(books[i - 1], r.events[i], OrderOf(s, r.events[i], placed), qty[i], ts, gap)
      /\ t = books[Len(r.events)]
  BY DEF Steps
<1> HIDE DEF t
<1>3. qty[1] = s.qty /\ qty[2] = OrderOf(s, ev, placed).qty
  BY <1>1, <1>2
<1>4. books[1] = Book(Took(s, r, qty[2]), shut, OrderOf(s, shut, placed), qty[1], ts, gap)
  BY <1>1, <1>2
<1>5. t = Book(books[1], ev, OrderOf(s, ev, placed), qty[2], ts, gap)
  BY <1>1, <1>2
<1> QED BY <1>3, <1>4, <1>5 DEF t

LEMMA ApplyOut ==
  ASSUME NEW s \in SimSet, Alive(s), NEW r, Ended(s.eng, r), Running(s.eng),
         NEW exit \in Nat, NEW why \in Reasons, GoesOut(s.eng, r, exit, why), NEW placed, NEW ts, NEW gap
  PROVE  /\ Closed(s.eng, exit, why) \in ClosedSet
         /\ Apply(s, r, placed, ts, gap)
              = CloseTrade(Took(s, r, s.qty), Closed(s.eng, exit, why), s.qty, ts, gap)
<1> DEFINE c == Closed(s.eng, exit, why)
           b == Took(s, r, s.qty)
<1>1. c \in ClosedSet
  BY ExitsAt DEF GoesOut
<1>2. c.reason # "none"
  BY <1>1 DEF ClosedSet, Reasons
<1>3. ~Shuts(c).opened /\ Shuts(c).closed = c
  BY EventsAre
<1>4. s.qty \in Nat
  BY DEF SimSet
<1>5. ~b.failed
  <2>1. TookAs(s, r, s.qty, b)
    BY <1>4, TookIs
  <2> QED BY <2>1 DEF TookAs, Alive
<1>6. r.events = <<Shuts(c)>>
  BY DEF GoesOut
<1> HIDE DEF c, b
<1>7. Apply(s, r, placed, ts, gap) = Book(b, Shuts(c), OrderOf(s, Shuts(c), placed), s.qty, ts, gap)
  BY <1>3, <1>6, ApplyOne DEF b
<1>8. Apply(s, r, placed, ts, gap) = CloseTrade(b, c, s.qty, ts, gap)
  BY <1>2, <1>3, <1>5, <1>7 DEF Book
<1> QED BY <1>1, <1>8 DEF c, b

\* o is the order that event opens; what an opening and a reversal do.
OpensFor(s, oid, placed, o) == OrderOf(s, Opens(oid), placed) = o
InDone(s, r, o, placed, ts, gap) == Apply(s, r, placed, ts, gap) = OpenTrade(Took(s, r, o.qty), o, ts)
FlipDone(s, r, o, c, placed, ts, gap) ==
  /\ c \in ClosedSet
  /\ Apply(s, r, placed, ts, gap) = OpenTrade(CloseTrade(Took(s, r, o.qty), c, s.qty, ts, gap), o, ts)

LEMMA ApplyIn ==
  ASSUME NEW s \in SimSet, Alive(s), NEW r, Ended(s.eng, r), NEW o \in PlacedSet, NEW placed, NEW oid,
         OpensFor(s, oid, placed, o), NEW at, NEW rate, GoesIn(s.eng, r, o, at, rate, oid),
         NEW ts, NEW gap
  PROVE  InDone(s, r, o, placed, ts, gap)
<1> DEFINE b == Took(s, r, o.qty)
<1>1. Opens(oid).opened /\ r.events = <<Opens(oid)>>
  BY EventsAre DEF GoesIn
<1>2. o.qty \in Nat
  BY DEF PlacedSet
<1>3. ~b.failed
  <2>1. TookAs(s, r, o.qty, b)
    BY <1>2, TookIs
  <2> QED BY <2>1 DEF TookAs, Alive
<1> HIDE DEF b
<1>4. Apply(s, r, placed, ts, gap) = Book(b, Opens(oid), o, o.qty, ts, gap)
  BY <1>1, ApplyOne DEF b, OpensFor
<1>5. Book(b, Opens(oid), o, o.qty, ts, gap) = OpenTrade(b, o, ts)
  BY <1>1, <1>3 DEF Book
<1> QED BY <1>4, <1>5 DEF b, InDone

LEMMA ApplyFlips ==
  ASSUME NEW s \in SimSet, Alive(s), NEW r, Ended(s.eng, r), Running(s.eng), NEW o \in PlacedSet,
         NEW placed, NEW oid, OpensFor(s, oid, placed, o),
         NEW at \in Nat, NEW rate, Flips(s.eng, r, o, at, rate, oid), NEW ts \in Int, NEW gap \in BOOLEAN
  PROVE  FlipDone(s, r, o, Closed(s.eng, at, "SIGNAL"), placed, ts, gap)
<1> DEFINE c == Closed(s.eng, at, "SIGNAL")
           b == Took(s, r, o.qty)
           d == CloseTrade(b, c, s.qty, ts, gap)
<1>1. c \in ClosedSet
  <2>1. "SIGNAL" \in Reasons /\ s.eng.pos.side # "FLAT"
    BY DEF Reasons, Flips
  <2> QED BY <2>1, ExitsAt
<1>2. c.reason # "none"
  BY <1>1 DEF ClosedSet, Reasons
<1>3. ~Shuts(c).opened /\ Shuts(c).closed = c /\ Opens(oid).opened
  BY EventsAre
<1>4. s.qty \in Nat /\ o.qty \in Nat
  BY DEF SimSet, PlacedSet
<1>5. ~b.failed /\ b \in SimSet
  <2>1. TookAs(s, r, o.qty, b)
    BY <1>4, TookIs
  <2> QED BY <2>1 DEF TookAs, Alive
<1>6. r.events = <<Shuts(c), Opens(oid)>>
  BY DEF Flips
<1> HIDE DEF c, b
<1>7. ~d.failed
  BY <1>1, <1>4, <1>5, CloseTradeIs
<1>8. Apply(s, r, placed, ts, gap)
        = Book(Book(b, Shuts(c), OrderOf(s, Shuts(c), placed), s.qty, ts, gap), Opens(oid), o, o.qty, ts, gap)
  BY <1>3, <1>6, ApplyTwo DEF b, OpensFor
<1>9. Book(b, Shuts(c), OrderOf(s, Shuts(c), placed), s.qty, ts, gap) = d
  BY <1>2, <1>3, <1>5 DEF Book
<1> HIDE DEF d
<1>10. Book(d, Opens(oid), o, o.qty, ts, gap) = OpenTrade(d, o, ts)
  BY <1>3, <1>7 DEF Book
<1> QED BY <1>1, <1>8, <1>9, <1>10 DEF c, b, d, FlipDone

--------------------------------------------------------------------------------
(* What every report of the engine keeps *)

\* The books of an account that can be read, and its stops: what a resting order, the
\* position and the last trade may lose.
Sound(s) == s \in SimSet /\ Running(s.eng) /\ (s.eng.pos.side = "FLAT" => s.qty = 0)
StopGap(a, b) == IF a < b THEN b - a ELSE a - b
Balanced(s) ==
  ~s.failed /\ ~s.twice =>
    /\ s.balance = Capital + s.pnl - s.qty * s.eng.fee
    /\ s.fees = s.tradeFees + s.qty * s.eng.fee
    /\ s.open = NoTrade <=> s.eng.pos.side = "FLAT"
RestsWithin(pending) ==
  \A k \in 1..Len(pending) :
    LET o == pending[k].order IN Scale * o.qty * StopGap(o.price, o.sl) <= o.target
EntryWithin(o, at) == Scale * o.qty * StopGap(at, o.sl) <= o.target + Scale * o.qty * Slip
HeldWithin(s) ==
  ~s.failed /\ ~s.twice /\ s.eng.pos.side # "FLAT" =>
    Scale * s.qty * StopGap(s.eng.pos.entry, s.eng.pos.sl) <= s.open.target + Scale * s.qty * Slip
LastWithin(s) ==
  s.last.reason = "SL" /\ ~s.last.gap /\ ~s.twice =>
    -s.last.pnl <= s.last.target + s.last.qty * 2 * Scale * Slip + s.last.fee
Within(s, risk) == risk => RestsWithin(s.eng.pending) /\ HeldWithin(s) /\ LastWithin(s)
Good(s, risk) == Sound(s) /\ Balanced(s) /\ Within(s, risk)

Shape(s, r, placed, gap, risk) ==
  \/ Idles(s.eng, r)
  \/ \E exit \in Nat, why \in Reasons :
       /\ GoesOut(s.eng, r, exit, why)
       /\ why = "SL" /\ ~gap => exit = Gapped!SlippedExit(s.eng, s.eng.pos.sl)
  \/ \E o \in PlacedSet, at \in Nat, rate \in Nat, oid \in Nat :
       /\ OpensFor(s, oid, placed, o) /\ (risk => EntryWithin(o, at))
       /\ GoesIn(s.eng, r, o, at, rate, oid) \/ Flips(s.eng, r, o, at, rate, oid)
  \/ Breaks(r)
  \/ OpensTwice(r.events)

LEMMA Products ==
  ASSUME NEW k \in Nat, NEW a \in Int, NEW b \in Int, a <= b
  PROVE  k * a <= k * b
OBVIOUS

\* A stop reached within the candle.
LEMMA StopOut ==
  ASSUME NEW e \in EngSet, NEW q \in Nat, NEW target \in Int, e.pos.side # "FLAT",
         Scale * q * StopGap(e.pos.entry, e.pos.sl) <= target + Scale * q * Slip,
         NEW c, c = Closed(e, Gapped!SlippedExit(e, e.pos.sl), "SL")
  PROVE  -(Scale * q * c.gross - q * c.exitFee - q * c.entryFee)
           <= target + q * 2 * Scale * Slip + q * (c.entryFee + c.exitFee)
<1> DEFINE x == Gapped!SlippedExit(e, e.pos.sl)
           k == Scale * q
           far == StopGap(e.pos.entry, e.pos.sl)
<1>1. e.pos.entry \in Nat /\ e.pos.sl \in Nat /\ e.fee \in Nat /\ e.pos.side \in {"LONG", "SHORT"}
  BY DEF EngSet, PosSet, Level, Sides
<1>2. k \in Nat /\ Slip \in Nat
  BY Numbers
<1>3. x \in Int /\ far \in Nat /\ Gapped!Profit(e.pos, x) \in Int /\ Gapped!Profit(e.pos, x) >= -far - Slip
  BY <1>1, <1>2 DEF Gapped!SlippedExit, Gapped!Slipped, Gapped!Profit, StopGap
<1>4. c.gross = Gapped!Profit(e.pos, x) /\ c.entryFee = e.fee /\ c.exitFee = TakerFee * x
  BY DEF Closed
<1>5. c.gross \in Int /\ c.entryFee \in Int /\ c.exitFee \in Int
  BY <1>1, <1>3, <1>4, Numbers
<1> HIDE DEF x
<1>6. k * (-far - Slip) <= k * c.gross
  BY <1>2, <1>3, <1>4, <1>5, Products
<1>7. k * (-far - Slip) = -(k * far) - k * Slip
  BY <1>2, <1>3
<1>8. k * far \in Int /\ k * Slip \in Int /\ k * c.gross \in Int /\ q * c.exitFee \in Int /\ q * c.entryFee \in Int
  BY <1>2, <1>3, <1>5
<1>9. q * 2 * Scale * Slip = 2 * (k * Slip) /\ q * (c.entryFee + c.exitFee) = q * c.entryFee + q * c.exitFee
  BY <1>2, <1>5, Numbers
<1>10. k * far <= target + k * Slip
  OBVIOUS
<1> DEFINE kf == k * far
           ks == k * Slip
           kg == k * c.gross
           qx == q * c.exitFee
           qn == q * c.entryFee
<1>11. kf \in Int /\ ks \in Int /\ kg \in Int /\ qx \in Int /\ qn \in Int /\ -kf - ks <= kg /\ kf <= target + ks
  BY <1>6, <1>7, <1>8, <1>10
<1>12. SUFFICES -(kg - qx - qn) <= target + 2 * ks + (qn + qx)
  BY <1>9
<1> HIDE DEF kf, ks, kg, qx, qn, k, far
<1> QED BY <1>11

\* An exception ends it: what was closed before was closed by an order.
LastStays(s, t) == t.last = s.last \/ t.last.reason = "SIGNAL"
LEMMA ApplyBreaks ==
  ASSUME NEW s \in SimSet, Alive(s), NEW r, Ended(s.eng, r), Breaks(r), NEW placed, NEW ts \in Int,
         NEW gap \in BOOLEAN, NEW types, OrdersKnown(s, r, placed, types)
  PROVE  LastStays(s, Apply(s, r, placed, ts, gap))
<1> DEFINE m == Len(r.events)
           order(i) == OrderOf(s, r.events[i], placed)
           t == Apply(s, r, placed, ts, gap)
<1>1. m \in Nat /\ s.qty \in Nat
  BY DEF Ended, Heard, SimSet
<1> PICK qty, books : Steps(s, r, placed, ts, gap, qty, books)
  BY <1>1, ApplyBySteps
<1>2. /\ qty[0] = s.qty
      /\ \A i \in 1..m : qty[i] = IF r.events[i].opened THEN order(i).qty ELSE qty[i - 1]
      /\ books[0] = Took(s, r, qty[m])
      /\ \A i \in 1..m : books[i] = Book(books[i - 1], r.events[i], order(i), qty[i], ts, gap)
      /\ t = books[m]
  BY DEF Steps
<1>3. \A i \in 1..m : r.events[i].opened => order(i).qty \in Nat
  BY DEF OrdersKnown, PlacedSet
<1> HIDE DEF order, t
<1>4. \A i \in 0..m : qty[i] \in Nat
  <2> DEFINE S == {i \in Nat : i <= m => qty[i] \in Nat}
  <2> HIDE DEF m
  <2>1. 0 \in S
    BY <1>1, <1>2
  <2>2. ASSUME NEW i \in Nat, i \in S PROVE i + 1 \in S
    <3> SUFFICES ASSUME i + 1 <= m PROVE qty[i + 1] \in Nat
      OBVIOUS
    <3> DEFINE k == i + 1
    <3>1. k \in 1..m /\ k - 1 = i /\ qty[k - 1] \in Nat
      BY <1>1, <2>2
    <3> HIDE DEF k
    <3>2. qty[k] \in Nat
      BY <1>2, <1>3, <3>1
    <3> QED BY <3>2 DEF k
  <2>3. Nat \subseteq S
    <3> HIDE DEF S
    <3> QED BY <2>1, <2>2, FromZero
  <2> QED BY <1>1, <2>3
<1>5. ASSUME NEW i \in 1..m, books[i].failed PROVE books[m] = books[i]
  <2> DEFINE S == {j \in Nat : i + j <= m => books[i + j] = books[i]}
  <2> HIDE DEF m
  <2>0. i \in Nat /\ i <= m
    BY <1>1
  <2>1. 0 \in S
    BY <2>0
  <2>2. ASSUME NEW j \in Nat, j \in S PROVE j + 1 \in S
    <3> SUFFICES ASSUME i + (j + 1) <= m PROVE books[i + (j + 1)] = books[i]
      OBVIOUS
    <3> DEFINE k == i + (j + 1)
    <3>1. k \in 1..m /\ k - 1 = i + j /\ books[k - 1] = books[i]
      BY <1>1, <2>0, <2>2
    <3> HIDE DEF k
    <3>2. books[k] = Book(books[i], r.events[k], order(k), qty[k], ts, gap)
      BY <1>2, <3>1
    <3>3. books[k] = books[i]
      BY <1>5, <3>2 DEF Book
    <3> QED BY <3>3 DEF k
  <2>3. Nat \subseteq S
    <3> HIDE DEF S
    <3> QED BY <2>1, <2>2, FromZero
  <2>4. m - i \in S /\ i + (m - i) = m
    BY <1>1, <2>0, <2>3
  <2> QED BY <2>4
<1>6. /\ books[0] \in SimSet /\ books[0].eng = r.eng /\ ~books[0].failed /\ books[0].last = s.last
  <2>1. qty[m] \in Nat
    BY <1>1, <1>4
  <2>2. TookAs(s, r, qty[m], books[0])
    BY <1>2, <2>1, TookIs
  <2> QED BY <2>2 DEF TookAs, Alive
<1>7. r.eng.pos.side = "FLAT"
  BY DEF Breaks, Flat0, Gapped!Flat
<1>8. CASE m >= 1 /\ r.events[1].opened
  <2>1. 1 \in 1..m /\ 1 - 1 = 0
    BY <1>1, <1>8
  <2>2. books[1] = Book(books[0], r.events[1], order(1), qty[1], ts, gap)
    BY <1>2, <2>1
  <2>3. books[1] = OpenTrade(books[0], order(1), ts)
    BY <1>6, <1>8, <2>2 DEF Book
  <2>4. books[1].failed /\ books[1].last = s.last
    BY <1>6, <1>7, <2>3, OpenTradeFails
  <2> QED BY <1>2, <1>5, <2>1, <2>4 DEF t, LastStays
<1>9. CASE /\ m >= 2 /\ r.events[2].opened
           /\ ~r.events[1].opened /\ r.events[1].closed.reason = "SIGNAL"
  <2> DEFINE c == r.events[1].closed
  <2>1. 1 \in 1..m /\ 1 - 1 = 0 /\ 2 \in 1..m /\ 2 - 1 = 1
    BY <1>1, <1>9
  <2>2. c \in ClosedSet /\ c.reason = "SIGNAL"
    BY <1>9, <2>1 DEF Ended, Heard, Gapped!NoClose
  <2>3. books[1] = Book(books[0], r.events[1], order(1), qty[1], ts, gap)
    BY <1>2, <2>1
  <2>4. books[1] = CloseTrade(books[0], c, qty[1], ts, gap)
    BY <1>6, <1>9, <2>3 DEF Book
  <2>5. qty[1] \in Nat
    BY <1>1, <1>4, <2>1
  <2> HIDE DEF c
  <2>6. /\ books[1] \in SimSet /\ books[1].eng = r.eng /\ books[1].failed = books[0].failed
        /\ books[1].last = LastOf(books[0], c, qty[1], gap)
    BY <1>6, <2>2, <2>4, <2>5, CloseTradeIs
  <2>7. ~books[1].failed /\ books[1].last.reason = "SIGNAL"
    BY <1>6, <2>2, <2>6 DEF LastOf
  <2>8. books[2] = Book(books[1], r.events[2], order(2), qty[2], ts, gap)
    BY <1>2, <2>1
  <2>9. books[2] = OpenTrade(books[1], order(2), ts)
    BY <1>9, <2>7, <2>8 DEF Book
  <2>10. books[2].failed /\ books[2].last.reason = "SIGNAL"
    BY <1>7, <2>6, <2>7, <2>9, OpenTradeFails
  <2> QED BY <1>2, <1>5, <2>1, <2>10 DEF t, LastStays
<1> QED BY <1>8, <1>9 DEF Breaks

LEMMA ApplySound ==
  ASSUME NEW s, Sound(s), NEW r, Ended(s.eng, r), NEW t, NEW types, Applied(s, r, t, types)
  PROVE  Sound(t)
BY DEF Sound, Applied, Ended

\* No report, or one that leaves the books as they are.
IdleWell(s, risk, t) == Good(t, risk) /\ t.open = s.open /\ t.last = s.last /\ t.trades = s.trades
LEMMA IdlesGood ==
  ASSUME NEW s, NEW risk, Good(s, risk), NEW r, Ended(s.eng, r), Idles(s.eng, r),
         risk => RestsWithin(r.eng.pending), NEW placed, NEW ts, NEW gap
  PROVE  IdleWell(s, risk, Apply(s, r, placed, ts, gap))
<1> DEFINE t == Apply(s, r, placed, ts, gap)
<1>1. s \in SimSet /\ s.qty \in Nat
  BY DEF Good, Sound, SimSet
<1>2. t = Took(s, r, s.qty)
  BY ApplyIdles
<1> HIDE DEF t
<1>9. TookAs(s, r, s.qty, t)
  BY <1>1, <1>2, TookIs
<1>3. /\ t \in SimSet /\ t.eng = r.eng /\ t.qty = IF r.eng.pos.side = "FLAT" THEN 0 ELSE s.qty
      /\ t.balance = s.balance /\ t.failed = s.failed
      /\ t.last = s.last /\ t.trades = s.trades /\ t.pnl = s.pnl
      /\ t.tradeFees = s.tradeFees /\ t.fees = s.fees /\ t.open = s.open
      /\ s.twice \/ OpensTwice(r.events) <=> t.twice
  BY <1>9 DEF TookAs
<1>4. r.eng.pos = s.eng.pos /\ r.eng.fee = s.eng.fee
  BY DEF Idles
<1>5. t.qty = s.qty
  BY <1>1, <1>3, <1>4 DEF Good, Sound
<1>6. Sound(t)
  BY <1>3 DEF Sound, Ended
<1>7. Balanced(t)
  BY <1>3, <1>4, <1>5 DEF Good, Balanced
<1>8. Within(t, risk)
  BY <1>3, <1>4, <1>5 DEF Good, Within, HeldWithin, LastWithin
<1> QED BY <1>3, <1>6, <1>7, <1>8 DEF Good, t, IdleWell

OutWell(risk, t) == Good(t, risk) /\ t.open = NoTrade
LEMMA OutGood ==
  ASSUME NEW s, NEW risk, Good(s, risk), Alive(s), NEW r, Ended(s.eng, r),
         NEW exit \in Nat, NEW why \in Reasons, GoesOut(s.eng, r, exit, why), NEW gap \in BOOLEAN,
         why = "SL" /\ ~gap => exit = Gapped!SlippedExit(s.eng, s.eng.pos.sl),
         risk => RestsWithin(r.eng.pending), ~OpensTwice(r.events), NEW placed, NEW ts \in Int
  PROVE  OutWell(risk, Apply(s, r, placed, ts, gap))
<1> DEFINE t == Apply(s, r, placed, ts, gap)
           c == Closed(s.eng, exit, why)
           b == Took(s, r, s.qty)
           net == Scale * s.qty * c.gross - s.qty * c.exitFee
<1>1. s \in SimSet /\ s.qty \in Nat /\ Running(s.eng)
  BY DEF Good, Sound, SimSet
<1>2. t = CloseTrade(b, c, s.qty, ts, gap) /\ c \in ClosedSet
  BY <1>1, ApplyOut
<1> HIDE DEF t, c
<1>12. TookAs(s, r, s.qty, b)
  BY <1>1, TookIs
<1>3. /\ b \in SimSet /\ b.eng = r.eng /\ b.qty = IF r.eng.pos.side = "FLAT" THEN 0 ELSE s.qty
      /\ b.balance = s.balance /\ b.failed = s.failed
      /\ b.last = s.last /\ b.trades = s.trades /\ b.pnl = s.pnl
      /\ b.tradeFees = s.tradeFees /\ b.fees = s.fees /\ b.open = s.open
      /\ s.twice \/ OpensTwice(r.events) <=> b.twice
  BY <1>12 DEF TookAs
<1> HIDE DEF b
<1>4. /\ t \in SimSet /\ t.eng = b.eng /\ t.qty = b.qty /\ t.failed = b.failed /\ t.twice = b.twice
      /\ t.open = NoTrade /\ t.last = LastOf(b, c, s.qty, gap)
      /\ t.balance = b.balance + net
      /\ t.pnl = b.pnl + (net - s.qty * c.entryFee)
      /\ t.fees = b.fees + s.qty * c.exitFee
      /\ t.tradeFees = b.tradeFees + s.qty * (c.entryFee + c.exitFee)
      /\ t.trades = b.trades + 1
  BY <1>1, <1>2, <1>3, CloseTradeIs
<1>5. /\ r.eng.pos = Flat0 /\ r.eng.fee = 0 /\ s.eng.pos.side # "FLAT" /\ Flat0.side = "FLAT"
  BY DEF GoesOut, Flat0, Gapped!Flat
<1>6. t.qty = 0 /\ t.eng = r.eng
  BY <1>3, <1>4, <1>5
<1>7. Sound(t)
  BY <1>4, <1>6 DEF Sound, Ended
<1>8. c.entryFee = s.eng.fee /\ c.exitFee \in Nat /\ c.entryFee \in Nat /\ c.gross \in Int
  BY <1>2 DEF c, Closed, ClosedSet
<1>9. net \in Int
  BY <1>1, <1>8, Numbers
<1>10. Balanced(t)
  <2> SUFFICES ASSUME ~t.failed, ~t.twice
               PROVE  /\ t.balance = Capital + t.pnl - t.qty * t.eng.fee
                      /\ t.fees = t.tradeFees + t.qty * t.eng.fee
                      /\ t.open = NoTrade <=> t.eng.pos.side = "FLAT"
    BY DEF Balanced
  <2>1. ~s.twice
    BY <1>3, <1>4
  <2>2. s.balance = Capital + s.pnl - s.qty * s.eng.fee /\ s.fees = s.tradeFees + s.qty * s.eng.fee
    BY <2>1 DEF Good, Balanced, Alive
  <2>3. s.balance \in Int /\ s.pnl \in Int /\ s.fees \in Int /\ s.tradeFees \in Int
    BY <1>1 DEF SimSet
  <2> HIDE DEF net
  <2>4. /\ s.balance + net = Capital + (s.pnl + (net - s.qty * c.entryFee))
        /\ s.fees + s.qty * c.exitFee = s.tradeFees + s.qty * (c.entryFee + c.exitFee)
    <3> DEFINE q == s.qty
               entryFee == c.entryFee
               exitFee == c.exitFee
               balance == s.balance
               pnl == s.pnl
               fees == s.fees
               tradeFees == s.tradeFees
    <3>1. /\ balance \in Int /\ pnl \in Int /\ fees \in Int /\ tradeFees \in Int /\ net \in Int
          /\ q \in Nat /\ entryFee \in Nat /\ exitFee \in Nat
          /\ balance = Capital + pnl - q * entryFee /\ fees = tradeFees + q * entryFee
      BY <1>1, <1>8, <1>9, <2>2, <2>3
    <3> HIDE DEF q, entryFee, exitFee, balance, pnl, fees, tradeFees
    <3>2. /\ balance + net = Capital + (pnl + (net - q * entryFee))
          /\ fees + q * exitFee = tradeFees + q * (entryFee + exitFee)
      BY <3>1, Numbers
    <3> QED BY <3>2 DEF q, entryFee, exitFee, balance, pnl, fees, tradeFees
  <2>5. t.qty * t.eng.fee = 0
    BY <1>5, <1>6
  <2>6. t.pnl \in Int /\ t.tradeFees \in Int /\ Capital \in Int
    BY <1>4, Numbers DEF SimSet
  <2>7. t.balance = Capital + t.pnl /\ t.fees = t.tradeFees
    BY <1>3, <1>4, <2>4
  <2> QED BY <1>4, <1>5, <1>6, <2>5, <2>6, <2>7
<1>11. Within(t, risk)
  <2> SUFFICES ASSUME risk PROVE RestsWithin(t.eng.pending) /\ HeldWithin(t) /\ LastWithin(t)
    BY DEF Within
  <2>1. RestsWithin(t.eng.pending)
    BY <1>6
  <2>2. HeldWithin(t)
    BY <1>5, <1>6 DEF HeldWithin
  <2>3. LastWithin(t)
    <3> SUFFICES ASSUME t.last.reason = "SL", ~t.last.gap, ~t.twice
                 PROVE  -t.last.pnl <= t.last.target + t.last.qty * 2 * Scale * Slip + t.last.fee
      BY DEF LastWithin
    <3>1. ~s.twice
      BY <1>3, <1>4
    <3>2. /\ t.last.pnl = Scale * s.qty * c.gross - s.qty * c.exitFee - s.qty * c.entryFee
          /\ t.last.fee = s.qty * (c.entryFee + c.exitFee) /\ t.last.qty = s.qty
          /\ t.last.reason = c.reason /\ t.last.gap = gap /\ t.last.target = s.open.target
      BY <1>3, <1>4 DEF LastOf
    <3>3. why = "SL" /\ ~gap
      BY <3>2 DEF c, Closed
    <3>4. c = Closed(s.eng, Gapped!SlippedExit(s.eng, s.eng.pos.sl), "SL")
      BY <3>3 DEF c
    <3>5. Scale * s.qty * StopGap(s.eng.pos.entry, s.eng.pos.sl) <= s.open.target + Scale * s.qty * Slip
      BY <1>5, <3>1 DEF Alive, Good, Within, HeldWithin
    <3>6. s.eng \in EngSet /\ s.open.target \in Int
      BY <1>1 DEF SimSet, TradeSet
    <3>7. -(Scale * s.qty * c.gross - s.qty * c.exitFee - s.qty * c.entryFee)
            <= s.open.target + s.qty * 2 * Scale * Slip + s.qty * (c.entryFee + c.exitFee)
      BY <1>1, <1>5, <3>4, <3>5, <3>6, StopOut
    <3> QED BY <3>2, <3>7
  <2> QED BY <2>1, <2>2, <2>3
<1> QED BY <1>4, <1>7, <1>10, <1>11 DEF Good, t, OutWell

\* What a trade is opened from: the position of PosOf(o, at), with o's quantity.
OpensWell(b, o, ts, risk, t) ==
  /\ Good(t, risk)
  /\ t.open = OpenedAs(b.eng.pos, o, o.qty, ts) /\ t.open.type = o.action
  /\ t.balance = b.balance - o.qty * b.eng.fee
  /\ t.trades = b.trades /\ t.last = b.last /\ t.qty = o.qty /\ t.eng = b.eng
Ready(b, o, at, risk) ==
  /\ ~b.twice => b.balance = Capital + b.pnl /\ b.fees = b.tradeFees
  /\ risk => EntryWithin(o, at) /\ RestsWithin(b.eng.pending) /\ LastWithin(b)
LEMMA OpensGood ==
  ASSUME NEW b \in SimSet, NEW o \in PlacedSet, NEW at \in Nat, NEW ts \in Int, NEW risk,
         Alive(b), Running(b.eng), b.eng.pos = PosOf(o, at), b.qty = o.qty, Ready(b, o, at, risk)
  PROVE  OpensWell(b, o, ts, risk, OpenTrade(b, o, ts))
<1> DEFINE t == OpenTrade(b, o, ts)
           paid == o.qty * b.eng.fee
<1>1. b.eng.pos.side # "FLAT" /\ b.eng.pos.entry = at /\ b.eng.pos.sl = o.sl
  BY DEF PosOf, Gapped!Long
<1>2. /\ t \in SimSet
      /\ t.eng = b.eng /\ t.qty = b.qty /\ t.failed = b.failed /\ t.twice = b.twice
      /\ t.last = b.last /\ t.trades = b.trades /\ t.pnl = b.pnl /\ t.tradeFees = b.tradeFees
      /\ t.open = OpenedAs(b.eng.pos, o, b.qty, ts)
      /\ t.balance = b.balance - b.qty * b.eng.fee /\ t.fees = b.fees + b.qty * b.eng.fee
  BY <1>1, OpenTradeIs
<1> HIDE DEF t
<1>3. paid \in Nat /\ paid = t.qty * t.eng.fee /\ t.balance = b.balance - paid /\ t.fees = b.fees + paid
  <2>1. o.qty \in Nat /\ b.eng.fee \in Nat
    BY DEF PlacedSet, SimSet, EngSet
  <2> QED BY <1>2, <2>1
<1> HIDE DEF paid
<1>4. t.open.type = o.action /\ t.open.target = o.target
  BY <1>2 DEF OpenedAs
<1>5. t.open # NoTrade
  <2>1. NoTrade.type = "none" /\ o.action # "none"
    BY DEF NoTrade, PlacedSet
  <2> QED BY <1>4, <2>1
<1>6. Balanced(t)
  <2> SUFFICES ASSUME ~t.twice
               PROVE  /\ t.balance = Capital + t.pnl - t.qty * t.eng.fee
                      /\ t.fees = t.tradeFees + t.qty * t.eng.fee
                      /\ t.open = NoTrade <=> t.eng.pos.side = "FLAT"
    BY DEF Balanced
  <2>1. b.balance = Capital + b.pnl /\ b.fees = b.tradeFees
    BY <1>2 DEF Ready
  <2>2. b.pnl \in Int /\ b.tradeFees \in Int
    BY DEF SimSet
  <2> QED BY <1>1, <1>2, <1>3, <1>5, <2>1, <2>2, Numbers
<1>7. Sound(t)
  BY <1>1, <1>2 DEF Sound
<1>8. Within(t, risk)
  <2> SUFFICES ASSUME risk PROVE RestsWithin(t.eng.pending) /\ HeldWithin(t) /\ LastWithin(t)
    BY DEF Within
  <2>1. RestsWithin(t.eng.pending)
    BY <1>2 DEF Ready
  <2>2. HeldWithin(t)
    BY <1>1, <1>2, <1>4 DEF HeldWithin, EntryWithin, Ready
  <2>3. LastWithin(t)
    BY <1>2 DEF LastWithin, Ready
  <2> QED BY <2>1, <2>2, <2>3
<1> QED BY <1>2, <1>3, <1>4, <1>6, <1>7, <1>8 DEF Good, t, paid, OpensWell

InWell(s, r, o, fee, ts, risk, t) ==
  /\ Good(t, risk)
  /\ t.open = OpenedAs(r.eng.pos, o, o.qty, ts) /\ t.open.type = o.action
  /\ t.balance = s.balance - o.qty * fee /\ t.trades = s.trades /\ t.qty = o.qty /\ t.eng = r.eng
LEMMA InGood ==
  ASSUME NEW s, NEW risk, Good(s, risk), Alive(s), NEW r, Ended(s.eng, r), ~OpensTwice(r.events),
         NEW o \in PlacedSet, NEW at \in Nat, NEW rate \in Nat, NEW oid \in Nat, NEW placed,
         OpensFor(s, oid, placed, o), risk => EntryWithin(o, at),
         GoesIn(s.eng, r, o, at, rate, oid),
         risk => RestsWithin(r.eng.pending), NEW ts \in Int, NEW gap \in BOOLEAN
  PROVE  InWell(s, r, o, rate * at, ts, risk, Apply(s, r, placed, ts, gap))
<1> DEFINE t == Apply(s, r, placed, ts, gap)
           b == Took(s, r, o.qty)
<1>1. s \in SimSet /\ s.qty = 0 /\ Running(s.eng) /\ o.qty \in Nat
  BY DEF Good, Sound, PlacedSet, GoesIn
<1>2. t = OpenTrade(b, o, ts)
  <2>1. InDone(s, r, o, placed, ts, gap)
    BY <1>1, ApplyIn
  <2> QED BY <2>1 DEF InDone
<1>3. r.eng.pos = PosOf(o, at) /\ r.eng.pos.side # "FLAT" /\ r.eng.fee = rate * at /\ rate * at \in Nat
  BY DEF GoesIn, PosOf, Gapped!Long
<1>4. /\ b \in SimSet /\ b.eng = r.eng /\ b.qty = IF r.eng.pos.side = "FLAT" THEN 0 ELSE o.qty
      /\ b.balance = s.balance /\ b.failed = s.failed
      /\ b.last = s.last /\ b.trades = s.trades /\ b.pnl = s.pnl
      /\ b.tradeFees = s.tradeFees /\ b.fees = s.fees /\ b.open = s.open
      /\ s.twice \/ OpensTwice(r.events) <=> b.twice
  <2>1. TookAs(s, r, o.qty, b)
    BY <1>1, TookIs
  <2> HIDE DEF b
  <2> QED BY <2>1 DEF TookAs
<1> HIDE DEF b, t
<1>5. b.qty = o.qty /\ Running(b.eng)
  BY <1>3, <1>4 DEF Ended
<1>6. ~b.twice => b.balance = Capital + b.pnl /\ b.fees = b.tradeFees
  <2> SUFFICES ASSUME ~b.twice PROVE b.balance = Capital + b.pnl /\ b.fees = b.tradeFees
    OBVIOUS
  <2>1. s.balance = Capital + s.pnl - s.qty * s.eng.fee /\ s.fees = s.tradeFees + s.qty * s.eng.fee
    BY <1>4 DEF Good, Balanced, Alive
  <2>2. s.qty * s.eng.fee = 0 /\ s.pnl \in Int /\ s.tradeFees \in Int
    BY <1>1 DEF SimSet, EngSet
  <2> QED BY <1>4, <2>1, <2>2, Numbers
<1>7. risk => LastWithin(b)
  BY <1>4 DEF Good, Within, LastWithin
<1> DEFINE fee == rate * at
<1>9. fee \in Nat /\ b.eng.fee = fee /\ b.eng.pos = PosOf(o, at) /\ Alive(b)
  BY <1>3, <1>4 DEF Alive
<1>10. Ready(b, o, at, risk)
  BY <1>4, <1>6, <1>7 DEF Ready
<1> HIDE DEF fee
<1>11. OpensWell(b, o, ts, risk, t)
  BY <1>2, <1>4, <1>5, <1>9, <1>10, OpensGood
<1>12. InWell(s, r, o, fee, ts, risk, t)
  BY <1>4, <1>9, <1>11 DEF OpensWell, InWell
<1> QED BY <1>12 DEF t, fee

FlipWell(s, r, o, fee, c, ts, risk, t) ==
  /\ Good(t, risk)
  /\ t.open = OpenedAs(r.eng.pos, o, o.qty, ts) /\ t.open.type = o.action
  /\ t.balance = s.balance + (Scale * s.qty * c.gross - s.qty * c.exitFee) - o.qty * fee
  /\ t.trades = s.trades + 1 /\ t.qty = o.qty /\ t.eng = r.eng
  /\ t.last.qty = s.qty /\ t.last.fee = s.qty * (c.entryFee + c.exitFee)
LEMMA FlipsGood ==
  ASSUME NEW s, NEW risk, Good(s, risk), Alive(s), NEW r, Ended(s.eng, r), ~OpensTwice(r.events),
         NEW o \in PlacedSet, NEW at \in Nat, NEW rate \in Nat, NEW oid \in Nat, NEW placed,
         OpensFor(s, oid, placed, o), risk => EntryWithin(o, at),
         Flips(s.eng, r, o, at, rate, oid),
         risk => RestsWithin(r.eng.pending), NEW ts \in Int, NEW gap \in BOOLEAN
  PROVE  FlipWell(s, r, o, rate * at, Closed(s.eng, at, "SIGNAL"), ts, risk, Apply(s, r, placed, ts, gap))
<1> DEFINE t == Apply(s, r, placed, ts, gap)
           b == Took(s, r, o.qty)
           c == Closed(s.eng, at, "SIGNAL")
           d == CloseTrade(b, c, s.qty, ts, gap)
           net == Scale * s.qty * c.gross - s.qty * c.exitFee
<1>1. s \in SimSet /\ s.qty \in Nat /\ Running(s.eng) /\ o.qty \in Nat
  BY DEF Good, Sound, PlacedSet, SimSet
<1>2. t = OpenTrade(d, o, ts) /\ c \in ClosedSet
  <2>1. FlipDone(s, r, o, c, placed, ts, gap)
    BY <1>1, ApplyFlips
  <2> QED BY <2>1 DEF FlipDone
<1>3. r.eng.pos = PosOf(o, at) /\ r.eng.pos.side # "FLAT" /\ r.eng.fee = rate * at /\ rate * at \in Nat
  BY DEF Flips, PosOf, Gapped!Long
<1>4. /\ b \in SimSet /\ b.eng = r.eng /\ b.qty = IF r.eng.pos.side = "FLAT" THEN 0 ELSE o.qty
      /\ b.balance = s.balance /\ b.failed = s.failed
      /\ b.last = s.last /\ b.trades = s.trades /\ b.pnl = s.pnl
      /\ b.tradeFees = s.tradeFees /\ b.fees = s.fees /\ b.open = s.open
      /\ s.twice \/ OpensTwice(r.events) <=> b.twice
  <2>1. TookAs(s, r, o.qty, b)
    BY <1>1, TookIs
  <2> HIDE DEF b
  <2> QED BY <2>1 DEF TookAs
<1>5. c.entryFee = s.eng.fee /\ c.reason = "SIGNAL"
  BY DEF Closed
<1> HIDE DEF t, b, c
<1>6. /\ d \in SimSet /\ d.eng = b.eng /\ d.qty = b.qty /\ d.failed = b.failed /\ d.twice = b.twice
      /\ d.open = NoTrade /\ d.last = LastOf(b, c, s.qty, gap)
      /\ d.balance = b.balance + net
      /\ d.pnl = b.pnl + (net - s.qty * c.entryFee)
      /\ d.fees = b.fees + s.qty * c.exitFee
      /\ d.tradeFees = b.tradeFees + s.qty * (c.entryFee + c.exitFee)
      /\ d.trades = b.trades + 1
  BY <1>1, <1>2, <1>4, CloseTradeIs
<1> HIDE DEF d
<1>7. c.exitFee \in Nat /\ c.entryFee \in Nat /\ c.gross \in Int
  BY <1>2 DEF ClosedSet
<1>8. net \in Int
  BY <1>1, <1>7, Numbers
<1> HIDE DEF net
<1>9. d.qty = o.qty /\ Running(d.eng) /\ d.eng.pos = PosOf(o, at) /\ Alive(d)
  BY <1>3, <1>4, <1>6 DEF Ended, Alive
<1>11. ~d.twice => d.balance = Capital + d.pnl /\ d.fees = d.tradeFees
  <2> SUFFICES ASSUME ~d.twice PROVE d.balance = Capital + d.pnl /\ d.fees = d.tradeFees
    OBVIOUS
  <2>1. s.balance = Capital + s.pnl - s.qty * c.entryFee /\ s.fees = s.tradeFees + s.qty * c.entryFee
    BY <1>4, <1>5, <1>6 DEF Good, Balanced, Alive
  <2>2. s.balance \in Int /\ s.pnl \in Int /\ s.fees \in Int /\ s.tradeFees \in Int
    BY <1>1 DEF SimSet
  <2> DEFINE q == s.qty
             entryFee == c.entryFee
             exitFee == c.exitFee
             balance == s.balance
             pnl == s.pnl
             fees == s.fees
             tradeFees == s.tradeFees
  <2>3. /\ balance \in Int /\ pnl \in Int /\ fees \in Int /\ tradeFees \in Int /\ net \in Int
        /\ q \in Nat /\ entryFee \in Nat /\ exitFee \in Nat
        /\ balance = Capital + pnl - q * entryFee /\ fees = tradeFees + q * entryFee
    BY <1>1, <1>7, <1>8, <2>1, <2>2
  <2>4. /\ d.balance = balance + net /\ d.pnl = pnl + (net - q * entryFee)
        /\ d.fees = fees + q * exitFee /\ d.tradeFees = tradeFees + q * (entryFee + exitFee)
    BY <1>4, <1>6
  <2> HIDE DEF q, entryFee, exitFee, balance, pnl, fees, tradeFees
  <2>5. /\ balance + net = Capital + (pnl + (net - q * entryFee))
        /\ fees + q * exitFee = tradeFees + q * (entryFee + exitFee)
    BY <2>3, Numbers
  <2> QED BY <2>4, <2>5
<1>12. d.last.reason = "SIGNAL" /\ d.last.qty = s.qty /\ d.last.fee = s.qty * (c.entryFee + c.exitFee)
  BY <1>5, <1>6 DEF LastOf
<1>13. Ready(d, o, at, risk)
  <2>1. LastWithin(d)
    BY <1>12 DEF LastWithin
  <2>2. d.eng = r.eng
    BY <1>4, <1>6
  <2> QED BY <1>11, <2>1, <2>2 DEF Ready
<1> DEFINE fee == rate * at
<1>14. fee \in Nat /\ d.eng.fee = fee
  BY <1>3, <1>4, <1>6
<1> HIDE DEF fee
<1>15. OpensWell(d, o, ts, risk, t)
  BY <1>2, <1>6, <1>9, <1>13, OpensGood
<1>16. t.balance = s.balance + net - o.qty * fee /\ t.trades = s.trades + 1
  <2>1. t.balance = d.balance - o.qty * fee /\ t.trades = d.trades
    BY <1>14, <1>15 DEF OpensWell
  <2>2. d.balance = s.balance + net /\ d.trades = s.trades + 1
    BY <1>4, <1>6
  <2>3. s.balance \in Int /\ net \in Int /\ o.qty * fee \in Int
    BY <1>1, <1>8, <1>14 DEF SimSet
  <2> DEFINE paid == o.qty * fee
  <2>4. t.balance = d.balance - paid /\ paid \in Int
    BY <2>1, <2>3
  <2> HIDE DEF paid
  <2>5. t.balance = s.balance + net - paid /\ t.trades = s.trades + 1
    BY <2>1, <2>2, <2>3, <2>4
  <2> QED BY <2>5 DEF paid
<1>17. /\ Good(t, risk)
       /\ t.open = OpenedAs(r.eng.pos, o, o.qty, ts) /\ t.open.type = o.action
       /\ t.qty = o.qty /\ t.eng = r.eng
       /\ t.last.qty = s.qty /\ t.last.fee = s.qty * (c.entryFee + c.exitFee)
  BY <1>4, <1>6, <1>12, <1>15 DEF OpensWell
<1>18. FlipWell(s, r, o, fee, c, ts, risk, t)
  BY <1>16, <1>17 DEF FlipWell, net
<1> QED BY <1>18 DEF t, fee, c

\* However the engine reports: an exception and a price that fills two orders end the
\* books, and everything else is one of the above.
LEMMA ApplyGood ==
  ASSUME NEW s, NEW risk, Good(s, risk), Alive(s), NEW r, Ended(s.eng, r), NEW placed, NEW gap \in BOOLEAN,
         Shape(s, r, placed, gap, risk), NEW types, "none" \in types, OrdersKnown(s, r, placed, types),
         risk => RestsWithin(r.eng.pending), NEW ts \in Int
  PROVE  LET t == Apply(s, r, placed, ts, gap) IN Good(t, risk) /\ Applied(s, r, t, types)
<1> DEFINE t == Apply(s, r, placed, ts, gap)
<1>1. s \in SimSet /\ Running(s.eng)
  BY DEF Good, Sound
<1>2. Applied(s, r, t, types)
  BY <1>1, ApplyFollows
<1>3. Sound(t)
  <2>1. Sound(s)
    BY DEF Good
  <2> HIDE DEF t
  <2> QED BY <1>2, <2>1, ApplySound
<1>4. SUFFICES Good(t, risk)
  BY <1>2
<1>5. CASE OpensTwice(r.events)
  <2> HIDE DEF t
  <2>1. t.twice /\ t.eng = r.eng
    BY <1>2, <1>5 DEF Applied
  <2>2. Balanced(t) /\ HeldWithin(t) /\ LastWithin(t)
    BY <2>1 DEF Balanced, HeldWithin, LastWithin
  <2> QED BY <1>3, <2>1, <2>2 DEF Good, Within
<1>6. CASE ~OpensTwice(r.events) /\ Breaks(r)
  <2>1. LastStays(s, t)
    BY <1>1, <1>6, ApplyBreaks
  <2> HIDE DEF t
  <2>2. t.failed /\ t.eng = r.eng /\ (t.twice <=> s.twice)
    BY <1>2, <1>6 DEF Applied
  <2>3. risk => LastWithin(t)
    BY <2>1, <2>2 DEF Good, Within, LastWithin, LastStays
  <2>4. Balanced(t) /\ HeldWithin(t)
    BY <2>2 DEF Balanced, HeldWithin
  <2> QED BY <1>3, <2>2, <2>3, <2>4 DEF Good, Within
<1>7. CASE Idles(s.eng, r)
  <2>1. IdleWell(s, risk, t)
    BY <1>7, IdlesGood
  <2> QED BY <2>1 DEF IdleWell
<1>8. ASSUME ~OpensTwice(r.events), NEW exit \in Nat, NEW why \in Reasons, GoesOut(s.eng, r, exit, why),
             why = "SL" /\ ~gap => exit = Gapped!SlippedExit(s.eng, s.eng.pos.sl)
      PROVE  Good(t, risk)
  <2>1. OutWell(risk, t)
    BY <1>8, OutGood
  <2> QED BY <2>1 DEF OutWell
<1>9. ASSUME ~OpensTwice(r.events), NEW o \in PlacedSet, NEW at \in Nat, NEW rate \in Nat, NEW oid \in Nat,
             OpensFor(s, oid, placed, o), risk => EntryWithin(o, at), GoesIn(s.eng, r, o, at, rate, oid)
      PROVE  Good(t, risk)
  <2>1. InWell(s, r, o, rate * at, ts, risk, t)
    BY <1>9, InGood
  <2> QED BY <2>1 DEF InWell
<1>10. ASSUME ~OpensTwice(r.events), NEW o \in PlacedSet, NEW at \in Nat, NEW rate \in Nat, NEW oid \in Nat,
              OpensFor(s, oid, placed, o), risk => EntryWithin(o, at), Flips(s.eng, r, o, at, rate, oid)
       PROVE  Good(t, risk)
  <2>1. FlipWell(s, r, o, rate * at, Closed(s.eng, at, "SIGNAL"), ts, risk, t)
    BY <1>10, FlipsGood
  <2> QED BY <2>1 DEF FlipWell
<1> HIDE DEF t
<1> QED BY <1>5, <1>6, <1>7, <1>8, <1>9, <1>10 DEF Shape

--------------------------------------------------------------------------------
(* A candle *)

\* t is a later account: its halts are kept, and a trade it opened is of these types.
Onward(s, t, types) ==
  /\ t.haltedUntil = s.haltedUntil /\ t.ddHalt = s.ddHalt
  /\ s.liquidated => t.liquidated
  /\ s.failed => t.failed
  /\ t.trades >= s.trades
  /\ t.open = s.open \/ t.open.type \in types
Ran(s, t, types, risk) == Good(t, risk) /\ Onward(s, t, types)

LEMMA RanOn ==
  ASSUME NEW s, NEW t, NEW u, NEW types, NEW risk, Good(s, risk), Ran(s, t, types, risk), Ran(t, u, types, risk)
  PROVE  Ran(s, u, types, risk)
<1>1. s.trades \in Nat /\ t.trades \in Nat /\ u.trades \in Nat
  BY DEF Ran, Good, Sound, SimSet
<1>2. u.trades >= s.trades
  BY <1>1 DEF Ran, Onward
<1> QED BY <1>2 DEF Ran, Onward

LEMMA RanNot ==
  ASSUME NEW s, NEW types, NEW risk, Good(s, risk)
  PROVE  Ran(s, s, types, risk)
<1>1. s.trades \in Nat
  BY DEF Good, Sound, SimSet
<1> QED BY <1>1 DEF Ran, Onward

LEMMA ApplyRan ==
  ASSUME NEW s, NEW risk, Good(s, risk), Alive(s), NEW r, Ended(s.eng, r), NEW placed, NEW gap \in BOOLEAN,
         Shape(s, r, placed, gap, risk), NEW types, "none" \in types, OrdersKnown(s, r, placed, types),
         risk => RestsWithin(r.eng.pending), NEW ts \in Int
  PROVE  Ran(s, Apply(s, r, placed, ts, gap), types, risk)
<1> DEFINE t == Apply(s, r, placed, ts, gap)
<1>1. Good(t, risk) /\ Applied(s, r, t, types)
  BY ApplyGood
<1> HIDE DEF t
<1>2. Ran(s, t, types, risk)
  BY <1>1 DEF Ran, Onward, Applied
<1> QED BY <1>2 DEF t

LEMMA RestsKept ==
  ASSUME NEW old, NEW new, RestsOf(old, new), RestsWithin(old)
  PROVE  RestsWithin(new)
BY DEF RestsOf, RestsWithin

ByTick == {"none", "LIMIT"}
LEMMA TickDoes ==
  ASSUME NEW s, NEW risk, Good(s, risk), NEW price \in Nat, Slip < price, NEW opening \in BOOLEAN, NEW ts \in Int
  PROVE  Ran(s, Tick(s, price, opening, ts), ByTick, risk)
<1> DEFINE e == s.eng
           r == OnPriceAs(opening, e, price)
<1>1. s \in SimSet /\ Running(e) /\ (risk => RestsWithin(e.pending))
  BY DEF Good, Sound, Within
<1>2. CASE s.failed
  BY <1>2, RanNot DEF Tick
<1>3. CASE ~s.failed
  <2>1. Tick(s, price, opening, ts) = Apply(s, r, NoTrade, ts, opening)
    BY <1>3 DEF Tick, OnPriceAs
  <2>2. /\ Ended(e, r)
        /\ \A k \in 1..Len(r.eng.pending) : \E j \in 1..Len(e.pending) : r.eng.pending[k] = e.pending[j]
        /\ \A k \in 1..Len(r.events) :
             r.events[k].opened => \E j \in 1..Len(e.pending) : r.events[k].filledPending = e.pending[j].oid
        /\ \/ Idles(e, r)
           \/ \E exit \in Nat, why \in Reasons :
                /\ GoesOut(e, r, exit, why)
                /\ why = "SL" /\ ~opening => exit = Gapped!SlippedExit(e, e.pos.sl) /\ e.pos.sl # 0
           \/ \E j \in 1..Len(e.pending) :
                LET x == e.pending[j] IN
                \/ GoesIn(e, r, x.order, x.order.price, MakerFee, x.oid)
                \/ Flips(e, r, x.order, x.order.price, MakerFee, x.oid)
           \/ Breaks(r)
           \/ OpensTwice(r.events)
    BY <1>1, OnPriceDoes
  <2> HIDE DEF r
  <2>3. RestsOf(e.pending, r.eng.pending)
    BY <2>2 DEF RestsOf
  <2>4. risk => RestsWithin(r.eng.pending)
    BY <1>1, <2>3, RestsKept
  <2>5. ASSUME NEW j \in 1..Len(e.pending)
        PROVE  /\ e.pending[j] \in RestSet /\ e.pending[j].order \in PlacedSet
               /\ e.pending[j].order.action = "LIMIT"
    <3> DEFINE list == e.pending
    <3>1. list \in Seq(RestSet)
      BY <1>1 DEF Running, EngSet
    <3> HIDE DEF list
    <3>2. j \in 1..Len(list)
      BY DEF list
    <3>3. list[j] \in RestSet
      BY <3>1, <3>2
    <3>4. list[j].order \in PlacedSet /\ list[j].order.action = "LIMIT"
      BY <3>3 DEF RestSet
    <3> QED BY <3>3, <3>4 DEF list
  <2>6. OrdersKnown(s, r, NoTrade, ByTick)
    <3> SUFFICES ASSUME NEW i \in 1..Len(r.events), r.events[i].opened
                 PROVE  /\ OrderOf(s, r.events[i], NoTrade) \in PlacedSet
                        /\ OrderOf(s, r.events[i], NoTrade).action \in ByTick
      BY DEF OrdersKnown
    <3>1. PICK j \in 1..Len(e.pending) : r.events[i].filledPending = e.pending[j].oid
      BY <2>2
    <3>2. OrderOf(s, r.events[i], NoTrade) = e.pending[j].order
      BY <1>1, <3>1, OrderIs
    <3> QED BY <2>5, <3>2 DEF ByTick
  <2>7. Shape(s, r, NoTrade, opening, risk)
    <3>1. ASSUME NEW j \in 1..Len(e.pending),
                 \/ GoesIn(e, r, e.pending[j].order, e.pending[j].order.price, MakerFee, e.pending[j].oid)
                 \/ Flips(e, r, e.pending[j].order, e.pending[j].order.price, MakerFee, e.pending[j].oid)
          PROVE  Shape(s, r, NoTrade, opening, risk)
      <4> DEFINE o == e.pending[j].order
                 oid == e.pending[j].oid
                 at == o.price
      <4>1. o \in PlacedSet /\ at \in Nat /\ oid \in Nat /\ MakerFee \in Nat
        BY <2>5, Numbers DEF PlacedSet, RestSet, Level
      <4>2. Opens(oid).filledPending = oid
        BY EventsAre
      <4>3. OpensFor(s, oid, NoTrade, o)
        BY <1>1, <4>2, OrderIs DEF OpensFor
      <4>4. risk => EntryWithin(o, at)
        <5> SUFFICES ASSUME risk PROVE EntryWithin(o, at)
          OBVIOUS
        <5> DEFINE far == Scale * o.qty * StopGap(at, o.sl)
                   slip == Scale * o.qty * Slip
        <5>1. far <= o.target
          BY <1>1 DEF RestsWithin
        <5>2. far \in Int /\ slip \in Nat /\ o.target \in Int
          <6>1. o.qty \in Nat /\ o.sl \in Nat /\ o.target \in Int
            BY <4>1 DEF PlacedSet, Level
          <6> DEFINE stop == o.sl
                     gone == StopGap(at, stop)
          <6> HIDE DEF at
          <6>2. stop \in Nat /\ at \in Nat
            BY <4>1, <6>1
          <6> HIDE DEF stop
          <6>3. gone \in Nat
            BY <6>2 DEF StopGap
          <6> HIDE DEF gone, o
          <6>4. Scale * o.qty \in Nat
            BY <6>1, Numbers
          <6> DEFINE k == Scale * o.qty
          <6> HIDE DEF k
          <6>5. k \in Nat
            BY <6>4 DEF k
          <6>6. k * gone \in Int /\ k * Slip \in Nat
            BY <6>3, <6>5, Numbers
          <6> QED BY <6>1, <6>6 DEF gone, stop, k
        <5>3. SUFFICES far <= o.target + slip
          BY DEF EntryWithin
        <5> HIDE DEF far, slip, o
        <5> QED BY <5>1, <5>2
      <4> HIDE DEF o, oid, at
      <4>5. GoesIn(e, r, o, at, MakerFee, oid) \/ Flips(e, r, o, at, MakerFee, oid)
        BY <3>1 DEF o, oid, at
      <4> QED BY <4>1, <4>3, <4>4, <4>5 DEF Shape
    <3> QED BY <2>2, <3>1 DEF Shape
  <2>8. Ran(s, Apply(s, r, NoTrade, ts, opening), ByTick, risk)
    <3>1. Alive(s) /\ "none" \in ByTick
      BY <1>3 DEF Alive, ByTick
    <3> QED BY <2>2, <2>4, <2>6, <2>7, <3>1, ApplyRan
  <2> QED BY <2>1, <2>8
<1> QED BY <1>2, <1>3

LEMMA BarIs ==
  ASSUME NEW b \in Bars
  PROVE  /\ b.open \in Nat /\ b.low \in Nat /\ b.high \in Nat /\ b.close \in Nat
         /\ Slip < b.open /\ Slip < b.low /\ Slip < b.high /\ Slip < b.close
<1>1. b.low <= b.open /\ b.low <= b.close /\ b.open <= b.high /\ Slip < b.low
  BY BacktestConstants
<1>2. b \in [{"open", "high", "low", "close"} -> Nat]
  BY BacktestConstants
<1>3. b.open \in Nat /\ b.low \in Nat /\ b.high \in Nat /\ b.close \in Nat
  BY <1>2
<1> QED BY <1>1, <1>3, Numbers

LEMMA InCandleDoes ==
  ASSUME NEW s, NEW risk, Good(s, risk), NEW b \in Bars, NEW ts \in Int
  PROVE  Ran(s, InCandle(s, b, ts), ByTick, risk)
<1>1. CASE s.eng.pos.side = "FLAT" /\ s.eng.pending = <<>>
  BY <1>1, RanNot DEF InCandle
<1>2. CASE ~(s.eng.pos.side = "FLAT" /\ s.eng.pending = <<>>)
  <2> DEFINE p1 == Path(b)[1]
             p2 == Path(b)[2]
             p3 == Path(b)[3]
             p4 == Path(b)[4]
             yes == TRUE
             no == FALSE
             t1 == Tick(s, p1, yes, ts)
             t2 == Tick(t1, p2, no, ts)
             t3 == Tick(t2, p3, no, ts)
             t4 == Tick(t3, p4, no, ts)
  <2>1. InCandle(s, b, ts) = t4
    BY <1>2 DEF InCandle
  <2>2. /\ p1 \in Nat /\ p2 \in Nat /\ p3 \in Nat /\ p4 \in Nat
        /\ Slip < p1 /\ Slip < p2 /\ Slip < p3 /\ Slip < p4
    BY BarIs DEF Path
  <2>3. yes \in BOOLEAN /\ no \in BOOLEAN
    OBVIOUS
  <2> HIDE DEF p1, p2, p3, p4, yes, no
  <2>4. Ran(s, t1, ByTick, risk)
    BY <2>2, <2>3, TickDoes
  <2> HIDE DEF t1
  <2>5. Ran(t1, t2, ByTick, risk)
    BY <2>2, <2>3, <2>4, TickDoes DEF Ran
  <2> HIDE DEF t2
  <2>6. Ran(t2, t3, ByTick, risk)
    BY <2>2, <2>3, <2>5, TickDoes DEF Ran
  <2> HIDE DEF t3
  <2>7. Ran(t3, t4, ByTick, risk)
    BY <2>2, <2>3, <2>6, TickDoes DEF Ran
  <2> HIDE DEF t4
  <2>8. Ran(s, t2, ByTick, risk)
    BY <2>4, <2>5, RanOn
  <2>9. Ran(s, t3, ByTick, risk)
    BY <2>6, <2>8, RanOn
  <2>10. Ran(s, t4, ByTick, risk)
    BY <2>7, <2>9, RanOn
  <2> QED BY <2>1, <2>10
<1> QED BY <1>1, <1>2

\* What leaves the books alone.
SameBooks(s, t) ==
  /\ t \in SimSet /\ t.eng = s.eng /\ t.qty = s.qty /\ t.balance = s.balance /\ t.pnl = s.pnl /\ t.fees = s.fees
  /\ t.tradeFees = s.tradeFees /\ t.open = s.open /\ t.last = s.last /\ t.trades = s.trades
  /\ t.failed = s.failed /\ t.twice = s.twice /\ t.liquidated = s.liquidated
LEMMA BooksKept ==
  ASSUME NEW s, NEW risk, Good(s, risk), NEW t, SameBooks(s, t)
  PROVE  Good(t, risk)
<1>1. Sound(t)
  BY DEF Good, Sound, SameBooks
<1>2. Balanced(t)
  BY DEF Good, Balanced, SameBooks
<1>3. Within(t, risk)
  BY DEF Good, Within, HeldWithin, LastWithin, SameBooks
<1> QED BY <1>1, <1>2, <1>3 DEF Good

LEMMA NewDayDoes ==
  ASSUME NEW s, NEW risk, Good(s, risk), NEW ts \in Int
  PROVE  Ran(s, NewDay(s, ts), ByTick, risk)
<1>1. s \in SimSet
  BY DEF Good, Sound
<1>2. CASE ts \div DayLength = s.day
  BY <1>2, RanNot DEF NewDay
<1>3. CASE ts \div DayLength # s.day
  <2> DEFINE day == ts \div DayLength
             zero == 0
             t == [s EXCEPT !.day = day, !.dayStart = s.balance, !.realized = zero]
  <2>1. day \in Int /\ zero \in Int /\ s.balance \in Int /\ s.trades \in Nat
    BY <1>1, Numbers DEF SimSet
  <2>2. NewDay(s, ts) = t
    BY <1>3 DEF NewDay
  <2> HIDE DEF day, zero
  <2>3. SameBooks(s, t) /\ t.haltedUntil = s.haltedUntil /\ t.ddHalt = s.ddHalt
    BY <1>1, <2>1 DEF SimSet, SameBooks
  <2> HIDE DEF t
  <2>4. Good(t, risk)
    BY <2>3, BooksKept
  <2>5. Ran(s, t, ByTick, risk)
    BY <2>1, <2>3, <2>4 DEF Ran, Onward, SameBooks
  <2> QED BY <2>2, <2>5
<1> QED BY <1>2, <1>3

LEMMA UnrealizedIs ==
  ASSUME NEW s \in SimSet, NEW price \in Nat
  PROVE  Unrealized(s, price) \in Int
<1>1. s.qty \in Nat /\ s.eng.pos.entry \in Nat
  BY DEF SimSet, EngSet, PosSet
<1>2. Gapped!Profit(s.eng.pos, price) \in Int
  BY <1>1 DEF Gapped!Profit
<1> QED BY <1>1, <1>2, Numbers DEF Unrealized

LEMMA SettledDoes ==
  ASSUME NEW s, NEW risk, Good(s, risk), NEW close \in Nat
  PROVE  LET t == Settled(s, close) IN
         Ran(s, t, ByTick, risk) /\ SameBooks(s, t)
<1> DEFINE eq == s.balance + Unrealized(s, close)
           top == IF eq > s.peak THEN eq ELSE s.peak
           t == [s EXCEPT !.peak = top]
<1>1. s \in SimSet
  BY DEF Good, Sound
<1>2. top \in Int /\ s.trades \in Nat
  BY <1>1, UnrealizedIs DEF SimSet
<1>3. Settled(s, close) = t
  BY DEF Settled
<1> HIDE DEF top
<1>4. SameBooks(s, t) /\ t.haltedUntil = s.haltedUntil /\ t.ddHalt = s.ddHalt
  BY <1>1, <1>2 DEF SimSet, SameBooks
<1> HIDE DEF t
<1>5. Good(t, risk)
  BY <1>4, BooksKept
<1>6. Ran(s, t, ByTick, risk)
  BY <1>2, <1>4, <1>5 DEF Ran, Onward, SameBooks
<1> QED BY <1>3, <1>4, <1>6

--------------------------------------------------------------------------------
(* Sizing *)

Methods == {"risk_pct", "risk_usdt", "notional_pct", "notional_usdt", "fixed_qty"}
CfgOK == cfg.method \in Methods /\ cfg.value \in Nat /\ cfg.leverage \in Nat /\ cfg.leverage >= 1
ByRisk == cfg.method \in {"risk_pct", "risk_usdt"}

LEMMA Divides ==
  ASSUME NEW a \in Int, NEW b \in Nat, b >= 1
  PROVE  a \div b \in Int /\ b * (a \div b) <= a /\ a < b * (a \div b) + b
OBVIOUS

EntrySet == {o \in Orders : o.action \in {"MARKET", "LIMIT"}}
StopOf(order, entry) == IF order.sl > entry THEN order.sl - entry ELSE entry - order.sl
UnitCost(entry) == (Scale * entry + cfg.leverage - 1) \div cfg.leverage + entry * TakerFee

LEMMA UnitCostIs ==
  ASSUME CfgOK, NEW entry \in Nat, 0 < entry
  PROVE  /\ UnitCost(entry) \in Nat /\ UnitCost(entry) >= 1
         /\ Scale * entry + entry * TakerFee * cfg.leverage <= cfg.leverage * UnitCost(entry)
<1> DEFINE lev == cfg.leverage
           money == Scale * entry
           ceil == (money + lev - 1) \div lev
           fee == entry * TakerFee
<1>1. lev \in Nat /\ lev >= 1 /\ fee \in Nat /\ money \in Nat /\ money >= 1
  BY Numbers DEF CfgOK
<1> HIDE DEF lev, money, fee
<1>2. ceil \in Int /\ lev * ceil <= money + lev - 1 /\ money + lev - 1 < lev * ceil + lev
  BY <1>1, Divides
<1> HIDE DEF ceil
<1>3. lev * ceil \in Int /\ money <= lev * ceil
  BY <1>1, <1>2
<1>4. ceil >= 1
  BY <1>1, <1>2, <1>3
<1>5. lev * (ceil + fee) = lev * ceil + fee * lev
  BY <1>1, <1>2
<1>6. ceil + fee \in Nat /\ ceil + fee >= 1 /\ money + fee * lev <= lev * (ceil + fee)
  BY <1>1, <1>2, <1>3, <1>4, <1>5
<1> QED BY <1>6 DEF UnitCost, lev, money, fee, ceil

\* A quantity that is not refused: what it may lose and what it costs.
Affords(order, entry, a, freedMargin, q) ==
  /\ q \in Nat
  /\ q # 0 =>
       /\ q * UnitCost(entry) <= a.available + freedMargin
       /\ ByRisk => Scale * q * StopOf(order, entry) <= RiskTarget(a)
LEMMA SizeOrderIs ==
  ASSUME CfgOK, NEW order \in EntrySet, NEW entry \in Nat, 0 < entry, NEW a,
         a.equity \in Int, a.available \in Int, a.openRisk \in Int, NEW freedMargin \in Int, NEW freedRisk \in Int
  PROVE  Affords(order, entry, a, freedMargin, SizeOrder(order, entry, a, freedMargin, freedRisk))
<1> DEFINE stop == StopOf(order, entry)
           unit == Scale * (IF order.sl = 0 \/ stop = 0 THEN entry ELSE stop)
           wanted == WantedQty(order, entry, a)
           capped == IF MaxRiskPct = 0 THEN wanted
                     ELSE AtMost(wanted, (a.equity * MaxRiskPct) \div (100 * unit))
           room == (a.equity * MaxOpenRiskPct) \div 100 - (a.openRisk - freedRisk)
           roomy == IF MaxOpenRiskPct = 0 THEN capped ELSE AtMost(capped, room \div unit)
           avail == a.available + freedMargin
           cost == UnitCost(entry)
           qty == AtMost(roomy, avail \div cost)
           refused0 == wanted <= 0 \/ (MaxOpenRiskPct # 0 /\ room <= 0) \/ avail <= 0 \/ Scale * qty * entry < MinNotional
           q == SizeOrder(order, entry, a, freedMargin, freedRisk)
<1>1. q = IF refused0 THEN 0 ELSE qty
  BY DEF SizeOrder, StopOf, UnitCost
<1>2. order.sl \in Nat /\ order.size \in Nat
  BY BacktestConstants DEF EntrySet
<1>3. stop \in Nat /\ Scale * entry \in Nat /\ Scale * entry >= 1
  BY <1>2, Numbers DEF StopOf
<1>4. unit \in Nat /\ unit >= 1
  BY <1>3, Numbers
<1>5. cost \in Nat /\ cost >= 1 /\ avail \in Int
  BY UnitCostIs
<1>6. wanted \in Int
  <2>1. RiskTarget(a) \in Int
    BY Numbers, Divides DEF RiskTarget, CfgOK
  <2>2. CASE cfg.method \in {"risk_pct", "risk_usdt"}
    <3>1. wanted = IF order.sl = 0 \/ stop = 0 THEN 0 ELSE RiskTarget(a) \div (Scale * stop)
      BY <2>2 DEF WantedQty, StopOf
    <3>2. stop # 0 => Scale * stop \in Nat /\ Scale * stop >= 1
      BY <1>3, Numbers
    <3> QED BY <1>3, <2>1, <3>1, <3>2, Divides
  <2>3. CASE cfg.method = "notional_pct"
    <3>1. wanted = (a.equity * cfg.value) \div (100 * Scale * entry)
      BY <2>3 DEF WantedQty
    <3>2. 100 * Scale * entry \in Nat /\ 100 * Scale * entry >= 1 /\ a.equity * cfg.value \in Int
      BY Numbers DEF CfgOK
    <3> QED BY <3>1, <3>2, Divides
  <2>4. CASE cfg.method = "notional_usdt"
    <3> DEFINE value == cfg.value
               notional == Scale * entry
    <3>1. wanted = value \div notional
      BY <2>4 DEF WantedQty
    <3>2. notional \in Nat /\ notional >= 1 /\ value \in Int
      BY <1>3 DEF CfgOK
    <3> HIDE DEF value, notional
    <3> QED BY <3>1, <3>2, Divides
  <2>5. CASE cfg.method = "fixed_qty"
    BY <1>2, <2>5 DEF WantedQty, CfgOK
  <2> QED BY <2>2, <2>3, <2>4, <2>5 DEF CfgOK, Methods
<1>7. room \in Int
  BY Numbers, Divides
<1> HIDE DEF stop, unit, wanted, room, avail, cost, q
<1>8. capped \in Int /\ capped <= wanted
  <2>1. (a.equity * MaxRiskPct) \div (100 * unit) \in Int
    <3>1. a.equity * MaxRiskPct \in Int /\ 100 * unit \in Nat /\ 100 * unit >= 1
      BY <1>4, Numbers
    <3> QED BY <3>1, Divides
  <2> DEFINE cap == (a.equity * MaxRiskPct) \div (100 * unit)
  <2> HIDE DEF cap
  <2>2. cap \in Int /\ capped = IF MaxRiskPct = 0 THEN wanted ELSE AtMost(wanted, cap)
    BY <2>1 DEF cap
  <2> HIDE DEF capped
  <2> QED BY <1>6, <2>2 DEF AtMost
<1> HIDE DEF capped
<1>9. roomy \in Int /\ roomy <= wanted
  <2>1. room \div unit \in Int
    BY <1>4, <1>7, Divides
  <2> DEFINE cap == room \div unit
  <2> HIDE DEF cap
  <2>2. cap \in Int /\ roomy = IF MaxOpenRiskPct = 0 THEN capped ELSE AtMost(capped, cap)
    BY <2>1 DEF cap
  <2> HIDE DEF roomy
  <2> QED BY <1>6, <1>8, <2>2 DEF AtMost
<1> HIDE DEF roomy
<1>10. qty \in Int /\ qty <= wanted /\ qty <= avail \div cost
  <2>1. avail \div cost \in Int
    BY <1>5, Divides
  <2> DEFINE cap == avail \div cost
  <2> HIDE DEF cap
  <2>2. cap \in Int /\ qty = AtMost(roomy, cap)
    BY <2>1 DEF cap
  <2> HIDE DEF qty
  <2>3. qty \in Int /\ qty <= wanted /\ qty <= cap
    BY <1>6, <1>9, <2>2 DEF AtMost
  <2> QED BY <2>3 DEF cap
<1> HIDE DEF qty
<1>11. CASE refused0
  BY <1>1, <1>11 DEF Affords, q
<1>12. CASE ~refused0
  <2>1. q = qty /\ wanted > 0 /\ ~(Scale * qty * entry < MinNotional)
    BY <1>1, <1>6, <1>12
  <2>2. qty >= 0
    <3> DEFINE p == Scale * entry
    <3>1. Scale * qty * entry = p * qty /\ p >= 1 /\ p \in Nat
      BY <1>3, <1>10, Numbers
    <3> HIDE DEF p
    <3>2. qty < 0 => p * qty < 0
      BY <1>10, <3>1
    <3> QED BY <1>10, <2>1, <3>1, <3>2, Numbers
  <2>3. q * cost <= avail
    <3>1. cost * (avail \div cost) <= avail /\ avail \div cost \in Int
      BY <1>5, Divides
    <3>2. cost * qty <= cost * (avail \div cost)
      BY <1>5, <1>10, <3>1, Products
    <3> QED BY <1>5, <1>10, <2>1, <3>1, <3>2
  <2>4. ASSUME ByRisk PROVE Scale * q * stop <= RiskTarget(a)
    <3>1. order.sl # 0 /\ stop # 0 /\ wanted = RiskTarget(a) \div (Scale * stop)
      BY <2>1, <2>4 DEF wanted, WantedQty, ByRisk, stop, StopOf
    <3> DEFINE k == Scale * stop
               target == RiskTarget(a)
    <3>2. k \in Nat /\ k >= 1
      BY <1>3, <3>1, Numbers
    <3>3. target \in Int
      BY Numbers, Divides DEF RiskTarget, CfgOK
    <3>4. wanted = target \div k
      BY <3>1
    <3>5. Scale * q * stop = k * qty
      BY <1>3, <1>10, <2>1, Numbers
    <3> HIDE DEF k, target
    <3>6. k * (target \div k) <= target
      BY <3>2, <3>3, Divides
    <3>7. k * qty <= k * wanted
      BY <1>6, <1>10, <3>2, Products
    <3>8. k * qty <= target
      BY <1>6, <1>10, <3>2, <3>3, <3>4, <3>6, <3>7
    <3> QED BY <3>5, <3>8 DEF target
  <2> QED BY <1>10, <2>1, <2>2, <2>3, <2>4 DEF Affords, q, stop, avail, cost
<1> QED BY <1>11, <1>12

LEMMA AccountIs ==
  ASSUME CfgOK, NEW s \in SimSet, NEW price \in Nat
  PROVE  LET a == AccountState(s, price) IN
         /\ a.equity = s.balance + Unrealized(s, price) /\ a.equity \in Int
         /\ a.available = a.equity - Margin(s) /\ a.available \in Int
         /\ Margin(s) \in Int /\ a.openRisk \in Int /\ OpenRisk(s) \in Int
<1> DEFINE a == AccountState(s, price)
<1>1. s.balance \in Int /\ Unrealized(s, price) \in Int
  BY UnrealizedIs DEF SimSet
<1>2. s.qty \in Nat /\ s.eng.pos.entry \in Nat /\ s.eng.pos.sl \in Nat
  BY DEF SimSet, EngSet, PosSet, Level
<1>3. Margin(s) \in Int
  <2>1. Scale * s.eng.pos.entry * s.qty \in Int
    BY <1>2, Numbers
  <2> QED BY <2>1, Divides DEF Margin, CfgOK
<1>4. OpenRisk(s) \in Int
  BY <1>2, Numbers DEF OpenRisk, PositionRisk
<1>5. /\ a.equity = s.balance + Unrealized(s, price) /\ a.available = a.equity - Margin(s)
      /\ a.openRisk = IF s.eng.pos.side = "FLAT" THEN 0 ELSE OpenRisk(s)
  BY DEF AccountState
<1> HIDE DEF a
<1>6. a.equity \in Int /\ a.available \in Int /\ a.openRisk \in Int
  BY <1>1, <1>3, <1>4, <1>5
<1> QED BY <1>3, <1>4, <1>5, <1>6 DEF a

GatedBy(s, ts, g, risk) ==
  /\ Good(g.sim, risk) /\ g.sim.open = s.open /\ g.sim.trades = s.trades
  /\ ~g.blocked => g.sim = s /\ ~Stopped(s, ts)
LEMMA BlockedDoes ==
  ASSUME NEW s, NEW risk, Good(s, risk), NEW ts \in Int, NEW price \in Nat
  PROVE  GatedBy(s, ts, Blocked(s, ts, price), risk)
<1> DEFINE g == Blocked(s, ts, price)
           a == AccountState(s, price)
           nextDay == ts \div DayLength + 1
           halted == [s EXCEPT !.haltedUntil = nextDay]
           over == [s EXCEPT !.ddHalt = ts]
<1>1. s \in SimSet
  BY DEF Good, Sound
<1>2. nextDay \in Int
  BY Numbers, Divides
<1> HIDE DEF nextDay, a
<1>3. \/ g = [blocked |-> TRUE, sim |-> s]
      \/ g = [blocked |-> TRUE, sim |-> over]
      \/ g = [blocked |-> TRUE, sim |-> halted]
      \/ g = [blocked |-> FALSE, sim |-> s] /\ ~Stopped(s, ts)
  BY DEF Blocked, nextDay, a
<1>4. SameBooks(s, over) /\ SameBooks(s, halted) /\ SameBooks(s, s)
  BY <1>1, <1>2 DEF SimSet, SameBooks
<1> HIDE DEF over, halted, g
<1>5. SameBooks(s, g.sim) /\ (~g.blocked => g.sim = s /\ ~Stopped(s, ts))
  BY <1>3, <1>4
<1>6. Good(g.sim, risk)
  BY <1>5, BooksKept
<1>7. GatedBy(s, ts, g, risk)
  BY <1>5, <1>6 DEF GatedBy, SameBooks
<1> QED BY <1>7 DEF g

\* The order that is sent.
LEMMA SizedIs ==
  ASSUME CfgOK, NEW s \in SimSet, NEW order \in EntrySet, NEW close \in Nat, NEW entry \in Nat, 0 < entry
  PROVE  LET a == AccountState(s, close)
             o == SizedOrder(s, order, entry, a) IN
         /\ o \in PlacedSet /\ o.action = order.action /\ o.price = order.price /\ o.sl = order.sl
         /\ o.target = RiskTarget(a)
         /\ Affords(order, entry, a, IF s.eng.pos.side # "FLAT" THEN Margin(s) ELSE 0, o.qty)
<1> DEFINE a == AccountState(s, close)
           freedMargin == IF s.eng.pos.side # "FLAT" THEN Margin(s) ELSE 0
           freedRisk == IF s.eng.pos.side # "FLAT" THEN OpenRisk(s) ELSE 0
           q == SizeOrder(order, entry, a, freedMargin, freedRisk)
           target == RiskTarget(a)
           o == [order EXCEPT !.qty = q, !.target = target]
<1>1. a.equity \in Int /\ a.available \in Int /\ a.openRisk \in Int /\ Margin(s) \in Int /\ OpenRisk(s) \in Int
  BY AccountIs
<1>2. SizedOrder(s, order, entry, a) = o
  BY DEF SizedOrder
<1> HIDE DEF a
<1>3. freedMargin \in Int /\ freedRisk \in Int
  BY <1>1
<1> HIDE DEF freedMargin, freedRisk
<1>4. Affords(order, entry, a, freedMargin, q)
  BY <1>1, <1>3, SizeOrderIs
<1>5. target \in Int
  BY <1>1, Numbers, Divides DEF RiskTarget, CfgOK
<1>6. order \in [action : {"MARKET", "LIMIT"}, side : {"BUY", "SELL"}, price : Level, sl : Level, tp : Level,
                 size : Nat, qty : Nat, target : Int]
  <2>1. order \in Orders /\ order.action \in {"MARKET", "LIMIT"}
    BY DEF EntrySet
  <2>2. /\ order \in [action : {"none", "MARKET", "LIMIT", "CLOSE", "CANCEL"}, side : {"", "BUY", "SELL"},
                      price : Nat, sl : Nat, tp : Nat, size : Nat, qty : {0}, target : {0}]
        /\ {order.price, order.sl, order.tp} \cap 1..Slip = {} /\ order.side # ""
    BY <2>1, BacktestConstants
  <2>3. ASSUME NEW x \in {order.price, order.sl, order.tp} PROVE x \in Level
    <3>1. x \notin 1..Slip /\ x \in Nat
      BY <2>2
    <3> QED BY <3>1, Numbers DEF Level
  <2>4. order.price \in Level /\ order.sl \in Level /\ order.tp \in Level
    BY <2>3
  <2> DEFINE zero == 0
  <2>5. zero \in Nat /\ zero \in Int
    OBVIOUS
  <2>6. order.qty = zero /\ order.target = zero /\ order.side \in {"BUY", "SELL"} /\ order.size \in Nat
    BY <2>2
  <2>7. order = [action |-> order.action, side |-> order.side, price |-> order.price, sl |-> order.sl,
                 tp |-> order.tp, size |-> order.size, qty |-> order.qty, target |-> order.target]
    BY <2>2
  <2> HIDE DEF zero
  <2> QED BY <2>1, <2>4, <2>5, <2>6, <2>7
<1>7. q \in Nat
  BY <1>4 DEF Affords
<1> HIDE DEF q, target
<1>8. o \in PlacedSet /\ o.action = order.action /\ o.price = order.price /\ o.sl = order.sl
      /\ o.target = target /\ o.qty = q
  BY <1>5, <1>6, <1>7 DEF PlacedSet
<1> HIDE DEF o
<1> QED BY <1>2, <1>4, <1>8 DEF a, freedMargin, target

--------------------------------------------------------------------------------
(* Entering *)

LEMMA PlaceLimit ==
  ASSUME NEW s, NEW risk, Good(s, risk), Alive(s), NEW o \in PlacedSet, o.action = "LIMIT", o.price # 0,
         risk => Scale * o.qty * StopGap(o.price, o.sl) <= o.target,
         NEW close, NEW ts \in Int, NEW gap \in BOOLEAN
  PROVE  Ran(s, Apply(s, Gapped!Submit(s.eng, o, close), o, ts, gap), ByTick, risk)
<1> DEFINE e == s.eng
           r == Gapped!Submit(e, o, close)
<1>1. Running(e) /\ (risk => RestsWithin(e.pending))
  BY DEF Good, Sound, Within
<1>2. /\ Ended(e, r) /\ Idles(e, r)
      /\ \A k \in 1..Len(r.eng.pending) :
           r.eng.pending[k].order = o \/ \E j \in 1..Len(e.pending) : r.eng.pending[k] = e.pending[j]
  BY <1>1, LimitDoes
<1> HIDE DEF r
<1>3. risk => RestsWithin(r.eng.pending)
  BY <1>1, <1>2 DEF RestsWithin
<1>4. OrdersKnown(s, r, o, ByTick) /\ Shape(s, r, o, gap, risk) /\ "none" \in ByTick
  BY <1>2 DEF OrdersKnown, Shape, Idles, ByTick
<1>5. Ran(s, Apply(s, r, o, ts, gap), ByTick, risk)
  BY <1>2, <1>3, <1>4, ApplyRan
<1> QED BY <1>5 DEF r

\* The margin of q at fill, of a position that q units at close could be paid for.
LEMMA Covers ==
  ASSUME CfgOK, NEW close \in Nat, Slip < close, NEW fill \in Nat, fill <= close + Slip, NEW q \in Nat,
         NEW funds \in Int, q * UnitCost(close) <= funds
  PROVE  (Scale * fill * q) \div cfg.leverage <= funds - q * (TakerFee * fill) + q * (Scale + TakerFee) * Slip
<1> DEFINE lev == cfg.leverage
           u == UnitCost(close)
           c == u - close * TakerFee
           m == (Scale * fill * q) \div lev
           k == q * Scale
           f == q * TakerFee
<1>1. Slip \in Nat /\ Scale \in Nat /\ TakerFee \in Nat /\ lev \in Nat /\ lev >= 1
  BY Numbers DEF CfgOK
<1>2. u \in Nat /\ Scale * close + close * TakerFee * lev <= lev * u
  BY <1>1, UnitCostIs
<1>3. lev * m <= k * fill /\ m \in Int
  <2>1. Scale * fill * q \in Int /\ Scale * fill * q = k * fill
    BY <1>1
  <2> QED BY <1>1, <2>1, Divides
<1>4. k \in Nat /\ f \in Nat /\ c \in Int
  BY <1>1, <1>2
<1> HIDE DEF u, m
<1>5. Scale * close <= lev * c
  <2>1. lev * c = lev * u - close * TakerFee * lev
    BY <1>1, <1>2
  <2>2. Scale * close \in Int /\ close * TakerFee * lev \in Int /\ lev * u \in Int
    BY <1>1, <1>2
  <2> QED BY <1>2, <2>1, <2>2
<1>6. k * (close + Slip) <= lev * (q * c + k * Slip)
  <2>1. q * (Scale * close) <= q * (lev * c)
    <3>1. Scale * close \in Int /\ lev * c \in Int
      BY <1>1, <1>4
    <3> QED BY <1>5, <3>1, Products
  <2>2. k * Slip <= lev * (k * Slip)
    BY <1>1, <1>4
  <2>3. /\ q * (Scale * close) = k * close /\ q * (lev * c) = lev * (q * c)
        /\ k * (close + Slip) = k * close + k * Slip
        /\ lev * (q * c + k * Slip) = lev * (q * c) + lev * (k * Slip)
    BY <1>1, <1>4
  <2>4. k * close \in Int /\ k * Slip \in Int /\ lev * (q * c) \in Int /\ lev * (k * Slip) \in Int
    BY <1>1, <1>4
  <2> QED BY <2>1, <2>2, <2>3, <2>4
<1>7. m <= q * c + k * Slip
  <2> DEFINE x == q * c + k * Slip
  <2>1. x \in Int
    BY <1>1, <1>4
  <2>2. k * fill <= k * (close + Slip) /\ k * fill \in Int /\ k * (close + Slip) \in Int
    BY <1>1, <1>4, Products
  <2> HIDE DEF x, k
  <2>3. lev * m <= lev * x
    <3>1. lev * m \in Int /\ lev * x \in Int
      BY <1>1, <1>3, <2>1
    <3>2. k * (close + Slip) <= lev * x
      BY <1>6 DEF x
    <3> QED BY <1>3, <2>2, <3>1, <3>2
  <2>4. m <= x
    <3> SUFFICES ASSUME m > x PROVE FALSE
      BY <1>3, <2>1
    <3>1. m >= x + 1
      BY <1>3, <2>1
    <3>2. lev * (x + 1) <= lev * m
      BY <1>1, <1>3, <2>1, <3>1, Products
    <3>3. lev * (x + 1) = lev * x + lev
      BY <1>1, <2>1
    <3>4. lev * m \in Int /\ lev * x \in Int
      BY <1>1, <1>3, <2>1
    <3> QED BY <1>1, <2>3, <3>2, <3>3, <3>4
  <2> QED BY <2>4 DEF x
<1>8. f * fill <= f * (close + Slip)
  BY <1>1, <1>4, Products
<1>9. /\ q * u = q * c + f * close
      /\ q * (TakerFee * fill) = f * fill
      /\ q * (Scale + TakerFee) * Slip = k * Slip + f * Slip
      /\ f * (close + Slip) = f * close + f * Slip
  BY <1>1, <1>2
<1>10. /\ q * c \in Int /\ f * close \in Int /\ f * fill \in Int /\ k * Slip \in Int /\ f * Slip \in Int
       /\ q * u \in Int
  BY <1>1, <1>2, <1>4
<1> DEFINE qu == q * u
           qc == q * c
           fc == f * close
           ff == f * fill
           ks == k * Slip
           fs == f * Slip
<1>11. /\ qu \in Int /\ qc \in Int /\ fc \in Int /\ ff \in Int /\ ks \in Int /\ fs \in Int
       /\ m <= qc + ks /\ ff <= fc + fs /\ qu = qc + fc /\ qu <= funds
  BY <1>7, <1>8, <1>9, <1>10 DEF u
<1>12. SUFFICES m <= funds - ff + (ks + fs)
  BY <1>9 DEF m
<1> HIDE DEF qu, qc, fc, ff, ks, fs, k, f, c, lev
<1> QED BY <1>3, <1>11

\* Paid for, but for slippage and what the exit of an old position cost.
CoveredBy(s, t) ==
  Margin(t) <= t.balance + t.qty * (Scale + TakerFee) * Slip
                 + (IF t.trades = s.trades THEN 0 ELSE t.last.qty * Scale * Slip + t.last.fee)
Placed(s, t, risk) ==
  Good(t, risk) /\ t.trades >= s.trades /\ (t.open = s.open \/ CoveredBy(s, t))

LEMMA PlaceIn ==
  ASSUME CfgOK, NEW s, NEW risk, Good(s, risk), NEW o \in PlacedSet, NEW r,
         NEW close \in Nat, Slip < close, NEW fill \in Nat, fill <= close + Slip,
         o.qty * UnitCost(close) <= s.balance, NEW ts,
         r.eng.pos = PosOf(o, fill), NEW t, InWell(s, r, o, TakerFee * fill, ts, risk, t)
  PROVE  Placed(s, t, risk)
<1> DEFINE q == o.qty
           cost == q * (TakerFee * fill)
           slip == q * (Scale + TakerFee) * Slip
           m == (Scale * fill * q) \div cfg.leverage
<1>1. s \in SimSet /\ t \in SimSet /\ Good(t, risk)
  BY DEF Good, Sound, InWell
<1>2. s.trades \in Nat /\ s.balance \in Int /\ t.last.qty \in Nat /\ t.last.fee \in Nat /\ q \in Nat
  BY <1>1 DEF SimSet, LastSet, PlacedSet
<1>3. m <= s.balance - cost + slip
  BY <1>2, Covers
<1>4. t.balance = s.balance - cost /\ t.trades = s.trades /\ t.qty = q /\ t.eng.pos.entry = fill
  BY DEF InWell, PosOf
<1>5. Margin(t) = m
  BY <1>4 DEF Margin
<1> HIDE DEF m, cost
<1>6. CoveredBy(s, t)
  <2> DEFINE got == t.balance + slip
  <2>1. Margin(t) <= got
    BY <1>3, <1>4, <1>5
  <2>2. got \in Int
    BY <1>1, <1>2, Numbers DEF SimSet
  <2>3. CoveredBy(s, t) <=> Margin(t) <= got + 0
    BY <1>4 DEF CoveredBy
  <2> HIDE DEF got
  <2> QED BY <2>1, <2>2, <2>3
<1> QED BY <1>1, <1>2, <1>4, <1>6 DEF Placed

LEMMA PlaceFlips ==
  ASSUME CfgOK, NEW s, NEW risk, Good(s, risk), NEW o \in PlacedSet, NEW r, s.eng.pos.side # "FLAT",
         NEW close \in Nat, Slip < close, NEW fill \in Nat, fill <= close + Slip, close <= fill + Slip,
         o.qty * UnitCost(close) <= s.balance + Unrealized(s, close), NEW ts,
         r.eng.pos = PosOf(o, fill), NEW t,
         FlipWell(s, r, o, TakerFee * fill, Closed(s.eng, fill, "SIGNAL"), ts, risk, t)
  PROVE  Placed(s, t, risk)
<1> DEFINE q == o.qty
           cost == q * (TakerFee * fill)
           slip == q * (Scale + TakerFee) * Slip
           m == (Scale * fill * q) \div cfg.leverage
           c == Closed(s.eng, fill, "SIGNAL")
           p == Gapped!Profit(s.eng.pos, close)
           k == Scale * s.qty
           exit == s.qty * c.exitFee
           paid == s.qty * (c.entryFee + c.exitFee)
<1>1. s \in SimSet /\ t \in SimSet /\ Good(t, risk)
  BY DEF Good, Sound, FlipWell
<1>2. /\ s.trades \in Nat /\ s.balance \in Int /\ s.qty \in Nat /\ q \in Nat
      /\ s.eng.pos.entry \in Nat /\ s.eng.fee \in Nat
  BY <1>1 DEF SimSet, EngSet, PosSet, PlacedSet
<1>3. Unrealized(s, close) = k * p /\ p \in Int /\ k \in Nat /\ k * p \in Int
  BY <1>2, Numbers DEF Unrealized, Gapped!Profit
<1>4. m <= (s.balance + k * p) - cost + slip
  BY <1>2, <1>3, Covers
<1>5. /\ t.balance = s.balance + (k * c.gross - exit) - cost
      /\ t.trades = s.trades + 1 /\ t.qty = q /\ t.eng.pos.entry = fill
      /\ t.last.qty = s.qty /\ t.last.fee = paid
  BY DEF FlipWell, PosOf
<1>6. Margin(t) = m
  BY <1>5 DEF Margin
<1>7. c.gross \in Int /\ c.entryFee \in Nat /\ c.exitFee \in Nat /\ p - Slip <= c.gross
  BY <1>2, Numbers DEF Closed, Gapped!Profit
<1>8. exit \in Nat /\ paid \in Nat /\ exit <= paid
  BY <1>2, <1>7
<1>9. k * (p - Slip) <= k * c.gross /\ k * (p - Slip) = k * p - k * Slip
      /\ k * Slip \in Int /\ k * c.gross \in Int /\ s.qty * Scale * Slip = k * Slip
  BY <1>2, <1>3, <1>7, Products, Numbers
<1>10. cost \in Int /\ slip \in Int
  BY <1>2, Numbers
<1> DEFINE kp == k * p
           ks == k * Slip
           kg == k * c.gross
           b == s.balance
<1>11. /\ kp \in Int /\ ks \in Int /\ kg \in Int /\ b \in Int /\ kp - ks <= kg
       /\ Margin(t) <= (b + kp) - cost + slip
       /\ t.balance = b + (kg - exit) - cost
  BY <1>2, <1>3, <1>4, <1>5, <1>6, <1>9
<1>12. CoveredBy(s, t) <=> Margin(t) <= t.balance + slip + (ks + paid)
  BY <1>2, <1>5, <1>9 DEF CoveredBy
<1>13. Margin(t) \in Int
  <2>1. Scale * t.eng.pos.entry * t.qty \in Int
    BY <1>2, <1>5, Numbers
  <2> QED BY <2>1, Divides DEF Margin, CfgOK
<1>14. t.trades >= s.trades
  BY <1>2, <1>5
<1> HIDE DEF kp, ks, kg, b, cost, slip, exit, paid
<1>15. Margin(t) <= t.balance + slip + (ks + paid)
  BY <1>8, <1>10, <1>11, <1>13
<1> QED BY <1>1, <1>12, <1>14, <1>15 DEF Placed

LEMMA PlaceMarket ==
  ASSUME CfgOK, NEW s, NEW risk, Good(s, risk), Alive(s), NEW o \in PlacedSet, o.action = "MARKET",
         NEW close \in Nat, Slip < close,
         risk => Scale * o.qty * StopGap(close, o.sl) <= o.target,
         o.qty * UnitCost(close) <= s.balance + Unrealized(s, close), NEW ts \in Int, NEW gap \in BOOLEAN
  PROVE  Placed(s, Apply(s, Gapped!Submit(s.eng, o, close), o, ts, gap), risk)
<1> DEFINE e == s.eng
           r == Gapped!Submit(e, o, close)
           t == Apply(s, r, o, ts, gap)
           fill == Gapped!Slipped(o.side, close)
           oid == 0
<1>1. s \in SimSet /\ Running(e) /\ (risk => RestsWithin(e.pending)) /\ s.trades \in Nat
  BY DEF Good, Sound, Within, SimSet
<1>2. /\ fill \in Nat /\ Ended(e, r) /\ RestsOf(e.pending, r.eng.pending)
      /\ Idles(e, r) \/ GoesIn(e, r, o, fill, TakerFee, oid) \/ Flips(e, r, o, fill, TakerFee, oid)
  BY <1>1, MarketSubmits
<1>3. fill <= close + Slip /\ close <= fill + Slip
  BY Numbers DEF Gapped!Slipped, PlacedSet
<1>4. OpensFor(s, oid, o, o)
  BY EventsAre DEF OpensFor, OrderOf
<1>5. oid \in Nat /\ TakerFee \in Nat
  BY Numbers
<1> HIDE DEF r, fill, oid, t
<1>6. risk => RestsWithin(r.eng.pending)
  BY <1>1, <1>2, RestsKept
<1>7. risk => EntryWithin(o, fill)
  <2> SUFFICES ASSUME risk PROVE EntryWithin(o, fill)
    OBVIOUS
  <2> DEFINE k == Scale * o.qty
             stop == o.sl
             near == StopGap(close, stop)
             far == StopGap(fill, stop)
  <2>1. k \in Nat /\ stop \in Nat /\ o.target \in Int
    BY Numbers DEF PlacedSet, Level
  <2>2. k * near <= o.target
    OBVIOUS
  <2> HIDE DEF stop
  <2>3. near \in Nat /\ far \in Nat /\ far <= near + Slip
    BY <1>2, <1>3, <2>1, Numbers DEF StopGap
  <2> HIDE DEF near, far, k
  <2>4. k * far <= k * (near + Slip) /\ k * (near + Slip) = k * near + k * Slip
    BY <2>1, <2>3, Numbers, Products
  <2>5. k * far \in Int /\ k * near \in Int /\ k * Slip \in Int
    BY <2>1, <2>3, Numbers
  <2>6. k * far <= o.target + k * Slip
    BY <2>1, <2>2, <2>4, <2>5
  <2> QED BY <2>6 DEF EntryWithin, far, k, stop
<1>8. CASE Idles(e, r)
  <2>1. IdleWell(s, risk, t)
    BY <1>2, <1>6, <1>8, IdlesGood DEF t
  <2> QED BY <1>1, <2>1 DEF IdleWell, Placed, t, r
<1>9. CASE GoesIn(e, r, o, fill, TakerFee, oid)
  <2>1. ~OpensTwice(r.events)
    BY <1>9 DEF GoesIn, OpensTwice
  <2>2. InWell(s, r, o, TakerFee * fill, ts, risk, t)
    BY <1>2, <1>4, <1>5, <1>6, <1>7, <1>9, <2>1, InGood DEF t
  <2>3. o.qty * UnitCost(close) <= s.balance
    <3>1. Unrealized(s, close) = 0 /\ s.balance \in Int
      BY <1>1, <1>9 DEF GoesIn, Unrealized, SimSet
    <3> QED BY <3>1
  <2>4. r.eng.pos = PosOf(o, fill)
    BY <1>9 DEF GoesIn
  <2>5. Placed(s, t, risk)
    BY <1>2, <1>3, <2>2, <2>3, <2>4, PlaceIn
  <2> QED BY <2>5 DEF t, r
<1>10. CASE Flips(e, r, o, fill, TakerFee, oid)
  <2>1. ~OpensTwice(r.events)
    BY <1>10, EventsAre DEF Flips, OpensTwice
  <2>2. FlipWell(s, r, o, TakerFee * fill, Closed(e, fill, "SIGNAL"), ts, risk, t)
    BY <1>2, <1>4, <1>5, <1>6, <1>7, <1>10, <2>1, FlipsGood DEF t
  <2>3. r.eng.pos = PosOf(o, fill) /\ e.pos.side # "FLAT"
    BY <1>10 DEF Flips
  <2>4. Placed(s, t, risk)
    BY <1>2, <1>3, <2>2, <2>3, PlaceFlips
  <2> QED BY <2>4 DEF t, r
<1> QED BY <1>2, <1>8, <1>9, <1>10

\* t keeps the halts of the account that passed or met the guards.
SameHalts(s, t) == t.haltedUntil = s.haltedUntil /\ t.ddHalt = s.ddHalt
LEMMA PlacedHalts ==
  ASSUME NEW s \in SimSet, Running(s.eng), NEW o \in PlacedSet, o.action = "MARKET",
         NEW close \in Nat, Slip < close, NEW ts \in Int, NEW gap \in BOOLEAN
  PROVE  SameHalts(s, Apply(s, Gapped!Submit(s.eng, o, close), o, ts, gap))
<1> DEFINE r == Gapped!Submit(s.eng, o, close)
           types == {"none", "MARKET"}
<1>1. /\ Ended(s.eng, r)
      /\ \A i \in 1..Len(r.events) : r.events[i].opened => r.events[i].filledPending = 0
  BY MarketSubmits
<1> HIDE DEF r
<1>2. OrdersKnown(s, r, o, types)
  BY <1>1 DEF OrdersKnown, OrderOf
<1>3. Applied(s, r, Apply(s, r, o, ts, gap), types)
  BY <1>1, <1>2, ApplyFollows
<1>4. SameHalts(s, Apply(s, r, o, ts, gap))
  BY <1>3 DEF Applied, SameHalts
<1> QED BY <1>4 DEF r

\* What the guards say to an entry; any other signal does not ask them.
Gate(s, order, ts, close) ==
  IF Asks(s, order) THEN Blocked(s, ts, close) ELSE [blocked |-> TRUE, sim |-> s]
WentIn(s, t, g, risk) ==
  /\ Good(t, risk) /\ t.trades >= s.trades /\ SameHalts(g.sim, t)
  /\ t.open = s.open \/ t.open.type \in ByTick \/ (~g.blocked /\ CoveredBy(s, t))

LEMMA RanEnters ==
  ASSUME NEW s, NEW t, NEW g, g.sim = s, NEW risk, Ran(s, t, ByTick, risk)
  PROVE  WentIn(s, t, g, risk)
BY DEF Ran, Onward, WentIn, SameHalts

LEMMA EnterDoes ==
  ASSUME CfgOK, NEW s, Good(s, ByRisk), Alive(s), NEW order \in EntrySet, NEW close \in Nat, Slip < close,
         NEW ts \in Int
  PROVE  WentIn(s, Enter(s, order, close, ts), Gate(s, order, ts, close), ByRisk)
<1> DEFINE entry == IF order.action = "LIMIT" THEN order.price ELSE close
           g == Gate(s, order, ts, close)
           a == AccountState(s, close)
           o == SizedOrder(s, order, entry, a)
           no == FALSE
           t == Apply(s, Gapped!Submit(s.eng, o, close), o, ts, no)
           risk == ByRisk
<1>1. s \in SimSet /\ s.trades \in Nat /\ (s.eng.pos.side = "FLAT" => s.qty = 0)
  BY DEF Good, Sound, SimSet
<1>2. order.action \in {"MARKET", "LIMIT"} /\ order.price \in Nat /\ (order.action = "LIMIT" => order.price # 0)
  BY BacktestConstants DEF EntrySet
<1>3. entry \in Nat /\ 0 < entry
  BY <1>2, Numbers
<1>4. /\ s.eng.pos.side # Gapped!Long(order.side) => g = Blocked(s, ts, close) /\ GatedBy(s, ts, g, risk)
      /\ s.eng.pos.side = Gapped!Long(order.side) => g.sim = s
  BY <1>2, BlockedDoes DEF Gate, Asks, Alive
<1>5. CASE s.eng.pos.side = Gapped!Long(order.side)
  <2>1. Ran(s, s, ByTick, ByRisk)
    BY RanNot
  <2>2. Enter(s, order, close, ts) = s
    BY <1>5 DEF Enter
  <2> HIDE DEF g
  <2>3. WentIn(s, s, g, ByRisk)
    BY <1>4, <1>5, <2>1, RanEnters
  <2> QED BY <2>2, <2>3 DEF g
<1>6. CASE s.eng.pos.side # Gapped!Long(order.side) /\ g.blocked
  <2>1. Enter(s, order, close, ts) = g.sim
    BY <1>4, <1>6 DEF Enter
  <2> HIDE DEF g
  <2>2. WentIn(s, g.sim, g, risk)
    BY <1>1, <1>4, <1>6 DEF GatedBy, WentIn, SameHalts
  <2> QED BY <2>1, <2>2 DEF g, risk
<1>7. CASE s.eng.pos.side # Gapped!Long(order.side) /\ ~g.blocked
  <2>1. g.sim = s
    BY <1>4, <1>7 DEF GatedBy
  <2>2. Enter(s, order, close, ts) = Place(s, o, close, ts)
    BY <1>4, <1>7, <2>1 DEF Enter
  <2> HIDE DEF g, entry
  <2>3. /\ o \in PlacedSet /\ o.action = order.action /\ o.price = order.price /\ o.sl = order.sl
        /\ o.target = RiskTarget(a)
        /\ Affords(order, entry, a, IF s.eng.pos.side # "FLAT" THEN Margin(s) ELSE 0, o.qty)
    BY <1>1, <1>3, SizedIs
  <2>4. /\ a.equity = s.balance + Unrealized(s, close) /\ a.equity \in Int
        /\ a.available = a.equity - Margin(s) /\ Margin(s) \in Int
    BY <1>1, AccountIs
  <2>5. CASE o.qty = 0
    <3>1. Place(s, o, close, ts) = s
      BY <2>5 DEF Place
    <3>2. Ran(s, s, ByTick, ByRisk)
      BY RanNot
    <3>3. WentIn(s, s, g, ByRisk)
      BY <2>1, <3>2, RanEnters
    <3> QED BY <2>2, <3>1, <3>3 DEF g
  <2>6. CASE o.qty # 0
    <3>1. Place(s, o, close, ts) = t
      BY <2>6 DEF Place
    <3>2. no \in BOOLEAN
      OBVIOUS
    <3> HIDE DEF o, a, no, t
    <3>3. risk => Scale * o.qty * StopGap(entry, o.sl) <= o.target
      <4>1. StopOf(order, entry) = StopGap(entry, o.sl)
        BY <2>3 DEF StopOf, StopGap
      <4> QED BY <2>3, <2>6, <4>1 DEF Affords
    <3>4. o.qty * UnitCost(entry) <= s.balance + Unrealized(s, close)
      <4>1. o.qty * UnitCost(entry) <= a.available + (IF s.eng.pos.side # "FLAT" THEN Margin(s) ELSE 0)
        BY <2>3, <2>6 DEF Affords
      <4>2. s.eng.pos.side = "FLAT" => Margin(s) = 0
        <5> SUFFICES ASSUME s.eng.pos.side = "FLAT" PROVE Margin(s) = 0
          OBVIOUS
        <5>1. Scale * s.eng.pos.entry * s.qty = 0
          <6>1. s.qty = 0 /\ s.eng.pos.entry \in Nat
            BY <1>1 DEF SimSet, EngSet, PosSet
          <6> QED BY <6>1, Numbers
        <5>2. 0 \div cfg.leverage = 0
          <6> DEFINE zero == 0
                     lev == cfg.leverage
          <6>1. zero \in Int /\ lev \in Nat /\ lev >= 1 /\ zero = 0
            BY DEF CfgOK
          <6> HIDE DEF zero, lev
          <6>2. zero \div lev \in Int /\ lev * (zero \div lev) <= zero /\ zero < lev * (zero \div lev) + lev
            BY <6>1, Divides
          <6> DEFINE d == zero \div lev
          <6> HIDE DEF d
          <6>3. d \in Int /\ lev * d <= 0 /\ 0 < lev * d + lev
            BY <6>1, <6>2 DEF d
          <6>4. d = 0
            BY <6>1, <6>3
          <6> QED BY <6>4 DEF d, zero, lev
        <5> QED BY <5>1, <5>2 DEF Margin
      <4> QED BY <2>4, <4>1, <4>2
    <3>5. CASE order.action = "LIMIT"
      <4>1. o.action = "LIMIT" /\ o.price # 0 /\ entry = o.price
        BY <1>2, <2>3, <3>5 DEF entry
      <4>2. risk => Scale * o.qty * StopGap(o.price, o.sl) <= o.target
        BY <3>3, <4>1
      <4> HIDE DEF risk
      <4>3. Ran(s, t, ByTick, risk)
        BY <2>3, <3>2, <4>1, <4>2, PlaceLimit DEF t, risk
      <4>4. WentIn(s, t, g, risk)
        BY <2>1, <4>3, RanEnters
      <4> QED BY <2>2, <3>1, <4>4 DEF g, risk
    <3>6. CASE order.action = "MARKET"
      <4>1. o.action = "MARKET" /\ entry = close
        BY <2>3, <3>6 DEF entry
      <4>2. risk => Scale * o.qty * StopGap(close, o.sl) <= o.target
        BY <3>3, <4>1
      <4>3. o.qty * UnitCost(close) <= s.balance + Unrealized(s, close)
        BY <3>4, <4>1
      <4> HIDE DEF risk
      <4>4. Placed(s, t, risk)
        BY <2>3, <3>2, <4>1, <4>2, <4>3, PlaceMarket DEF t, risk
      <4>5. SameHalts(s, t)
        <5>1. Running(s.eng)
          BY DEF Good, Sound
        <5> QED BY <1>1, <2>3, <3>2, <4>1, <5>1, PlacedHalts DEF t
      <4>6. WentIn(s, t, g, risk)
        BY <1>7, <2>1, <4>4, <4>5 DEF Placed, WentIn
      <4> QED BY <2>2, <3>1, <4>6 DEF g, risk
    <3> QED BY <1>2, <3>5, <3>6
  <2> QED BY <2>5, <2>6
<1> QED BY <1>5, <1>6, <1>7

\* Nothing opens.
LEMMA ShutRan ==
  ASSUME NEW s, NEW risk, Good(s, risk), Alive(s), NEW r, Ended(s.eng, r), RestsOf(s.eng.pending, r.eng.pending),
         \A i \in 1..Len(r.events) : ~r.events[i].opened,
         NEW placed, NEW gap \in BOOLEAN, Shape(s, r, placed, gap, risk), NEW ts \in Int
  PROVE  Ran(s, Apply(s, r, placed, ts, gap), {"none"}, risk)
<1>1. OrdersKnown(s, r, placed, {"none"})
  BY DEF OrdersKnown
<1>2. risk => RestsWithin(r.eng.pending)
  <2>1. risk => RestsWithin(s.eng.pending)
    BY DEF Good, Within
  <2> QED BY <2>1, RestsKept
<1> QED BY <1>1, <1>2, ApplyRan

LEMMA ShutShape ==
  ASSUME NEW s, NEW r, NEW placed, NEW gap, NEW risk, NEW exit \in Nat, NEW why \in {"SIGNAL", "MANUAL"},
         Idles(s.eng, r) \/ GoesOut(s.eng, r, exit, why)
  PROVE  Shape(s, r, placed, gap, risk)
<1>1. why \in Reasons /\ why # "SL"
  BY DEF Reasons
<1> QED BY <1>1 DEF Shape

\* A CLOSE or a CANCEL.
LEMMA ShutDoes ==
  ASSUME NEW s, Good(s, ByRisk), Alive(s), NEW order, order.action \in {"CLOSE", "CANCEL"},
         NEW close \in Nat, NEW ts \in Int
  PROVE  Ran(s, OnSignal(s, order, close, ts), ByTick, ByRisk)
<1> DEFINE no == FALSE
           t == Apply(s, Gapped!Submit(s.eng, order, close), order, ts, no)
           risk == ByRisk
           e == s.eng
           r == Gapped!Submit(e, order, close)
<1>1. Running(e)
  BY DEF Good, Sound
<1>2. OnSignal(s, order, close, ts) = t
  BY DEF OnSignal, Alive
<1>3. /\ Ended(e, r) /\ RestsOf(e.pending, r.eng.pending)
      /\ Idles(e, r) \/ GoesOut(e, r, close, "SIGNAL")
      /\ \A i \in 1..Len(r.events) : ~r.events[i].opened
  <2>1. CASE order.action = "CLOSE"
    BY <1>1, <2>1, CloseDoes
  <2>2. CASE order.action = "CANCEL"
    <3>1. Ended(e, r) /\ Idles(e, r) /\ RestsOf(e.pending, r.eng.pending)
      BY <1>1, <2>2, CancelDoes
    <3> HIDE DEF r
    <3> QED BY <3>1 DEF Idles
  <2> QED BY <2>1, <2>2
<1>4. no \in BOOLEAN
  OBVIOUS
<1> HIDE DEF r, no, t, risk
<1>5. Shape(s, r, order, no, risk)
  BY <1>3, ShutShape
<1>6. Ran(s, Apply(s, r, order, ts, no), {"none"}, risk)
  BY <1>3, <1>4, <1>5, ShutRan DEF risk
<1>7. Ran(s, t, ByTick, risk)
  BY <1>6 DEF t, r, Ran, Onward, ByTick
<1> QED BY <1>2, <1>7 DEF risk

LEMMA OnSignalDoes ==
  ASSUME CfgOK, NEW s, Good(s, ByRisk), NEW order \in Orders, NEW close \in Nat, Slip < close, NEW ts \in Int
  PROVE  WentIn(s, OnSignal(s, order, close, ts), Gate(s, order, ts, close), ByRisk)
<1> DEFINE g == Gate(s, order, ts, close)
<1>1. order.action \in {"none", "MARKET", "LIMIT", "CLOSE", "CANCEL"}
  BY BacktestConstants
<1>2. s.failed \/ order.action \notin {"MARKET", "LIMIT"} => g.sim = s
  BY DEF Gate, Asks
<1> HIDE DEF g
<1>3. CASE s.failed \/ order.action = "none"
  <2>1. Ran(s, s, ByTick, ByRisk)
    BY RanNot
  <2>2. OnSignal(s, order, close, ts) = s
    BY <1>3 DEF OnSignal
  <2> QED BY <1>2, <1>3, <2>1, <2>2, RanEnters DEF g
<1>4. CASE ~s.failed /\ order.action \in {"CLOSE", "CANCEL"}
  <2>1. Ran(s, OnSignal(s, order, close, ts), ByTick, ByRisk)
    BY <1>4, ShutDoes DEF Alive
  <2> QED BY <1>2, <1>4, <2>1, RanEnters DEF g
<1>5. CASE ~s.failed /\ order.action \in {"MARKET", "LIMIT"}
  <2>1. OnSignal(s, order, close, ts) = Enter(s, order, close, ts)
    BY <1>5 DEF OnSignal
  <2>2. Alive(s) /\ order \in EntrySet
    BY <1>5 DEF Alive, EntrySet
  <2> QED BY <2>1, <2>2, EnterDoes
<1> QED BY <1>1, <1>3, <1>4, <1>5

--------------------------------------------------------------------------------
(* The run *)

EndsAs(s, t) == Good(t, ByRisk) /\ (t = s \/ t.open = NoTrade) /\ SameHalts(s, t)
LEMMA AtEndDoes ==
  ASSUME NEW s, Good(s, ByRisk), NEW close \in Nat, Slip < close, start \in Nat, n \in Nat
  PROVE  EndsAs(s, AtEnd(s, close))
<1>1. CASE s.failed \/ s.eng.pos.side = "FLAT"
  BY <1>1 DEF AtEnd, EndsAs, SameHalts
<1>2. CASE ~(s.failed \/ s.eng.pos.side = "FLAT")
  <2> DEFINE e == s.eng
             r == Gapped!ForceClose(e, close)
             no == FALSE
             ts == Now + 1
             c == Apply(s, r, NoTrade, ts, no)
             why == "END"
             end == [c.last EXCEPT !.reason = why]
             t == [c EXCEPT !.last = end]
             risk == ByRisk
             manual == "MANUAL"
  <2>1. AtEnd(s, close) = t
    BY <1>2 DEF AtEnd
  <2>2. Running(e) /\ (risk => RestsWithin(e.pending)) /\ Alive(s) /\ e.pos.side # "FLAT"
    BY <1>2 DEF Good, Sound, Within, Alive
  <2>3. /\ Ended(e, r) /\ RestsOf(e.pending, r.eng.pending)
        /\ Idles(e, r) \/ \E exit \in Nat : GoesOut(e, r, exit, manual)
        /\ r.eng.pos = Flat0
    BY <2>2, ForceDoes
  <2>4. no \in BOOLEAN /\ ts \in Int /\ manual \in Reasons /\ manual # "SL"
    BY DEF Now, Reasons
  <2>5. why \in Reasons \cup {"none", "END"} /\ why # "SL"
    OBVIOUS
  <2> HIDE DEF r, no, ts, why, risk, manual
  <2>6. PICK exit \in Nat : GoesOut(e, r, exit, manual)
    <3>1. ~Idles(e, r)
      BY <2>2, <2>3 DEF Idles, Flat0, Gapped!Flat
    <3> QED BY <2>3, <3>1
  <2>7. ~OpensTwice(r.events)
    BY <2>6 DEF GoesOut, OpensTwice
  <2>8. risk => RestsWithin(r.eng.pending)
    BY <2>2, <2>3, RestsKept
  <2>9. OutWell(risk, c)
    BY <2>2, <2>3, <2>4, <2>6, <2>7, <2>8, OutGood DEF risk
  <2>17. SameHalts(s, c)
    <3>1. OrdersKnown(s, r, NoTrade, {"none"}) /\ s \in SimSet
      <4>1. \A i \in 1..Len(r.events) : ~r.events[i].opened
        BY <2>6 DEF GoesOut, Shuts, Event5
      <4> QED BY <4>1 DEF OrdersKnown, Good, Sound
    <3>2. Applied(s, r, c, {"none"})
      BY <2>3, <2>4, <3>1, ApplyFollows
    <3> QED BY <3>2 DEF Applied, SameHalts
  <2> HIDE DEF c
  <2>10. c \in SimSet /\ c.last \in LastSet /\ Good(c, risk) /\ c.open = NoTrade
    BY <2>9 DEF OutWell, Good, Sound, SimSet
  <2>11. end \in LastSet /\ end.reason = why
    BY <2>5, <2>10 DEF LastSet
  <2> HIDE DEF end
  <2>12. /\ t \in SimSet /\ t.last = end /\ t.eng = c.eng /\ t.qty = c.qty /\ t.balance = c.balance
         /\ t.pnl = c.pnl /\ t.fees = c.fees /\ t.tradeFees = c.tradeFees /\ t.open = c.open
         /\ t.failed = c.failed /\ t.twice = c.twice /\ SameHalts(c, t)
    BY <2>10, <2>11 DEF SimSet, SameHalts
  <2> HIDE DEF t
  <2>13. Sound(t)
    BY <2>10, <2>12 DEF Good, Sound
  <2>14. Balanced(t)
    BY <2>10, <2>12 DEF Good, Balanced
  <2>15. Within(t, risk)
    BY <2>5, <2>10, <2>11, <2>12 DEF Good, Within, HeldWithin, LastWithin
  <2>16. EndsAs(s, t)
    BY <2>10, <2>12, <2>13, <2>14, <2>15, <2>17 DEF EndsAs, Good, SameHalts, risk
  <2> QED BY <2>1, <2>16
<1> QED BY <1>1, <1>2

\* A candle: the account that is left, whether or not it is the last one.
ByMarket(s, t) == t.open.type = "MARKET" /\ t.open # s.open
\* at: what the last signal found; g: what the guards said to it.
CandleAs(s, at, g, t) ==
  /\ Good(t, ByRisk) /\ Good(at, ByRisk) /\ SameHalts(s, at) /\ SameHalts(g.sim, t)
  /\ ByMarket(s, t) => ~g.blocked /\ CoveredBy(s, t)

LEMMA DecidingDoes ==
  ASSUME start \in Nat, n \in Nat, Good(sim, ByRisk), NEW b \in Bars, NEW closes \in BOOLEAN
  PROVE  Ran(sim, Deciding(b, closes), ByTick, ByRisk)
<1> DEFINE risk == ByRisk
           ts == Now + 1
           d == NewDay(sim, Now)
           i == InCandle(d, b, Now)
           c == OnSignal(i, CloseFirst, b.close, ts)
           at == Deciding(b, closes)
<1>1. Now \in Int /\ ts \in Int
  BY DEF Now
<1>2. b.close \in Nat
  BY BarIs
<1>3. at = IF closes THEN c ELSE i
  BY DEF Deciding
<1> HIDE DEF ts, risk, at
<1>4. Ran(sim, d, ByTick, risk)
  BY <1>1, NewDayDoes DEF risk
<1> HIDE DEF d
<1>5. Ran(d, i, ByTick, risk)
  BY <1>1, <1>4, InCandleDoes DEF Ran
<1> HIDE DEF i
<1>6. Ran(sim, i, ByTick, risk)
  BY <1>4, <1>5, RanOn DEF risk
<1>7. Good(i, risk)
  BY <1>6 DEF Ran
<1>8. Ran(i, c, ByTick, risk)
  <2>1. CASE i.failed
    <3>1. c = i
      BY <2>1 DEF OnSignal
    <3> QED BY <1>7, <3>1, RanNot
  <2>2. CASE ~i.failed
    <3>1. Alive(i)
      BY <2>2 DEF Alive
    <3>2. CloseFirst.action \in {"CLOSE", "CANCEL"}
      BY DEF CloseFirst
    <3> QED BY <1>1, <1>2, <1>7, <3>1, <3>2, ShutDoes DEF risk
  <2> QED BY <2>1, <2>2
<1> HIDE DEF c
<1>9. Ran(sim, c, ByTick, risk)
  BY <1>6, <1>8, RanOn DEF risk
<1> QED BY <1>3, <1>6, <1>9 DEF at, risk

LEMMA CandleDoes ==
  ASSUME CfgOK, start \in Nat, n \in Nat, Good(sim, ByRisk), NEW b \in Bars, NEW closes \in BOOLEAN,
         NEW order \in Orders, NEW w,
         \/ w = AfterCandle(Deciding(b, closes), order, b.close)
         \/ w = AtEnd(AfterCandle(Deciding(b, closes), order, b.close), b.close)
  PROVE  CandleAs(sim, Deciding(b, closes), Gate(Deciding(b, closes), order, Now + 1, b.close), w)
<1> DEFINE risk == ByRisk
           ts == Now + 1
           s == sim
           i == Deciding(b, closes)
           g == Gate(i, order, ts, b.close)
           u == OnSignal(i, order, b.close, ts)
           v == Settled(u, b.close)
<1>1. Now \in Int /\ ts \in Int
  BY DEF Now
<1>2. b.close \in Nat /\ Slip < b.close
  BY BarIs
<1>3. AfterCandle(i, order, b.close) = v
  BY DEF AfterCandle
<1> HIDE DEF ts, risk, s
<1>4. Good(s, risk)
  BY DEF s, risk
<1>7. Ran(s, i, ByTick, risk)
  BY DecidingDoes DEF s, risk
<1> HIDE DEF i
<1>8. Good(i, risk) /\ SameHalts(s, i)
  BY <1>7 DEF Ran, Onward, SameHalts
<1>9. WentIn(i, u, g, risk)
  BY <1>1, <1>2, <1>8, OnSignalDoes DEF risk
<1> HIDE DEF u, g
<1>10. Good(u, risk) /\ SameHalts(g.sim, u)
  BY <1>9 DEF WentIn
<1>11. Ran(u, v, ByTick, risk) /\ SameBooks(u, v)
  BY <1>2, <1>10, SettledDoes
<1> HIDE DEF v
<1>12. Good(v, risk) /\ SameHalts(g.sim, v)
  BY <1>10, <1>11 DEF Ran, Onward, SameHalts
<1>13. Good(w, risk) /\ (w = v \/ w.open = NoTrade) /\ SameHalts(g.sim, w)
  <2>1. EndsAs(v, AtEnd(v, b.close))
    BY <1>2, <1>12, AtEndDoes DEF risk
  <2> QED BY <1>3, <1>12, <2>1 DEF EndsAs, SameHalts, risk, i
<1>14. ASSUME ByMarket(s, w) PROVE ~g.blocked /\ CoveredBy(s, w)
  <2>1. w = v
    BY <1>13, <1>14 DEF ByMarket, NoTrade
  <2>2. u.open = w.open
    BY <1>11, <2>1 DEF SameBooks
  <2>3. ~g.blocked /\ CoveredBy(i, u)
    <3>1. u.open # i.open
      BY <1>7, <1>14, <2>2 DEF ByMarket, Ran, Onward, ByTick
    <3>2. u.open.type \notin ByTick
      BY <1>14, <2>2 DEF ByMarket, ByTick
    <3> QED BY <1>9, <3>1, <3>2 DEF WentIn
  <2>5. CoveredBy(s, w)
    <3> DEFINE old == s.trades
               then == i.trades
               new == u.trades
               got == u.balance + u.qty * (Scale + TakerFee) * Slip
               exit == u.last.qty * Scale * Slip + u.last.fee
               m == Margin(u)
    <3>1. old \in Nat /\ then \in Nat /\ new \in Nat /\ old <= then /\ then <= new
      BY <1>4, <1>7, <1>8, <1>9, <1>10 DEF Good, Sound, SimSet, Ran, Onward, WentIn
    <3>2. u.last.qty \in Nat /\ u.last.fee \in Nat /\ u.balance \in Int /\ u.qty \in Nat /\ u \in SimSet
      BY <1>10 DEF Good, Sound, SimSet, LastSet
    <3>3. got \in Int /\ exit \in Nat
      <4>1. u.last.qty * Scale * Slip \in Nat /\ u.qty * (Scale + TakerFee) * Slip \in Int
        BY <3>2, Numbers
      <4> QED BY <3>2, <4>1
    <3>4. m \in Int
      <4>1. Scale * u.eng.pos.entry * u.qty \in Int
        <5>1. u.eng.pos.entry \in Nat
          BY <3>2 DEF SimSet, EngSet, PosSet
        <5> QED BY <3>2, <5>1, Numbers
      <4> QED BY <4>1, Divides DEF Margin, CfgOK
    <3>5. m <= got + (IF new = then THEN 0 ELSE exit)
      BY <2>3 DEF CoveredBy
    <3>6. CoveredBy(s, w) <=> m <= got + (IF new = old THEN 0 ELSE exit)
      BY <1>11, <2>1 DEF CoveredBy, SameBooks, Margin
    <3> HIDE DEF old, then, new, got, exit, m
    <3>7. m <= got + (IF new = old THEN 0 ELSE exit)
      BY <3>1, <3>3, <3>4, <3>5
    <3> QED BY <3>6, <3>7
  <2> QED BY <2>3, <2>5
<1> QED BY <1>8, <1>13, <1>14 DEF CandleAs, risk, ts, s, i, g

BacktestInv == CfgOK /\ start \in Nat /\ n \in Nat /\ Good(sim, ByRisk)

LEMMA BacktestStarts ==
  ASSUME BacktestInit
  PROVE  BacktestInv
<1>1. CfgOK
  <2>1. PICK v \in Variants, market \in Market : cfg = ConfigFor(v, market)
    BY DEF BacktestInit
  <2>2. v \in [method : Methods, value : Nat, leverage : Nat]
    BY BacktestConstants DEF Methods
  <2>3. cfg.method = v.method /\ cfg.value = v.value
        /\ cfg.leverage = IF market = "SPOT" \/ v.leverage < 1 THEN 1 ELSE v.leverage
    BY <2>1 DEF ConfigFor
  <2> QED BY <2>2, <2>3 DEF CfgOK
<1>2. start \in Nat /\ n \in Nat /\ sim = SimInit
  BY BacktestConstants DEF BacktestInit
<1> DEFINE zero == 0
           no == FALSE
           none == <<>>
           never == Never
           e0 == Gapped!Engine0
           trade == NoTrade
           last0 == NoLast
           c == Capital
           s == SimInit
<1>3. zero = 0 /\ zero \in Nat /\ zero \in Int /\ no \in BOOLEAN /\ ~no /\ never \in Int
      /\ c \in Nat /\ c \in Int
  BY Numbers DEF Never
<1>4. none \in Seq(RestSet) /\ Len(none) = 0
  OBVIOUS
<1>5. e0 \in EngSet /\ e0.pos = Flat0 /\ e0.fee = zero /\ e0.pending = none /\ Flat0.side = "FLAT"
  <2>1. Flat0 \in PosSet /\ Flat0.side = "FLAT"
    BY DEF Flat0, Gapped!Flat, PosSet, Level, Sides
  <2>2. e0 = [pos |-> Flat0, fee |-> zero, pending |-> none, oid |-> zero]
    BY DEF Gapped!Engine0, Flat0
  <2> HIDE DEF e0, zero, none
  <2> QED BY <1>3, <1>4, <2>1, <2>2 DEF EngSet
<1>6. trade \in TradeSet /\ last0 \in LastSet /\ last0.reason # "SL"
  BY DEF NoTrade, NoLast, TradeSet, LastSet, TypeSet, Never
<1>7. s = [eng |-> e0, qty |-> zero, balance |-> c, peak |-> c, day |-> never, dayStart |-> c, realized |-> zero,
           haltedUntil |-> never, ddHalt |-> never, liquidated |-> no, open |-> trade, fees |-> zero,
           trades |-> zero, pnl |-> zero, tradeFees |-> zero, last |-> last0, failed |-> no, twice |-> no]
  BY DEF SimInit
<1> HIDE DEF zero, no, none, never, e0, trade, last0, c, s
<1>8. s \in SimSet
  BY <1>3, <1>5, <1>6, <1>7 DEF SimSet
<1>9. /\ s.eng = e0 /\ s.qty = zero /\ s.balance = c /\ s.pnl = zero /\ s.fees = zero /\ s.tradeFees = zero
      /\ s.open = trade /\ s.last = last0
  BY <1>7
<1>10. Sound(s)
  <2>1. Running(e0)
    BY <1>3, <1>4, <1>5 DEF Running
  <2> QED BY <1>3, <1>8, <1>9, <2>1 DEF Sound
<1>11. Balanced(s)
  BY <1>3, <1>5, <1>9 DEF Balanced, trade, c
<1>12. Within(s, ByRisk)
  BY <1>4, <1>5, <1>6, <1>9 DEF Within, RestsWithin, HeldWithin, LastWithin
<1> QED BY <1>1, <1>2, <1>10, <1>11, <1>12 DEF BacktestInv, Good, s

LEMMA CandleSteps ==
  ASSUME BacktestInv, NEW b \in Bars, NEW closes \in BOOLEAN, NEW order \in Orders, NEW isLast \in BOOLEAN,
         Candle(b, closes, order, isLast)
  PROVE  /\ CandleAs(sim, Deciding(b, closes), Gate(Deciding(b, closes), order, Now + 1, b.close), sim')
         /\ cfg' = cfg /\ start' = start /\ n' = n + 1
<1> DEFINE x == Deciding(b, closes)
<1>1. sim' = AfterCandle(x, order, b.close) \/ sim' = AtEnd(AfterCandle(x, order, b.close), b.close)
  <2>1. PICK at \in {x} : \E after \in {AfterCandle(at, order, b.close)} :
          sim' = IF isLast \/ after.liquidated THEN AtEnd(after, b.close) ELSE after
    BY DEF Candle
  <2> QED BY <2>1
<1>2. cfg' = cfg /\ start' = start /\ n' = n + 1
  BY DEF Candle
<1> QED BY <1>1, <1>2, CandleDoes DEF BacktestInv

LEMMA BacktestSteps ==
  ASSUME BacktestInv, BacktestNext
  PROVE  /\ Good(sim', ByRisk) /\ (ByMarket(sim, sim') => CoveredBy(sim, sim'))
         /\ cfg' = cfg /\ start' = start /\ n' \in Nat
<1>1. PICK b \in Bars, closes \in BOOLEAN, order \in Orders, isLast \in BOOLEAN :
        Candle(b, closes, order, isLast)
  BY DEF BacktestNext
<1> DEFINE x == Deciding(b, closes)
           g == Gate(x, order, Now + 1, b.close)
<1>2. CandleAs(sim, x, g, sim') /\ cfg' = cfg /\ start' = start /\ n' = n + 1
  BY <1>1, CandleSteps
<1> HIDE DEF x, g
<1> QED BY <1>2 DEF BacktestInv, CandleAs

LEMMA BacktestInductive ==
  ASSUME BacktestInv, [BacktestNext]_backtestVars
  PROVE  BacktestInv'
<1>1. CASE BacktestNext
  <2>1. Good(sim', ByRisk) /\ cfg' = cfg /\ start' = start /\ n' \in Nat
    BY <1>1, BacktestSteps
  <2>3. Good(sim, ByRisk)'
    BY <2>1 DEF Good, Sound, Balanced, Within, HeldWithin, LastWithin, RestsWithin, ByRisk
  <2> QED BY <2>1, <2>3 DEF BacktestInv, CfgOK
<1>2. CASE UNCHANGED backtestVars
  BY <1>2 DEF backtestVars, BacktestInv, CfgOK, Good, ByRisk
<1> QED BY <1>1, <1>2

\* The report explains the account (the books of app/backtest/sim.py): for every history,
\* strategy, market and sizing, the balance is the capital, the PnL of the trades and the
\* fee of the position still open, unless an exception or two orders at one price.
THEOREM BooksAreBalanced == BacktestSpec => []BooksBalance
<1>1. BacktestInv => BooksBalance
  BY DEF BacktestInv, Good, Balanced, BooksBalance
<1> QED BY <1>1, BacktestStarts, BacktestInductive, PTL DEF BacktestSpec

\* Sizing by risk keeps its promise (size_order of app/account/risk.py with the fills of the
\* engine): a stop reached inside a candle loses the risk of its order, slippage and fees.
THEOREM StopsLoseTheirRisk == BacktestSpec => []StopLosesRisk
<1>1. BacktestInv => StopLosesRisk
  BY DEF BacktestInv, Good, Within, LastWithin, ByRisk, StopLosesRisk
<1> QED BY <1>1, BacktestStarts, BacktestInductive, PTL DEF BacktestSpec

\* The halts of the account are the limits that were met.
Latched(s, m, ts) ==
  /\ m \in [drawdown : BOOLEAN, on : Int, of : Int]
  /\ m.drawdown <=> s.ddHalt # Never
  /\ s.haltedUntil = IF m.on = Never THEN Never ELSE m.on + 1
  /\ m.on <= ts \div DayLength

LEMMA Days ==
  ASSUME NEW ts \in Nat
  PROVE  /\ ts \div DayLength \in Nat /\ (ts + 1) \div DayLength \in Nat
         /\ ts \div DayLength <= (ts + 1) \div DayLength
<1> DEFINE d == ts \div DayLength
           e == (ts + 1) \div DayLength
           k == DayLength
<1>1. k \in Nat /\ k >= 1
  BY Numbers
<1>2. /\ d \in Int /\ k * d <= ts /\ ts < k * d + k
      /\ e \in Int /\ k * e <= ts + 1 /\ ts + 1 < k * e + k
  BY <1>1, Divides
<1> HIDE DEF d, e, k
<1>3. d >= 0
  <2>1. ~(d <= -1)
    <3>1. d <= -1 => k * d <= k * (-1)
      BY <1>1, <1>2, Products
    <3>2. k * (-1) = -k /\ k * d \in Int
      BY <1>1, <1>2
    <3> QED BY <1>1, <1>2, <3>1, <3>2
  <2> QED BY <1>2, <2>1
<1>4. d <= e
  <2>1. ~(e + 1 <= d)
    <3>1. e + 1 <= d => k * (e + 1) <= k * d
      BY <1>1, <1>2, Products
    <3>2. k * (e + 1) = k * e + k /\ k * d \in Int /\ k * e \in Int
      BY <1>1, <1>2
    <3> QED BY <1>1, <1>2, <3>1, <3>2
  <2> QED BY <1>2, <2>1
<1> QED BY <1>2, <1>3, <1>4 DEF d, e, k

\* An entry that meets a limit latches it, and only then, or halted already, it is refused.
Met(s, g, m, ts) ==
  /\ Latched(g.sim, m, ts)
  /\ ~g.blocked => ~Halted(m, ts)
  /\ g.blocked /\ ~s.liquidated => Halted(m, ts)
LEMMA MeetsLatch ==
  ASSUME NEW s \in SimSet, NEW m, NEW ts \in Nat, ts >= 1, ts \div DayLength \in Nat, Latched(s, m, ts), NEW price
  PROVE  Met(s, Blocked(s, ts, price), Meets(m, s, AccountState(s, price), ts), ts)
<1> DEFINE a == AccountState(s, price)
           dd == DrawdownHit(a)
           loss == DailyLossHit(a)
           day == ts \div DayLength
           over == [s EXCEPT !.ddHalt = ts]
           halted == [s EXCEPT !.haltedUntil = day + 1]
           down == [m EXCEPT !.drawdown = TRUE]
           sday == s.day
           lost == [m EXCEPT !.on = day, !.of = sday]
           g == Blocked(s, ts, price)
           w == Meets(m, s, a, ts)
<1>1. day \in Nat /\ m.on \in Int /\ m.on <= day /\ s.haltedUntil \in Int /\ sday \in Int
  BY DEF Latched, SimSet
<1>2. Stopped(s, ts) <=> s.liquidated \/ Halted(m, ts)
  <2>1. day < s.haltedUntil <=> m.on = day
    BY <1>1 DEF Latched, Never
  <2> QED BY <2>1 DEF Stopped, Halted, Latched
<1>3. CASE Stopped(s, ts)
  <2>1. g = [blocked |-> TRUE, sim |-> s] /\ w = m
    BY <1>2, <1>3 DEF Blocked, Meets
  <2> HIDE DEF g, w
  <2> QED BY <1>2, <1>3, <2>1 DEF Met, g, w, a
<1>4. CASE ~Stopped(s, ts) /\ dd
  <2>1. g = [blocked |-> TRUE, sim |-> over] /\ w = down
    BY <1>2, <1>4 DEF Blocked, Meets
  <2>2. over.ddHalt = ts /\ over.haltedUntil = s.haltedUntil /\ ts # Never
    BY DEF SimSet, Never
  <2>3. /\ down.drawdown /\ down.on = m.on /\ down \in [drawdown : BOOLEAN, on : Int, of : Int]
    BY DEF Latched
  <2> HIDE DEF over, down, g, w
  <2>4. Latched(over, down, ts) /\ Halted(down, ts)
    BY <2>2, <2>3 DEF Latched, Halted
  <2> QED BY <2>1, <2>4 DEF Met, g, w, a
<1>5. CASE ~Stopped(s, ts) /\ ~dd /\ loss
  <2>1. g = [blocked |-> TRUE, sim |-> halted] /\ w = lost
    BY <1>2, <1>5 DEF Blocked, Meets
  <2>2. halted.haltedUntil = day + 1 /\ halted.ddHalt = s.ddHalt
    BY DEF SimSet
  <2>3. lost.on = day /\ lost.drawdown = m.drawdown /\ lost \in [drawdown : BOOLEAN, on : Int, of : Int]
    <3>1. m \in [drawdown : BOOLEAN, on : Int, of : Int]
      BY DEF Latched
    <3>2. day \in Int /\ sday \in Int
      BY <1>1
    <3> HIDE DEF day, sday
    <3> QED BY <3>1, <3>2
  <2> HIDE DEF halted, lost, g, w
  <2>4. Latched(halted, lost, ts) /\ Halted(lost, ts)
    BY <1>1, <2>2, <2>3 DEF Latched, Halted, Never
  <2> QED BY <2>1, <2>4 DEF Met, g, w, a
<1>6. CASE ~Stopped(s, ts) /\ ~dd /\ ~loss
  <2>1. g = [blocked |-> FALSE, sim |-> s] /\ w = m
    BY <1>2, <1>6 DEF Blocked, Meets
  <2> HIDE DEF g, w
  <2> QED BY <1>2, <1>6, <2>1 DEF Met, g, w, a
<1> QED BY <1>3, <1>4, <1>5, <1>6

LatchInv == BacktestInv /\ Latched(sim, met, Now)

LEMMA LatchStarts ==
  ASSUME BacktestInit
  PROVE  LatchInv
<1>1. BacktestInv
  BY BacktestStarts
<1>2. met = [drawdown |-> FALSE, on |-> Never, of |-> Never] /\ sim.ddHalt = Never /\ sim.haltedUntil = Never
  BY DEF BacktestInit, SimInit
<1>3. Now \in Nat
  BY <1>1 DEF BacktestInv, Now
<1>4. Latched(sim, met, Now)
  BY <1>2, <1>3, Days DEF Latched, Never
<1> QED BY <1>1, <1>4 DEF LatchInv

\* A candle: what its last signal, if it is an entry, met.
LatchAs == Latched(sim', met', Now') /\ (EntersByMarket => ~Halted(met', Now')) /\ (denied' => Halted(met', Now'))
LEMMA LatchSteps ==
  ASSUME LatchInv, BacktestNext
  PROVE  LatchAs
<1>1. PICK b \in Bars, closes \in BOOLEAN, order \in Orders, isLast \in BOOLEAN :
        Candle(b, closes, order, isLast)
  BY DEF BacktestNext
<1> DEFINE x == Deciding(b, closes)
           ts == Now + 1
           a == AccountState(x, b.close)
           gate == Blocked(x, ts, b.close)
           g == Gate(x, order, ts, b.close)
<1>2. CandleAs(sim, x, g, sim') /\ start' = start /\ n' = n + 1
  BY <1>1, CandleSteps DEF LatchInv
<1>3. /\ met' = IF Asks(x, order) THEN Meets(met, x, a, ts) ELSE met
      /\ denied' = (Asks(x, order) /\ ~x.liquidated /\ gate.blocked)
  <2>1. PICK at \in {x} :
          /\ met' = IF Asks(at, order) THEN Meets(met, at, AccountState(at, b.close), ts) ELSE met
          /\ denied' = (Asks(at, order) /\ ~at.liquidated /\ Blocked(at, ts, b.close).blocked)
    BY <1>1 DEF Candle
  <2> QED BY <2>1
<1>4. g = IF Asks(x, order) THEN gate ELSE [blocked |-> TRUE, sim |-> x]
  BY DEF Gate
<1>5. /\ ts \in Nat /\ ts >= 1 /\ Now' = ts /\ ts \div DayLength \in Nat
      /\ Now \div DayLength \in Nat /\ Now \div DayLength <= ts \div DayLength
  <2>1. Now \in Nat /\ Now' = Now + 1
    BY <1>2 DEF LatchInv, BacktestInv, Now
  <2> QED BY <2>1, Days
<1> HIDE DEF x, ts, a, gate, g
<1>6. x \in SimSet /\ SameHalts(sim, x) /\ SameHalts(g.sim, sim')
  BY <1>2 DEF CandleAs, Good, Sound
<1>7. Latched(x, met, ts)
  BY <1>5, <1>6 DEF LatchInv, Latched, SameHalts
<1>8. CASE Asks(x, order)
  <2> DEFINE m == Meets(met, x, a, ts)
  <2>1. Met(x, gate, m, ts)
    BY <1>5, <1>6, <1>7, MeetsLatch DEF a, gate
  <2>2. met' = m /\ g = gate
    BY <1>3, <1>4, <1>8
  <2> HIDE DEF m
  <2>3. Latched(sim', met', ts)
    BY <1>6, <2>1, <2>2 DEF Met, Latched, SameHalts
  <2>4. EntersByMarket => ~gate.blocked
    BY <1>2, <2>2 DEF CandleAs, ByMarket, EntersByMarket
  <2> QED BY <1>3, <1>5, <2>1, <2>2, <2>3, <2>4 DEF LatchAs, Met
<1>9. CASE ~Asks(x, order)
  <2>1. met' = met /\ ~denied' /\ g = [blocked |-> TRUE, sim |-> x]
    BY <1>3, <1>4, <1>9
  <2>2. ~EntersByMarket
    BY <1>2, <2>1 DEF CandleAs, ByMarket, EntersByMarket
  <2>3. Latched(sim', met', ts)
    BY <1>6, <1>7, <2>1 DEF Latched, SameHalts
  <2> QED BY <1>5, <2>1, <2>2, <2>3 DEF LatchAs
<1> QED BY <1>8, <1>9

LEMMA LatchInductive ==
  ASSUME LatchInv, [BacktestNext]_backtestVars
  PROVE  LatchInv'
<1>1. BacktestInv'
  BY BacktestInductive DEF LatchInv
<1>2. Latched(sim, met, Now)'
  <2>1. CASE BacktestNext
    <3>1. Latched(sim', met', Now')
      BY <2>1, LatchSteps DEF LatchAs
    <3> QED BY <3>1 DEF Latched
  <2>2. CASE UNCHANGED backtestVars
    BY <2>2 DEF backtestVars, LatchInv, Latched, Now
  <2> QED BY <2>1, <2>2
<1> QED BY <1>1, <1>2 DEF LatchInv

\* The halts of the simulation (_blocked) are set, last and end: for every history and
\* strategy, from the entry that meets a limit no market order opens a position until the
\* next day, or ever after a drawdown; and no entry is refused as halted but for that.
THEOREM HaltsLast == BacktestSpec => HaltLasts
<1> DEFINE lasts == (EntersByMarket => ~Halted(met', Now')) /\ (denied' => Halted(met', Now'))
<1>1. LatchInv /\ BacktestNext => lasts
  BY LatchSteps DEF LatchAs
<1>2. LatchInv /\ [BacktestNext]_backtestVars => [lasts]_backtestVars
  BY <1>1
<1> QED BY <1>2, LatchStarts, LatchInductive, PTL DEF BacktestSpec, HaltLasts

\* What a market order buys can be paid for (the margin check of size_order): the balance
\* covers the margin, but for slippage and the exit of a position that is reversed.
THEOREM MarginIsCovered == BacktestSpec => MarginCovered
<1> DEFINE reversal == IF sim'.trades = sim.trades THEN 0 ELSE sim'.last.qty * Scale * Slip + sim'.last.fee
           covered == Margin(sim)' <= sim'.balance + sim'.qty * (Scale + TakerFee) * Slip + reversal
<1>1. BacktestInv /\ BacktestNext => (EntersByMarket => covered)
  <2> SUFFICES ASSUME BacktestInv, BacktestNext, EntersByMarket PROVE covered
    OBVIOUS
  <2>1. (ByMarket(sim, sim') => CoveredBy(sim, sim')) /\ cfg' = cfg
    BY BacktestSteps
  <2>2. CoveredBy(sim, sim')
    BY <2>1 DEF ByMarket, EntersByMarket
  <2>3. Margin(sim)' = Margin(sim')
    BY <2>1 DEF Margin
  <2> QED BY <2>2, <2>3 DEF CoveredBy
<1>2. BacktestInv /\ [BacktestNext]_backtestVars => [EntersByMarket => covered]_backtestVars
  BY <1>1
<1> QED BY <1>2, BacktestStarts, BacktestInductive, PTL DEF BacktestSpec, MarginCovered
=============================================================================
