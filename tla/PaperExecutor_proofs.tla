------------------------ MODULE PaperExecutor_proofs ------------------------
(* Any prices, fees, levels and number of LIMIT orders, requests and crashes.  *)
EXTENDS PaperExecutor, FiniteSetTheorems, SequenceTheorems, WellFoundedInduction, TLAPS

IsSeq(s) == Len(s) \in Nat /\ s = [i \in 1..Len(s) |-> s[i]]
Values(s) == {s[i] : i \in DOMAIN s}

--------------------------------------------------------------------------------
(* Induction, sequences, and the two recursions of the model *)

\* Induction over the natural numbers, by the least number outside of a set.
LEMMA NatSet ==
  ASSUME NEW S, 0 \in S, \A n \in Nat : n \in S => n + 1 \in S
  PROVE  Nat \subseteq S
<1> DEFINE T == Nat \ S
           R == OpToRel(<, Nat)
<1>1. SUFFICES ASSUME T # {} PROVE FALSE
  OBVIOUS
<1>2. IsWellFoundedOn(R, Nat)
  BY NatLessThanWellFounded
<1>3. T \subseteq Nat
  OBVIOUS
<1>4. R = {ss \in Nat \X Nat : ss[1] < ss[2]}
  BY DEF OpToRel
<1> HIDE DEF R
<1>5. PICK x \in T : \A y \in T : ~(<<y, x>> \in R)
  BY <1>1, <1>2, <1>3, WFMin
<1>6. x - 1 \in T /\ x - 1 \in Nat /\ x \in Nat
  BY <1>5
<1>7. <<x - 1, x>> \in R
  BY <1>4, <1>6
<1> QED BY <1>5, <1>6, <1>7

\* A function defined from its value before, one number at a time, exists.
IsAfter(f, first, list, p, m) ==
  f = [i \in 0..m |-> IF i = 0 THEN first ELSE Tried(f[i - 1], list[i], p)]
LEMMA AfterExists ==
  ASSUME NEW first, NEW list, NEW p, NEW m \in Nat
  PROVE  \E f : IsAfter(f, first, list, p, m)
<1> DEFINE step(x, i) == Tried(x, list[i], p)
           S == {n \in Nat : \E f : f = [i \in 0..n |-> IF i = 0 THEN first ELSE step(f[i - 1], i)]}
<1> HIDE DEF step
<1>1. 0 \in S
  <2>1. PICK g : g = [i \in 0..0 |-> first]
    OBVIOUS
  <2>2. g = [i \in 0..0 |-> IF i = 0 THEN first ELSE step(g[i - 1], i)]
    BY <2>1
  <2> QED BY <2>2
<1>2. ASSUME NEW n \in Nat, n \in S PROVE n + 1 \in S
  <2>1. PICK f : f = [i \in 0..n |-> IF i = 0 THEN first ELSE step(f[i - 1], i)]
    BY <1>2
  <2>2. PICK g : g = [i \in 0..(n + 1) |-> IF i \in 0..n THEN f[i] ELSE step(f[n], i)]
    OBVIOUS
  <2>3. ASSUME NEW i \in 0..(n + 1) PROVE g[i] = IF i = 0 THEN first ELSE step(g[i - 1], i)
    <3>1. CASE i \in 0..n
      <4>1. g[i] = IF i = 0 THEN first ELSE step(f[i - 1], i)
        BY <2>1, <2>2, <3>1
      <4>2. i # 0 => g[i - 1] = f[i - 1]
        BY <2>2, <3>1
      <4> QED BY <4>1, <4>2
    <3>2. CASE i = n + 1
      BY <2>2, <3>2
    <3> QED BY <3>1, <3>2
  <2>4. g = [i \in 0..(n + 1) |-> IF i = 0 THEN first ELSE step(g[i - 1], i)]
    BY <2>2, <2>3
  <2> QED BY <2>4
<1>3. Nat \subseteq S
  <2> HIDE DEF S
  <2> QED BY <1>1, <1>2, NatSet
<1> QED BY <1>3 DEF step, IsAfter

\* FillPending is what is left after its last order.
LEMMA FillSteps ==
  ASSUME NEW e, NEW p, Len(e.pending) \in Nat
  PROVE  \E f : /\ f[0] = Result([e EXCEPT !.pending = <<>>], <<>>)
                /\ \A i \in 1..Len(e.pending) : f[i] = Tried(f[i - 1], e.pending[i], p)
                /\ FillPending(e, p) = f[Len(e.pending)]
<1> DEFINE n == Len(e.pending)
           first == Result([e EXCEPT !.pending = <<>>], <<>>)
           step(x, i) == Tried(x, e.pending[i], p)
           f == CHOOSE f : IsAfter(f, first, e.pending, p, n)
<1>1. FillPending(e, p) = f[n]
  BY DEF FillPending, IsAfter
<1>2. IsAfter(f, first, e.pending, p, n)
  <2>1. \E g : IsAfter(g, first, e.pending, p, n)
    BY AfterExists
  <2> QED BY <2>1
<1> HIDE DEF first, step
<1>3. f = [i \in 0..n |-> IF i = 0 THEN first ELSE step(f[i - 1], i)]
  BY <1>2 DEF IsAfter, step
<1> HIDE DEF f
<1>4. f[0] = first
  BY <1>3
<1>5. \A i \in 1..n : f[i] = step(f[i - 1], i)
  BY <1>3, SMTT(20)
<1> QED BY <1>1, <1>4, <1>5 DEF first, step

LEMMA FlattenExists ==
  ASSUME NEW ss, NEW m \in Nat
  PROVE  \E f : f = [i \in 1..m |-> IF i = 1 THEN ss[i] ELSE f[i - 1] \o ss[i]]
<1> DEFINE join(x, i) == x \o ss[i]
           S == {n \in Nat : \E f : f = [i \in 1..n |-> IF i = 1 THEN ss[i] ELSE join(f[i - 1], i)]}
<1> HIDE DEF join
<1>1. 0 \in S
  <2>1. PICK g : g = [i \in 1..0 |-> ss[i]]
    OBVIOUS
  <2>2. g = [i \in 1..0 |-> IF i = 1 THEN ss[i] ELSE join(g[i - 1], i)]
    BY <2>1
  <2> QED BY <2>2
<1>2. ASSUME NEW n \in Nat, n \in S PROVE n + 1 \in S
  <2>1. PICK f : f = [i \in 1..n |-> IF i = 1 THEN ss[i] ELSE join(f[i - 1], i)]
    BY <1>2
  <2>2. PICK g : g = [i \in 1..(n + 1) |-> IF i \in 1..n THEN f[i]
                                           ELSE IF i = 1 THEN ss[i] ELSE join(f[n], i)]
    OBVIOUS
  <2>3. ASSUME NEW i \in 1..(n + 1) PROVE g[i] = IF i = 1 THEN ss[i] ELSE join(g[i - 1], i)
    <3>1. CASE i \in 1..n
      <4>1. g[i] = IF i = 1 THEN ss[i] ELSE join(f[i - 1], i)
        BY <2>1, <2>2, <3>1
      <4>2. i # 1 => g[i - 1] = f[i - 1]
        BY <2>2, <3>1
      <4> QED BY <4>1, <4>2
    <3>2. CASE i = n + 1
      BY <2>2, <3>2
    <3> QED BY <3>1, <3>2
  <2>4. g = [i \in 1..(n + 1) |-> IF i = 1 THEN ss[i] ELSE join(g[i - 1], i)]
    BY <2>2, <2>3
  <2> QED BY <2>4
<1>3. Nat \subseteq S
  <2> HIDE DEF S
  <2> QED BY <1>1, <1>2, NatSet
<1> QED BY <1>3 DEF join

\* What is flattened is what the sequences append to each other.
LEMMA FlattenSteps ==
  ASSUME NEW ss, IsSeq(ss), ss # <<>>
  PROVE  \E f : /\ f[1] = ss[1]
                /\ \A i \in 2..Len(ss) : f[i] = f[i - 1] \o ss[i]
                /\ FlattenSeq(ss) = f[Len(ss)]
<1> DEFINE n == Len(ss)
           join(x, i) == x \o ss[i]
           f == CHOOSE f : f = [i \in 1..n |-> IF i = 1 THEN ss[i] ELSE join(f[i - 1], i)]
<1>0. n \in Nat \ {0}
  BY DEF IsSeq
<1>1. FlattenSeq(ss) = f[n]
  BY <1>0 DEF FlattenSeq
<1>2. \E g : g = [i \in 1..n |-> IF i = 1 THEN ss[i] ELSE join(g[i - 1], i)]
  <2> HIDE DEF n
  <2> QED BY <1>0, FlattenExists
<1> HIDE DEF join
<1>3. f = [i \in 1..n |-> IF i = 1 THEN ss[i] ELSE join(f[i - 1], i)]
  BY <1>2
<1> HIDE DEF f
<1>4. f[1] = ss[1]
  BY <1>0, <1>3
<1>5. \A i \in 2..n : f[i] = join(f[i - 1], i)
  BY <1>0, <1>3
<1> QED BY <1>1, <1>4, <1>5 DEF join
--------------------------------------------------------------------------------
(* What the engine's operators return: the engine changes by trades, and reports
   each of them with the events Closes and Opens *)

OpenPos == [side : {"LONG", "SHORT"}, entry : Int, sl : Int, tp : Int]
LimitOrder == [action : {"LIMIT"}, side : {"BUY", "SELL"}, price : LimitAt, sl : Int, tp : Int]
Pending == [oid : Nat, order : LimitOrder]
Closing == [gross : Int, entryFee : Int, exitFee : Int,
            reason : {"SIGNAL", "SL", "TP", "MANUAL", "LIQUIDATION"}]
Engine == [pos : OpenPos \cup {Flat}, fee : Int, pending : Seq(Pending), oid : Nat]
LimitFees == {MakerFee * p : p \in LimitAt}

Reports(queued, c, opened, filled, cancelled) ==
  [queued |-> queued, closed |-> c, opened |-> opened, filledPending |-> filled,
   cancelled |-> cancelled]
Closes(c) == Reports(0, c, FALSE, 0, <<>>)
Opens(oid) == Reports(0, NoClose, TRUE, oid, <<>>)
Queues(oid) == Reports(oid, NoClose, FALSE, 0, <<>>)
Cancels(oids) == Reports(0, NoClose, FALSE, 0, oids)

\* e becomes r.eng by an order that is ignored, or opens at a fee of Fees, after a close
\* if a position was open.
Traded(e, r, oid, Fees) ==
  \/ r = Result(e, <<>>)
  \/ \E pos \in OpenPos, fee \in Fees, c \in Closing :
       /\ c.entryFee = e.fee
       /\ r = Result([e EXCEPT !.pos = pos, !.fee = fee],
                     IF e.pos = Flat THEN <<Opens(oid)>> ELSE <<Closes(c), Opens(oid)>>)
Exited(e, r) ==
  \/ r = Result(e, <<>>)
  \/ /\ e.pos # Flat
     /\ \E c \in Closing : /\ c.entryFee = e.fee
                           /\ r = Result([e EXCEPT !.pos = Flat, !.fee = 0], <<Closes(c)>>)

LEMMA Constants ==
  /\ TakerFee \in Int /\ MakerFee \in Int /\ Slip \in Int /\ LiqGap \in Int
  /\ Prices \cup LimitAt \cup Lows \cup Highs \subseteq Int
BY FeesOK, PaperOK DEF FeesOK, PaperOK

LEMMA OpenIsNotFlat == \A pos \in OpenPos : pos # Flat
BY DEF OpenPos, Flat

LEMMA EventsOf ==
  ASSUME NEW c, NEW oid, NEW oids
  PROVE  /\ [Event EXCEPT !.closed = c] = Closes(c)
         /\ [Event EXCEPT !.opened = TRUE] = Opens(0)
         /\ [Event EXCEPT !.queued = oid] = Queues(oid)
         /\ [Opens(0) EXCEPT !.filledPending = oid] = Opens(oid)
         /\ [Event EXCEPT !.cancelled = oids] = Cancels(oids)
<1> DEFINE zero == 0
           no == FALSE
           yes == TRUE
           none == <<>>
<1>1. /\ Event = Reports(zero, NoClose, no, zero, none)
      /\ Closes(c) = Reports(zero, c, no, zero, none)
      /\ Opens(0) = Reports(zero, NoClose, yes, zero, none)
      /\ Opens(oid) = Reports(zero, NoClose, yes, oid, none)
      /\ Queues(oid) = Reports(oid, NoClose, no, zero, none)
      /\ Cancels(oids) = Reports(zero, NoClose, no, zero, oids)
  BY DEF Event, Reports, Closes, Opens, Queues, Cancels
<1>2. [Event EXCEPT !.opened = yes] = [Event EXCEPT !.opened = TRUE]
  OBVIOUS
<1> HIDE DEF zero, no, yes, none
<1>3. [Event EXCEPT !.closed = c] = Closes(c)
  BY <1>1 DEF Reports
<1>4. [Event EXCEPT !.opened = yes] = Opens(0)
  BY <1>1 DEF Reports
<1>5. [Event EXCEPT !.queued = oid] = Queues(oid)
  BY <1>1 DEF Reports
<1>6. [Opens(0) EXCEPT !.filledPending = oid] = Opens(oid)
  BY <1>1 DEF Reports
<1>7. [Event EXCEPT !.cancelled = oids] = Cancels(oids)
  BY <1>1 DEF Reports
<1> QED BY <1>2, <1>3, <1>4, <1>5, <1>6, <1>7

LEMMA PairIn ==
  ASSUME NEW S, NEW a \in S, NEW b \in S
  PROVE  <<a>> \o <<b>> = <<a, b>>
<1>1. /\ <<a>> \in Seq(S) /\ Len(<<a>>) = 1 /\ <<a>>[1] = a
      /\ <<b>> \in Seq(S) /\ Len(<<b>>) = 1 /\ <<b>>[1] = b
  OBVIOUS
<1>2. PICK s \in Seq(S) : s = <<a>>
  BY <1>1
<1>3. PICK t \in Seq(S) : t = <<b>>
  BY <1>1
<1>4. s \o t \in Seq(S) /\ Len(s \o t) = 2 /\ (s \o t)[1] = a /\ (s \o t)[2] = b
  BY <1>1, <1>2, <1>3
<1>5. <<a, b>> \in Seq(S) /\ Len(<<a, b>>) = 2 /\ <<a, b>>[1] = a /\ <<a, b>>[2] = b
  OBVIOUS
<1>6. PICK u \in Seq(S) : u = <<a, b>>
  BY <1>5
<1>7. PICK v \in Seq(S) : v = s \o t
  BY <1>4
<1>8. Len(v) = 2 /\ Len(u) = 2 /\ v[1] = u[1] /\ v[2] = u[2]
  BY <1>4, <1>5, <1>6, <1>7
<1>9. v = u
  BY <1>8, SeqEqual
<1> QED BY <1>2, <1>3, <1>6, <1>7, <1>9

LEMMA Pair ==
  ASSUME NEW a, NEW b
  PROVE  <<a>> \o <<b>> = <<a, b>>
<1>1. PICK S : S = {a, b}
  OBVIOUS
<1> QED BY <1>1, PairIn

LEMMA TripleIn ==
  ASSUME NEW S, NEW a \in S, NEW b \in S, NEW c \in S
  PROVE  <<a, b>> \o <<c>> = <<a, b, c>>
<1>1. /\ <<a, b>> \in Seq(S) /\ Len(<<a, b>>) = 2 /\ <<a, b>>[1] = a /\ <<a, b>>[2] = b
      /\ <<c>> \in Seq(S) /\ Len(<<c>>) = 1 /\ <<c>>[1] = c
  OBVIOUS
<1>2. PICK s \in Seq(S) : s = <<a, b>>
  BY <1>1
<1>3. PICK t \in Seq(S) : t = <<c>>
  BY <1>1
<1>4. /\ s \o t \in Seq(S) /\ Len(s \o t) = 3
      /\ (s \o t)[1] = a /\ (s \o t)[2] = b /\ (s \o t)[3] = c
  BY <1>1, <1>2, <1>3
<1>5. /\ <<a, b, c>> \in Seq(S) /\ Len(<<a, b, c>>) = 3
      /\ <<a, b, c>>[1] = a /\ <<a, b, c>>[2] = b /\ <<a, b, c>>[3] = c
  OBVIOUS
<1>6. PICK u \in Seq(S) : u = <<a, b, c>>
  BY <1>5
<1>7. PICK v \in Seq(S) : v = s \o t
  BY <1>4
<1>8. Len(v) = 3 /\ Len(u) = 3 /\ v[1] = u[1] /\ v[2] = u[2] /\ v[3] = u[3]
  BY <1>4, <1>5, <1>6, <1>7
<1>9. v = u
  BY <1>8, SeqEqual, SMTT(20)
<1> QED BY <1>2, <1>3, <1>6, <1>7, <1>9

LEMMA Triple ==
  ASSUME NEW a, NEW b, NEW c
  PROVE  <<a, b>> \o <<c>> = <<a, b, c>>
<1>1. PICK S : S = {a, b, c}
  OBVIOUS
<1> QED BY <1>1, TripleIn

LEMMA CloseOf ==
  ASSUME NEW e \in Engine, e.pos # Flat, NEW exit \in Int,
         NEW why \in {"SIGNAL", "SL", "TP", "MANUAL", "LIQUIDATION"}
  PROVE  \E c \in Closing : /\ c.entryFee = e.fee
                            /\ CloseAt(e, exit, why) =
                                 Result([e EXCEPT !.pos = Flat, !.fee = 0], <<Closes(c)>>)
<1> DEFINE c == [gross |-> Profit(e.pos, exit), entryFee |-> e.fee,
                 exitFee |-> TakerFee * exit, reason |-> why]
<1>1. e.pos \in OpenPos
  BY DEF Engine
<1>2. Profit(e.pos, exit) \in Int
  BY <1>1 DEF OpenPos, Profit
<1>3. TakerFee * exit \in Int /\ e.fee \in Int
  BY Constants DEF Engine
<1>4. c \in Closing
  BY <1>2, <1>3 DEF Closing
<1>5. CloseAt(e, exit, why) = Result([e EXCEPT !.pos = Flat, !.fee = 0], <<Closes(c)>>)
  BY EventsOf DEF CloseAt
<1> QED BY <1>4, <1>5

LEMMA MarketTrades ==
  ASSUME NEW e \in Engine, NEW o, o.side \in {"BUY", "SELL"}, o.sl \in Int, o.tp \in Int,
         NEW at \in Int, NEW type \in {"MARKET", "LIMIT"}
  PROVE  Traded(e, ApplyMarket(e, o, at, type), 0,
                IF type = "LIMIT" THEN {MakerFee * at} ELSE Int)
<1> DEFINE fill == IF type = "LIMIT" THEN at ELSE Slipped(o.side, at)
           rate == IF type = "LIMIT" THEN MakerFee ELSE TakerFee
           side == Long(o.side)
           pos == [side |-> side, entry |-> fill, sl |-> o.sl, tp |-> o.tp]
           fees == IF type = "LIMIT" THEN {MakerFee * at} ELSE Int
           opened(x) == OpenAt(x, side, fill, o.sl, o.tp, rate)
<1>0. [Event EXCEPT !.opened = TRUE] = Opens(0)
  BY EventsOf
<1>1. fill \in Int
  BY Constants DEF Slipped
<1>2. side \in {"LONG", "SHORT"}
  BY DEF Long
<1>3. pos \in OpenPos
  BY <1>1, <1>2 DEF OpenPos
<1>4. rate * fill \in fees
  <2>1. CASE type = "LIMIT"
    BY <2>1
  <2>2. CASE type = "MARKET"
    BY <1>1, <2>2, Constants
  <2> QED BY <2>1, <2>2
<1>5. CASE e.pos.side = side
  <2>1. e.pos # Flat
    BY <1>2, <1>5 DEF Flat
  <2> QED BY <1>5, <2>1 DEF ApplyMarket, Traded
<1>6. CASE e.pos = Flat
  <2>1. e.pos.side # side
    BY <1>2, <1>6 DEF Flat
  <2>2. ApplyMarket(e, o, at, type) = Then(Result(e, <<>>), opened(e))
    BY <1>6, <2>1 DEF ApplyMarket, Result
  <2>3. opened(e) = Result([e EXCEPT !.pos = pos, !.fee = rate * fill], <<Opens(0)>>)
    BY <1>0 DEF OpenAt
  <2>4. Then(Result(e, <<>>), opened(e)) = opened(e)
    BY <2>3 DEF Then, Result
  <2>5. \E c \in Closing : c.entryFee = e.fee
    <3>1. [gross |-> 0, entryFee |-> e.fee, exitFee |-> 0, reason |-> "SL"] \in Closing
      BY DEF Closing, Engine
    <3> QED BY <3>1
  <2> QED BY <1>3, <1>4, <1>6, <2>2, <2>3, <2>4, <2>5 DEF Traded
<1>7. CASE e.pos # Flat /\ e.pos.side # side
  <2> DEFINE shut == CloseAt(e, fill, "SIGNAL")
  <2>1. PICK c \in Closing : /\ c.entryFee = e.fee
                             /\ shut = Result([e EXCEPT !.pos = Flat, !.fee = 0], <<Closes(c)>>)
    BY <1>1, <1>7, CloseOf
  <2>2. ApplyMarket(e, o, at, type) = Then(shut, opened(shut.eng))
    BY <1>7 DEF ApplyMarket
  <2>3. opened(shut.eng) = Result([shut.eng EXCEPT !.pos = pos, !.fee = rate * fill], <<Opens(0)>>)
    BY <1>0 DEF OpenAt
  <2> DEFINE fee == rate * fill
             open == opened(shut.eng)
  <2> HIDE DEF opened, pos, fee, shut, open
  <2>4. shut.eng = [e EXCEPT !.pos = Flat, !.fee = 0] /\ shut.events = <<Closes(c)>>
    BY <2>1 DEF Result
  <2>5. open.eng = [shut.eng EXCEPT !.pos = pos, !.fee = fee] /\ open.events = <<Opens(0)>>
    BY <2>3 DEF Result, open, fee
  <2>6. open.eng = [e EXCEPT !.pos = pos, !.fee = fee]
    BY <2>4, <2>5 DEF Engine
  <2>7. Then(shut, open) = Result([e EXCEPT !.pos = pos, !.fee = fee], <<Closes(c), Opens(0)>>)
    <3>1. shut.events \o open.events = <<Closes(c), Opens(0)>>
      BY <2>4, <2>5, Pair
    <3> QED BY <2>6, <3>1 DEF Then
  <2>8. Then(shut, opened(shut.eng)) =
          Result([e EXCEPT !.pos = pos, !.fee = rate * fill], <<Closes(c), Opens(0)>>)
    BY <2>7 DEF open, fee
  <2> QED BY <1>3, <1>4, <1>7, <2>1, <2>2, <2>8 DEF Traded, pos
<1> QED BY <1>5, <1>6, <1>7

\* The order that filled is named by what it opened.
LEMMA MarkedTrades ==
  ASSUME NEW e \in Engine, NEW r, NEW Fees, NEW oid, Traded(e, r, 0, Fees)
  PROVE  Traded(e, Marked(r, oid), oid, Fees)
<1>1. \A c : ~Closes(c).opened /\ Opens(0).opened
           /\ [Opens(0) EXCEPT !.filledPending = oid] = Opens(oid)
  BY EventsOf DEF Closes, Opens, Reports
<1>2. CASE r = Result(e, <<>>)
  BY <1>2 DEF Traded, Marked, Result
<1>3. ASSUME NEW pos \in OpenPos, NEW fee \in Fees, NEW c \in Closing, c.entryFee = e.fee,
             r = Result([e EXCEPT !.pos = pos, !.fee = fee],
                        IF e.pos = Flat THEN <<Opens(0)>> ELSE <<Closes(c), Opens(0)>>)
      PROVE  Traded(e, Marked(r, oid), oid, Fees)
  <2>1. Marked(r, oid).eng = [e EXCEPT !.pos = pos, !.fee = fee]
    BY <1>3 DEF Marked, Result
  <2>2. Marked(r, oid).events = IF e.pos = Flat THEN <<Opens(oid)>> ELSE <<Closes(c), Opens(oid)>>
    <3>1. CASE e.pos = Flat
      <4>1. r.events = <<Opens(0)>>
        BY <1>3, <3>1 DEF Result
      <4> QED BY <1>1, <3>1, <4>1 DEF Marked, Result
    <3>2. CASE e.pos # Flat
      <4>1. r.events = <<Closes(c), Opens(0)>>
        BY <1>3, <3>2 DEF Result
      <4> QED BY <1>1, <3>2, <4>1 DEF Marked, Result
    <3> QED BY <3>1, <3>2
  <2>3. Marked(r, oid) = Result(Marked(r, oid).eng, Marked(r, oid).events)
    BY DEF Marked, Result
  <2>4. Marked(r, oid) = Result([e EXCEPT !.pos = pos, !.fee = fee],
                                IF e.pos = Flat THEN <<Opens(oid)>> ELSE <<Closes(c), Opens(oid)>>)
    BY <2>1, <2>2, <2>3
  <2> QED BY <1>3, <2>4 DEF Traded
<1> QED BY <1>2, <1>3 DEF Traded

LEMMA TriggeredExits ==
  ASSUME NEW e \in Engine, NEW at \in Int
  PROVE  Exited(e, Triggered(e, at))
<1>1. ASSUME Liquidated(e.pos, at)
      PROVE  Exited(e, CloseAt(e, at, "LIQUIDATION"))
  <2>1. e.pos # Flat
    BY <1>1 DEF Liquidated, Flat
  <2> QED BY <2>1, CloseOf DEF Exited
<1>2. \/ SltpReason(e.pos, at) = "none"
      \/ SltpReason(e.pos, at) \in {"SL", "TP"} /\ e.pos # Flat
  BY DEF SltpReason, Flat
<1>3. ASSUME NEW why \in {"SL", "TP"}, e.pos # Flat
      PROVE  Exited(e, LevelExit(e, at, why))
  <2>1. e.pos \in OpenPos
    BY <1>3 DEF Engine
  <2>2. ExitLevel(e.pos, at, why) \in Int
    BY <2>1 DEF ExitLevel, OpenPos
  <2>3. SlippedExit(e, ExitLevel(e.pos, at, why)) \in Int
    BY <2>2, Constants DEF SlippedExit, Slipped
  <2>4. LevelExit(e, at, why) = CloseAt(e, SlippedExit(e, ExitLevel(e.pos, at, why)), why)
    BY DEF LevelExit
  <2> DEFINE exit == SlippedExit(e, ExitLevel(e.pos, at, why))
  <2> HIDE DEF exit
  <2>5. \E c \in Closing :
           /\ c.entryFee = e.fee
           /\ CloseAt(e, exit, why) = Result([e EXCEPT !.pos = Flat, !.fee = 0], <<Closes(c)>>)
    <3>1. why \in {"SIGNAL", "SL", "TP", "MANUAL", "LIQUIDATION"} /\ exit \in Int
      BY <2>3 DEF exit
    <3> QED BY <1>3, <3>1, CloseOf
  <2> QED BY <1>3, <2>4, <2>5 DEF Exited, exit
<1>4. Exited(e, LevelExit(e, at, "none"))
  BY DEF Exited, LevelExit
<1> QED BY <1>1, <1>2, <1>3, <1>4 DEF Triggered

LEMMA ForceCloseExits ==
  ASSUME NEW e \in Engine, NEW at \in Int
  PROVE  Exited(e, ForceClose(e, at))
<1>1. SlippedExit(e, at) \in Int
  BY Constants DEF SlippedExit, Slipped
<1> QED BY <1>1, CloseOf DEF ForceClose, Exited
--------------------------------------------------------------------------------
(* The jobs of an event, and of a list of events *)

Task(kind, c, oid) == [kind |-> kind, closed |-> c, oid |-> oid]
Kinds == {"queue", "close", "book", "open", "fee", "mark", "order", "cancel", "audit", "sltp"}
JobSet == [kind : Kinds, closed : Closing \cup {NoClose}, oid : Nat]
Reported == {Closes(c) : c \in Closing} \cup {Opens(oid) : oid \in Nat}
            \cup {Queues(oid) : oid \in Nat \ {0}} \cup {Cancels(oids) : oids \in Seq(Nat)}

LEMMA NothingAdded ==
  ASSUME NEW S, NEW q \in Seq(S)
  PROVE  <<>> \o q = q /\ q \o <<>> = q /\ q \in Seq(S)
OBVIOUS

LEMMA NoneCancelled ==
  ASSUME NEW x
  PROVE  [i \in DOMAIN <<>> |-> Job("cancel", x, <<>>[i])] = <<>>
<1> DEFINE s == [i \in DOMAIN <<>> |-> Job("cancel", x, <<>>[i])]
<1>1. DOMAIN s = 1..0 /\ DOMAIN <<>> = 1..0
  OBVIOUS
<1>2. s \in Seq(Nat) /\ Len(s) = 0
  BY <1>1
<1> QED BY <1>2

LEMMA JobsOfCloses ==
  ASSUME NEW c \in Closing
  PROVE  JobsOf(Closes(c)) = <<Task("close", c, 0), Task("book", c, 0)>>
<1> DEFINE ev == Closes(c)
           two == <<Task("close", c, 0), Task("book", c, 0)>>
<1>1. ev.queued = 0 /\ ev.closed = c /\ ~ev.opened /\ ev.filledPending = 0 /\ ev.cancelled = <<>>
  BY DEF Closes, Reports
<1>2. c # NoClose
  BY DEF Closing, NoClose
<1>3. Job("close", ev, 0) = Task("close", c, 0) /\ Job("book", ev, 0) = Task("book", c, 0)
  BY <1>1 DEF Job, Task
<1>4. two \in Seq({Task("close", c, 0), Task("book", c, 0)})
  OBVIOUS
<1> HIDE DEF ev
<1>5. JobsOf(ev) = <<>> \o <<Job("close", ev, 0), Job("book", ev, 0)>> \o <<>> \o <<>> \o <<>>
  BY <1>1, <1>2, NoneCancelled DEF JobsOf
<1>6. <<Job("close", ev, 0), Job("book", ev, 0)>> = two
  BY <1>3
<1> HIDE DEF two
<1>7. <<>> \o two \o <<>> \o <<>> \o <<>> = two
  BY <1>4, NothingAdded
<1> QED BY <1>5, <1>6, <1>7 DEF ev, two

LEMMA JobsOfOpens ==
  ASSUME NEW oid \in Nat
  PROVE  JobsOf(Opens(oid)) =
           <<Task("open", NoClose, 0), Task("fee", NoClose, 0),
             IF oid = 0 THEN Task("order", NoClose, 0) ELSE Task("mark", NoClose, oid)>>
<1> DEFINE ev == Opens(oid)
           last == IF oid = 0 THEN Task("order", NoClose, 0) ELSE Task("mark", NoClose, oid)
           two == <<Task("open", NoClose, 0), Task("fee", NoClose, 0)>>
           one == <<last>>
<1>1. ev.queued = 0 /\ ev.closed = NoClose /\ ev.opened /\ ev.filledPending = oid /\ ev.cancelled = <<>>
  BY DEF Opens, Reports
<1>2. /\ Job("open", ev, 0) = Task("open", NoClose, 0) /\ Job("fee", ev, 0) = Task("fee", NoClose, 0)
      /\ Job("order", ev, 0) = Task("order", NoClose, 0) /\ Job("mark", ev, oid) = Task("mark", NoClose, oid)
  BY <1>1 DEF Job, Task
<1> HIDE DEF ev
<1>3. JobsOf(ev) = <<>> \o <<>> \o <<Job("open", ev, 0), Job("fee", ev, 0)>>
                   \o (IF oid # 0 THEN <<Job("mark", ev, oid)>> ELSE <<Job("order", ev, 0)>>) \o <<>>
  BY <1>1, NoneCancelled DEF JobsOf
<1>4. JobsOf(ev) = <<>> \o <<>> \o two \o one \o <<>>
  BY <1>2, <1>3
<1>5. two \o one = <<Task("open", NoClose, 0), Task("fee", NoClose, 0), last>>
  BY Triple
<1> DEFINE S == {Task("open", NoClose, 0), Task("fee", NoClose, 0), last}
<1>6. two \in Seq(S) /\ one \in Seq(S)
  OBVIOUS
<1> HIDE DEF two, one, S
<1>7. <<>> \o <<>> \o two \o one \o <<>> = two \o one
  <2>1. <<>> \o <<>> = <<>>
    OBVIOUS
  <2>2. two \o one \in Seq(S)
    BY <1>6
  <2> QED BY <1>6, <2>1, <2>2, NothingAdded
<1> QED BY <1>4, <1>5, <1>7 DEF ev

LEMMA JobsOfQueues ==
  ASSUME NEW oid \in Nat \ {0}
  PROVE  JobsOf(Queues(oid)) = <<Task("queue", NoClose, oid)>>
<1> DEFINE ev == Queues(oid)
           one == <<Task("queue", NoClose, oid)>>
<1>1. ev.queued = oid /\ ev.closed = NoClose /\ ~ev.opened /\ ev.filledPending = 0 /\ ev.cancelled = <<>>
  BY DEF Queues, Reports
<1>2. Job("queue", ev, oid) = Task("queue", NoClose, oid)
  BY <1>1 DEF Job, Task
<1> HIDE DEF ev
<1>3. JobsOf(ev) = <<Job("queue", ev, oid)>> \o <<>> \o <<>> \o <<>> \o <<>>
  BY <1>1, NoneCancelled DEF JobsOf
<1>4. one \in Seq({Task("queue", NoClose, oid)})
  OBVIOUS
<1> HIDE DEF one
<1>5. one \o <<>> \o <<>> \o <<>> \o <<>> = one
  BY <1>4, NothingAdded
<1> QED BY <1>2, <1>3, <1>5 DEF ev, one

LEMMA JobsOfCancels ==
  ASSUME NEW oids \in Seq(Nat)
  PROVE  JobsOf(Cancels(oids)) = [i \in 1..Len(oids) |-> Task("cancel", NoClose, oids[i])]
<1> DEFINE ev == Cancels(oids)
           all == [i \in 1..Len(oids) |-> Task("cancel", NoClose, oids[i])]
<1>1. ev.queued = 0 /\ ev.closed = NoClose /\ ~ev.opened /\ ev.filledPending = 0 /\ ev.cancelled = oids
  BY DEF Cancels, Reports
<1>2. \A o : Job("cancel", ev, o) = Task("cancel", NoClose, o)
  BY <1>1 DEF Job, Task
<1> HIDE DEF ev
<1>3. JobsOf(ev) = <<>> \o <<>> \o <<>> \o <<>> \o [i \in DOMAIN oids |-> Job("cancel", ev, oids[i])]
  BY <1>1 DEF JobsOf
<1>4. [i \in DOMAIN oids |-> Job("cancel", ev, oids[i])] = all
  BY <1>2
<1>5. all \in Seq({Task("cancel", NoClose, o) : o \in Nat})
  OBVIOUS
<1> HIDE DEF all
<1>6. <<>> \o <<>> \o <<>> \o <<>> \o all = all
  <2>1. <<>> \o <<>> = <<>>
    OBVIOUS
  <2> QED BY <1>5, <2>1, NothingAdded
<1> QED BY <1>3, <1>4, <1>6 DEF ev, all

LEMMA Tuples ==
  ASSUME NEW S
  PROVE  /\ \A x \in S : <<x>> \in Seq(S)
         /\ \A x, y \in S : <<x, y>> \in Seq(S)
         /\ \A x, y, z \in S : <<x, y, z>> \in Seq(S)
OBVIOUS

LEMMA JobsAreJobs ==
  ASSUME NEW x \in Reported
  PROVE  JobsOf(x) \in Seq(JobSet)
<1>1. \A k \in Kinds, c \in Closing \cup {NoClose}, oid \in Nat : Task(k, c, oid) \in JobSet
  BY DEF Task, JobSet
<1> DEFINE task(k, c, oid) == Task(k, c, oid)
<1> HIDE DEF task
<1>2. /\ {"close", "book", "open", "fee", "order", "mark", "cancel", "queue"} \subseteq Kinds
      /\ NoClose \in Closing \cup {NoClose}
  BY DEF Kinds
<1>3. ASSUME NEW c \in Closing PROVE JobsOf(Closes(c)) \in Seq(JobSet)
  <2>1. Task("close", c, 0) \in JobSet /\ Task("book", c, 0) \in JobSet
    BY <1>1, <1>2
  <2> QED BY <2>1, JobsOfCloses, Tuples
<1>4. ASSUME NEW oid \in Nat PROVE JobsOf(Opens(oid)) \in Seq(JobSet)
  <2>1. /\ Task("open", NoClose, 0) \in JobSet /\ Task("fee", NoClose, 0) \in JobSet
        /\ Task("order", NoClose, 0) \in JobSet /\ Task("mark", NoClose, oid) \in JobSet
    BY <1>1, <1>2
  <2>2. (IF oid = 0 THEN Task("order", NoClose, 0) ELSE Task("mark", NoClose, oid)) \in JobSet
    BY <2>1
  <2> QED BY <2>1, <2>2, JobsOfOpens, Tuples
<1>5. ASSUME NEW oid \in Nat \ {0} PROVE JobsOf(Queues(oid)) \in Seq(JobSet)
  <2>1. Task("queue", NoClose, oid) \in JobSet
    BY <1>1, <1>2
  <2> QED BY <2>1, JobsOfQueues, Tuples
<1>6. ASSUME NEW oids \in Seq(Nat) PROVE JobsOf(Cancels(oids)) \in Seq(JobSet)
  <2>1. \A i \in 1..Len(oids) : Task("cancel", NoClose, oids[i]) \in JobSet
    <3>1. \A i \in 1..Len(oids) : oids[i] \in Nat
      OBVIOUS
    <3> QED BY <1>1, <1>2, <3>1
  <2> QED BY <2>1, JobsOfCancels
<1> QED BY <1>3, <1>4, <1>5, <1>6 DEF Reported

LEMMA JobsSteps ==
  ASSUME NEW a \in Seq(Reported), a # <<>>
  PROVE  \E f : /\ f[1] = JobsOf(a[1])
                /\ \A i \in 2..Len(a) : f[i] = f[i - 1] \o JobsOf(a[i])
                /\ Jobs(a) = f[Len(a)]
<1> DEFINE ss == [i \in DOMAIN a |-> JobsOf(a[i])]
<1>1. Len(a) \in Nat \ {0} /\ DOMAIN a = 1..Len(a)
  OBVIOUS
<1>2. Len(ss) = Len(a) /\ IsSeq(ss) /\ ss # <<>> /\ \A i \in 1..Len(a) : ss[i] = JobsOf(a[i])
  BY <1>1 DEF IsSeq
<1>3. Jobs(a) = FlattenSeq(ss)
  BY DEF Jobs
<1> HIDE DEF ss
<1>4. PICK f : f[1] = ss[1] /\ (\A i \in 2..Len(ss) : f[i] = f[i - 1] \o ss[i]) /\ FlattenSeq(ss) = f[Len(ss)]
  BY <1>2, FlattenSteps
<1>5. f[1] = JobsOf(a[1])
  BY <1>1, <1>2, <1>4
<1>6. ASSUME NEW i \in 2..Len(a) PROVE f[i] = f[i - 1] \o JobsOf(a[i])
  <2>1. i \in 2..Len(ss) /\ i \in 1..Len(a)
    BY <1>2
  <2> QED BY <1>2, <1>4, <2>1
<1> QED BY <1>2, <1>3, <1>4, <1>5, <1>6

LEMMA JobsOfNone == Jobs(<<>>) = <<>>
<1>1. [i \in DOMAIN <<>> |-> JobsOf(<<>>[i])] = <<>>
  <2> DEFINE s == [i \in DOMAIN <<>> |-> JobsOf(<<>>[i])]
  <2>1. DOMAIN s = 1..0 /\ DOMAIN <<>> = 1..0
    OBVIOUS
  <2>2. s \in Seq(Nat) /\ Len(s) = 0
    BY <2>1
  <2> QED BY <2>2
<1>2. FlattenSeq(<<>>) = <<>>
  BY DEF FlattenSeq
<1> QED BY <1>1, <1>2 DEF Jobs

LEMMA JobsOfOne ==
  ASSUME NEW x \in Reported
  PROVE  Jobs(<<x>>) = JobsOf(x)
<1>1. <<x>> \in Seq(Reported) /\ <<x>> # <<>> /\ Len(<<x>>) = 1 /\ <<x>>[1] = x
  OBVIOUS
<1>2. PICK a \in Seq(Reported) : a = <<x>>
  BY <1>1
<1>3. PICK f : f[1] = JobsOf(a[1]) /\ Jobs(a) = f[Len(a)]
  BY <1>1, <1>2, JobsSteps
<1> QED BY <1>1, <1>2, <1>3

\* The jobs of one more event come after the jobs there are.
LEMMA JobsOfMore ==
  ASSUME NEW a \in Seq(Reported), NEW x \in Reported
  PROVE  /\ Jobs(a) \in Seq(JobSet)
         /\ Jobs(a \o <<x>>) = Jobs(a) \o JobsOf(x)
<1>1. CASE a = <<>>
  <2>1. a \o <<x>> = <<x>>
    BY <1>1, ConcatEmptySeq, Tuples
  <2>2. JobsOf(x) \in Seq(JobSet)
    BY JobsAreJobs
  <2>3. <<>> \o JobsOf(x) = JobsOf(x)
    BY <2>2, ConcatEmptySeq
  <2>4. <<>> \in Seq(JobSet)
    OBVIOUS
  <2>5. Jobs(a) = <<>> /\ Jobs(a \o <<x>>) = JobsOf(x)
    BY <1>1, <2>1, JobsOfNone, JobsOfOne
  <2> QED BY <2>3, <2>4, <2>5
<1>2. CASE a # <<>>
  <2>1. <<x>> \in Seq(Reported) /\ Len(<<x>>) = 1 /\ <<x>>[1] = x
    OBVIOUS
  <2>2. PICK b \in Seq(Reported) : b = <<x>>
    BY <2>1
  <2>3. PICK c \in Seq(Reported) : c = a \o b
    BY ConcatProperties
  <2>4. /\ Len(a) \in Nat \ {0} /\ Len(c) = Len(a) + 1 /\ c[Len(c)] = x
        /\ \A i \in 1..Len(a) : c[i] = a[i]
    BY <1>2, <2>1, <2>2, <2>3
  <2>5. c # <<>>
    BY <2>4
  <2>6. PICK f : /\ f[1] = JobsOf(a[1])
                 /\ \A i \in 2..Len(a) : f[i] = f[i - 1] \o JobsOf(a[i])
                 /\ Jobs(a) = f[Len(a)]
    BY <1>2, JobsSteps
  <2>7. PICK h : /\ h[1] = JobsOf(c[1])
                 /\ \A i \in 2..Len(c) : h[i] = h[i - 1] \o JobsOf(c[i])
                 /\ Jobs(c) = h[Len(c)]
    BY <2>5, JobsSteps
  <2> DEFINE S == {n \in Nat : n + 1 \in 1..Len(a) => f[n + 1] \in Seq(JobSet) /\ h[n + 1] = f[n + 1]}
  <2>8. 0 \in S
    <3>1. a[1] \in Reported /\ c[1] = a[1]
      BY <2>4
    <3>2. JobsOf(a[1]) \in Seq(JobSet)
      BY <3>1, JobsAreJobs
    <3> QED BY <2>6, <2>7, <3>1, <3>2
  <2>9. ASSUME NEW n \in Nat, n \in S PROVE n + 1 \in S
    <3>1. SUFFICES ASSUME n + 2 \in 1..Len(a)
                   PROVE  f[n + 2] \in Seq(JobSet) /\ h[n + 2] = f[n + 2]
      OBVIOUS
    <3>2. /\ f[n + 1] \in Seq(JobSet) /\ h[n + 1] = f[n + 1]
          /\ n + 2 \in 2..Len(a) /\ n + 2 \in 2..Len(c) /\ (n + 2) - 1 = n + 1
      BY <2>4, <2>9, <3>1
    <3>3. f[n + 2] = f[n + 1] \o JobsOf(a[n + 2]) /\ h[n + 2] = h[n + 1] \o JobsOf(c[n + 2])
      BY <2>6, <2>7, <3>2
    <3>4. c[n + 2] = a[n + 2] /\ a[n + 2] \in Reported
      BY <2>4, <3>1
    <3>5. JobsOf(a[n + 2]) \in Seq(JobSet)
      BY <3>4, JobsAreJobs
    <3>6. f[n + 1] \o JobsOf(a[n + 2]) \in Seq(JobSet)
      BY <3>2, <3>5
    <3> QED BY <3>2, <3>3, <3>4, <3>6
  <2>10. Nat \subseteq S
    <3> HIDE DEF S
    <3> QED BY <2>8, <2>9, NatSet
  <2>11. Len(a) - 1 \in S
    BY <2>4, <2>10
  <2>12. f[Len(a)] \in Seq(JobSet) /\ h[Len(a)] = f[Len(a)]
    BY <2>4, <2>11
  <2>13. h[Len(c)] = h[Len(a)] \o JobsOf(x)
    <3>1. Len(c) \in 2..Len(c) /\ Len(c) - 1 = Len(a)
      BY <2>4
    <3> QED BY <2>4, <2>7, <3>1
  <2> QED BY <2>2, <2>3, <2>6, <2>7, <2>12, <2>13
<1> QED BY <1>1, <1>2
--------------------------------------------------------------------------------
(* What a handler does: the engine and the jobs it leaves *)

Oids(e) == {e.pending[k].oid : k \in DOMAIN e.pending}
EngineOK(e) ==
  /\ e \in Engine
  /\ \A k \in DOMAIN e.pending : e.pending[k].oid \in 1..e.oid
  /\ \A k, m \in DOMAIN e.pending : k # m => e.pending[k].oid # e.pending[m].oid

\* Jobs that write the end of an order, and the order that jobs come in.
Settles(j) == j.kind \in {"mark", "cancel"}
Link(a, b) ==
  \/ a.kind = "close" /\ b.kind = "book" /\ b.closed = a.closed
  \/ a.kind = "book" /\ b.kind = "open"
  \/ a.kind = "open" /\ b.kind = "fee"
  \/ a.kind = "fee" /\ b.kind \in {"mark", "order"}
  \/ a.kind = "mark" /\ b.kind = "close" /\ b.closed.entryFee \in LimitFees
  \/ a.kind = "cancel" /\ b.kind = "cancel"
Chain(J) == \A i \in 1..(Len(J) - 1) : Link(J[i], J[i + 1])

\* J writes down the trades by which the position and fee of e became those of en.
Trades(J, e, en) ==
  /\ J \in Seq(JobSet) /\ Chain(J)
  /\ \A i \in 1..Len(J) : J[i].kind \in {"close", "book", "open", "fee", "mark", "order"}
  /\ J = <<>> => en.pos = e.pos /\ en.fee = e.fee
  /\ J # <<>> =>
       /\ J[1].kind = IF e.pos = Flat THEN "open" ELSE "close"
       /\ J[1].kind = "close" => J[1].closed.entryFee = e.fee
       /\ J[Len(J)].kind \in IF en.pos = Flat THEN {"book"} ELSE {"mark", "order"}
       /\ en.pos = Flat => en.fee = 0

Outcome(e, r) ==
  LET J == Jobs(r.events)
  IN /\ EngineOK(r.eng) /\ J \in Seq(JobSet)
     /\ \A i \in 1..Len(J) : Settles(J[i]) => J[i].oid \in Oids(e) \ Oids(r.eng)
     /\ \A i, k \in 1..Len(J) : Settles(J[i]) /\ Settles(J[k]) /\ i # k => J[i].oid # J[k].oid
     /\ \/ /\ Trades(J, e, r.eng)
           /\ \A i \in 1..Len(J) : J[i].kind = "mark" => r.eng.pos = Flat \/ r.eng.fee \in LimitFees
           /\ r.eng.oid = e.oid /\ Oids(r.eng) \subseteq Oids(e)
        \/ /\ Chain(J) /\ \A i \in 1..Len(J) : J[i].kind = "cancel"
           /\ r.eng.pos = e.pos /\ r.eng.fee = e.fee
           /\ r.eng.oid = e.oid /\ Oids(r.eng) \subseteq Oids(e)
        \/ /\ J = <<Task("queue", NoClose, e.oid + 1)>>
           /\ r.eng.pos = e.pos /\ r.eng.fee = e.fee
           /\ r.eng.oid = e.oid + 1 /\ Oids(r.eng) \subseteq Oids(e) \cup {e.oid + 1}

LEMMA ChainJoin ==
  ASSUME NEW J \in Seq(JobSet), NEW K \in Seq(JobSet), Chain(J), Chain(K),
         J # <<>> /\ K # <<>> => Link(J[Len(J)], K[1])
  PROVE  Chain(J \o K)
<1> DEFINE L == J \o K
<1>1. /\ L \in Seq(JobSet) /\ Len(L) = Len(J) + Len(K)
      /\ \A i \in 1..Len(J) + Len(K) : L[i] = IF i <= Len(J) THEN J[i] ELSE K[i - Len(J)]
  BY ConcatProperties
<1>2. Len(J) \in Nat /\ Len(K) \in Nat
  OBVIOUS
<1> HIDE DEF L
<1>3. ASSUME NEW i \in 1..(Len(L) - 1) PROVE Link(L[i], L[i + 1])
  <2>1. CASE i < Len(J)
    <3>1. i \in 1..(Len(J) - 1) /\ L[i] = J[i] /\ L[i + 1] = J[i + 1]
      BY <1>1, <1>2, <2>1
    <3> QED BY <3>1 DEF Chain
  <2>2. CASE i = Len(J)
    <3>1. L[i] = J[Len(J)] /\ L[i + 1] = K[1] /\ Len(J) # 0 /\ Len(K) # 0
      BY <1>1, <1>2, <2>2, SMTT(20)
    <3>2. J # <<>> /\ K # <<>>
      BY <3>1
    <3> QED BY <3>1, <3>2
  <2>3. CASE i > Len(J)
    <3>1. i - Len(J) \in 1..(Len(K) - 1) /\ L[i] = K[i - Len(J)] /\ L[i + 1] = K[(i - Len(J)) + 1]
      BY <1>1, <1>2, <2>3
    <3> QED BY <3>1 DEF Chain
  <2> QED BY <1>1, <1>2, <2>1, <2>2, <2>3
<1> QED BY <1>3 DEF Chain, L

LEMMA TradesJoin ==
  ASSUME NEW e, NEW m, NEW en, NEW J, NEW K, Trades(J, e, m), Trades(K, m, en),
         J # <<>> /\ m.pos # Flat => J[Len(J)].kind = "mark" /\ m.fee \in LimitFees
  PROVE  Trades(J \o K, e, en)
<1>1. J \in Seq(JobSet) /\ K \in Seq(JobSet)
  BY DEF Trades
<1>2. CASE J = <<>>
  <2>1. J \o K = K
    BY <1>1, <1>2, ConcatEmptySeq
  <2>2. m.pos = e.pos /\ m.fee = e.fee
    BY <1>2 DEF Trades
  <2> QED BY <2>1, <2>2 DEF Trades
<1>3. CASE K = <<>>
  <2>1. J \o K = J
    BY <1>1, <1>3, ConcatEmptySeq
  <2>2. en.pos = m.pos /\ en.fee = m.fee
    BY <1>3 DEF Trades
  <2> QED BY <2>1, <2>2 DEF Trades
<1>4. CASE J # <<>> /\ K # <<>>
  <2> DEFINE L == J \o K
  <2>1. /\ L \in Seq(JobSet) /\ Len(L) = Len(J) + Len(K)
        /\ \A i \in 1..Len(J) + Len(K) : L[i] = IF i <= Len(J) THEN J[i] ELSE K[i - Len(J)]
    BY <1>1, ConcatProperties
  <2>2. Len(J) \in Nat \ {0} /\ Len(K) \in Nat \ {0}
    BY <1>1, <1>4
  <2>3. Link(J[Len(J)], K[1])
    BY <1>4 DEF Trades, Link
  <2>4. Chain(L)
    BY <1>1, <2>3, ChainJoin DEF Trades
  <2> HIDE DEF L
  <2>5. L[1] = J[1] /\ L[Len(L)] = K[Len(K)] /\ L # <<>>
    BY <2>1, <2>2
  <2>6. \A i \in 1..Len(L) : L[i].kind \in {"close", "book", "open", "fee", "mark", "order"}
    <3> SUFFICES ASSUME NEW i \in 1..Len(L)
                 PROVE  L[i].kind \in {"close", "book", "open", "fee", "mark", "order"}
      OBVIOUS
    <3>1. \/ i \in 1..Len(J) /\ L[i] = J[i]
          \/ i - Len(J) \in 1..Len(K) /\ L[i] = K[i - Len(J)]
      BY <2>1, <2>2
    <3> QED BY <3>1 DEF Trades
  <2>7. Trades(L, e, en)
    BY <1>4, <2>1, <2>4, <2>5, <2>6 DEF Trades
  <2> QED BY <2>7 DEF L
<1> QED BY <1>2, <1>3, <1>4

LEMMA CloseJobs ==
  ASSUME NEW c \in Closing, NEW e, NEW en,
         e.pos # Flat, c.entryFee = e.fee, en.pos = Flat, en.fee = 0
  PROVE  /\ Trades(JobsOf(Closes(c)), e, en) /\ JobsOf(Closes(c)) # <<>>
         /\ \A i \in 1..Len(JobsOf(Closes(c))) : JobsOf(Closes(c))[i].kind \notin {"mark", "cancel", "order"}
<1> DEFINE K == JobsOf(Closes(c))
<1>1. Closes(c) \in Reported
  BY DEF Reported
<1>2. K \in Seq(JobSet)
  BY <1>1, JobsAreJobs
<1>3. K = <<Task("close", c, 0), Task("book", c, 0)>>
  BY JobsOfCloses
<1> HIDE DEF K
<1>4. Len(K) = 2 /\ K[1] = Task("close", c, 0) /\ K[2] = Task("book", c, 0)
  BY <1>3
<1>5. K[1].kind = "close" /\ K[1].closed = c /\ K[2].kind = "book" /\ K[2].closed = c
  BY <1>4 DEF Task
<1>6. Chain(K)
  BY <1>4, <1>5 DEF Chain, Link
<1>7. K # <<>> /\ \A i \in 1..Len(K) : K[i].kind \in {"close", "book"}
  BY <1>4, <1>5
<1>8. Trades(K, e, en)
  BY <1>2, <1>4, <1>5, <1>6, <1>7 DEF Trades
<1> QED BY <1>7, <1>8 DEF K

OpenEnds(oid) == IF oid = 0 THEN Task("order", NoClose, 0) ELSE Task("mark", NoClose, oid)
LEMMA OpenJobs ==
  ASSUME NEW oid \in Nat, NEW e, NEW en, e.pos = Flat, en.pos # Flat
  PROVE  /\ Trades(JobsOf(Opens(oid)), e, en) /\ Len(JobsOf(Opens(oid))) = 3
         /\ JobsOf(Opens(oid))[3] = OpenEnds(oid)
         /\ \A i \in 1..2 : JobsOf(Opens(oid))[i].kind \notin {"mark", "cancel", "order"}
<1> DEFINE K == JobsOf(Opens(oid))
<1>1. Opens(oid) \in Reported
  BY DEF Reported
<1>2. K \in Seq(JobSet)
  BY <1>1, JobsAreJobs
<1>3. K = <<Task("open", NoClose, 0), Task("fee", NoClose, 0), OpenEnds(oid)>>
  BY JobsOfOpens DEF OpenEnds
<1> HIDE DEF K
<1>4. Len(K) = 3 /\ K[1] = Task("open", NoClose, 0) /\ K[2] = Task("fee", NoClose, 0) /\ K[3] = OpenEnds(oid)
  BY <1>3
<1>5. K[1].kind = "open" /\ K[2].kind = "fee" /\ K[3].kind \in {"mark", "order"}
  BY <1>4 DEF Task, OpenEnds
<1>6. Chain(K)
  BY <1>4, <1>5 DEF Chain, Link
<1>7. K # <<>> /\ \A i \in 1..3 : K[i].kind \in {"close", "book", "open", "fee", "mark", "order"}
  <2>1. \A i \in 1..3 : i = 1 \/ i = 2 \/ i = 3
    OBVIOUS
  <2>2. DOMAIN <<>> = {} /\ DOMAIN K = 1..3 /\ 1 \in 1..3
    BY <1>2, <1>4
  <2> QED BY <1>5, <2>1, <2>2
<1>8. Trades(K, e, en)
  BY <1>2, <1>4, <1>5, <1>6, <1>7 DEF Trades
<1> QED BY <1>4, <1>5, <1>8 DEF K

\* An order that trades adds the jobs K, of which the last is the order's.
TradeJobs(K, a, e, r, oid) ==
  /\ a \o r.events \in Seq(Reported) /\ Jobs(a \o r.events) = Jobs(a) \o K
  /\ Trades(K, e, r.eng) /\ K # <<>> /\ K[Len(K)] = OpenEnds(oid)
  /\ \A i \in 1..(Len(K) - 1) : K[i].kind \notin {"mark", "cancel", "order"}

Opened(e, en, Fees) ==
  \E pos \in OpenPos, fee \in Fees : en = [e EXCEPT !.pos = pos, !.fee = fee]

LEMMA TradedJobs ==
  ASSUME NEW a \in Seq(Reported), NEW e \in Engine, NEW r, NEW oid \in Nat, NEW Fees,
         Traded(e, r, oid, Fees), r.events # <<>>
  PROVE  /\ \E K : TradeJobs(K, a, e, r, oid)
         /\ Opened(e, r.eng, Fees)
<1>1. PICK pos \in OpenPos, fee \in Fees, c \in Closing :
        /\ c.entryFee = e.fee
        /\ r = Result([e EXCEPT !.pos = pos, !.fee = fee],
                      IF e.pos = Flat THEN <<Opens(oid)>> ELSE <<Closes(c), Opens(oid)>>)
  <2>1. r # Result(e, <<>>)
    BY DEF Result
  <2> QED BY <2>1 DEF Traded
<1>2. r.eng = [e EXCEPT !.pos = pos, !.fee = fee]
  BY <1>1 DEF Result
<1>3. r.eng.pos # Flat
  BY <1>2, OpenIsNotFlat DEF Engine
<1>4. Closes(c) \in Reported /\ Opens(oid) \in Reported
  BY DEF Reported
<1>5. PICK K1 \in Seq(JobSet) : K1 = JobsOf(Closes(c))
  BY <1>4, JobsAreJobs
<1>6x. PICK K2 \in Seq(JobSet) : K2 = JobsOf(Opens(oid))
  BY <1>4, JobsAreJobs
<1>6. CASE e.pos = Flat
  <2>1. r.events = <<Opens(oid)>>
    BY <1>1, <1>6 DEF Result
  <2>2. a \o r.events \in Seq(Reported)
    BY <1>4, <2>1, Tuples, ConcatProperties
  <2>3. Jobs(a \o r.events) = Jobs(a) \o K2
    BY <1>4, <1>6x, <2>1, JobsOfMore
  <2>4. Trades(K2, e, r.eng) /\ Len(K2) = 3 /\ K2[3] = OpenEnds(oid)
        /\ \A i \in 1..2 : K2[i].kind \notin {"mark", "cancel", "order"}
    BY <1>3, <1>6x, <1>6, OpenJobs
  <2>5. K2 # <<>> /\ K2[Len(K2)] = OpenEnds(oid)
        /\ \A i \in 1..(Len(K2) - 1) : K2[i].kind \notin {"mark", "cancel", "order"}
    <3>1. Len(K2) = 3 /\ Len(K2) - 1 = 2
      BY <2>4
    <3>2. K2 # <<>>
      <4>1. Len(<<>>) # 3
        OBVIOUS
      <4> QED BY <3>1, <4>1, Zenon
    <3>3. K2[Len(K2)] = OpenEnds(oid)
      BY <2>4
    <3>4. ASSUME NEW i \in 1..(Len(K2) - 1) PROVE K2[i].kind \notin {"mark", "cancel", "order"}
      <4>1. i \in 1..2
        BY <3>1
      <4> QED BY <2>4, <4>1
    <3> QED BY <3>2, <3>3, <3>4
  <2>6. TradeJobs(K2, a, e, r, oid)
    BY <2>2, <2>3, <2>4, <2>5 DEF TradeJobs
  <2> QED BY <1>2, <2>6 DEF Opened
<1>7. CASE e.pos # Flat
  <2>1. r.events = <<Closes(c), Opens(oid)>>
    BY <1>1, <1>7 DEF Result
  <2>2. r.events = <<Closes(c)>> \o <<Opens(oid)>>
    BY <2>1, Pair
  <2>3. <<Closes(c)>> \in Seq(Reported) /\ <<Opens(oid)>> \in Seq(Reported)
    BY <1>4, Tuples
  <2> DEFINE b == a \o <<Closes(c)>>
  <2>4. b \in Seq(Reported) /\ a \o r.events = b \o <<Opens(oid)>>
    BY <2>2, <2>3, ConcatProperties, ConcatAssociative
  <2>5. a \o r.events \in Seq(Reported)
    BY <2>3, <2>4, ConcatProperties
  <2>6. Jobs(b) = Jobs(a) \o K1 /\ Jobs(a) \in Seq(JobSet)
    BY <1>4, <1>5, JobsOfMore
  <2>7. Jobs(a \o r.events) = Jobs(b) \o K2
    <3> HIDE DEF b
    <3> QED BY <1>4, <1>6x, <2>4, JobsOfMore
  <2>8. Jobs(a \o r.events) = Jobs(a) \o (K1 \o K2)
    <3>1. (Jobs(a) \o K1) \o K2 = Jobs(a) \o (K1 \o K2)
      BY <2>6, ConcatAssociative
    <3> QED BY <2>6, <2>7, <3>1
  <2> DEFINE m == [pos |-> Flat, fee |-> 0]
  <2>9. m.pos = Flat /\ m.fee = 0
    OBVIOUS
  <2> HIDE DEF m
  <2>10. /\ Trades(K1, e, m) /\ K1 # <<>>
         /\ \A i \in 1..Len(K1) : K1[i].kind \notin {"mark", "cancel", "order"}
    BY <1>1, <1>5, <1>7, <2>9, CloseJobs
  <2>11. Trades(K2, m, r.eng) /\ Len(K2) = 3 /\ K2[3] = OpenEnds(oid)
         /\ \A i \in 1..2 : K2[i].kind \notin {"mark", "cancel", "order"}
    BY <1>3, <1>6x, <2>9, OpenJobs
  <2>12. Trades(K1 \o K2, e, r.eng)
    BY <2>9, <2>10, <2>11, TradesJoin
  <2> DEFINE K == K1 \o K2
  <2>13. /\ K \in Seq(JobSet) /\ Len(K) = Len(K1) + 3 /\ Len(K1) \in Nat
         /\ \A i \in 1..Len(K1) + Len(K2) : K[i] = IF i <= Len(K1) THEN K1[i] ELSE K2[i - Len(K1)]
    <3>1. Len(K1) \in Nat /\ Len(K2) = 3
      BY <2>11
    <3>2. K \in Seq(JobSet) /\ Len(K) = Len(K1) + Len(K2)
      BY ConcatProperties
    <3>3. \A i \in 1..Len(K1) + Len(K2) : K[i] = IF i <= Len(K1) THEN K1[i] ELSE K2[i - Len(K1)]
      BY ConcatProperties
    <3> HIDE DEF K
    <3> QED BY <3>1, <3>2, <3>3
  <2> HIDE DEF K
  <2>14. K # <<>> /\ K[Len(K)] = OpenEnds(oid)
    BY <2>11, <2>13
  <2>15. \A i \in 1..(Len(K) - 1) : K[i].kind \notin {"mark", "cancel", "order"}
    <3> SUFFICES ASSUME NEW i \in 1..(Len(K) - 1) PROVE K[i].kind \notin {"mark", "cancel", "order"}
      OBVIOUS
    <3>1. \/ i \in 1..Len(K1) /\ K[i] = K1[i]
          \/ i - Len(K1) \in 1..2 /\ K[i] = K2[i - Len(K1)]
      BY <2>11, <2>13
    <3> QED BY <2>10, <2>11, <3>1
  <2>16. TradeJobs(K, a, e, r, oid)
    BY <2>5, <2>8, <2>12, <2>14, <2>15 DEF TradeJobs, K
  <2> QED BY <1>2, <2>16 DEF Opened
<1> QED BY <1>6, <1>7
--------------------------------------------------------------------------------
(* The loop over the LIMIT orders *)

First(e, i) == {e.pending[k].oid : k \in 1..i}

\* acc is where the loop is after the first i orders of e.
Filled(e, acc, i) ==
  LET J == Jobs(acc.events)
  IN /\ acc = Result(acc.eng, acc.events) /\ acc.events \in Seq(Reported)
     /\ EngineOK(acc.eng) /\ acc.eng.oid = e.oid
     /\ Oids(acc.eng) \subseteq First(e, i)
     /\ Trades(J, e, acc.eng)
     /\ \A k \in 1..Len(J) : J[k].kind \notin {"order", "cancel"}
     /\ \A k \in 1..Len(J) : J[k].kind = "mark" => J[k].oid \in First(e, i) \ Oids(acc.eng)
     /\ \A k, m \in 1..Len(J) : J[k].kind = "mark" /\ J[m].kind = "mark" /\ k # m => J[k].oid # J[m].oid
     /\ J # <<>> => acc.eng.pos # Flat /\ acc.eng.fee \in LimitFees

LEMMA NotCrossed ==
  ASSUME NEW e, EngineOK(e), NEW acc, NEW i \in Nat, i + 1 \in 1..Len(e.pending), Filled(e, acc, i)
  PROVE  Filled(e, [acc EXCEPT !.eng.pending = Append(@, e.pending[i + 1])], i + 1)
<1> DEFINE o == e.pending[i + 1]
           new == [acc EXCEPT !.eng.pending = Append(@, o)]
           J == Jobs(acc.events)
<1>1. o \in Pending /\ o.oid \in 1..e.oid /\ \A k \in 1..i : e.pending[k].oid # o.oid
  BY DEF EngineOK, Engine
<1>2. First(e, i + 1) = First(e, i) \cup {o.oid} /\ o.oid \notin First(e, i)
  BY <1>1 DEF First
<1> HIDE DEF o
<1>3. acc = Result(acc.eng, acc.events) /\ acc.eng \in Engine
  BY DEF Filled, EngineOK
<1>4. new = Result([acc.eng EXCEPT !.pending = Append(@, o)], acc.events)
  <2>1. PICK a, ev : acc = [eng |-> a, events |-> ev] /\ a = acc.eng /\ ev = acc.events
    BY <1>3 DEF Result
  <2>2. [acc EXCEPT !.eng.pending = Append(@, o)] = [eng |-> [a EXCEPT !.pending = Append(@, o)], events |-> ev]
    BY <2>1
  <2> QED BY <2>1, <2>2 DEF Result
<1> DEFINE n == [acc.eng EXCEPT !.pending = Append(@, o)]
<1>5. /\ n \in Engine /\ n.pos = acc.eng.pos /\ n.fee = acc.eng.fee /\ n.oid = acc.eng.oid
      /\ n.pending = Append(acc.eng.pending, o)
  <2>1. /\ n.pos = acc.eng.pos /\ n.fee = acc.eng.fee /\ n.oid = acc.eng.oid
        /\ n.pending = Append(acc.eng.pending, o)
    BY <1>3 DEF Engine
  <2>2. Append(acc.eng.pending, o) \in Seq(Pending)
    BY <1>1, <1>3 DEF Engine
  <2>3. n \in Engine
    BY <1>3, <2>2 DEF Engine
  <2> QED BY <2>1, <2>3
<1>6. new.eng = n /\ new.events = acc.events /\ new = Result(new.eng, new.events)
  BY <1>4 DEF Result
<1> HIDE DEF n, new, J
<1> DEFINE s == acc.eng.pending
<1>7. s \in Seq(Pending) /\ n.pending \in Seq(Pending)
  BY <1>3, <1>5 DEF Engine
<1>8. /\ Len(n.pending) = Len(s) + 1 /\ n.pending[Len(s) + 1] = o
      /\ \A k \in 1..Len(s) : n.pending[k] = s[k]
  BY <1>1, <1>5, <1>7
<1>9. /\ DOMAIN n.pending = 1..(Len(s) + 1) /\ DOMAIN s = 1..Len(s) /\ Len(s) \in Nat
  BY <1>7, <1>8
<1>10. \A k \in 1..Len(s) : s[k].oid \in First(e, i) /\ s[k].oid \in 1..acc.eng.oid /\ s[k].oid # o.oid
  BY <1>2, <1>9 DEF Filled, Oids, EngineOK
<1>11. Oids(n) = Oids(acc.eng) \cup {o.oid}
  <2>1. ASSUME NEW x \in Oids(n) PROVE x \in Oids(acc.eng) \cup {o.oid}
    <3>1. PICK k \in DOMAIN n.pending : x = n.pending[k].oid
      BY <2>1 DEF Oids
    <3>2. k \in 1..Len(s) \/ k = Len(s) + 1
      BY <1>9
    <3> QED BY <1>8, <1>9, <3>1, <3>2 DEF Oids
  <2>2. ASSUME NEW x \in Oids(acc.eng) PROVE x \in Oids(n)
    <3>1. PICK k \in DOMAIN s : x = s[k].oid
      BY <2>2 DEF Oids
    <3>2. k \in DOMAIN n.pending /\ n.pending[k] = s[k]
      BY <1>8, <1>9
    <3> QED BY <3>1, <3>2 DEF Oids
  <2>3. o.oid \in Oids(n)
    <3>1. Len(s) + 1 \in DOMAIN n.pending
      BY <1>9
    <3> QED BY <1>8, <3>1 DEF Oids
  <2> QED BY <2>1, <2>2, <2>3
<1>12. acc.eng.oid = e.oid
  BY DEF Filled
<1>13. \A k \in DOMAIN n.pending : n.pending[k].oid \in 1..n.oid
  <2> TAKE k \in DOMAIN n.pending
  <2>1. k \in 1..Len(s) \/ k = Len(s) + 1
    BY <1>9
  <2> QED BY <1>1, <1>5, <1>8, <1>10, <1>12, <2>1
<1>14. \A k, m \in DOMAIN n.pending : k # m => n.pending[k].oid # n.pending[m].oid
  <2> SUFFICES ASSUME NEW k \in DOMAIN n.pending, NEW m \in DOMAIN n.pending, k # m
               PROVE  n.pending[k].oid # n.pending[m].oid
    OBVIOUS
  <2>1. (k \in 1..Len(s) \/ k = Len(s) + 1) /\ (m \in 1..Len(s) \/ m = Len(s) + 1)
    BY <1>9
  <2>2. \A x, y \in 1..Len(s) : x # y => s[x].oid # s[y].oid
    BY <1>9 DEF Filled, EngineOK
  <2> QED BY <1>8, <1>10, <2>1, <2>2
<1>15. EngineOK(n)
  BY <1>5, <1>13, <1>14 DEF EngineOK
<1>16. \A k \in 1..Len(J) : J[k].kind = "mark" => J[k].oid \in First(e, i + 1) \ Oids(n)
  BY <1>2, <1>11 DEF Filled, J
<1>17. Trades(J, e, n)
  BY <1>5 DEF Filled, Trades, J
<1>18. Oids(n) \subseteq First(e, i + 1)
  BY <1>2, <1>11 DEF Filled
<1> HIDE DEF s
<1>19. new.events \in Seq(Reported) /\ Jobs(new.events) = J
  BY <1>6 DEF Filled, J
<1>20. /\ \A k \in 1..Len(J) : J[k].kind \notin {"order", "cancel"}
       /\ \A k, m \in 1..Len(J) : J[k].kind = "mark" /\ J[m].kind = "mark" /\ k # m => J[k].oid # J[m].oid
       /\ J # <<>> => n.pos # Flat /\ n.fee \in LimitFees
  BY <1>5 DEF Filled, J
<1>21. Filled(e, new, i + 1)
  BY <1>5, <1>6, <1>12, <1>15, <1>16, <1>17, <1>18, <1>19, <1>20 DEF Filled
<1> QED BY <1>21 DEF new, o


LEMMA Crossed ==
  ASSUME NEW e, EngineOK(e), NEW acc, NEW i \in Nat, i + 1 \in 1..Len(e.pending), Filled(e, acc, i),
         NEW r, Traded(acc.eng, r, e.pending[i + 1].oid, {MakerFee * e.pending[i + 1].order.price})
  PROVE  Filled(e, Then(acc, r), i + 1)
<1> DEFINE o == e.pending[i + 1]
<1>1. o \in Pending /\ o.oid \in 1..e.oid /\ (\A k \in 1..i : e.pending[k].oid # o.oid)
      /\ o.oid \in Nat \ {0} /\ e.oid \in Nat
  BY DEF EngineOK, Engine
<1>2. First(e, i + 1) = First(e, i) \cup {o.oid} /\ o.oid \notin First(e, i)
  BY <1>1 DEF First
<1>3. o.order.price \in LimitAt
  BY <1>1 DEF Pending, LimitOrder
<1> HIDE DEF o
<1>4. acc = Result(acc.eng, acc.events) /\ acc.eng \in Engine /\ EngineOK(acc.eng) /\ acc.events \in Seq(Reported)
  BY DEF Filled, EngineOK
<1>5. Traded(acc.eng, r, o.oid, {MakerFee * o.order.price})
  BY DEF o
<1>6. CASE r = Result(acc.eng, <<>>)
  <2>1. Then(acc, r) = acc
    BY <1>4, <1>6, ConcatEmptySeq DEF Then, Result
  <2>2. Filled(e, acc, i + 1)
    BY <1>2 DEF Filled
  <2> QED BY <2>1, <2>2
<1>7. CASE r # Result(acc.eng, <<>>)
  <2>1. r.events # <<>>
    <3>1. PICK c, pos, fee :
            r = Result([acc.eng EXCEPT !.pos = pos, !.fee = fee],
                       IF acc.eng.pos = Flat THEN <<Opens(o.oid)>> ELSE <<Closes(c), Opens(o.oid)>>)
      BY <1>5, <1>7 DEF Traded
    <3>2. r.events = <<Opens(o.oid)>> \/ r.events = <<Closes(c), Opens(o.oid)>>
      BY <3>1 DEF Result
    <3>3. \A x, y : <<x>> # <<>> /\ <<x, y>> # <<>>
      OBVIOUS
    <3> QED BY <3>2, <3>3, Zenon
  <2>2. PICK Fees : Fees = {MakerFee * o.order.price} /\ Traded(acc.eng, r, o.oid, Fees)
    BY <1>5
  <2>3. /\ \E K : TradeJobs(K, acc.events, acc.eng, r, o.oid)
        /\ Opened(acc.eng, r.eng, Fees)
    BY <1>1, <1>4, <2>1, <2>2, TradedJobs
  <2>4. PICK K : TradeJobs(K, acc.events, acc.eng, r, o.oid)
    BY <2>3
  <2>5. PICK pos \in OpenPos, fee \in Fees : r.eng = [acc.eng EXCEPT !.pos = pos, !.fee = fee]
    BY <2>3 DEF Opened
  <2> DEFINE n == r.eng
             J == Jobs(acc.events)
             L == Jobs(acc.events \o r.events)
  <2>6. Then(acc, r) = Result(n, acc.events \o r.events)
    BY DEF Then
  <2>7. fee \in LimitFees /\ fee \in Int
    BY <1>3, <2>2, Constants DEF LimitFees
  <2>8. /\ n \in Engine /\ n.pos = pos /\ n.fee = fee /\ n.oid = acc.eng.oid /\ n.pending = acc.eng.pending
    BY <1>4, <2>5, <2>7 DEF Engine
  <2>9. n.pos # Flat
    BY <2>8, OpenIsNotFlat
  <2>10. EngineOK(n) /\ Oids(n) = Oids(acc.eng)
    BY <1>4, <2>8 DEF EngineOK, Oids
  <2>11. L = J \o K /\ Trades(K, acc.eng, n) /\ K # <<>> /\ K[Len(K)] = OpenEnds(o.oid)
        /\ (\A k \in 1..(Len(K) - 1) : K[k].kind \notin {"mark", "cancel", "order"})
        /\ acc.events \o r.events \in Seq(Reported)
    BY <2>4 DEF TradeJobs
  <2>12. OpenEnds(o.oid).kind = "mark" /\ OpenEnds(o.oid).oid = o.oid
    BY <1>1 DEF OpenEnds, Task
  <2>13. Trades(J, e, acc.eng)
    BY DEF Filled
  <2>14. J # <<>> => acc.eng.pos # Flat /\ acc.eng.fee \in LimitFees
    BY DEF Filled
  <2>15. J # <<>> => J[Len(J)].kind = "mark"
    <3> HAVE J # <<>>
    <3>1. J[Len(J)].kind \in {"mark", "order"}
      BY <2>13, <2>14 DEF Trades
    <3>2. J \in Seq(JobSet) /\ Len(J) \in 1..Len(J)
      BY <2>13 DEF Trades
    <3> QED BY <3>1, <3>2 DEF Filled
  <2> HIDE DEF n, J, L
  <2>16. Trades(L, e, n)
    BY <2>11, <2>13, <2>14, <2>15, TradesJoin
  <2>17. J \in Seq(JobSet) /\ K \in Seq(JobSet) /\ Len(J) \in Nat /\ Len(K) \in Nat \ {0}
    BY <2>11, <2>13 DEF Trades
  <2>18. /\ L \in Seq(JobSet) /\ Len(L) = Len(J) + Len(K)
         /\ \A k \in 1..Len(J) + Len(K) : L[k] = IF k <= Len(J) THEN J[k] ELSE K[k - Len(J)]
    BY <2>11, <2>17, ConcatProperties
  <2>19. L # <<>>
    BY <2>17, <2>18
  <2>20. ASSUME NEW k \in 1..Len(L)
         PROVE  \/ k \in 1..Len(J) /\ L[k] = J[k]
                \/ L[k].kind \notin {"mark", "cancel", "order"}
                \/ k = Len(L) /\ L[k].kind = "mark" /\ L[k].oid = o.oid
    <3>1. CASE k <= Len(J)
      BY <2>17, <2>18, <3>1
    <3>2. CASE k > Len(J) /\ k < Len(L)
      <4>1. (k - Len(J)) \in 1..(Len(K) - 1) /\ L[k] = K[k - Len(J)]
        BY <2>17, <2>18, <3>2
      <4> QED BY <2>11, <4>1
    <3>3. CASE k > Len(J) /\ k = Len(L)
      <4>1. k - Len(J) = Len(K) /\ L[k] = K[k - Len(J)]
        <5>1. Len(L) = Len(J) + Len(K) /\ ~(Len(L) <= Len(J)) /\ Len(L) \in 1..(Len(J) + Len(K))
          BY <2>17, <2>18
        <5>2. L[Len(L)] = K[Len(L) - Len(J)]
          BY <2>18, <5>1
        <5> QED BY <2>17, <3>3, <5>1, <5>2
      <4> QED BY <2>11, <2>12, <3>3, <4>1
    <3> QED BY <2>17, <2>18, <3>1, <3>2, <3>3
  <2>21. /\ \A k \in 1..Len(J) : J[k].kind \notin {"order", "cancel"}
         /\ \A k \in 1..Len(J) : J[k].kind = "mark" => J[k].oid \in First(e, i) \ Oids(acc.eng)
         /\ \A k, m \in 1..Len(J) : J[k].kind = "mark" /\ J[m].kind = "mark" /\ k # m => J[k].oid # J[m].oid
         /\ Oids(acc.eng) \subseteq First(e, i) /\ acc.eng.oid = e.oid
    BY DEF Filled, J
  <2>22. \A k \in 1..Len(L) : L[k].kind \notin {"order", "cancel"}
    BY <2>20, <2>21
  <2>23. \A k \in 1..Len(L) : L[k].kind = "mark" => L[k].oid \in First(e, i + 1) \ Oids(n)
    <3> SUFFICES ASSUME NEW k \in 1..Len(L), L[k].kind = "mark"
                 PROVE  L[k].oid \in First(e, i + 1) \ Oids(n)
      OBVIOUS
    <3> QED BY <1>2, <2>10, <2>20, <2>21
  <2>24. \A k, m \in 1..Len(L) : L[k].kind = "mark" /\ L[m].kind = "mark" /\ k # m => L[k].oid # L[m].oid
    <3> SUFFICES ASSUME NEW k \in 1..Len(L), NEW m \in 1..Len(L), L[k].kind = "mark",
                        L[m].kind = "mark", k # m
                 PROVE  L[k].oid # L[m].oid
      OBVIOUS
    <3>1. (k \in 1..Len(J) /\ L[k] = J[k]) \/ (k = Len(L) /\ L[k].oid = o.oid)
      BY <2>20
    <3>2. (m \in 1..Len(J) /\ L[m] = J[m]) \/ (m = Len(L) /\ L[m].oid = o.oid)
      BY <2>20
    <3>3. \A x \in 1..Len(J) : J[x].kind = "mark" => J[x].oid # o.oid
      BY <1>2, <2>21
    <3> QED BY <2>21, <3>1, <3>2, <3>3
  <2>25. Oids(n) \subseteq First(e, i + 1) /\ n.oid = e.oid
    BY <1>2, <2>8, <2>10, <2>21
  <2>26. n.fee \in LimitFees
    BY <2>7, <2>8
  <2> DEFINE new == Result(n, acc.events \o r.events)
  <2>27. new.eng = n /\ new.events = acc.events \o r.events /\ Jobs(new.events) = L
    BY DEF Result, L
  <2> HIDE DEF new
  <2>28. new = Result(new.eng, new.events)
    BY <2>27 DEF new
  <2>29. Filled(e, new, i + 1)
    BY <2>9, <2>10, <2>11, <2>16, <2>22, <2>23, <2>24, <2>25, <2>26, <2>27, <2>28 DEF Filled
  <2> QED BY <2>6, <2>29 DEF n, new
<1> QED BY <1>6, <1>7

LEMMA FillEnds ==
  ASSUME NEW e, EngineOK(e), NEW at \in Int
  PROVE  Filled(e, FillPending(e, at), Len(e.pending))
<1>1. e \in Engine /\ Len(e.pending) \in Nat
  BY DEF EngineOK, Engine
<1>2. PICK f : /\ f[0] = Result([e EXCEPT !.pending = <<>>], <<>>)
               /\ \A i \in 1..Len(e.pending) : f[i] = Tried(f[i - 1], e.pending[i], at)
               /\ FillPending(e, at) = f[Len(e.pending)]
  BY <1>1, FillSteps
<1> DEFINE S == {n \in Nat : n \in 0..Len(e.pending) => Filled(e, f[n], n)}
<1>3. 0 \in S
  <2> DEFINE e0 == [e EXCEPT !.pending = <<>>]
             acc == Result(e0, <<>>)
  <2>1. <<>> \in Seq(Pending) /\ <<>> \in Seq(Reported) /\ <<>> \in Seq(JobSet) /\ DOMAIN <<>> = {} /\ Len(<<>>) = 0
    OBVIOUS
  <2>2. e0 \in Engine /\ e0.pos = e.pos /\ e0.fee = e.fee /\ e0.oid = e.oid /\ e0.pending = <<>>
    BY <1>1, <2>1 DEF Engine
  <2> HIDE DEF e0
  <2>3. acc.eng = e0 /\ acc.events = <<>> /\ acc = Result(acc.eng, acc.events)
    BY DEF Result
  <2> HIDE DEF acc
  <2>4. EngineOK(e0) /\ Oids(e0) = {}
    BY <2>1, <2>2 DEF EngineOK, Oids
  <2>5. Chain(<<>>)
    BY <2>1 DEF Chain
  <2>6. Trades(<<>>, e, e0)
    BY <2>1, <2>2, <2>5 DEF Trades
  <2>7. Filled(e, acc, 0)
    BY <2>1, <2>2, <2>3, <2>4, <2>6, JobsOfNone DEF Filled
  <2> QED BY <1>2, <2>7 DEF acc, e0
<1>4. ASSUME NEW i \in Nat, i \in S PROVE i + 1 \in S
  <2>1. SUFFICES ASSUME i + 1 \in 1..Len(e.pending) PROVE Filled(e, f[i + 1], i + 1)
    BY <1>1
  <2>2. Filled(e, f[i], i)
    BY <1>1, <1>4, <2>1
  <2> DEFINE o == e.pending[i + 1]
  <2>3. f[i + 1] = Tried(f[i], o, at)
    BY <1>2, <2>1
  <2>4. CASE ~Crosses(o.order, at)
    <3>1. f[i + 1] = [f[i] EXCEPT !.eng.pending = Append(@, o)]
      BY <2>3, <2>4 DEF Tried
    <3> QED BY <2>1, <2>2, <3>1, NotCrossed
  <2>5. CASE Crosses(o.order, at)
    <3> DEFINE m == Marked(ApplyMarket(f[i].eng, o.order, o.order.price, "LIMIT"), o.oid)
    <3>1. f[i + 1] = Then(f[i], m)
      BY <2>3, <2>5 DEF Tried
    <3>2. f[i].eng \in Engine /\ o \in Pending
      BY <2>1, <2>2 DEF Filled, EngineOK, Engine
    <3>3. o.order.side \in {"BUY", "SELL"} /\ o.order.sl \in Int /\ o.order.tp \in Int
          /\ o.order.price \in Int
      BY <3>2, Constants DEF Pending, LimitOrder
    <3> HIDE DEF o
    <3>4. Traded(f[i].eng, ApplyMarket(f[i].eng, o.order, o.order.price, "LIMIT"), 0, {MakerFee * o.order.price})
      BY <3>2, <3>3, MarketTrades
    <3>5. Traded(f[i].eng, m, o.oid, {MakerFee * o.order.price})
      BY <3>2, <3>4, MarkedTrades
    <3> HIDE DEF m
    <3>6. Filled(e, Then(f[i], m), i + 1)
      BY <2>1, <2>2, <3>5, Crossed DEF o
    <3> QED BY <3>1, <3>6
  <2> QED BY <2>4, <2>5
<1>5. Nat \subseteq S
  <2> HIDE DEF S
  <2> QED BY <1>3, <1>4, NatSet
<1> QED BY <1>1, <1>2, <1>5
--------------------------------------------------------------------------------
(* The outcome of every handler *)

ExitJobs(K, a, e, r) ==
  /\ a \o r.events \in Seq(Reported) /\ Jobs(a \o r.events) = Jobs(a) \o K
  /\ Trades(K, e, r.eng)
  /\ \A i \in 1..Len(K) : K[i].kind \notin {"mark", "cancel", "order"}

LEMMA ExitedJobs ==
  ASSUME NEW a \in Seq(Reported), NEW e, EngineOK(e), NEW r, Exited(e, r)
  PROVE  /\ \E K : ExitJobs(K, a, e, r)
         /\ EngineOK(r.eng) /\ Oids(r.eng) = Oids(e) /\ r.eng.oid = e.oid
         /\ r.eng.pos = Flat \/ r.eng.fee = e.fee
<1>0. e \in Engine /\ Jobs(a) \in Seq(JobSet)
  <2>1. NoClose = NoClose /\ Opens(0) \in Reported
    BY DEF Reported
  <2> QED BY <2>1, JobsOfMore DEF EngineOK
<1>1. CASE r = Result(e, <<>>)
  <2>1. r.eng = e /\ r.events = <<>>
    BY <1>1 DEF Result
  <2>2. a \o <<>> = a /\ Jobs(a) \o <<>> = Jobs(a)
    BY <1>0, ConcatEmptySeq
  <2>3. <<>> \in Seq(JobSet) /\ Len(<<>>) = 0
    OBVIOUS
  <2>4. Chain(<<>>)
    BY <2>3 DEF Chain
  <2>5. Trades(<<>>, e, e)
    BY <2>3, <2>4 DEF Trades
  <2>6. ExitJobs(<<>>, a, e, r)
    BY <2>1, <2>2, <2>3, <2>5 DEF ExitJobs
  <2> QED BY <2>1, <2>6
<1>2. ASSUME NEW c \in Closing, e.pos # Flat, c.entryFee = e.fee,
             r = Result([e EXCEPT !.pos = Flat, !.fee = 0], <<Closes(c)>>)
      PROVE  /\ \E K : ExitJobs(K, a, e, r)
             /\ EngineOK(r.eng) /\ Oids(r.eng) = Oids(e) /\ r.eng.oid = e.oid
             /\ r.eng.pos = Flat
  <2>1. r.eng = [e EXCEPT !.pos = Flat, !.fee = 0] /\ r.events = <<Closes(c)>>
    BY <1>2 DEF Result
  <2> DEFINE zero == 0
  <2>2. r.eng = [e EXCEPT !.pos = Flat, !.fee = zero] /\ zero \in Int
    BY <2>1
  <2> HIDE DEF zero
  <2>3. r.eng \in Engine /\ r.eng.pos = Flat /\ r.eng.fee = zero /\ r.eng.oid = e.oid /\ r.eng.pending = e.pending
    BY <1>0, <2>2 DEF Engine
  <2>4. EngineOK(r.eng) /\ Oids(r.eng) = Oids(e)
    BY <2>3 DEF EngineOK, Oids
  <2>5. Closes(c) \in Reported
    BY DEF Reported
  <2>6. <<Closes(c)>> \in Seq(Reported)
    BY <2>5, Tuples
  <2>7. a \o r.events \in Seq(Reported) /\ Jobs(a \o r.events) = Jobs(a) \o JobsOf(Closes(c))
    BY <2>1, <2>5, <2>6, ConcatProperties, JobsOfMore
  <2>8. r.eng.fee = 0
    BY <2>3 DEF zero
  <2>9. /\ Trades(JobsOf(Closes(c)), e, r.eng)
        /\ \A i \in 1..Len(JobsOf(Closes(c))) : JobsOf(Closes(c))[i].kind \notin {"mark", "cancel", "order"}
    BY <1>2, <2>3, <2>8, CloseJobs
  <2>10. ExitJobs(JobsOf(Closes(c)), a, e, r)
    BY <2>7, <2>9 DEF ExitJobs
  <2> QED BY <2>3, <2>4, <2>10
<1> QED BY <1>1, <1>2 DEF Exited

LEMMA OnPriceOutcome ==
  ASSUME NEW e, EngineOK(e), NEW at \in Int
  PROVE  Outcome(e, OnPrice(e, at))
<1> DEFINE f == FillPending(e, at)
           x == Triggered(f.eng, at)
           r == OnPrice(e, at)
           n == Len(e.pending)
<1>1. Filled(e, f, n)
  BY FillEnds
<1>2. r = Then(f, x)
  BY DEF OnPrice
<1>3. r.eng = x.eng /\ r.events = f.events \o x.events
  <2> HIDE DEF f, x, r
  <2> QED BY <1>2 DEF Then, Result
<1>4. EngineOK(f.eng) /\ f.eng \in Engine /\ f.events \in Seq(Reported)
  BY <1>1 DEF Filled, EngineOK
<1>5. Exited(f.eng, x)
  BY <1>4, TriggeredExits
<1>6. First(e, n) = Oids(e)
  BY DEF First, Oids, EngineOK, Engine
<1> DEFINE J == Jobs(f.events)
           L == Jobs(r.events)
<1> HIDE DEF f, x, r, n
<1>7. PICK K : ExitJobs(K, f.events, f.eng, x)
  BY <1>4, <1>5, ExitedJobs
<1>8. EngineOK(x.eng) /\ Oids(x.eng) = Oids(f.eng) /\ x.eng.oid = f.eng.oid
      /\ (x.eng.pos = Flat \/ x.eng.fee = f.eng.fee)
  BY <1>4, <1>5, ExitedJobs
<1>9. L = J \o K /\ Trades(K, f.eng, x.eng) /\ \A i \in 1..Len(K) : K[i].kind \notin {"mark", "cancel", "order"}
  BY <1>3, <1>7 DEF ExitJobs
<1>10. Trades(J, e, f.eng) /\ (J # <<>> => f.eng.pos # Flat /\ f.eng.fee \in LimitFees) /\ f.eng.oid = e.oid
       /\ Oids(f.eng) \subseteq First(e, n)
  BY <1>1 DEF Filled
<1>11. /\ \A k \in 1..Len(J) : J[k].kind \notin {"order", "cancel"}
       /\ \A k \in 1..Len(J) : J[k].kind = "mark" => J[k].oid \in First(e, n) \ Oids(f.eng)
       /\ \A k, m \in 1..Len(J) : J[k].kind = "mark" /\ J[m].kind = "mark" /\ k # m => J[k].oid # J[m].oid
  BY <1>1 DEF Filled
<1>12. J # <<>> => J[Len(J)].kind = "mark"
  <2> HAVE J # <<>>
  <2>1. J[Len(J)].kind \in {"mark", "order"}
    BY <1>10 DEF Trades
  <2>2. J \in Seq(JobSet) /\ Len(J) \in 1..Len(J)
    BY <1>10 DEF Trades
  <2> QED BY <1>11, <2>1, <2>2
<1> HIDE DEF J, L
<1>13. Trades(L, e, x.eng)
  BY <1>9, <1>10, <1>12, TradesJoin
<1>14. J \in Seq(JobSet) /\ K \in Seq(JobSet) /\ Len(J) \in Nat /\ Len(K) \in Nat
  BY <1>9, <1>10 DEF Trades
<1>15. /\ L \in Seq(JobSet) /\ Len(L) = Len(J) + Len(K)
       /\ \A k \in 1..Len(J) + Len(K) : L[k] = IF k <= Len(J) THEN J[k] ELSE K[k - Len(J)]
  BY <1>9, <1>14, ConcatProperties
<1>16. ASSUME NEW k \in 1..Len(L), L[k].kind \in {"mark", "cancel", "order"}
       PROVE  k \in 1..Len(J) /\ L[k] = J[k]
  <2>1. \/ k \in 1..Len(J) /\ L[k] = J[k]
        \/ (k - Len(J)) \in 1..Len(K) /\ L[k] = K[k - Len(J)]
    BY <1>14, <1>15
  <2> QED BY <1>9, <1>16, <2>1
<1>17. \A i \in 1..Len(L) : Settles(L[i]) => L[i].oid \in Oids(e) \ Oids(x.eng)
  BY <1>6, <1>8, <1>11, <1>16 DEF Settles
<1>18. \A i, k \in 1..Len(L) : Settles(L[i]) /\ Settles(L[k]) /\ i # k => L[i].oid # L[k].oid
  BY <1>11, <1>16 DEF Settles
<1>19. \A i \in 1..Len(L) : L[i].kind = "mark" => x.eng.pos = Flat \/ x.eng.fee \in LimitFees
  <2> SUFFICES ASSUME NEW i \in 1..Len(L), L[i].kind = "mark"
               PROVE  x.eng.pos = Flat \/ x.eng.fee \in LimitFees
    OBVIOUS
  <2>1. i \in 1..Len(J)
    BY <1>16
  <2>2. J # <<>>
    BY <2>1
  <2> QED BY <1>8, <1>10, <2>2
<1>20. x.eng.oid = e.oid /\ Oids(x.eng) \subseteq Oids(e)
  BY <1>6, <1>8, <1>10
<1> QED BY <1>3, <1>8, <1>13, <1>15, <1>17, <1>18, <1>19, <1>20 DEF Outcome, L, r

LEMMA ExitOutcome ==
  ASSUME NEW e, EngineOK(e), NEW r, Exited(e, r)
  PROVE  Outcome(e, r)
<1>1. <<>> \in Seq(Reported)
  OBVIOUS
<1>2. PICK K : ExitJobs(K, <<>>, e, r)
  BY <1>1, ExitedJobs
<1>3. EngineOK(r.eng) /\ Oids(r.eng) = Oids(e) /\ r.eng.oid = e.oid
  BY <1>1, ExitedJobs
<1>4. K \in Seq(JobSet)
  BY <1>2 DEF ExitJobs, Trades
<1>5. <<>> \o r.events = r.events
  <2>1. r.events = <<>> \/ \E c \in Closing : r.events = <<Closes(c)>> /\ Closes(c) \in Reported
    BY DEF Exited, Result, Reported
  <2>2. r.events \in Seq(Reported)
    BY <1>1, <2>1, Tuples
  <2> QED BY <2>2, ConcatEmptySeq
<1>6. Jobs(r.events) = K
  BY <1>2, <1>4, <1>5, JobsOfNone, ConcatEmptySeq DEF ExitJobs
<1>7. Trades(K, e, r.eng) /\ \A i \in 1..Len(K) : K[i].kind \notin {"mark", "cancel", "order"}
  BY <1>2 DEF ExitJobs
<1> QED BY <1>3, <1>4, <1>6, <1>7 DEF Outcome, Settles


LEMMA MarketOutcome ==
  ASSUME NEW e, EngineOK(e), NEW o, o.side \in {"BUY", "SELL"}, o.sl \in Int, o.tp \in Int,
         NEW at \in Int
  PROVE  Outcome(e, ApplyMarket(e, o, at, "MARKET"))
<1> DEFINE r == ApplyMarket(e, o, at, "MARKET")
<1>1. e \in Engine
  BY DEF EngineOK
<1>2. Traded(e, r, 0, Int)
  <2>1. \A type \in {"MARKET", "LIMIT"} :
          Traded(e, ApplyMarket(e, o, at, type), 0, IF type = "LIMIT" THEN {MakerFee * at} ELSE Int)
    BY <1>1, MarketTrades
  <2> QED BY <2>1
<1> HIDE DEF r
<1>3. CASE r = Result(e, <<>>)
  <2>1. Exited(e, r)
    BY <1>3 DEF Exited
  <2> QED BY <2>1, ExitOutcome DEF r
<1>4. CASE r # Result(e, <<>>)
  <2>1. PICK c, pos, fee :
          c \in Closing /\
          r = Result([e EXCEPT !.pos = pos, !.fee = fee],
                     IF e.pos = Flat THEN <<Opens(0)>> ELSE <<Closes(c), Opens(0)>>)
    BY <1>2, <1>4 DEF Traded
  <2>2. r.events = <<Opens(0)>> \/ r.events = <<Closes(c), Opens(0)>>
    BY <2>1 DEF Result
  <2>3. \A x, y : <<x>> # <<>> /\ <<x, y>> # <<>>
    OBVIOUS
  <2>4. r.events # <<>>
    BY <2>2, <2>3, Zenon
  <2>5. Opens(0) \in Reported /\ Closes(c) \in Reported
    BY <2>1 DEF Reported
  <2>6. <<>> \in Seq(Reported) /\ r.events \in Seq(Reported)
    <3>1. <<>> \in Seq(Reported)
      OBVIOUS
    <3>2. <<Opens(0)>> \in Seq(Reported) /\ <<Closes(c), Opens(0)>> \in Seq(Reported)
      BY <2>5, Tuples
    <3> QED BY <2>2, <3>1, <3>2
  <2>7. (\E K : TradeJobs(K, <<>>, e, r, 0)) /\ Opened(e, r.eng, Int)
    BY <1>1, <1>2, <2>4, <2>6, TradedJobs
  <2>8. PICK K : TradeJobs(K, <<>>, e, r, 0)
    BY <2>7
  <2>9. PICK np \in OpenPos, nf \in Int : r.eng = [e EXCEPT !.pos = np, !.fee = nf]
    BY <2>7 DEF Opened
  <2>10. r.eng \in Engine /\ r.eng.oid = e.oid /\ r.eng.pending = e.pending
    BY <1>1, <2>9 DEF Engine
  <2>11. EngineOK(r.eng) /\ Oids(r.eng) = Oids(e)
    BY <2>10 DEF EngineOK, Oids
  <2>12. K \in Seq(JobSet) /\ Trades(K, e, r.eng)
    BY <2>8 DEF TradeJobs, Trades
  <2>13. Jobs(r.events) = K
    BY <2>6, <2>8, <2>12, JobsOfNone, ConcatEmptySeq DEF TradeJobs
  <2>14. OpenEnds(0).kind = "order"
    BY DEF OpenEnds, Task
  <2>15. ASSUME NEW i \in 1..Len(K) PROVE K[i].kind \notin {"mark", "cancel"}
    <3>1. Len(K) \in Nat
      BY <2>12
    <3>2. i \in 1..(Len(K) - 1) \/ i = Len(K)
      BY <3>1
    <3> QED BY <2>8, <2>14, <3>2 DEF TradeJobs
  <2> QED BY <2>10, <2>11, <2>12, <2>13, <2>15 DEF Outcome, Settles, r
<1> QED BY <1>3, <1>4

LEMMA NothingOutcome ==
  ASSUME NEW e, EngineOK(e)
  PROVE  Outcome(e, Result(e, <<>>))
BY ExitOutcome DEF Exited

LEMMA CancelOutcome ==
  ASSUME NEW e, EngineOK(e)
  PROVE  Outcome(e, CancelAll(e))
<1>1. CASE e.pending = <<>>
  BY <1>1, NothingOutcome DEF CancelAll
<1>2. CASE e.pending # <<>>
  <2> DEFINE r == CancelAll(e)
             oids == [i \in DOMAIN e.pending |-> e.pending[i].oid]
             none == <<>>
             e0 == [e EXCEPT !.pending = none]
  <2>1. e \in Engine /\ e.pending \in Seq(Pending)
    BY DEF EngineOK, Engine
  <2>2. oids \in Seq(Nat) /\ Len(oids) = Len(e.pending) /\ \A i \in 1..Len(oids) : oids[i] = e.pending[i].oid
    <3>1. \A i \in DOMAIN e.pending : e.pending[i].oid \in Nat
      <4>1. \A i \in DOMAIN e.pending : e.pending[i] \in Pending
        BY <2>1
      <4>2. \A x \in Pending : x.oid \in Nat
        BY DEF Pending
      <4> QED BY <4>1, <4>2
    <3>2. DOMAIN e.pending = 1..Len(e.pending) /\ Len(e.pending) \in Nat
      BY <2>1
    <3> QED BY <3>1, <3>2
  <2> HIDE DEF oids
  <2>3. r = Result(e0, <<Cancels(oids)>>)
    <3>1. [Event EXCEPT !.cancelled = oids] = Cancels(oids)
      BY EventsOf
    <3> QED BY <1>2, <3>1 DEF CancelAll, oids
  <2>4. none \in Seq(Pending) /\ DOMAIN none = {}
    OBVIOUS
  <2> HIDE DEF none
  <2>5. e0 \in Engine /\ e0.pos = e.pos /\ e0.fee = e.fee /\ e0.oid = e.oid /\ e0.pending = none
    BY <2>1, <2>4 DEF Engine
  <2> HIDE DEF e0
  <2>6. r.eng = e0 /\ r.events = <<Cancels(oids)>>
    BY <2>3 DEF Result
  <2>7. Cancels(oids) \in Reported
    BY <2>2 DEF Reported
  <2> DEFINE J == Jobs(r.events)
  <2>8. J = [i \in 1..Len(oids) |-> Task("cancel", NoClose, oids[i])]
    BY <2>2, <2>6, <2>7, JobsOfOne, JobsOfCancels
  <2>9. J \in Seq(JobSet)
    BY <2>6, <2>7, JobsOfOne, JobsAreJobs
  <2>10. Len(J) = Len(oids) /\ \A i \in 1..Len(J) : J[i].kind = "cancel" /\ J[i].oid = oids[i]
    BY <2>2, <2>8 DEF Task
  <2> HIDE DEF J, r
  <2>11. Chain(J)
    <3>1. \A i \in 1..(Len(J) - 1) : i \in 1..Len(J) /\ i + 1 \in 1..Len(J)
      BY <2>9
    <3> QED BY <2>10, <3>1 DEF Chain, Link
  <2>12. EngineOK(e0) /\ Oids(e0) = {}
    BY <2>4, <2>5 DEF EngineOK, Oids
  <2>13. \A i \in 1..Len(J) : J[i].oid \in Oids(e)
    BY <2>1, <2>2, <2>10 DEF Oids
  <2>14. \A i, k \in 1..Len(J) : i # k => J[i].oid # J[k].oid
    BY <2>1, <2>2, <2>10 DEF EngineOK
  <2> QED BY <2>5, <2>6, <2>9, <2>10, <2>11, <2>12, <2>13, <2>14 DEF Outcome, J, r
<1> QED BY <1>1, <1>2

LEMMA QueueOutcome ==
  ASSUME NEW e, EngineOK(e), NEW o \in LimitOrder
  PROVE  Outcome(e, Queue(e, o))
<1> DEFINE oid == e.oid + 1
           p == [oid |-> oid, order |-> o]
           s == e.pending
           t == Append(s, p)
           n == [e EXCEPT !.oid = oid, !.pending = t]
           r == Queue(e, o)
<1>1. e \in Engine /\ s \in Seq(Pending) /\ e.oid \in Nat /\ oid \in Nat \ {0}
  BY DEF EngineOK, Engine
<1>2. r = Result(n, <<Queues(oid)>>)
  <2>1. [Event EXCEPT !.queued = oid] = Queues(oid)
    BY EventsOf
  <2> QED BY <2>1 DEF Queue
<1>3. p \in Pending /\ p.oid = oid
  BY <1>1 DEF Pending
<1> HIDE DEF p
<1>4. t \in Seq(Pending) /\ Len(t) = Len(s) + 1 /\ t[Len(s) + 1] = p /\ (\A i \in 1..Len(s) : t[i] = s[i])
      /\ Len(s) \in Nat /\ DOMAIN s = 1..Len(s) /\ DOMAIN t = 1..(Len(s) + 1)
  BY <1>1, <1>3
<1> HIDE DEF t
<1>5. n \in Engine /\ n.pos = e.pos /\ n.fee = e.fee /\ n.oid = oid /\ n.pending = t
  BY <1>1, <1>4 DEF Engine
<1> HIDE DEF n, r
<1>6. r.eng = n /\ r.events = <<Queues(oid)>>
  BY <1>2 DEF Result
<1>7. Queues(oid) \in Reported
  BY <1>1 DEF Reported
<1>8. Jobs(r.events) = <<Task("queue", NoClose, oid)>>
  BY <1>1, <1>6, <1>7, JobsOfOne, JobsOfQueues
<1>9. Jobs(r.events) \in Seq(JobSet)
  BY <1>6, <1>7, JobsOfOne, JobsAreJobs
<1>10. \A k \in 1..Len(s) : s[k].oid \in 1..e.oid
  BY <1>4 DEF EngineOK
<1>11. ASSUME NEW k \in DOMAIN t PROVE (k \in 1..Len(s) /\ t[k] = s[k]) \/ (k = Len(s) + 1 /\ t[k] = p)
  BY <1>4
<1>12. \A k \in DOMAIN n.pending : n.pending[k].oid \in 1..n.oid
  BY <1>1, <1>3, <1>5, <1>10, <1>11
<1>13. \A k, m \in DOMAIN n.pending : k # m => n.pending[k].oid # n.pending[m].oid
  <2>1. \A k, m \in 1..Len(s) : k # m => s[k].oid # s[m].oid
    BY <1>4 DEF EngineOK
  <2> QED BY <1>1, <1>3, <1>5, <1>10, <1>11, <2>1, SMTT(20)
<1>14. EngineOK(n)
  BY <1>5, <1>12, <1>13 DEF EngineOK
<1>15. Oids(n) \subseteq Oids(e) \cup {oid}
  BY <1>3, <1>4, <1>5, <1>11 DEF Oids
<1>16. \A i \in 1..Len(Jobs(r.events)) : ~Settles(Jobs(r.events)[i])
  BY <1>8 DEF Settles, Task
<1> QED BY <1>5, <1>6, <1>8, <1>9, <1>14, <1>15, <1>16 DEF Outcome, r
--------------------------------------------------------------------------------
(* Up to the next await *)

Without(pend, oid) == [o \in DOMAIN pend \ {oid} |-> pend[o]]
LocalsFor(j, e, p, pend, new) ==
  [row |-> IF j.kind = "fee" THEN new ELSE p, pos |-> e.pos, fee |-> e.fee,
   order |-> IF Settles(j) THEN pend[j.oid] ELSE 0]
Skipped(J, n, e, pend) == \A i \in 1..n : Immediate(J[i], e, pend)
Fails(j, e) == j.kind = "open" /\ e.pos = Flat

\* Task t has nothing left to do, or an exception has ended it.
Stops(t, J, e, pend) ==
  /\ todo' = [todo EXCEPT ![t] = <<>>] /\ loc' = [loc EXCEPT ![t] = NoLocals]
  /\ pendingDb' = pend
  /\ \/ Skipped(J, Len(J), e, pend)
     \/ \E k \in 1..Len(J) : Fails(J[k], e) /\ Skipped(J, k - 1, e, pend)
\* Task t awaits the k-th of the jobs J.
Awaits(t, k, J, e, p, pend, new) ==
  /\ Skipped(J, k - 1, e, pend) /\ ~Immediate(J[k], e, pend) /\ ~Fails(J[k], e)
  /\ todo' = [todo EXCEPT ![t] = SubSeq(J, k, Len(J))]
  /\ loc' = [loc EXCEPT ![t] = LocalsFor(J[k], e, p, pend, new)]
  /\ pendingDb' = IF Settles(J[k]) THEN Without(pend, J[k].oid) ELSE pend

LEMMA RunOnCases ==
  ASSUME NEW t, NEW J \in Seq(JobSet), NEW e, NEW p, NEW pend, NEW new,
         RunOn(t, J, e, p, pend, new)
  PROVE  /\ eng' = e /\ posDb' = p
         /\ Stops(t, J, e, pend) \/ \E k \in 1..Len(J) : Awaits(t, k, J, e, p, pend, new)
<1> DEFINE imm(i) == Immediate(J[i], e, pend)
           first == {i \in DOMAIN J : ~imm(i) /\ \A j \in 1..(i-1) : imm(j)}
<1>0. eng' = e /\ posDb' = p
  BY DEF RunOn
<1>1. Len(J) \in Nat /\ DOMAIN J = 1..Len(J)
  OBVIOUS
<1>2. CASE first = {}
  <2> DEFINE S == {n \in Nat : n <= Len(J) => \A i \in 1..n : imm(i)}
  <2> HIDE DEF imm
  <2>1. 0 \in S
    OBVIOUS
  <2>2. ASSUME NEW n \in Nat, n \in S PROVE n + 1 \in S
    <3>1. SUFFICES ASSUME n + 1 <= Len(J) PROVE \A i \in 1..(n + 1) : imm(i)
      OBVIOUS
    <3>2. \A i \in 1..n : imm(i)
      BY <1>1, <2>2, <3>1
    <3>3. n + 1 \in DOMAIN J /\ (n + 1) - 1 = n
      BY <1>1, <3>1
    <3>4. imm(n + 1)
      BY <1>2, <3>2, <3>3
    <3> QED BY <3>2, <3>4
  <2>3. Nat \subseteq S
    <3> HIDE DEF S
    <3> QED BY <2>1, <2>2, NatSet
  <2>4. Skipped(J, Len(J), e, pend)
    BY <1>1, <2>3 DEF Skipped, imm
  <2>5. /\ todo' = [todo EXCEPT ![t] = <<>>] /\ loc' = [loc EXCEPT ![t] = NoLocals]
        /\ pendingDb' = pend
    BY <1>2 DEF RunOn, imm
  <2> QED BY <1>0, <2>4, <2>5 DEF Stops
<1>3. CASE first # {}
  <2> DEFINE k == CHOOSE i \in first : TRUE
             rest == SubSeq(J, k, Len(J))
  <2>1. k \in first
    BY <1>3
  <2>2. /\ k \in 1..Len(J) /\ ~Immediate(J[k], e, pend) /\ Skipped(J, k - 1, e, pend)
    BY <1>1, <2>1 DEF Skipped
  <2> DEFINE failed == rest # <<>> /\ rest[1].kind = "open" /\ e.pos = Flat
             popped == rest # <<>> /\ rest[1].kind \in {"mark", "cancel"}
  <2>3. /\ todo' = [todo EXCEPT ![t] = IF failed THEN <<>> ELSE rest]
        /\ pendingDb' = IF popped THEN [o \in DOMAIN pend \ {rest[1].oid} |-> pend[o]] ELSE pend
        /\ loc' = [loc EXCEPT ![t] =
             IF rest = <<>> \/ failed THEN NoLocals
             ELSE [row |-> IF rest[1].kind = "fee" THEN new ELSE p, pos |-> e.pos, fee |-> e.fee,
                   order |-> IF popped THEN pend[rest[1].oid] ELSE 0]]
    BY <1>3 DEF RunOn
  <2>4. rest \in Seq(JobSet) /\ rest # <<>> /\ rest[1] = J[k]
    <3> HIDE DEF k
    <3>1. Len(rest) = Len(J) - k + 1 /\ rest[1] = J[k] /\ rest \in Seq(JobSet)
      BY <1>1, <2>2
    <3> QED BY <1>1, <2>2, <3>1
  <2> HIDE DEF rest, k, first, imm
  <2>5. CASE Fails(J[k], e)
    <3>1. failed /\ ~popped
      BY <2>4, <2>5 DEF Fails
    <3>2. Stops(t, J, e, pend)
      BY <2>2, <2>3, <2>5, <3>1 DEF Stops
    <3> QED BY <1>0, <3>2
  <2>6. CASE ~Fails(J[k], e)
    <3>1. ~failed /\ (popped <=> Settles(J[k]))
      BY <2>4, <2>6 DEF Fails, Settles
    <3>2. loc' = [loc EXCEPT ![t] = LocalsFor(J[k], e, p, pend, new)]
      BY <2>3, <2>4, <3>1 DEF LocalsFor
    <3>3. pendingDb' = IF Settles(J[k]) THEN Without(pend, J[k].oid) ELSE pend
      BY <2>3, <2>4, <3>1 DEF Without
    <3>4. todo' = [todo EXCEPT ![t] = SubSeq(J, k, Len(J))]
      BY <2>3, <3>1 DEF rest
    <3>5. Awaits(t, k, J, e, p, pend, new)
      BY <2>2, <2>6, <3>2, <3>3, <3>4 DEF Awaits
    <3> QED BY <1>0, <2>2, <3>5
  <2> QED BY <2>5, <2>6
<1> QED BY <1>2, <1>3
--------------------------------------------------------------------------------
(* A LIMIT order settles once, and can be found while it rests: the invariant *)

Row == [side : {"LONG", "SHORT"}, entry : Int, sl : Int, tp : Int, fee : Int,
        open : BOOLEAN, pnl : Int]
OrderRow == [status : {"UNSEEN", "NEW", "FILLED", "CANCELLED"}, pos : Nat,
             intent : {"none", "OPEN", "CLOSE"}]
Locals == [row : Nat, pos : OpenPos \cup {Flat}, fee : Int, order : Nat]
Unfilled == [status |-> "NEW", pos |-> 0, intent |-> "none"]
Unseen == [status |-> "UNSEEN", pos |-> 0, intent |-> "none"]

Types ==
  /\ app \in {"up", "down"} /\ price \in Int /\ posDb \in Nat
  /\ rows \in Seq(Row) /\ orders \in Seq(OrderRow)
  /\ todo \in [Tasks -> Seq(JobSet)] /\ loc \in [Tasks -> Locals]
  /\ app = "down" => /\ eng = Engine0 /\ DOMAIN pendingDb = {}
                     /\ \A t \in Tasks : todo[t] = <<>>

\* Dictionary pend leads from engine orders to rows of ords that are not settled, each
\* its own.
Leads(pend, ords) ==
  /\ \A x \in DOMAIN pend : pend[x] \in DOMAIN ords /\ ords[pend[x]] \in {Unfilled, Unseen}
  /\ \A x, y \in DOMAIN pend : x # y => pend[x] # pend[y]
\* Row o was popped: it is not settled and pend does not lead to it any more.
Taken(o, pend, ords) ==
  o \in DOMAIN ords /\ ords[o] \in {Unfilled, Unseen} /\ \A x \in DOMAIN pend : pend[x] # o
\* What jobs settle is not in the engine any more, and a LIMIT order is queued alone.
JobsOK(J, e) ==
  \A i \in 1..Len(J) :
    /\ Settles(J[i]) => J[i].oid \in (1..e.oid) \ Oids(e)
    /\ J[i].kind = "queue" => Len(J) = 1 /\ J[i].oid \in 1..e.oid
Popped(t) == todo[t] # <<>> /\ Settles(todo[t][1])
Queueing(t, oid) == todo[t] # <<>> /\ todo[t][1].kind = "queue" /\ todo[t][1].oid = oid

Settling ==
  /\ EngineOK(eng) /\ Leads(pendingDb, orders)
  /\ \A t \in Tasks : JobsOK(todo[t], eng)
  /\ \A t \in Tasks : Popped(t) => Taken(loc[t].order, pendingDb, orders)
  /\ \A t, u \in Tasks : Popped(t) /\ Popped(u) /\ t # u => loc[t].order # loc[u].order
  /\ \A t \in Tasks : Waiting(t, "open") => loc[t].pos # Flat
  /\ \A x \in Oids(eng) : x \in DOMAIN pendingDb \/ \E t \in Tasks : Queueing(t, x)

\* A task between _persist_queued's flush and its commit.
Flushed(t) == Waiting(t, "queue") /\ loc[t].order # 0
\* The row a task of S has flushed is not committed, and pend leads to it from an order
\* that rests still; an order leads to such a row only while its task is at it.
Flushes(S, e, pend, ords) ==
  /\ \A u \in S : Flushed(u) =>
       /\ loc[u].order \in DOMAIN ords /\ ords[loc[u].order] = Unseen
       /\ todo[u][1].oid \in Oids(e) =>
            todo[u][1].oid \in DOMAIN pend /\ pend[todo[u][1].oid] = loc[u].order
  /\ \A x \in DOMAIN pend : x \in 1..e.oid
  /\ \A x \in DOMAIN pend : x \in Oids(e) /\ ords[pend[x]] = Unseen =>
       \E u \in S : Flushed(u) /\ todo[u][1].oid = x
Apart(u, v) ==
  Waiting(u, "queue") /\ Waiting(v, "queue") =>
    /\ todo[u][1].oid # todo[v][1].oid
    /\ Flushed(u) /\ Flushed(v) => loc[u].order # loc[v].order
Flushing ==
  Flushes(Tasks, eng, pendingDb, orders) /\ \A u, v \in Tasks : u # v => Apart(u, v)
TInv == Types /\ Settling /\ Flushing


LEMMA Suffix ==
  ASSUME NEW J \in Seq(JobSet), NEW k \in 1..Len(J)
  PROVE  LET K == SubSeq(J, k, Len(J))
         IN /\ K \in Seq(JobSet) /\ Len(K) = Len(J) - k + 1 /\ K # <<>> /\ K[1] = J[k]
            /\ \A i \in 1..Len(K) : k + i - 1 \in 1..Len(J) /\ K[i] = J[k + i - 1]
<1> DEFINE K == SubSeq(J, k, Len(J))
<1>1. Len(J) \in Nat /\ k \in Nat \ {0} /\ k <= Len(J)
  OBVIOUS
<1>2. K \in Seq(JobSet) /\ Len(K) = Len(J) - k + 1
  BY <1>1
<1>3. \A i \in 1..Len(K) : k + i - 1 \in 1..Len(J) /\ K[i] = J[k + i - 1]
  BY <1>1, <1>2
<1> HIDE DEF K
<1>4. 1 \in 1..Len(K) /\ k + 1 - 1 = k
  BY <1>1, <1>2
<1>5. K # <<>>
  BY <1>4
<1>6. K[1] = J[k]
  BY <1>3, <1>4
<1>7. K \in Seq(JobSet) /\ Len(K) = Len(J) - k + 1 /\ K # <<>> /\ K[1] = J[k]
      /\ \A i \in 1..Len(K) : k + i - 1 \in 1..Len(J) /\ K[i] = J[k + i - 1]
  BY <1>2, <1>3, <1>5, <1>6
<1> QED BY <1>7 DEF K

RanOn(t, J, e, p, pend, new) ==
  /\ todo' \in [Tasks -> Seq(JobSet)] /\ loc' \in [Tasks -> Locals]
  /\ \A u \in Tasks : u # t => todo'[u] = todo[u] /\ loc'[u] = loc[u]
  /\ \/ Stops(t, J, e, pend) /\ todo'[t] = <<>>
     \/ \E k \in 1..Len(J) :
          /\ Awaits(t, k, J, e, p, pend, new) /\ todo'[t] = SubSeq(J, k, Len(J))
          /\ loc'[t] = LocalsFor(J[k], e, p, pend, new)

LEMMA RunOnTypes ==
  ASSUME Types, NEW t \in Tasks, NEW J \in Seq(JobSet), NEW e \in Engine, NEW p \in Nat,
         NEW pend, NEW new \in Nat, RunOn(t, J, e, p, pend, new),
         Leads(pend, orders'), orders' \in Seq(OrderRow)
  PROVE  RanOn(t, J, e, p, pend, new)
<1>1. todo \in [Tasks -> Seq(JobSet)] /\ loc \in [Tasks -> Locals]
  BY DEF Types
<1>2. Stops(t, J, e, pend) \/ \E k \in 1..Len(J) : Awaits(t, k, J, e, p, pend, new)
  BY RunOnCases
<1>3. CASE Stops(t, J, e, pend)
  <2>1. <<>> \in Seq(JobSet)
    OBVIOUS
  <2>2. NoLocals \in Locals
    BY DEF NoLocals, Locals
  <2> QED BY <1>1, <1>3, <2>1, <2>2 DEF Stops, RanOn
<1>4. ASSUME NEW k \in 1..Len(J), Awaits(t, k, J, e, p, pend, new)
      PROVE  /\ todo' \in [Tasks -> Seq(JobSet)] /\ loc' \in [Tasks -> Locals]
             /\ \A u \in Tasks : u # t => todo'[u] = todo[u] /\ loc'[u] = loc[u]
             /\ todo'[t] = SubSeq(J, k, Len(J)) /\ loc'[t] = LocalsFor(J[k], e, p, pend, new)
  <2> DEFINE K == SubSeq(J, k, Len(J))
  <2>1. K \in Seq(JobSet)
    BY Suffix
  <2>2. J[k] \in JobSet
    OBVIOUS
  <2>3. Settles(J[k]) => pend[J[k].oid] \in Nat
    <3>1. Settles(J[k]) => J[k].oid \in DOMAIN pend
      BY <1>4 DEF Awaits, Immediate, Settles
    <3>2. DOMAIN orders' \subseteq Nat
      OBVIOUS
    <3> QED BY <3>1, <3>2 DEF Leads
  <2>4. LocalsFor(J[k], e, p, pend, new) \in Locals
    BY <2>3 DEF LocalsFor, Locals, Engine
  <2> QED BY <1>1, <1>4, <2>1, <2>4 DEF Awaits
<1> QED BY <1>2, <1>3, <1>4 DEF Stops, RanOn

LEMMA RunOnSettles ==
  ASSUME TInv, app' = "up", price' \in Int, rows' \in Seq(Row), orders' \in Seq(OrderRow),
         NEW t \in Tasks, NEW J \in Seq(JobSet), NEW e, EngineOK(e), NEW p \in Nat,
         NEW pend, NEW new \in Nat, RunOn(t, J, e, p, pend, new),
         JobsOK(J, e), Leads(pend, orders'),
         \A u \in Tasks : u # t => JobsOK(todo[u], e),
         \A u \in Tasks : u # t /\ Popped(u) => Taken(loc[u].order, pend, orders'),
         \A x \in Oids(e) : \/ x \in DOMAIN pend
                            \/ J # <<>> /\ J[1].kind = "queue" /\ J[1].oid = x
                            \/ \E u \in Tasks : u # t /\ Queueing(u, x),
         Flushes(Tasks \ {t}, e, pend, orders'),
         \A u \in Tasks : u # t /\ Waiting(u, "queue") /\ J # <<>> /\ J[1].kind = "queue" =>
                          todo[u][1].oid # J[1].oid
  PROVE  TInv'
<1>0. e \in Engine /\ Types /\ Settling
  BY DEF EngineOK, TInv
<1>01. \A u, v \in Tasks : u # v => Apart(u, v)
  BY DEF TInv, Flushing
<1>1. /\ todo' \in [Tasks -> Seq(JobSet)] /\ loc' \in [Tasks -> Locals]
      /\ \A u \in Tasks : u # t => todo'[u] = todo[u] /\ loc'[u] = loc[u]
      /\ \/ Stops(t, J, e, pend) /\ todo'[t] = <<>>
         \/ \E k \in 1..Len(J) :
              /\ Awaits(t, k, J, e, p, pend, new) /\ todo'[t] = SubSeq(J, k, Len(J))
              /\ loc'[t] = LocalsFor(J[k], e, p, pend, new)
  <2>1. RanOn(t, J, e, p, pend, new)
    BY <1>0, RunOnTypes
  <2> QED BY <2>1 DEF RanOn
<1>2. eng' = e /\ posDb' = p
  BY RunOnCases
<1>3. Types'
  BY <1>1, <1>2 DEF Types
<1>4. \A u \in Tasks : u # t => /\ Popped(u)' <=> Popped(u)
                                /\ Waiting(u, "open")' <=> Waiting(u, "open")
                                /\ \A x : Queueing(u, x)' <=> Queueing(u, x)
  BY <1>1 DEF Popped, Waiting, Queueing
<1>41. \A u \in Tasks : u # t => /\ Waiting(u, "queue")' <=> Waiting(u, "queue")
                                 /\ Flushed(u)' <=> Flushed(u)
                                 /\ todo'[u][1].oid = todo[u][1].oid /\ loc'[u].order = loc[u].order
  BY <1>1 DEF Flushed, Waiting
<1>42. ASSUME ~Flushed(t)', DOMAIN pendingDb' \subseteq DOMAIN pend,
              \A x \in DOMAIN pendingDb' : pendingDb'[x] = pend[x],
              \A x \in Oids(e) : x \in DOMAIN pend => x \in DOMAIN pendingDb'
       PROVE  Flushes(Tasks, eng, pendingDb, orders)'
  <2>1. \A u \in Tasks : Flushed(u)' => u \in Tasks \ {t} /\ Flushed(u)
    BY <1>41, <1>42
  <2>2. ASSUME NEW u \in Tasks, Flushed(u)'
        PROVE  /\ loc'[u].order \in DOMAIN orders' /\ orders'[loc'[u].order] = Unseen
               /\ todo'[u][1].oid \in Oids(e) =>
                    todo'[u][1].oid \in DOMAIN pendingDb' /\ pendingDb'[todo'[u][1].oid] = loc'[u].order
    <3>1. u # t /\ Flushed(u) /\ todo'[u][1].oid = todo[u][1].oid /\ loc'[u].order = loc[u].order
      BY <1>41, <2>1, <2>2
    <3> QED BY <1>42, <2>1, <3>1 DEF Flushes
  <2>3. \A x \in DOMAIN pendingDb' : x \in 1..e.oid
    BY <1>42 DEF Flushes
  <2>4. ASSUME NEW x \in DOMAIN pendingDb', x \in Oids(e), orders'[pendingDb'[x]] = Unseen
        PROVE  \E u \in Tasks : Flushed(u)' /\ todo'[u][1].oid = x
    <3>1. PICK u \in Tasks \ {t} : Flushed(u) /\ todo[u][1].oid = x
      BY <1>42, <2>4 DEF Flushes
    <3> QED BY <1>41, <3>1
  <2> QED BY <1>2, <2>2, <2>3, <2>4 DEF Flushes
<1>43. (\A u \in Tasks : u # t => Apart(u, t)' /\ Apart(t, u)')
       => \A u, v \in Tasks : u # v => Apart(u, v)'
  BY <1>01, <1>41 DEF Apart
<1>5. /\ \A u, v \in Tasks : Popped(u) /\ Popped(v) /\ u # v => loc[u].order # loc[v].order
      /\ \A u \in Tasks : Waiting(u, "open") => loc[u].pos # Flat
  BY <1>0 DEF Settling
<1>6. CASE Stops(t, J, e, pend) /\ todo'[t] = <<>>
  <2>1. pendingDb' = pend /\ ~Popped(t)' /\ ~Waiting(t, "open")'
    BY <1>6 DEF Stops, Popped, Waiting
  <2>2. JobsOK(todo'[t], e)
    <3>1. Len(<<>>) = 0
      OBVIOUS
    <3> QED BY <1>6, <3>1 DEF JobsOK
  <2>3. \A u \in Tasks : JobsOK(todo'[u], e)
    BY <1>1, <2>2
  <2>4. \A u \in Tasks : Popped(u)' => Taken(loc'[u].order, pend, orders')
    BY <1>1, <1>4, <2>1
  <2>5. \A u, v \in Tasks : Popped(u)' /\ Popped(v)' /\ u # v => loc'[u].order # loc'[v].order
    BY <1>1, <1>4, <1>5, <2>1
  <2>6. \A u \in Tasks : Waiting(u, "open")' => loc'[u].pos # Flat
    BY <1>1, <1>4, <1>5, <2>1
  <2>7. ~(J # <<>> /\ J[1].kind = "queue")
    <3> SUFFICES ASSUME J # <<>>, J[1].kind = "queue" PROVE FALSE
      OBVIOUS
    <3>1. Len(J) \in Nat \ {0}
      OBVIOUS
    <3>2. Len(J) = 1
      BY <3>1 DEF JobsOK
    <3>3. ~Immediate(J[1], e, pend) /\ ~Fails(J[1], e)
      BY DEF Immediate, Fails
    <3> QED BY <1>6, <3>2, <3>3 DEF Stops, Skipped
  <2>8. \A x \in Oids(e) : x \in DOMAIN pend \/ \E u \in Tasks : Queueing(u, x)'
    BY <1>4, <2>7
  <2>9. Settling'
    BY <1>2, <2>1, <2>3, <2>4, <2>5, <2>6, <2>8 DEF Settling
  <2>10. ~Waiting(t, "queue")' /\ ~Flushed(t)'
    BY <1>6 DEF Waiting, Flushed
  <2>11. Flushing'
    BY <1>2, <1>42, <1>43, <2>1, <2>10 DEF Flushing, Apart
  <2> QED BY <1>3, <2>9, <2>11 DEF TInv
<1>7. ASSUME NEW k \in 1..Len(J), Awaits(t, k, J, e, p, pend, new),
             todo'[t] = SubSeq(J, k, Len(J)), loc'[t] = LocalsFor(J[k], e, p, pend, new)
      PROVE  TInv'
  <2> DEFINE K == SubSeq(J, k, Len(J))
             j == J[k]
  <2>1. /\ K \in Seq(JobSet) /\ Len(K) = Len(J) - k + 1 /\ K # <<>> /\ K[1] = j
        /\ \A i \in 1..Len(K) : k + i - 1 \in 1..Len(J) /\ K[i] = J[k + i - 1]
    BY Suffix
  <2>2. pendingDb' = IF Settles(j) THEN Without(pend, j.oid) ELSE pend
    BY <1>7 DEF Awaits
  <2>3. todo'[t] = K /\ loc'[t] = LocalsFor(j, e, p, pend, new)
    BY <1>7
  <2>4. Len(J) \in Nat
    OBVIOUS
  <2>5. Settles(j) => j.oid \in DOMAIN pend
    BY <1>7 DEF Awaits, Immediate, Settles
  <2>6. j.kind = "open" => e.pos # Flat
    BY <1>7 DEF Awaits, Fails
  <2>7. (Settles(j) => j.oid \in (1..e.oid) \ Oids(e)) /\ (j.kind = "queue" => Len(J) = 1)
    BY DEF JobsOK
  <2>8. JobsOK(K, e)
    <3> SUFFICES ASSUME NEW i \in 1..Len(K)
                 PROVE  /\ Settles(K[i]) => K[i].oid \in (1..e.oid) \ Oids(e)
                        /\ K[i].kind = "queue" => Len(K) = 1 /\ K[i].oid \in 1..e.oid
      BY DEF JobsOK
    <3>1. k + i - 1 \in 1..Len(J) /\ K[i] = J[k + i - 1]
      BY <2>1
    <3>2. Len(J) = 1 => Len(K) = 1
      BY <2>1
    <3> HIDE DEF K
    <3> QED BY <3>1, <3>2 DEF JobsOK
  <2> HIDE DEF K, j
  <2>9. DOMAIN pendingDb' \subseteq DOMAIN pend /\ \A x \in DOMAIN pendingDb' : pendingDb'[x] = pend[x]
    BY <2>2 DEF Without
  <2>10. Leads(pendingDb', orders')
    BY <2>9 DEF Leads
  <2>11. \A u \in Tasks : JobsOK(todo'[u], e)
    BY <1>1, <2>3, <2>8
  <2>12. Popped(t)' <=> Settles(j)
    BY <2>1, <2>3 DEF Popped
  <2>13. Settles(j) => loc'[t].order = pend[j.oid]
    BY <2>3 DEF LocalsFor
  <2>14. Settles(j) => Taken(pend[j.oid], pendingDb', orders')
    BY <2>2, <2>5 DEF Leads, Taken, Without
  <2>15. \A u \in Tasks : Popped(u)' => Taken(loc'[u].order, pendingDb', orders')
    <3> SUFFICES ASSUME NEW u \in Tasks, Popped(u)' PROVE Taken(loc'[u].order, pendingDb', orders')
      OBVIOUS
    <3>1. CASE u = t
      BY <2>12, <2>13, <2>14, <3>1
    <3>2. CASE u # t
      <4>1. Taken(loc[u].order, pend, orders')
        BY <1>4, <3>2
      <4> QED BY <1>1, <2>9, <3>2, <4>1 DEF Taken
    <3> QED BY <3>1, <3>2
  <2>16. \A u \in Tasks : u # t /\ Popped(t)' /\ Popped(u)' => loc'[u].order # loc'[t].order
    <3> SUFFICES ASSUME NEW u \in Tasks, u # t, Popped(t)', Popped(u)'
                 PROVE  loc'[u].order # loc'[t].order
      OBVIOUS
    <3>1. Taken(loc[u].order, pend, orders') /\ loc'[u].order = loc[u].order
      BY <1>1, <1>4
    <3> QED BY <2>5, <2>12, <2>13, <3>1 DEF Taken
  <2>17. \A u, v \in Tasks : Popped(u)' /\ Popped(v)' /\ u # v => loc'[u].order # loc'[v].order
    BY <1>1, <1>4, <1>5, <2>16
  <2>18. \A u \in Tasks : Waiting(u, "open")' => loc'[u].pos # Flat
    <3>1. Waiting(t, "open")' => loc'[t].pos # Flat
      BY <2>1, <2>3, <2>6 DEF Waiting, LocalsFor
    <3> QED BY <1>1, <1>4, <1>5, <3>1
  <2>19. \A x \in Oids(e) : x \in DOMAIN pendingDb' \/ \E u \in Tasks : Queueing(u, x)'
    <3> SUFFICES ASSUME NEW x \in Oids(e)
                 PROVE  x \in DOMAIN pendingDb' \/ \E u \in Tasks : Queueing(u, x)'
      OBVIOUS
    <3>1. CASE x \in DOMAIN pend
      <4>1. Settles(j) => x # j.oid
        BY <2>7
      <4> QED BY <2>2, <3>1, <4>1 DEF Without
    <3>2. CASE J # <<>> /\ J[1].kind = "queue" /\ J[1].oid = x
      <4>1. Len(J) = 1
        <5>1. 1 \in 1..Len(J)
          BY <2>4, <3>2
        <5> QED BY <3>2, <5>1 DEF JobsOK
      <4>2. K[1] = J[1]
        BY <2>1, <4>1 DEF j
      <4>3. Queueing(t, x)'
        BY <2>1, <2>3, <3>2, <4>2 DEF Queueing
      <4> QED BY <4>3
    <3>3. CASE \E u \in Tasks : u # t /\ Queueing(u, x)
      BY <1>4, <3>3
    <3> QED BY <3>1, <3>2, <3>3
  <2>20. Settling'
    BY <1>2, <2>10, <2>11, <2>15, <2>17, <2>18, <2>19 DEF Settling
  <2>21. \A x \in Oids(e) : x \in DOMAIN pend => x \in DOMAIN pendingDb'
    BY <2>2, <2>7 DEF Without
  <2>22. ~Flushed(t)'
    BY <2>1, <2>3 DEF Flushed, Waiting, LocalsFor, Settles
  <2>23. Waiting(t, "queue")' => J # <<>> /\ J[1].kind = "queue" /\ todo'[t][1].oid = J[1].oid
    <3> SUFFICES ASSUME Waiting(t, "queue")'
                 PROVE  J # <<>> /\ J[1].kind = "queue" /\ todo'[t][1].oid = J[1].oid
      OBVIOUS
    <3>1. j.kind = "queue"
      BY <2>1, <2>3 DEF Waiting
    <3>2. Len(J) = 1
      BY <2>7, <3>1
    <3>3. k = 1
      BY <3>2
    <3>4. J # <<>>
      <4>1. 1 \in 1..Len(J)
        BY <3>2
      <4>2. 1..Len(<<>>) = {}
        OBVIOUS
      <4> QED BY <4>1, <4>2
    <3> QED BY <2>1, <2>3, <3>1, <3>3, <3>4 DEF j
  <2>24. \A u \in Tasks : u # t => Apart(u, t)' /\ Apart(t, u)'
    BY <1>41, <2>22, <2>23 DEF Apart
  <2>25. Flushing'
    BY <1>2, <1>42, <1>43, <2>9, <2>21, <2>22, <2>24 DEF Flushing
  <2> QED BY <1>3, <2>20, <2>25 DEF TInv
<1> QED BY <1>1, <1>6, <1>7


LEMMA BracketsInt ==
  ASSUME NEW side, NEW b \in Brackets(side)
  PROVE  b.sl \in Int /\ b.tp \in Int
BY Constants DEF Brackets

LEMMA OrderOutcome ==
  ASSUME EngineOK(eng), NEW action \in {"MARKET", "LIMIT"}, NEW side \in {"BUY", "SELL"},
         NEW at \in IF action = "LIMIT" THEN LimitAt ELSE {0}, NEW b \in Brackets(side), NEW p \in Int
  PROVE  Outcome(eng, Submit(eng, [action |-> action, side |-> side, price |-> at,
                                   sl |-> b.sl, tp |-> b.tp], p))
<1> DEFINE o == [action |-> action, side |-> side, price |-> at, sl |-> b.sl, tp |-> b.tp]
<1>1. /\ o.action = action /\ o.side \in {"BUY", "SELL"} /\ o.price = at
      /\ o.sl \in Int /\ o.tp \in Int
  BY BracketsInt
<1>2. ASSUME action = "LIMIT" PROVE o \in LimitOrder
  BY <1>1, <1>2 DEF LimitOrder
<1> HIDE DEF o
<1>3. CASE action = "MARKET"
  <2>1. Submit(eng, o, p) = ApplyMarket(eng, o, p, "MARKET")
    BY <1>1, <1>3 DEF Submit
  <2>2. Outcome(eng, ApplyMarket(eng, o, p, "MARKET"))
    BY <1>1, MarketOutcome
  <2> QED BY <2>1, <2>2 DEF o
<1>4. CASE action = "LIMIT"
  <2>1. Submit(eng, o, p) = Queue(eng, o)
    BY <1>1, <1>4 DEF Submit
  <2>2. Outcome(eng, Queue(eng, o))
    BY <1>4, <1>2, QueueOutcome
  <2> QED BY <2>1, <2>2 DEF o
<1> QED BY <1>3, <1>4

LEMMA StopOutcome ==
  ASSUME EngineOK(eng), NEW action \in {"CLOSE", "CANCEL"}, NEW p \in Int
  PROVE  Outcome(eng, Submit(eng, [action |-> action], p))
<1>1. CASE action = "CANCEL"
  <2>1. Submit(eng, [action |-> action], p) = CancelAll(eng)
    BY <1>1 DEF Submit
  <2> QED BY <2>1, CancelOutcome
<1>2. CASE action = "CLOSE"
  <2> DEFINE r == IF eng.pos = Flat THEN Result(eng, <<>>) ELSE CloseAt(eng, p, "SIGNAL")
  <2>1. Submit(eng, [action |-> action], p) = r
    BY <1>2 DEF Submit
  <2>2. Exited(eng, r)
    BY CloseOf DEF Exited, EngineOK
  <2> HIDE DEF r
  <2> QED BY <2>1, <2>2, ExitOutcome
<1> QED BY <1>1, <1>2

\* A task that has no job of the engine's.
Free(t) == todo[t] = <<>> \/ Waiting(t, "audit")

LEMMA HandleSettles ==
  ASSUME TInv, app' = "up", price' \in Int, UNCHANGED <<rows, orders>>, NEW t \in Tasks, Free(t),
         NEW r, Outcome(eng, r), Handle(t, r)
  PROVE  TInv'
<1> DEFINE J == Jobs(r.events)
           e == r.eng
<1>1. Types /\ Settling
  BY DEF TInv
<1>2. /\ EngineOK(e) /\ J \in Seq(JobSet)
      /\ \A i \in 1..Len(J) : Settles(J[i]) => J[i].oid \in Oids(eng) \ Oids(e)
  BY DEF Outcome
<1>3. \/ /\ \A i \in 1..Len(J) : J[i].kind # "queue"
         /\ e.oid = eng.oid /\ Oids(e) \subseteq Oids(eng)
      \/ /\ J = <<Task("queue", NoClose, eng.oid + 1)>>
         /\ e.oid = eng.oid + 1 /\ Oids(e) \subseteq Oids(eng) \cup {eng.oid + 1}
  BY DEF Outcome, Trades
<1>4. RunOn(t, J, e, posDb, pendingDb, 0)
  BY DEF Handle
<1> HIDE DEF J, e
<1>5. EngineOK(eng) /\ eng.oid \in Nat /\ \A x \in Oids(eng) : x \in 1..eng.oid
  BY <1>1 DEF Settling, EngineOK, Engine, Oids
<1>6. JobsOK(J, e)
  <2>1. CASE \A i \in 1..Len(J) : J[i].kind # "queue"
    BY <1>2, <1>3, <1>5, <2>1 DEF JobsOK
  <2>2. CASE J = <<Task("queue", NoClose, eng.oid + 1)>> /\ e.oid = eng.oid + 1
    <3>1. Len(J) = 1 /\ J[1] = Task("queue", NoClose, eng.oid + 1)
      BY <2>2
    <3>2. J[1].kind = "queue" /\ J[1].oid = eng.oid + 1
      BY <3>1 DEF Task
    <3>3. \A i \in 1..Len(J) : i = 1
      BY <3>1
    <3> QED BY <1>5, <2>2, <3>1, <3>2, <3>3 DEF JobsOK, Settles
  <2> QED BY <1>3, <2>1, <2>2
<1>7. \A u \in Tasks : JobsOK(todo[u], e)
  <2> SUFFICES ASSUME NEW u \in Tasks PROVE JobsOK(todo[u], e)
    OBVIOUS
  <2>1. JobsOK(todo[u], eng)
    BY <1>1 DEF Settling
  <2>2. \A x \in (1..eng.oid) \ Oids(eng) : x \in (1..e.oid) \ Oids(e)
    BY <1>3, <1>5
  <2>3. \A x \in 1..eng.oid : x \in 1..e.oid
    BY <1>3, <1>5
  <2> QED BY <2>1, <2>2, <2>3 DEF JobsOK
<1>8. Leads(pendingDb, orders') /\ posDb \in Nat /\ rows' \in Seq(Row) /\ orders' \in Seq(OrderRow)
  BY <1>1 DEF Types, Settling
<1>9. \A u \in Tasks : Popped(u) => Taken(loc[u].order, pendingDb, orders')
  BY <1>1 DEF Settling
<1>10. ASSUME NEW x \in Oids(e)
       PROVE  \/ x \in DOMAIN pendingDb
              \/ J # <<>> /\ J[1].kind = "queue" /\ J[1].oid = x
              \/ \E u \in Tasks : u # t /\ Queueing(u, x)
  <2>1. CASE x \in Oids(eng)
    <3>1. x \in DOMAIN pendingDb \/ \E u \in Tasks : Queueing(u, x)
      BY <1>1, <2>1 DEF Settling
    <3>2. ~Queueing(t, x)
      BY DEF Free, Waiting, Queueing
    <3> QED BY <3>1, <3>2
  <2>2. CASE x \notin Oids(eng)
    <3>1. J = <<Task("queue", NoClose, eng.oid + 1)>> /\ x = eng.oid + 1
      BY <1>3, <2>2
    <3>2. J[1] = Task("queue", NoClose, eng.oid + 1) /\ J # <<>>
      BY <3>1
    <3> QED BY <3>1, <3>2 DEF Task
  <2> QED BY <2>1, <2>2
<1>11. 0 \in Nat
  OBVIOUS
<1>12. Flushing /\ ~Flushed(t) /\ Oids(e) \subseteq Oids(eng) \cup {eng.oid + 1} /\ eng.oid <= e.oid
  BY <1>3, <1>5 DEF TInv, Free, Flushed, Waiting
<1>13. \A u \in Tasks : Waiting(u, "queue") => todo[u][1].oid \in 1..eng.oid
  <2> SUFFICES ASSUME NEW u \in Tasks, Waiting(u, "queue") PROVE todo[u][1].oid \in 1..eng.oid
    OBVIOUS
  <2>1. JobsOK(todo[u], eng) /\ todo[u] \in Seq(JobSet)
    BY <1>1 DEF Types, Settling
  <2>2. 1 \in 1..Len(todo[u])
    BY <2>1 DEF Waiting
  <2> QED BY <2>1, <2>2 DEF JobsOK, Waiting
<1>14. \A x \in 1..eng.oid : (x \in Oids(e) => x \in Oids(eng)) /\ x \in 1..e.oid
  BY <1>2, <1>5, <1>12 DEF EngineOK, Engine
<1>15. Flushes(Tasks \ {t}, e, pendingDb, orders')
  <2>1. Flushes(Tasks, eng, pendingDb, orders)
    BY <1>12 DEF Flushing
  <2>2. \A x \in DOMAIN pendingDb : x \in 1..eng.oid
    BY <2>1 DEF Flushes
  <2>3. \A u \in Tasks : Flushed(u) => u # t /\ todo[u][1].oid \in 1..eng.oid
    BY <1>12, <1>13 DEF Flushed
  <2> QED BY <1>14, <2>1, <2>2, <2>3 DEF Flushes
<1>16. \A u \in Tasks : u # t /\ Waiting(u, "queue") /\ J # <<>> /\ J[1].kind = "queue" =>
                         todo[u][1].oid # J[1].oid
  <2>1. J # <<>> /\ J[1].kind = "queue" => J[1].oid = eng.oid + 1
    <3>1. CASE \A i \in 1..Len(J) : J[i].kind # "queue"
      <4>1. J # <<>> => 1 \in 1..Len(J)
        BY <1>2
      <4> QED BY <3>1, <4>1
    <3>2. CASE J = <<Task("queue", NoClose, eng.oid + 1)>>
      <4>1. J[1] = Task("queue", NoClose, eng.oid + 1)
        BY <3>2
      <4> QED BY <4>1 DEF Task
    <3> QED BY <1>3, <3>1, <3>2
  <2>2. \A x \in 1..eng.oid : x # eng.oid + 1
    BY <1>5
  <2> QED BY <1>13, <2>1, <2>2
<1> QED BY <1>2, <1>4, <1>6, <1>7, <1>8, <1>9, <1>10, <1>11, <1>15, <1>16, RunOnSettles

\* The job of task t is done, with what it wrote to the tables.
LEMMA DoneSettles ==
  ASSUME TInv, app' = "up", price' \in Int, rows' \in Seq(Row), orders' \in Seq(OrderRow),
         NEW t \in Tasks, todo[t] # <<>>, NEW p \in Nat, NEW pend, NEW new \in Nat,
         Done(t, p, pend, new), Leads(pend, orders'),
         \A u \in Tasks : u # t /\ Popped(u) => Taken(loc[u].order, pend, orders'),
         \A x \in DOMAIN pendingDb : x \in DOMAIN pend,
         todo[t][1].kind = "queue" /\ todo[t][1].oid \in Oids(eng) => todo[t][1].oid \in DOMAIN pend,
         Flushes(Tasks \ {t}, eng, pend, orders')
  PROVE  TInv'
<1>1. Types /\ Settling
  BY DEF TInv
<1> DEFINE J == Tail(todo[t])
<1>2. todo[t] \in Seq(JobSet)
  BY <1>1 DEF Types
<1>3. J \in Seq(JobSet) /\ Len(J) = Len(todo[t]) - 1 /\ \A i \in 1..Len(J) : i + 1 \in 1..Len(todo[t]) /\ J[i] = todo[t][i + 1]
  BY <1>2
<1>4. RunOn(t, J, eng, p, pend, new)
  BY DEF Done
<1> HIDE DEF J
<1>5. \A u \in Tasks : JobsOK(todo[u], eng)
  BY <1>1 DEF Settling
<1>6. JobsOK(J, eng)
  <2> SUFFICES ASSUME NEW i \in 1..Len(J)
               PROVE  /\ Settles(J[i]) => J[i].oid \in (1..eng.oid) \ Oids(eng)
                      /\ J[i].kind = "queue" => Len(J) = 1 /\ J[i].oid \in 1..eng.oid
    BY DEF JobsOK
  <2>1. /\ Settles(J[i]) => J[i].oid \in (1..eng.oid) \ Oids(eng)
        /\ J[i].kind = "queue" => Len(todo[t]) = 1
    BY <1>3, <1>5 DEF JobsOK
  <2>2. Len(todo[t]) # 1
    BY <1>2, <1>3
  <2> QED BY <2>1, <2>2
<1>7. EngineOK(eng)
  BY <1>1 DEF Settling
<1>8. ASSUME NEW x \in Oids(eng)
      PROVE  \/ x \in DOMAIN pend
             \/ J # <<>> /\ J[1].kind = "queue" /\ J[1].oid = x
             \/ \E u \in Tasks : u # t /\ Queueing(u, x)
  <2>1. x \in DOMAIN pendingDb \/ \E u \in Tasks : Queueing(u, x)
    BY <1>1 DEF Settling
  <2>2. Queueing(t, x) => x \in DOMAIN pend
    BY DEF Queueing
  <2> QED BY <2>1, <2>2
<1>9. J # <<>> => J[1].kind # "queue"
  <2> SUFFICES ASSUME J # <<>>, J[1].kind = "queue" PROVE FALSE
    OBVIOUS
  <2>1. 1 \in 1..Len(J) /\ 1 + 1 \in 1..Len(todo[t]) /\ J[1] = todo[t][1 + 1]
    BY <1>3
  <2>2. Len(todo[t]) = 1
    BY <1>5, <2>1 DEF JobsOK
  <2> QED BY <2>1, <2>2
<1> QED BY <1>3, <1>4, <1>5, <1>6, <1>7, <1>8, <1>9, RunOnSettles


SettledOnce ==
  \A o \in DOMAIN orders : orders[o].status \in {"FILLED", "CANCELLED"} => orders'[o] = orders[o]

LEMMA Appended ==
  ASSUME TInv, NEW x \in OrderRow, orders' = Append(orders, x)
  PROVE  /\ orders' \in Seq(OrderRow) /\ Leads(pendingDb, orders') /\ SettledOnce
         /\ \A u \in Tasks : Popped(u) => Taken(loc[u].order, pendingDb, orders')
         /\ Len(orders') = Len(orders) + 1 /\ orders'[Len(orders) + 1] = x
         /\ Flushes(Tasks, eng, pendingDb, orders')
<1>1. Types /\ Settling /\ Flushing
  BY DEF TInv
<1>2. orders \in Seq(OrderRow) /\ Len(orders) \in Nat
  BY <1>1 DEF Types
<1>3. /\ orders' \in Seq(OrderRow) /\ Len(orders') = Len(orders) + 1 /\ orders'[Len(orders) + 1] = x
      /\ \A o \in DOMAIN orders : o \in DOMAIN orders' /\ orders'[o] = orders[o]
  BY <1>2
<1>4. Leads(pendingDb, orders')
  BY <1>1, <1>3 DEF Settling, Leads
<1>5. \A u \in Tasks : Popped(u) => Taken(loc[u].order, pendingDb, orders')
  BY <1>1, <1>3 DEF Settling, Taken
<1>6. Flushes(Tasks, eng, pendingDb, orders')
  <2>1. Flushes(Tasks, eng, pendingDb, orders) /\ Leads(pendingDb, orders)
    BY <1>1 DEF Settling, Flushing
  <2>2. \A y \in DOMAIN pendingDb : orders'[pendingDb[y]] = orders[pendingDb[y]]
    BY <1>3, <2>1 DEF Leads
  <2> QED BY <1>3, <2>1, <2>2 DEF Flushes
<1> QED BY <1>3, <1>4, <1>5, <1>6 DEF SettledOnce

LEMMA FlushesOthers ==
  ASSUME NEW t, NEW e, NEW pend, NEW ords, Flushes(Tasks, e, pend, ords), ~Flushed(t)
  PROVE  Flushes(Tasks \ {t}, e, pend, ords)
BY DEF Flushes

\* The job of task t writes no row of table orders, or a row of its own.
LEMMA PlainJobSettles ==
  ASSUME TInv, UNCHANGED <<app, price>>, rows' \in Seq(Row),
         NEW t \in Tasks, todo[t] # <<>>, todo[t][1].kind # "queue",
         NEW p \in Nat, NEW new \in Nat, Done(t, p, pendingDb, new),
         orders' = orders \/ \E x \in OrderRow : orders' = Append(orders, x)
  PROVE  TInv' /\ SettledOnce
<1>1. Types /\ Settling /\ Flushing
  BY DEF TInv
<1>2. app' = "up" /\ price' \in Int
  BY <1>1 DEF Types
<1>3. /\ orders' \in Seq(OrderRow) /\ Leads(pendingDb, orders') /\ SettledOnce
      /\ \A u \in Tasks : Popped(u) => Taken(loc[u].order, pendingDb, orders')
      /\ Flushes(Tasks, eng, pendingDb, orders')
  <2>1. CASE orders' = orders
    BY <1>1, <2>1 DEF Types, Settling, Flushing, SettledOnce
  <2> QED BY <2>1, Appended
<1>4. ~Flushed(t)
  BY DEF Flushed, Waiting
<1>5. Flushes(Tasks \ {t}, eng, pendingDb, orders')
  BY <1>3, <1>4, FlushesOthers
<1> QED BY <1>2, <1>3, <1>5, DoneSettles

LEMMA FlushSettles ==
  ASSUME TInv, NEW t \in Tasks, FlushQueued(t)
  PROVE  TInv' /\ SettledOnce
<1> DEFINE x == [status |-> "UNSEEN", pos |-> 0, intent |-> "none"]
           oid == todo[t][1].oid
           n == Len(orders) + 1
           pend == Remember(oid, n)
<1>1. Types /\ Settling /\ Flushing
  BY DEF TInv
<1>2. /\ todo[t] # <<>> /\ todo[t][1].kind = "queue" /\ loc[t].order = 0
      /\ orders' = Append(orders, x) /\ pendingDb' = pend /\ loc' = [loc EXCEPT ![t].order = n]
      /\ UNCHANGED <<app, eng, price, posDb, rows, todo>>
  BY DEF FlushQueued, Waiting
<1>3. x \in OrderRow /\ x = Unseen
  BY DEF OrderRow, Unseen
<1> HIDE DEF x, n
<1>4. /\ orders' \in Seq(OrderRow) /\ Leads(pendingDb, orders') /\ SettledOnce
      /\ \A u \in Tasks : Popped(u) => Taken(loc[u].order, pendingDb, orders')
      /\ Len(orders') = Len(orders) + 1 /\ orders'[n] = x
      /\ Flushes(Tasks, eng, pendingDb, orders')
  BY <1>2, <1>3, Appended DEF n
<1>5. n \in DOMAIN orders' /\ n \notin DOMAIN orders /\ n \in Nat \ {0}
  BY <1>1, <1>4 DEF Types, n
<1>6. /\ DOMAIN pend = DOMAIN pendingDb \cup {oid}
      /\ pend[oid] = n /\ \A y \in DOMAIN pendingDb : y # oid => pend[y] = pendingDb[y]
  BY DEF Remember
<1>7. \A y \in DOMAIN pendingDb : pendingDb[y] \in DOMAIN orders
  BY <1>1 DEF Settling, Leads
<1>8. /\ loc' \in [Tasks -> Locals] /\ loc'[t].order = n
      /\ \A u \in Tasks : u # t => loc'[u] = loc[u]
      /\ loc'[t].pos = loc[t].pos
  <2>1. loc \in [Tasks -> Locals]
    BY <1>1 DEF Types
  <2>2. [loc[t] EXCEPT !.order = n] \in Locals
    BY <1>5, <2>1 DEF Locals
  <2>3. loc' = [loc EXCEPT ![t] = [loc[t] EXCEPT !.order = n]]
    BY <1>2
  <2>4. [loc[t] EXCEPT !.order = n].order = n /\ [loc[t] EXCEPT !.order = n].pos = loc[t].pos
    BY <2>1 DEF Locals
  <2> QED BY <2>1, <2>2, <2>3, <2>4
<1>9. JobsOK(todo[t], eng) /\ todo[t] \in Seq(JobSet)
  BY <1>1 DEF Types, Settling
<1>10. oid \in 1..eng.oid
  <2>1. 1 \in 1..Len(todo[t])
    BY <1>2, <1>9
  <2> QED BY <1>2, <1>9, <2>1 DEF JobsOK
<1> HIDE DEF pend
<1>11. \A u \in Tasks : /\ Popped(u)' <=> Popped(u) /\ u # t
                        /\ \A k : Waiting(u, k)' <=> Waiting(u, k)
                        /\ \A y : Queueing(u, y)' <=> Queueing(u, y)
  BY <1>2 DEF Popped, Waiting, Queueing, Settles
<1>12. \A u \in Tasks : u # t => (Flushed(u)' <=> Flushed(u))
  BY <1>8, <1>11 DEF Flushed
<1>13. Flushed(t)' /\ Waiting(t, "queue")
  BY <1>2, <1>5, <1>8, <1>11 DEF Flushed, Waiting
<1>14. Types'
  BY <1>1, <1>2, <1>4, <1>8 DEF Types
<1>15. Leads(pend, orders')
  <2>1. \A y \in DOMAIN pend : pend[y] \in DOMAIN orders' /\ orders'[pend[y]] \in {Unfilled, Unseen}
    BY <1>3, <1>4, <1>5, <1>6 DEF Leads
  <2>2. \A y, z \in DOMAIN pend : y # z => pend[y] # pend[z]
    BY <1>4, <1>5, <1>6, <1>7 DEF Leads
  <2> QED BY <2>1, <2>2 DEF Leads
<1>16. \A u \in Tasks : Popped(u) => Taken(loc[u].order, pend, orders')
  <2> SUFFICES ASSUME NEW u \in Tasks, Popped(u) PROVE Taken(loc[u].order, pend, orders')
    OBVIOUS
  <2>1. Taken(loc[u].order, pendingDb, orders') /\ loc[u].order \in DOMAIN orders
    BY <1>1, <1>4 DEF Settling, Taken
  <2> QED BY <1>5, <1>6, <2>1 DEF Taken
<1>17. Settling'
  <2>1. \A u \in Tasks : Popped(u)' => Taken(loc'[u].order, pendingDb', orders')
    BY <1>2, <1>8, <1>11, <1>16
  <2>2. \A u, v \in Tasks : Popped(u)' /\ Popped(v)' /\ u # v => loc'[u].order # loc'[v].order
    BY <1>1, <1>8, <1>11 DEF Settling
  <2>3. \A u \in Tasks : Waiting(u, "open")' => loc'[u].pos # Flat
    BY <1>1, <1>8, <1>11 DEF Settling
  <2>4. \A y \in Oids(eng) : y \in DOMAIN pend \/ \E u \in Tasks : Queueing(u, y)'
    BY <1>1, <1>6, <1>11 DEF Settling
  <2> QED BY <1>1, <1>2, <1>15, <2>1, <2>2, <2>3, <2>4 DEF Settling
<1>18. \A u \in Tasks : u # t /\ Waiting(u, "queue") => todo[u][1].oid # oid
  BY <1>1, <1>13 DEF Flushing, Apart
<1>19. \A u \in Tasks : Flushed(u) => loc[u].order \in DOMAIN orders
  BY <1>1 DEF Flushing, Flushes
<1>20. Flushing'
  <2>1. ASSUME NEW u \in Tasks, Flushed(u)'
        PROVE  /\ loc'[u].order \in DOMAIN orders' /\ orders'[loc'[u].order] = Unseen
               /\ todo[u][1].oid \in Oids(eng) =>
                    todo[u][1].oid \in DOMAIN pend /\ pend[todo[u][1].oid] = loc'[u].order
    <3>1. CASE u = t
      BY <1>3, <1>4, <1>5, <1>6, <1>8, <3>1
    <3>2. CASE u # t
      <4>1. Flushed(u) /\ Waiting(u, "queue") /\ loc'[u] = loc[u]
        BY <1>8, <1>12, <2>1, <3>2 DEF Flushed
      <4> QED BY <1>4, <1>6, <1>18, <3>2, <4>1 DEF Flushes
    <3> QED BY <3>1, <3>2
  <2>2. \A y \in DOMAIN pend : y \in 1..eng.oid
    BY <1>4, <1>6, <1>10 DEF Flushes
  <2>3. ASSUME NEW y \in DOMAIN pend, y \in Oids(eng), orders'[pend[y]] = Unseen
        PROVE  \E u \in Tasks : Flushed(u)' /\ todo[u][1].oid = y
    <3>1. CASE y = oid
      BY <1>13, <3>1
    <3>2. CASE y # oid
      <4>1. y \in DOMAIN pendingDb /\ pend[y] = pendingDb[y]
        BY <1>6, <2>3, <3>2
      <4>2. PICK u \in Tasks : Flushed(u) /\ todo[u][1].oid = y
        BY <1>4, <2>3, <4>1 DEF Flushes
      <4> QED BY <1>12, <1>13, <4>2
    <3> QED BY <3>1, <3>2
  <2>4. Flushes(Tasks, eng, pendingDb, orders)'
    BY <1>2, <2>1, <2>2, <2>3 DEF Flushes
  <2>5. ASSUME NEW u \in Tasks, NEW v \in Tasks, u # v PROVE Apart(u, v)'
    <3>1. Apart(u, v)
      BY <1>1, <2>5 DEF Flushing
    <3>2. \A w \in Tasks : w # t /\ Flushed(w) => loc'[w].order # n
      BY <1>5, <1>8, <1>19
    <3>3. Flushed(u)' /\ Flushed(v)' => loc'[u].order # loc'[v].order
      <4>1. CASE u = t
        BY <1>8, <1>12, <2>5, <3>2, <4>1
      <4>2. CASE v = t
        BY <1>8, <1>12, <2>5, <3>2, <4>2
      <4>3. CASE u # t /\ v # t
        BY <1>8, <1>12, <3>1, <4>3 DEF Apart, Flushed
      <4> QED BY <4>1, <4>2, <4>3
    <3> QED BY <1>2, <1>11, <3>1, <3>3 DEF Apart
  <2> QED BY <2>4, <2>5 DEF Flushing
<1> QED BY <1>4, <1>14, <1>17, <1>20 DEF TInv

LEMMA QueuedSettles ==
  ASSUME TInv, NEW t \in Tasks, PersistQueued(t)
  PROVE  TInv' /\ SettledOnce
<1> DEFINE o == loc[t].order
           oid == todo[t][1].oid
<1>1. Types /\ Settling /\ Flushing
  BY DEF TInv
<1>2. /\ todo[t] # <<>> /\ Flushed(t) /\ Done(t, posDb, pendingDb, 0)
      /\ orders' = [orders EXCEPT ![o].status = "NEW"] /\ UNCHANGED <<app, price, rows>>
  BY DEF PersistQueued, Waiting, Flushed
<1>3. app' = "up" /\ price' \in Int /\ rows' \in Seq(Row) /\ posDb \in Nat /\ orders \in Seq(OrderRow)
  BY <1>1, <1>2 DEF Types
<1>4. /\ o \in DOMAIN orders /\ orders[o] = Unseen
      /\ oid \in Oids(eng) => oid \in DOMAIN pendingDb /\ pendingDb[oid] = o
  BY <1>1, <1>2 DEF Flushing, Flushes
<1> HIDE DEF o, oid
<1>5. /\ orders' \in Seq(OrderRow) /\ DOMAIN orders' = DOMAIN orders /\ orders'[o] = Unfilled
      /\ \A q \in DOMAIN orders : q # o => orders'[q] = orders[q]
  <2>1. orders' = [orders EXCEPT ![o] = [orders[o] EXCEPT !.status = "NEW"]]
    BY <1>2
  <2>2. [orders[o] EXCEPT !.status = "NEW"] = Unfilled /\ Unfilled \in OrderRow
    BY <1>4 DEF Unseen, Unfilled, OrderRow
  <2>3. orders' = [orders EXCEPT ![o] = Unfilled]
    BY <2>1, <2>2
  <2> QED BY <1>3, <1>4, <2>2, <2>3
<1>6. SettledOnce
  BY <1>4, <1>5 DEF SettledOnce, Unseen
<1>7. Leads(pendingDb, orders')
  BY <1>1, <1>5 DEF Settling, Leads
<1>8. \A u \in Tasks : Popped(u) => Taken(loc[u].order, pendingDb, orders')
  BY <1>1, <1>5 DEF Settling, Taken
<1>9. Flushes(Tasks \ {t}, eng, pendingDb, orders')
  <2>1. ASSUME NEW u \in Tasks, u # t, Flushed(u) PROVE loc[u].order # o
    BY <1>1, <1>2, <2>1 DEF Flushing, Apart, Flushed, o
  <2>2. ASSUME NEW y \in DOMAIN pendingDb, y \in Oids(eng), orders'[pendingDb[y]] = Unseen
        PROVE  \E u \in Tasks \ {t} : Flushed(u) /\ todo[u][1].oid = y
    <3>1. pendingDb[y] # o
      BY <1>5, <2>2 DEF Unseen, Unfilled
    <3>2. orders[pendingDb[y]] = Unseen
      BY <1>1, <1>5, <2>2, <3>1 DEF Settling, Leads
    <3>3. PICK u \in Tasks : Flushed(u) /\ todo[u][1].oid = y
      BY <1>1, <2>2, <3>2 DEF Flushing, Flushes
    <3>4. u # t
      BY <1>4, <2>2, <3>1, <3>3 DEF oid
    <3> QED BY <3>3, <3>4
  <2>3. Flushes(Tasks, eng, pendingDb, orders)
    BY <1>1 DEF Flushing
  <2> QED BY <1>5, <2>1, <2>2, <2>3 DEF Flushes
<1>10. 0 \in Nat
  OBVIOUS
<1>11. todo[t][1].kind = "queue" /\ todo[t][1].oid \in Oids(eng) => todo[t][1].oid \in DOMAIN pendingDb
  BY <1>4 DEF oid
<1> QED BY <1>2, <1>3, <1>5, <1>6, <1>7, <1>8, <1>9, <1>10, <1>11, DoneSettles

LEMMA MarkedSettles ==
  ASSUME TInv, NEW t \in Tasks, MarkOrder(t)
  PROVE  TInv' /\ SettledOnce
<1>1. Types /\ Settling /\ Flushing
  BY DEF TInv
<1> DEFINE o == loc[t].order
<1>2. /\ todo[t] # <<>> /\ Settles(todo[t][1]) /\ Done(t, posDb, pendingDb, 0)
      /\ UNCHANGED <<app, price, rows>>
  BY DEF MarkOrder, Waiting, Settles
<1>3. Popped(t)
  BY <1>2 DEF Popped
<1>4. Taken(o, pendingDb, orders)
  BY <1>1, <1>3 DEF Settling
<1>5. app' = "up" /\ price' \in Int /\ rows' \in Seq(Row) /\ posDb \in Nat /\ orders \in Seq(OrderRow)
  BY <1>1, <1>2 DEF Types
<1>6. PICK x \in OrderRow : /\ orders' = [orders EXCEPT ![o] = x]
                            /\ orders[o].status = "UNSEEN" => x = orders[o]
  <2>1. orders[o] \in OrderRow
    BY <1>4, <1>5 DEF Taken
  <2>2. CASE orders[o].status = "UNSEEN"
    <3>1. orders' = orders
      BY <2>2 DEF MarkOrder, Committed
    <3> QED BY <1>5, <2>1, <3>1
  <2>3. CASE orders[o].status # "UNSEEN"
    <3>1. orders' = [orders EXCEPT ![o] = [status |-> "FILLED", pos |-> posDb, intent |-> "OPEN"]]
          \/ orders' = [orders EXCEPT ![o].status = "CANCELLED"]
      BY <2>3 DEF MarkOrder, Committed
    <3>2. [status |-> "FILLED", pos |-> posDb, intent |-> "OPEN"] \in OrderRow
      BY <1>5 DEF OrderRow
    <3>3. [orders[o] EXCEPT !.status = "CANCELLED"] \in OrderRow
      BY <2>1 DEF OrderRow
    <3>4. [orders EXCEPT ![o].status = "CANCELLED"] = [orders EXCEPT ![o] = [orders[o] EXCEPT !.status = "CANCELLED"]]
      OBVIOUS
    <3> QED BY <2>3, <3>1, <3>2, <3>3, <3>4
  <2> QED BY <2>2, <2>3
<1> HIDE DEF o
<1>7. /\ o \in DOMAIN orders /\ orders[o] \in {Unfilled, Unseen}
      /\ \A y \in DOMAIN pendingDb : pendingDb[y] # o
  BY <1>4 DEF Taken
<1>8. orders' \in Seq(OrderRow) /\ DOMAIN orders' = DOMAIN orders
      /\ \A q \in DOMAIN orders : q # o => orders'[q] = orders[q]
  BY <1>5, <1>6, <1>7
<1>81. \A q \in DOMAIN orders : orders[q] = Unseen => orders'[q] = Unseen
  BY <1>5, <1>6, <1>7, <1>8 DEF Unseen
<1>9. Leads(pendingDb, orders')
  BY <1>1, <1>7, <1>8 DEF Settling, Leads
<1>10. \A u \in Tasks : u # t /\ Popped(u) => Taken(loc[u].order, pendingDb, orders')
  <2> SUFFICES ASSUME NEW u \in Tasks, u # t, Popped(u) PROVE Taken(loc[u].order, pendingDb, orders')
    OBVIOUS
  <2>1. Taken(loc[u].order, pendingDb, orders) /\ loc[u].order # o
    BY <1>1, <1>3 DEF Settling, o
  <2> QED BY <1>8, <2>1 DEF Taken
<1>101. Flushes(Tasks \ {t}, eng, pendingDb, orders')
  <2>1. Flushes(Tasks, eng, pendingDb, orders) /\ ~Flushed(t)
    BY <1>1, <1>2 DEF Flushing, Flushed, Waiting, Settles
  <2>2. Flushes(Tasks \ {t}, eng, pendingDb, orders)
    BY <2>1, FlushesOthers
  <2>3. \A y \in DOMAIN pendingDb : orders'[pendingDb[y]] = orders[pendingDb[y]]
    BY <1>1, <1>7, <1>8 DEF Settling, Leads
  <2> QED BY <1>8, <1>81, <2>2, <2>3 DEF Flushes
<1>11. TInv'
  <2>1. 0 \in Nat /\ todo[t][1].kind # "queue"
    BY <1>2 DEF Settles
  <2> QED BY <1>2, <1>5, <1>8, <1>9, <1>10, <1>101, <2>1, DoneSettles
<1>12. SettledOnce
  BY <1>7, <1>8 DEF SettledOnce, Unfilled, Unseen
<1> QED BY <1>11, <1>12

\* Task t has failed, and nothing it awaited is left.
LEMMA FailedSettles ==
  ASSUME TInv, NEW t \in Tasks, MarkFails(t)
  PROVE  TInv' /\ SettledOnce
<1>1. Types /\ Settling /\ Flushing
  BY DEF TInv
<1>2. /\ todo' = [todo EXCEPT ![t] = <<>>] /\ loc' = [loc EXCEPT ![t] = NoLocals]
      /\ UNCHANGED <<app, eng, price, posDb, pendingDb, rows, orders>>
      /\ todo[t] # <<>> /\ todo[t][1].kind = "mark"
  BY DEF MarkFails, tables, Waiting
<1>3. NoLocals \in Locals /\ <<>> \in Seq(JobSet) /\ Len(<<>>) = 0
  BY DEF NoLocals, Locals
<1>4. /\ todo' \in [Tasks -> Seq(JobSet)] /\ loc' \in [Tasks -> Locals] /\ todo'[t] = <<>>
      /\ \A u \in Tasks : u # t => todo'[u] = todo[u] /\ loc'[u] = loc[u]
  BY <1>1, <1>2, <1>3 DEF Types
<1>5. Types'
  BY <1>1, <1>2, <1>4 DEF Types
<1>6. \A u \in Tasks : /\ Popped(u)' <=> Popped(u) /\ u # t
                       /\ \A k : Waiting(u, k)' <=> Waiting(u, k) /\ u # t
                       /\ \A x : Queueing(u, x)' <=> Queueing(u, x)
                       /\ Flushed(u)' <=> Flushed(u)
  BY <1>2, <1>4 DEF Popped, Waiting, Queueing, Flushed
<1>7. \A u \in Tasks : JobsOK(todo'[u], eng)
  <2>1. JobsOK(todo'[t], eng)
    BY <1>3, <1>4 DEF JobsOK
  <2> QED BY <1>1, <1>4, <2>1 DEF Settling
<1>8. Settling'
  <2>1. \A u \in Tasks : Popped(u)' => Taken(loc'[u].order, pendingDb, orders)
    BY <1>1, <1>4, <1>6 DEF Settling
  <2>2. \A u, v \in Tasks : Popped(u)' /\ Popped(v)' /\ u # v => loc'[u].order # loc'[v].order
    BY <1>1, <1>4, <1>6 DEF Settling
  <2>3. \A u \in Tasks : Waiting(u, "open")' => loc'[u].pos # Flat
    BY <1>1, <1>4, <1>6 DEF Settling
  <2>4. \A x \in Oids(eng) : x \in DOMAIN pendingDb \/ \E u \in Tasks : Queueing(u, x)'
    BY <1>1, <1>6 DEF Settling
  <2> QED BY <1>1, <1>2, <1>7, <2>1, <2>2, <2>3, <2>4 DEF Settling
<1>9. Flushing'
  <2>1. ~Flushed(t)
    BY <1>2 DEF Flushed, Waiting
  <2>2. \A u \in Tasks : Flushed(u) => todo'[u] = todo[u] /\ loc'[u] = loc[u]
    BY <1>4, <2>1
  <2>3. Flushes(Tasks, eng, pendingDb, orders)'
    BY <1>1, <1>2, <1>6, <2>2 DEF Flushing, Flushes
  <2>31. \A u \in Tasks : Waiting(u, "queue")' =>
           Waiting(u, "queue") /\ todo'[u] = todo[u] /\ loc'[u] = loc[u]
    BY <1>4, <1>6
  <2>4. \A u, v \in Tasks : u # v => Apart(u, v)'
    BY <1>1, <1>6, <2>31 DEF Flushing, Apart
  <2> QED BY <2>3, <2>4 DEF Flushing
<1> QED BY <1>2, <1>5, <1>8, <1>9 DEF TInv, SettledOnce


LEMMA TInit == Init => TInv
<1> SUFFICES ASSUME Init PROVE TInv
  OBVIOUS
<1> DEFINE none == <<>>
<1>1. /\ <<>> \in Seq(Row) /\ <<>> \in Seq(OrderRow) /\ <<>> \in Seq(JobSet) /\ <<>> \in Seq(Pending)
      /\ Len(<<>>) = 0 /\ DOMAIN <<>> = {}
  OBVIOUS
<1>2. NoLocals \in Locals
  BY DEF NoLocals, Locals
<1>3. Types
  BY <1>1, <1>2 DEF Init, Types
<1>4. EngineOK(Engine0) /\ Oids(Engine0) = {}
  BY <1>1 DEF EngineOK, Engine, Engine0, Oids
<1>5. \A t \in Tasks : JobsOK(todo[t], eng) /\ ~Popped(t) /\ ~Waiting(t, "open")
  BY <1>1 DEF Init, JobsOK, Popped, Waiting
<1>6. Settling
  BY <1>1, <1>4, <1>5 DEF Init, Settling, Leads
<1>7. Flushing
  BY <1>1 DEF Init, Flushing, Flushes, Apart, Flushed, Waiting
<1> QED BY <1>3, <1>6, <1>7 DEF TInv

LEMMA PlacedSettles ==
  ASSUME TInv, app' = "up", price' \in Int, UNCHANGED <<rows, orders>>, NEW t \in Tasks, Free(t),
         NEW action \in {"MARKET", "LIMIT"}, PlaceOrder(t, action)
  PROVE  TInv'
<1>1. PICK side \in {"BUY", "SELL"}, at \in IF action = "LIMIT" THEN LimitAt ELSE {0} :
        \E b \in Brackets(side) :
          Handle(t, Submit(eng, [action |-> action, side |-> side, price |-> at,
                                 sl |-> b.sl, tp |-> b.tp], price'))
  BY DEF PlaceOrder
<1>2. PICK b \in Brackets(side) :
        Handle(t, Submit(eng, [action |-> action, side |-> side, price |-> at,
                               sl |-> b.sl, tp |-> b.tp], price'))
  BY <1>1
<1>3. EngineOK(eng)
  BY DEF TInv, Settling
<1>4. Outcome(eng, Submit(eng, [action |-> action, side |-> side, price |-> at,
                                sl |-> b.sl, tp |-> b.tp], price'))
  BY <1>3, OrderOutcome
<1> QED BY <1>2, <1>4, HandleSettles

LEMMA TickSettles ==
  ASSUME TInv, NEW p \in Prices, Tick(p)
  PROVE  TInv' /\ SettledOnce
<1>1. Ticks \in Tasks /\ p \in Int
  BY Constants DEF Tasks
<1>2. /\ app' = "up" /\ price' \in Int /\ UNCHANGED <<rows, orders>> /\ Free(Ticks)
      /\ Handle(Ticks, OnPrice(eng, p))
  BY <1>1 DEF Tick, Idle, Free, tables
<1>3. Outcome(eng, OnPrice(eng, p))
  BY <1>1, OnPriceOutcome DEF TInv, Settling
<1>4. TInv'
  BY <1>1, <1>2, <1>3, HandleSettles
<1> QED BY <1>2, <1>4 DEF SettledOnce

LEMMA SignalSettles ==
  ASSUME TInv, NEW action \in {"MARKET", "LIMIT", "CLOSE", "CANCEL"}, Signal(action)
  PROVE  TInv' /\ SettledOnce
<1>1. Ticks \in Tasks /\ price \in Int
  BY DEF Tasks, TInv, Types
<1>2. app' = "up" /\ price' \in Int /\ UNCHANGED <<rows, orders>> /\ Free(Ticks)
  BY <1>1 DEF Signal, Idle, Free, tables
<1>3. CASE action \in {"MARKET", "LIMIT"} /\ PlaceOrder(Ticks, action)
  BY <1>1, <1>2, <1>3, PlacedSettles DEF SettledOnce
<1>4. CASE action \in {"CLOSE", "CANCEL"} /\ Handle(Ticks, Submit(eng, [action |-> action], price))
  <2>1. Outcome(eng, Submit(eng, [action |-> action], price))
    BY <1>1, <1>4, StopOutcome DEF TInv, Settling
  <2>2. TInv'
    BY <1>1, <1>2, <1>4, <2>1, HandleSettles
  <2> QED BY <1>2, <2>2 DEF SettledOnce
<1> QED BY <1>3, <1>4 DEF Signal

LEMMA RequestSettles ==
  ASSUME TInv, NEW t \in Apis, NEW op, ApiRequest(t, op)
  PROVE  TInv' /\ SettledOnce
<1> DEFINE K == <<Job("audit", Event, 0)>>
<1>1. Types /\ Settling /\ t \in Tasks
  BY DEF TInv, Tasks
<1>2. /\ app = "up" /\ todo[t] = <<>> /\ todo' = [todo EXCEPT ![t] = K]
      /\ UNCHANGED <<app, eng, price, posDb, pendingDb, rows, orders, loc>>
  BY DEF ApiRequest, Idle, memory, tables
<1>3. Job("audit", Event, 0) \in JobSet /\ Job("audit", Event, 0).kind = "audit"
  <2>1. Event.closed = NoClose /\ "audit" \in Kinds
    BY DEF Event, Kinds
  <2> QED BY <2>1 DEF Job, JobSet
<1>4. K \in Seq(JobSet) /\ Len(K) = 1 /\ K[1].kind = "audit" /\ K # <<>>
  BY <1>3
<1> HIDE DEF K
<1>5. /\ todo' \in [Tasks -> Seq(JobSet)] /\ todo'[t] = K
      /\ \A u \in Tasks : u # t => todo'[u] = todo[u]
  BY <1>1, <1>2, <1>4 DEF Types
<1>6. Types'
  BY <1>1, <1>2, <1>5 DEF Types
<1>7. JobsOK(K, eng)
  <2>1. \A i \in 1..Len(K) : i = 1
    BY <1>4
  <2> QED BY <1>4, <2>1 DEF JobsOK, Settles
<1>8. \A u \in Tasks : JobsOK(todo'[u], eng)
  BY <1>1, <1>5, <1>7 DEF Settling
<1>9. \A u \in Tasks : (Popped(u)' <=> Popped(u)) /\ (Waiting(u, "open")' <=> Waiting(u, "open"))
                       /\ \A x : Queueing(u, x)' <=> Queueing(u, x)
  BY <1>2, <1>4, <1>5 DEF Popped, Waiting, Queueing, Settles
<1>10. Settling'
  BY <1>1, <1>2, <1>8, <1>9 DEF Settling
<1>11. \A u \in Tasks : /\ Waiting(u, "queue")' <=> Waiting(u, "queue")
                        /\ Flushed(u)' <=> Flushed(u)
                        /\ Waiting(u, "queue") => todo'[u] = todo[u]
  BY <1>2, <1>4, <1>5 DEF Flushed, Waiting
<1>12. Flushing'
  <2>1. Flushing
    BY DEF TInv
  <2>2. \A u \in Tasks : Flushed(u) => todo'[u] = todo[u]
    BY <1>11 DEF Flushed
  <2>3. Flushes(Tasks, eng, pendingDb, orders)'
    BY <1>2, <1>11, <2>1, <2>2 DEF Flushing, Flushes
  <2>4. \A u, v \in Tasks : u # v => Apart(u, v)'
    BY <1>2, <1>11, <2>1 DEF Flushing, Apart
  <2> QED BY <2>3, <2>4 DEF Flushing
<1> QED BY <1>2, <1>6, <1>10, <1>12 DEF TInv, SettledOnce

LEMMA RequestActs ==
  ASSUME TInv, NEW t \in Apis, ApiAct(t)
  PROVE  TInv' /\ SettledOnce
<1>1. Types /\ Settling /\ t \in Tasks /\ EngineOK(eng) /\ price \in Int /\ eng \in Engine
  BY DEF TInv, Tasks, Types, Settling, EngineOK
<1>2. UNCHANGED <<app, rows, orders>> /\ Free(t) /\ Waiting(t, "audit")
  BY DEF ApiAct, Free, tables
<1>3. app' = "up"
  BY <1>1, <1>2 DEF Types, Waiting
<1>4. CASE price' \in Prices /\ PlaceOrder(t, "MARKET")
  BY <1>1, <1>2, <1>3, <1>4, PlacedSettles, Constants DEF SettledOnce
<1>5. CASE price' = price /\ PlaceOrder(t, "LIMIT")
  BY <1>1, <1>2, <1>3, <1>5, PlacedSettles DEF SettledOnce
<1>6. CASE price' = price /\ Handle(t, ForceClose(eng, price))
  <2>1. Outcome(eng, ForceClose(eng, price))
    BY <1>1, ForceCloseExits, ExitOutcome
  <2> QED BY <1>1, <1>2, <1>3, <1>6, <2>1, HandleSettles DEF SettledOnce
<1>7. CASE price' = price /\ Handle(t, CancelAll(eng))
  BY <1>1, <1>2, <1>3, <1>7, CancelOutcome, HandleSettles DEF SettledOnce
<1>8. CASE price' = price /\ Handle(t, Result(eng, <<>>))
  BY <1>1, <1>2, <1>3, <1>8, NothingOutcome, HandleSettles DEF SettledOnce
<1>9. CASE /\ price' = price /\ eng.pos # Flat
           /\ \E b \in Brackets(IF eng.pos.side = "LONG" THEN "BUY" ELSE "SELL") :
                RunOn(t, IF posDb = 0 THEN <<>> ELSE <<Job("sltp", Event, 0)>>,
                      [eng EXCEPT !.pos.sl = b.sl, !.pos.tp = b.tp], posDb, pendingDb, 0)
  <2>1. PICK b : /\ b.sl \in Int /\ b.tp \in Int
                 /\ RunOn(t, IF posDb = 0 THEN <<>> ELSE <<Job("sltp", Event, 0)>>,
                          [eng EXCEPT !.pos.sl = b.sl, !.pos.tp = b.tp], posDb, pendingDb, 0)
    BY <1>9, BracketsInt
  <2> DEFINE J == IF posDb = 0 THEN <<>> ELSE <<Job("sltp", Event, 0)>>
             e == [eng EXCEPT !.pos.sl = b.sl, !.pos.tp = b.tp]
  <2>2. Job("sltp", Event, 0) \in JobSet /\ Job("sltp", Event, 0).kind = "sltp"
    <3>1. Event.closed = NoClose /\ "sltp" \in Kinds
      BY DEF Event, Kinds
    <3> QED BY <3>1 DEF Job, JobSet
  <2>3. J \in Seq(JobSet) /\ \A i \in 1..Len(J) : J[i].kind = "sltp"
    <3>1. <<>> \in Seq(JobSet) /\ Len(<<>>) = 0
      OBVIOUS
    <3>2. <<Job("sltp", Event, 0)>> \in Seq(JobSet)
      BY <2>2, Tuples
    <3>3. \A i \in 1..Len(<<Job("sltp", Event, 0)>>) : <<Job("sltp", Event, 0)>>[i] = Job("sltp", Event, 0)
      OBVIOUS
    <3> QED BY <2>2, <3>1, <3>2, <3>3
  <2>4. eng.pos \in OpenPos
    BY <1>1, <1>9 DEF Engine
  <2>5. e \in Engine /\ e.oid = eng.oid /\ e.pending = eng.pending
    <3>1. [eng.pos EXCEPT !.sl = b.sl, !.tp = b.tp] \in OpenPos
      BY <2>1, <2>4 DEF OpenPos
    <3>2. e = [eng EXCEPT !.pos = [eng.pos EXCEPT !.sl = b.sl, !.tp = b.tp]]
      BY <1>1 DEF Engine
    <3> HIDE DEF e
    <3>3. \A q \in OpenPos : /\ [eng EXCEPT !.pos = q] \in Engine /\ [eng EXCEPT !.pos = q].oid = eng.oid
                             /\ [eng EXCEPT !.pos = q].pending = eng.pending
      BY <1>1 DEF Engine
    <3> QED BY <3>1, <3>2, <3>3
  <2>6. EngineOK(e) /\ Oids(e) = Oids(eng)
    BY <1>1, <2>5 DEF EngineOK, Oids
  <2>7. RunOn(t, J, e, posDb, pendingDb, 0)
    BY <2>1
  <2> HIDE DEF J, e
  <2>8. JobsOK(J, e)
    BY <2>3 DEF JobsOK, Settles
  <2>9. \A u \in Tasks : JobsOK(todo[u], e)
    BY <1>1, <2>5, <2>6 DEF Settling, JobsOK
  <2>10. /\ posDb \in Nat /\ Leads(pendingDb, orders') /\ orders' \in Seq(OrderRow) /\ rows' \in Seq(Row)
         /\ \A u \in Tasks : Popped(u) => Taken(loc[u].order, pendingDb, orders')
    BY <1>1, <1>2 DEF Types, Settling
  <2>11. \A x \in Oids(e) : x \in DOMAIN pendingDb \/ \E u \in Tasks : u # t /\ Queueing(u, x)
    <3>1. \A x : ~Queueing(t, x)
      BY <1>2 DEF Free, Waiting, Queueing
    <3> QED BY <1>1, <2>6, <3>1 DEF Settling
  <2>12. 0 \in Nat /\ price' \in Int
    BY <1>1, <1>9
  <2>121. Flushes(Tasks \ {t}, e, pendingDb, orders')
    <3>1. Flushes(Tasks, eng, pendingDb, orders) /\ ~Flushed(t)
      BY <1>2 DEF TInv, Flushing, Flushed, Waiting, Free
    <3>2. Flushes(Tasks \ {t}, eng, pendingDb, orders)
      BY <3>1, FlushesOthers
    <3> QED BY <1>2, <2>5, <2>6, <3>2 DEF Flushes
  <2>122. J # <<>> => J[1].kind # "queue"
    <3>1. J # <<>> => 1 \in 1..Len(J)
      BY <2>3
    <3> QED BY <2>3, <3>1
  <2>13. TInv'
    BY <1>1, <1>3, <2>3, <2>6, <2>7, <2>8, <2>9, <2>10, <2>11, <2>12, <2>121, <2>122, RunOnSettles
  <2> QED BY <1>2, <2>13 DEF SettledOnce
<1> QED BY <1>4, <1>5, <1>6, <1>7, <1>8, <1>9 DEF ApiAct


LEMMA JobSettles ==
  ASSUME TInv, NEW t \in Tasks, JobStep(t)
  PROVE  TInv' /\ SettledOnce
<1> DEFINE j == todo[t][1]
           l == loc[t]
<1>1. /\ rows \in Seq(Row) /\ orders \in Seq(OrderRow) /\ posDb \in Nat /\ Len(rows) + 1 \in Nat
      /\ l \in Locals
  BY DEF TInv, Types
<1>2. todo[t] # <<>> => j \in JobSet
  <2>1. todo[t] \in Seq(JobSet)
    BY DEF TInv, Types
  <2> QED BY <2>1
<1> HIDE DEF j, l
<1>3. CASE PersistQueued(t)
  BY <1>3, QueuedSettles
<1>31. CASE FlushQueued(t)
  BY <1>31, FlushSettles
<1>4. CASE MarkOrder(t)
  BY <1>4, MarkedSettles
<1>41. CASE MarkFails(t)
  BY <1>41, FailedSettles
<1>5. CASE PersistClose(t)
  <2> DEFINE c == j.closed
             r == l.row
             x == [status |-> "FILLED", pos |-> r, intent |-> "CLOSE"]
  <2>1. /\ todo[t] # <<>> /\ j.kind = "close" /\ UNCHANGED <<app, price>>
        /\ orders' = Append(orders, x) /\ Done(t, posDb, pendingDb, 0)
    BY <1>5 DEF PersistClose, Waiting, j, l
  <2>2. rows' = IF r = 0 THEN rows
                ELSE [rows EXCEPT ![r].open = FALSE, ![r].pnl = c.gross - c.entryFee - c.exitFee,
                                  ![r].fee = c.entryFee + c.exitFee]
    BY <1>5 DEF PersistClose, j, l
  <2>3. c.gross - c.entryFee - c.exitFee \in Int /\ c.entryFee + c.exitFee \in Int
    BY <1>2, <2>1 DEF JobSet, Closing, NoClose
  <2>4. x \in OrderRow
    BY <1>1 DEF Locals, OrderRow
  <2>5. rows' \in Seq(Row)
    <3> DEFINE pnl == c.gross - c.entryFee - c.exitFee
               fee == c.entryFee + c.exitFee
               no == FALSE
               new == [rows[r] EXCEPT !.open = no, !.pnl = pnl, !.fee = fee]
    <3>1. CASE r \in DOMAIN rows
      <4>1. rows' = IF r = 0 THEN rows ELSE [rows EXCEPT ![r] = new]
        BY <2>2
      <4>2. rows[r] \in Row /\ no \in BOOLEAN /\ pnl \in Int /\ fee \in Int
        BY <1>1, <2>3, <3>1
      <4> HIDE DEF pnl, fee, no
      <4>3. new \in Row
        BY <4>2 DEF Row
      <4> HIDE DEF new
      <4> QED BY <1>1, <3>1, <4>1, <4>3
    <3>2. CASE r \notin DOMAIN rows
      <4> HIDE DEF pnl, fee
      <4>1. rows' = rows
        BY <1>1, <2>2, <3>2
      <4> QED BY <1>1, <4>1
    <3> QED BY <3>1, <3>2
  <2>6. 0 \in Nat /\ j.kind # "queue"
    BY <2>1
  <2> HIDE DEF x
  <2> QED BY <1>1, <2>1, <2>4, <2>5, <2>6, PlainJobSettles DEF j
<1>6. CASE BookClose(t)
  <2>1. /\ todo[t] # <<>> /\ j.kind = "book" /\ UNCHANGED <<app, price, rows, orders>>
        /\ Done(t, 0, pendingDb, 0)
    BY <1>6 DEF BookClose, Waiting, j
  <2>2. 0 \in Nat /\ j.kind # "queue"
    BY <2>1
  <2> QED BY <1>1, <2>1, <2>2, PlainJobSettles DEF j
<1>7. CASE PersistOpen(t)
  <2> DEFINE x == [side |-> l.pos.side, entry |-> l.pos.entry, sl |-> l.pos.sl, tp |-> l.pos.tp,
                   fee |-> l.fee, open |-> TRUE, pnl |-> 0]
             n == Len(rows) + 1
  <2>1. /\ todo[t] # <<>> /\ j.kind = "open" /\ UNCHANGED <<app, price, orders>>
        /\ rows' = Append(rows, x) /\ Done(t, n, pendingDb, n)
    BY <1>7 DEF PersistOpen, Waiting, j, l
  <2>2. Waiting(t, "open")
    BY <2>1 DEF Waiting, j
  <2>3. l.pos # Flat
    BY <2>2 DEF TInv, Settling, l
  <2>4. l.pos \in OpenPos
    BY <1>1, <2>3 DEF Locals
  <2>5. x \in Row
    BY <1>1, <2>4 DEF Locals, OpenPos, Row
  <2> HIDE DEF x
  <2>6. rows' \in Seq(Row) /\ j.kind # "queue"
    BY <1>1, <2>1, <2>5
  <2> HIDE DEF n
  <2>7. n \in Nat
    BY <1>1 DEF n
  <2> QED BY <1>1, <2>1, <2>6, <2>7, PlainJobSettles DEF j
<1>8. CASE BookFee(t)
  <2>1. /\ todo[t] # <<>> /\ j.kind = "fee" /\ UNCHANGED <<app, price, rows, orders>>
        /\ Done(t, posDb, pendingDb, 0)
    BY <1>8 DEF BookFee, Waiting, j
  <2>2. 0 \in Nat /\ j.kind # "queue"
    BY <2>1
  <2> QED BY <1>1, <2>1, <2>2, PlainJobSettles DEF j
<1>9. CASE PersistFilled(t)
  <2> DEFINE x == IF l.pos = Flat THEN [status |-> "FILLED", pos |-> 0, intent |-> "none"]
                  ELSE [status |-> "FILLED", pos |-> l.row, intent |-> "OPEN"]
  <2>1. /\ todo[t] # <<>> /\ j.kind = "order" /\ UNCHANGED <<app, price, rows>>
        /\ orders' = Append(orders, x) /\ Done(t, posDb, pendingDb, 0)
    BY <1>9 DEF PersistFilled, Waiting, j, l
  <2>2. x \in OrderRow
    BY <1>1 DEF Locals, OrderRow
  <2>3. 0 \in Nat /\ j.kind # "queue"
    BY <2>1
  <2> HIDE DEF x
  <2> QED BY <1>1, <2>1, <2>2, <2>3, PlainJobSettles DEF j
<1> QED BY <1>3, <1>31, <1>4, <1>41, <1>5, <1>6, <1>7, <1>8, <1>9 DEF JobStep

LEMMA SltpSettles ==
  ASSUME TInv, NEW t \in Tasks, PersistSltp(t)
  PROVE  TInv' /\ SettledOnce
<1> DEFINE r == loc[t].row
           sl == loc[t].pos.sl
           tp == loc[t].pos.tp
<1>1. rows \in Seq(Row) /\ posDb \in Nat /\ loc[t] \in Locals
  BY DEF TInv, Types
<1>2. /\ todo[t] # <<>> /\ todo[t][1].kind = "sltp" /\ UNCHANGED <<app, price, orders>>
      /\ rows' = [rows EXCEPT ![r].sl = sl, ![r].tp = tp] /\ Done(t, posDb, pendingDb, 0)
  BY DEF PersistSltp, Waiting
<1>3. sl \in Int /\ tp \in Int
  BY <1>1 DEF Locals, OpenPos, Flat
<1> HIDE DEF r, sl, tp
<1>4. rows' \in Seq(Row)
  <2>1. CASE r \in DOMAIN rows
    <3>1. [rows[r] EXCEPT !.sl = sl, !.tp = tp] \in Row
      <4>1. rows[r] \in Row
        BY <1>1, <2>1
      <4> QED BY <1>3, <4>1 DEF Row
    <3>2. rows' = [rows EXCEPT ![r] = [rows[r] EXCEPT !.sl = sl, !.tp = tp]]
      BY <1>2
    <3> QED BY <1>1, <2>1, <3>1, <3>2
  <2>2. CASE r \notin DOMAIN rows
    <3>1. rows' = rows
      BY <1>1, <1>2, <2>2
    <3> QED BY <1>1, <3>1
  <2> QED BY <2>1, <2>2
<1>5. 0 \in Nat /\ todo[t][1].kind # "queue"
  BY <1>2
<1> QED BY <1>1, <1>2, <1>4, <1>5, PlainJobSettles

LEMMA CrashSettles ==
  ASSUME TInv, Crash
  PROVE  TInv' /\ SettledOnce
<1>1. /\ app' = "down" /\ eng' = Engine0 /\ price' = 0 /\ posDb' = 0 /\ pendingDb' = <<>>
      /\ todo' = [t \in Tasks |-> <<>>] /\ loc' = [t \in Tasks |-> NoLocals]
      /\ UNCHANGED <<rows, orders>>
  BY DEF Crash, tables
<1>2. /\ <<>> \in Seq(JobSet) /\ <<>> \in Seq(Pending) /\ Len(<<>>) = 0 /\ DOMAIN <<>> = {}
  OBVIOUS
<1>3. NoLocals \in Locals
  BY DEF NoLocals, Locals
<1>4. Types'
  BY <1>1, <1>2, <1>3 DEF TInv, Types
<1>5. EngineOK(Engine0) /\ Oids(Engine0) = {}
  BY <1>2 DEF EngineOK, Engine, Engine0, Oids
<1>6. \A t \in Tasks : JobsOK(todo'[t], Engine0) /\ ~Popped(t)' /\ ~Waiting(t, "open")'
  BY <1>1, <1>2 DEF JobsOK, Popped, Waiting
<1>7. Settling'
  BY <1>1, <1>2, <1>5, <1>6 DEF Settling, Leads
<1>8. \A t \in Tasks : ~Waiting(t, "queue")' /\ ~Flushed(t)'
  BY <1>1 DEF Flushed, Waiting
<1>9. Flushing'
  BY <1>1, <1>2, <1>8 DEF Flushing, Flushes, Apart
<1> QED BY <1>1, <1>4, <1>7, <1>9 DEF TInv, SettledOnce

\* Among finitely many rows one is the newest.
LEMMA HighestRow ==
  ASSUME NEW n \in Nat, NEW S \in SUBSET (1..n), S # {}
  PROVE  \E x \in S : \A y \in S : y <= x
<1> DEFINE Bounded == {k \in Nat : (\A y \in S : y <= k) => \E x \in S : \A y \in S : y <= x}
<1>1. 0 \in Bounded
  <2>1. PICK y \in S : TRUE
    OBVIOUS
  <2>2. ~(y <= 0)
    BY <2>1
  <2> QED BY <2>2
<1>2. ASSUME NEW k \in Nat, k \in Bounded PROVE k + 1 \in Bounded
  <2>1. CASE k + 1 \in S
    BY <2>1
  <2>2. CASE k + 1 \notin S
    <3>1. (\A y \in S : y <= k + 1) => \A y \in S : y <= k
      BY <2>2
    <3> QED BY <1>2, <3>1
  <2> QED BY <2>1, <2>2
<1>3. Nat \subseteq Bounded
  <2> HIDE DEF Bounded
  <2> QED BY <1>1, <1>2, NatSet
<1> QED BY <1>3

LEMMA RestartSettles ==
  ASSUME TInv, Restart
  PROVE  TInv' /\ SettledOnce
<1>1. /\ app = "down" /\ app' = "up" /\ UNCHANGED <<price, pendingDb, rows, orders, todo, loc>>
  BY DEF Restart, tables
<1>2. Types /\ Settling /\ eng = Engine0 /\ DOMAIN pendingDb = {} /\ \A t \in Tasks : todo[t] = <<>>
  BY <1>1 DEF TInv, Types
<1>3. rows \in Seq(Row)
  BY <1>2 DEF Types
<1>4. posDb' \in Nat /\ eng' \in Engine /\ eng'.pending = <<>> /\ eng'.oid = 0
  <2>1. CASE OpenRows = {}
    BY <1>2, <2>1 DEF Restart, Types, Settling, EngineOK, Engine0
  <2>2. CASE OpenRows # {}
    <3> DEFINE r == CHOOSE x \in OpenRows : \A y \in OpenRows : y <= x
               pos == [side |-> rows[r].side, entry |-> rows[r].entry, sl |-> rows[r].sl, tp |-> rows[r].tp]
    <3>1. posDb' = r /\ eng' = [Engine0 EXCEPT !.fee = rows[r].fee, !.pos = pos]
      BY <2>2 DEF Restart
    <3>2. r \in OpenRows
      <4>1. OpenRows \subseteq 1..Len(rows) /\ Len(rows) \in Nat
        BY <1>3 DEF OpenRows, RowIds
      <4> QED BY <2>2, <4>1, HighestRow
    <3> HIDE DEF r
    <3>3. rows[r] \in Row /\ r \in Nat
      BY <1>3, <3>2 DEF OpenRows, RowIds
    <3>4. pos \in OpenPos
      BY <3>3 DEF Row, OpenPos
    <3>5. <<>> \in Seq(Pending) /\ rows[r].fee \in Int
      BY <3>3 DEF Row
    <3> HIDE DEF pos
    <3>6. eng' = [pos |-> pos, fee |-> rows[r].fee, pending |-> <<>>, oid |-> 0]
      BY <3>1 DEF Engine0
    <3> DEFINE none == <<>>
    <3>7. none \in Seq(Pending) /\ 0 \in Nat /\ none = <<>>
      BY <3>5
    <3>8. eng' = [pos |-> pos, fee |-> rows[r].fee, pending |-> none, oid |-> 0]
      BY <3>6
    <3> HIDE DEF none
    <3>9. eng'.pending = none /\ eng'.oid = 0
      BY <3>8
    <3>10. eng' \in Engine
      BY <3>4, <3>5, <3>7, <3>8 DEF Engine
    <3> QED BY <3>1, <3>3, <3>7, <3>9, <3>10
  <2> QED BY <2>1, <2>2
<1>5. EngineOK(eng') /\ Oids(eng') = {} /\ Oids(eng) = {}
  <2>1. DOMAIN <<>> = {}
    OBVIOUS
  <2> QED BY <1>2, <1>4, <2>1 DEF EngineOK, Oids, Engine0
<1>6. Types'
  BY <1>1, <1>2, <1>4 DEF Types
<1>7. \A t \in Tasks : JobsOK(todo'[t], eng') /\ ~Popped(t)' /\ ~Waiting(t, "open")'
  <2>1. Len(<<>>) = 0
    OBVIOUS
  <2> QED BY <1>1, <1>2, <2>1 DEF JobsOK, Popped, Waiting
<1>8. Settling'
  BY <1>1, <1>2, <1>5, <1>7 DEF Settling
<1>9. \A t \in Tasks : ~Waiting(t, "queue")' /\ ~Flushed(t)'
  BY <1>1, <1>2 DEF Flushed, Waiting
<1>10. Flushing'
  BY <1>1, <1>2, <1>9 DEF Flushing, Flushes, Apart
<1> QED BY <1>1, <1>6, <1>8, <1>10 DEF TInv, SettledOnce

LEMMA TStep ==
  ASSUME TInv, [Next]_vars
  PROVE  TInv' /\ SettledOnce
<1>1. ASSUME NEW p \in Prices, Tick(p) PROVE TInv' /\ SettledOnce
  BY <1>1, TickSettles
<1>2. ASSUME NEW action \in {"MARKET", "LIMIT", "CLOSE", "CANCEL"}, Signal(action)
      PROVE  TInv' /\ SettledOnce
  BY <1>2, SignalSettles
<1>3. ASSUME NEW t \in Apis, NEW op \in {"order", "close", "sltp", "cancel"}, ApiRequest(t, op)
      PROVE  TInv' /\ SettledOnce
  BY <1>3, RequestSettles
<1>4. ASSUME NEW t \in Apis, ApiAct(t) PROVE TInv' /\ SettledOnce
  BY <1>4, RequestActs
<1>5. ASSUME NEW t \in Apis, PersistSltp(t) PROVE TInv' /\ SettledOnce
  BY <1>5, SltpSettles DEF Tasks
<1>6. ASSUME NEW t \in Tasks, JobStep(t) PROVE TInv' /\ SettledOnce
  BY <1>6, JobSettles
<1>7. CASE Crash
  BY <1>7, CrashSettles
<1>8. CASE Restart
  BY <1>8, RestartSettles
<1>9. CASE UNCHANGED vars
  <2>1. UNCHANGED <<app, eng, price, posDb, pendingDb, rows, orders, todo, loc>>
    BY <1>9 DEF vars, memory, tables
  <2>2. Types'
    BY <2>1 DEF TInv, Types
  <2>3. Settling'
    BY <2>1 DEF TInv, Settling, Popped, Waiting, Queueing
  <2>4. Flushing'
    BY <2>1 DEF TInv, Flushing, Flushes, Apart, Flushed, Waiting
  <2> QED BY <2>1, <2>2, <2>3, <2>4 DEF TInv, SettledOnce
<1> QED BY <1>1, <1>2, <1>3, <1>4, <1>5, <1>6, <1>7, <1>8, <1>9 DEF Next

LEMMA TAlways == Spec => []TInv
<1>1. TInv /\ [Next]_vars => TInv'
  BY TStep
<1> QED BY TInit, <1>1, PTL DEF Spec

\* OrdersSettleOnce: whatever handlers and requests cross each other, and over crashes, a
\* row of table orders that is FILLED or CANCELLED is never written again (paper.py:153).
THEOREM SettlesOnce == Spec => OrdersSettleOnce
<1>1. TInv /\ [Next]_vars => [SettledOnce]_vars
  BY TStep
<1> QED BY TAlways, <1>1, PTL DEF Spec, OrdersSettleOnce, SettledOnce

\* PendingTracked: when no handler runs, each LIMIT order of the engine has its NEW row,
\* and _pending_db leads to it (paper.py:140).
THEOREM RestingOrdersTracked == Spec => []PendingTracked
<1>1. TInv => PendingTracked
  <2> SUFFICES ASSUME TInv, AtRest, NEW i \in DOMAIN eng.pending
               PROVE  /\ eng.pending[i].oid \in DOMAIN pendingDb
                      /\ orders[pendingDb[eng.pending[i].oid]].status = "NEW"
    BY DEF PendingTracked
  <2>1. eng.pending[i].oid \in Oids(eng) /\ \A t \in Tasks : ~Queueing(t, eng.pending[i].oid)
    BY DEF Oids, AtRest, Queueing
  <2>2. eng.pending[i].oid \in DOMAIN pendingDb
    BY <2>1 DEF TInv, Settling
  <2>3. orders[pendingDb[eng.pending[i].oid]] # Unseen
    BY <2>1, <2>2 DEF TInv, Flushing, Flushes, AtRest, Flushed, Waiting
  <2> QED BY <2>2, <2>3 DEF TInv, Settling, Leads, Unfilled
<1> QED BY TAlways, <1>1, PTL
--------------------------------------------------------------------------------
(* A bot without API requests: database, ledger and engine agree.  The engine  *)
(* changes only between two lists of jobs, so the job that is awaited says how *)
(* far the tables have followed it.                                            *)

OpenIn(R) == {r \in DOMAIN R : R[r].open}
LinkedIn(O, r, intent) == {o \in DOMAIN O : O[o].pos = r /\ O[o].intent = intent}
Kind(J) == IF J = <<>> THEN "none" ELSE J[1].kind
One(S) == \E x \in S : S = {x}

\* The OPEN rows of R are the engine's position, which is p's.
Same(row, e) ==
  /\ row.side = e.pos.side /\ row.entry = e.pos.entry
  /\ row.sl = e.pos.sl /\ row.tp = e.pos.tp /\ row.fee = e.fee
Matches(e, p, R) ==
  /\ e.pos = Flat => OpenIn(R) = {} /\ p = 0
  /\ e.pos # Flat => OpenIn(R) = {p} /\ Same(R[p], e)
\* Rows R when a job of kind k is next.
Known(k, e, p, R) ==
  /\ k \notin {"close", "book", "open"} => Matches(e, p, R)
  /\ k \in {"fee", "mark", "order"} => e.pos # Flat
  /\ k = "close" => OpenIn(R) = {p}
  /\ k = "book" => OpenIn(R) = {} /\ p \in DOMAIN R
  /\ k = "open" => OpenIn(R) = {} /\ p = 0
\* What the ledger holds for row r when the jobs J are left.
Owed(J, p, R, r) ==
  IF r = p /\ Kind(J) = "fee" THEN 0
  ELSE IF r = p /\ Kind(J) = "book"
  THEN R[r].pnl - J[1].closed.gross + J[1].closed.exitFee
  ELSE IF R[r].open THEN -R[r].fee ELSE R[r].pnl
Paid(J, p, R, B) ==
  /\ B \in [0..Len(R) -> Int] /\ B[0] = 0
  /\ Kind(J) = "close" => J[1].closed.entryFee = R[p].fee
  /\ \A r \in DOMAIN R : B[r] = Owed(J, p, R, r)
\* The orders of each row when a job of kind k is next.
PairedRow(k, p, R, O, r) ==
  /\ IF r = p /\ k \in {"fee", "mark", "order"} THEN LinkedIn(O, r, "OPEN") = {}
     ELSE One(LinkedIn(O, r, "OPEN"))
  /\ IF R[r].open THEN LinkedIn(O, r, "CLOSE") = {} ELSE One(LinkedIn(O, r, "CLOSE"))
Paired(k, p, R, O) ==
  /\ \A o \in DOMAIN O : O[o].pos \in DOMAIN R \cup {0}
  /\ \A r \in DOMAIN R : PairedRow(k, p, R, O, r)
Written(J, e, p, R, B, O, crashes) ==
  /\ Known(Kind(J), e, p, R)
  /\ crashes = 0 => Paired(Kind(J), p, R, O) /\ (e.oid = 0 => Paid(J, p, R, B))

\* The jobs J end with the engine's position written down, and their rows can be found.
Plan(J, e) ==
  /\ Chain(J)
  /\ \A i \in 1..Len(J) : J[i].kind \notin {"audit", "sltp", "none"}
  /\ J # <<>> => J[Len(J)].kind \in
       {"queue", "cancel"} \cup IF e.pos = Flat THEN {"book"} ELSE {"mark", "order"}
Held(J, pend, from) ==
  /\ \A i \in from..Len(J) : Settles(J[i]) => J[i].oid \in DOMAIN pend
  /\ \A i, k \in 1..Len(J) : Settles(J[i]) /\ Settles(J[k]) /\ i # k => J[i].oid # J[k].oid

Following ==
  LET J == todo[Ticks]
  IN /\ Plan(J, eng) /\ Held(J, pendingDb, 2)
     /\ J # <<>> => /\ loc[Ticks].row = posDb /\ loc[Ticks].pos = eng.pos
                    /\ loc[Ticks].fee = eng.fee
     /\ Written(J, eng, posDb, rows, booked, orders, used.crash)
\* Only the order whose commit is awaited has a row that nobody sees yet.
Seen ==
  /\ \A x \in DOMAIN pendingDb : orders[pendingDb[x]] = Unseen =>
       Flushed(Ticks) /\ pendingDb[x] = loc[Ticks].order
  /\ Popped(Ticks) => orders[loc[Ticks].order] = Unfilled
SInv ==
  /\ used \in [api : Nat, crash : Nat]
  /\ app = "up" => Following
  /\ app = "down" => used.crash # 0 /\ posDb = 0 /\ \A x, y \in OpenIn(rows) : x = y

LEMMA OnlyFees ==
  ASSUME NEW J \in Seq(JobSet), NEW e, NEW pend, Held(J, pend, 1),
         NEW i \in 1..Len(J), Immediate(J[i], e, pend)
  PROVE  J[i].kind = "fee" /\ e.fee = 0
BY DEF Held, Immediate, Settles

\* Of these jobs only a fee of 0 is passed over, and what comes after it is awaited.
LEMMA FirstAwaited ==
  ASSUME NEW J \in Seq(JobSet), NEW e, NEW pend, Plan(J, e), Held(J, pend, 1),
         NEW k \in 1..Len(J), Skipped(J, k - 1, e, pend)
  PROVE  k = 1 \/ (k = 2 /\ J[1].kind = "fee" /\ e.fee = 0 /\ J[2].kind \in {"mark", "order"})
<1>1. Len(J) \in Nat
  OBVIOUS
<1>2. CASE k # 1
  <2>1. 1 \in 1..(k - 1) /\ 1 \in 1..Len(J) /\ 1 \in 1..(Len(J) - 1)
    BY <1>1, <1>2
  <2>2. Immediate(J[1], e, pend)
    BY <2>1 DEF Skipped
  <2>3. J[1].kind = "fee" /\ e.fee = 0
    BY <2>1, <2>2, OnlyFees
  <2>4. Link(J[1], J[1 + 1])
    BY <2>1 DEF Plan, Chain
  <2>5. J[2].kind \in {"mark", "order"}
    BY <2>3, <2>4 DEF Link
  <2>6. CASE k # 2
    <3>1. 2 \in 1..(k - 1) /\ 2 \in 1..Len(J)
      BY <1>1, <1>2, <2>6
    <3>2. Immediate(J[2], e, pend)
      BY <3>1 DEF Skipped
    <3> QED BY <2>5, <3>1, <3>2, OnlyFees
  <2> QED BY <2>3, <2>5, <2>6
<1> QED BY <1>2

LEMMA PlanOfNone ==
  ASSUME NEW e, NEW pend, NEW from \in Nat \ {0}, NEW none, none = <<>>
  PROVE  Plan(none, e) /\ Held(none, pend, from)
<1>1. Len(none) = 0
  OBVIOUS
<1>2. 1..Len(none) = {} /\ 1..(Len(none) - 1) = {} /\ from..Len(none) = {}
  BY <1>1
<1>3. Plan(none, e)
  BY <1>2 DEF Plan, Chain
<1>4. Held(none, pend, from)
  BY <1>2 DEF Held
<1> QED BY <1>3, <1>4

LEMMA PlanOfTail ==
  ASSUME NEW J \in Seq(JobSet), J # <<>>, NEW e, Plan(J, e), NEW pend, Held(J, pend, 2)
  PROVE  /\ Tail(J) \in Seq(JobSet) /\ Plan(Tail(J), e) /\ Held(Tail(J), pend, 1)
         /\ Tail(J) = <<>> => J[1].kind \in
              {"queue", "cancel"} \cup IF e.pos = Flat THEN {"book"} ELSE {"mark", "order"}
         /\ Tail(J) # <<>> => Link(J[1], Tail(J)[1])
<1> DEFINE K == Tail(J)
<1>1. /\ K \in Seq(JobSet) /\ Len(K) = Len(J) - 1 /\ Len(J) \in Nat \ {0}
      /\ \A i \in 1..Len(K) : i + 1 \in 2..Len(J) /\ K[i] = J[i + 1]
  OBVIOUS
<1> HIDE DEF K
<1>2. Chain(K)
  <2> SUFFICES ASSUME NEW i \in 1..(Len(K) - 1) PROVE Link(K[i], K[i + 1])
    BY DEF Chain
  <2>1. i + 1 \in 1..(Len(J) - 1) /\ K[i] = J[i + 1] /\ K[i + 1] = J[(i + 1) + 1]
    BY <1>1
  <2> QED BY <2>1 DEF Plan, Chain
<1>3. K # <<>> => Len(K) \in 1..Len(K) /\ K[Len(K)] = J[Len(J)]
  BY <1>1
<1>4. Plan(K, e)
  BY <1>1, <1>2, <1>3 DEF Plan
<1>5. Held(K, pend, 1)
  <2>1. \A i \in 1..Len(K) : Settles(K[i]) => K[i].oid \in DOMAIN pend
    BY <1>1 DEF Held
  <2>2. ASSUME NEW i \in 1..Len(K), NEW k \in 1..Len(K), Settles(K[i]), Settles(K[k]), i # k
        PROVE  K[i].oid # K[k].oid
    <3>1. i + 1 \in 1..Len(J) /\ k + 1 \in 1..Len(J) /\ i + 1 # k + 1
      BY <1>1, <2>2
    <3>2. K[i] = J[i + 1] /\ K[k] = J[k + 1]
      BY <1>1
    <3> QED BY <2>2, <3>1, <3>2 DEF Held
  <2> QED BY <2>1, <2>2 DEF Held
<1>6. K = <<>> => J[Len(J)] = J[1]
  <2>1. K = <<>> => Len(J) = 1
    BY <1>1
  <2> QED BY <2>1
<1>7. K # <<>> => Link(J[1], K[1])
  <2>1. ASSUME K # <<>> PROVE Link(J[1], K[1])
    <3>1. 1 \in 1..(Len(J) - 1) /\ K[1] = J[1 + 1]
      BY <1>1, <2>1
    <3> QED BY <3>1 DEF Plan, Chain
  <2> QED BY <2>1
<1> QED BY <1>1, <1>4, <1>5, <1>6, <1>7 DEF K, Plan

\* What is written when the jobs J are left is written too when a fee of 0 is passed over,
\* or when no position was left to open.
LEMMA WrittenOn ==
  ASSUME NEW J \in Seq(JobSet), NEW K \in Seq(JobSet), NEW e, NEW p, NEW R, NEW B, NEW O, NEW n,
         Written(J, e, p, R, B, O, n),
         \/ Kind(J) = "fee" /\ e.fee = 0 /\ Kind(K) \in {"mark", "order"}
         \/ Kind(J) = "open" /\ e.pos = Flat /\ Kind(K) = "none"
  PROVE  Written(K, e, p, R, B, O, n)
<1>1. CASE Kind(J) = "fee" /\ e.fee = 0 /\ Kind(K) \in {"mark", "order"}
  <2>1. e.pos # Flat /\ Matches(e, p, R)
    BY <1>1 DEF Written, Known
  <2>2. Known(Kind(K), e, p, R)
    BY <1>1, <2>1 DEF Known
  <2>3. Paired(Kind(J), p, R, O) => Paired(Kind(K), p, R, O)
    BY <1>1 DEF Paired, PairedRow
  <2>4. Paid(J, p, R, B) => Paid(K, p, R, B)
    <3>1. OpenIn(R) = {p} /\ R[p].fee = 0
      BY <1>1, <2>1 DEF Matches, Same
    <3>2. \A r \in DOMAIN R : Owed(J, p, R, r) = Owed(K, p, R, r)
      <4>1. p \in OpenIn(R)
        BY <3>1
      <4>2. R[p].open
        BY <4>1 DEF OpenIn
      <4> QED BY <1>1, <3>1, <4>2 DEF Owed
    <3> QED BY <1>1, <3>2 DEF Paid
  <2> QED BY <2>2, <2>3, <2>4 DEF Written
<1>2. CASE Kind(J) = "open" /\ e.pos = Flat /\ Kind(K) = "none"
  <2>1. Known(Kind(K), e, p, R)
    BY <1>2 DEF Written, Known, Matches
  <2>2. Paired(Kind(J), p, R, O) => Paired(Kind(K), p, R, O)
    BY <1>2 DEF Paired, PairedRow
  <2>3. Paid(J, p, R, B) => Paid(K, p, R, B)
    <3>1. \A r \in DOMAIN R : Owed(J, p, R, r) = Owed(K, p, R, r)
      BY <1>2 DEF Owed
    <3> QED BY <1>2, <3>1 DEF Paid
  <2> QED BY <2>1, <2>2, <2>3 DEF Written
<1> QED BY <1>1, <1>2

LEMMA RunOnFollows ==
  ASSUME TInv, NEW J \in Seq(JobSet), NEW e, NEW p, NEW pend, NEW new,
         RunOn(Ticks, J, e, p, pend, new), Plan(J, e), Held(J, pend, 1), Kind(J) = "fee" => new = p,
         Written(J, e, p, rows', booked', orders', used'.crash)
  PROVE  Following'
<1>1. Ticks \in Tasks /\ todo \in [Tasks -> Seq(JobSet)] /\ loc \in [Tasks -> Locals]
  BY DEF Tasks, TInv, Types
<1>2. /\ eng' = e /\ posDb' = p
      /\ Stops(Ticks, J, e, pend) \/ \E k \in 1..Len(J) : Awaits(Ticks, k, J, e, p, pend, new)
  BY RunOnCases
<1>3. Len(J) \in Nat
  OBVIOUS
<1>4. CASE Stops(Ticks, J, e, pend)
  <2>1. todo'[Ticks] = <<>>
    BY <1>1, <1>4 DEF Stops
  <2>2. Plan(todo'[Ticks], e) /\ Held(todo'[Ticks], pendingDb', 2)
    BY <2>1, PlanOfNone
  <2>3. J = <<>> \/ (J # <<>> /\ Kind(J) = "open" /\ e.pos = Flat)
    <3> SUFFICES ASSUME J # <<>> PROVE Kind(J) = "open" /\ e.pos = Flat
      OBVIOUS
    <3>1. Len(J) \in 1..Len(J)
      BY <1>3
    <3>2. ~Skipped(J, Len(J), e, pend)
      <4>1. ASSUME Skipped(J, Len(J), e, pend) PROVE FALSE
        <5>1. Immediate(J[Len(J)], e, pend)
          BY <3>1, <4>1 DEF Skipped
        <5>2. J[Len(J)].kind = "fee"
          BY <3>1, <5>1, OnlyFees
        <5> QED BY <5>2 DEF Plan
      <4> QED BY <4>1
    <3>3. PICK k \in 1..Len(J) : Fails(J[k], e) /\ Skipped(J, k - 1, e, pend)
      BY <1>4, <3>2 DEF Stops
    <3>4. k = 1
      BY <3>3, FirstAwaited DEF Fails
    <3> QED BY <3>3, <3>4 DEF Fails, Kind
  <2>4. Written(todo'[Ticks], e, p, rows', booked', orders', used'.crash)
    <3>1. CASE J = <<>>
      BY <2>1, <3>1
    <3>2. CASE J # <<>>
      <4>1. todo'[Ticks] \in Seq(JobSet) /\ Kind(todo'[Ticks]) = "none"
        BY <2>1 DEF Kind
      <4> QED BY <2>3, <3>2, <4>1, WrittenOn
    <3> QED BY <3>1, <3>2
  <2> QED BY <1>2, <2>1, <2>2, <2>4 DEF Following
<1>5. ASSUME NEW k \in 1..Len(J), Awaits(Ticks, k, J, e, p, pend, new) PROVE Following'
  <2> DEFINE K == SubSeq(J, k, Len(J))
  <2>1. todo'[Ticks] = K /\ loc'[Ticks] = LocalsFor(J[k], e, p, pend, new)
    BY <1>1, <1>5 DEF Awaits
  <2>2. pendingDb' = IF Settles(J[k]) THEN Without(pend, J[k].oid) ELSE pend
    BY <1>5 DEF Awaits
  <2>3. /\ K \in Seq(JobSet) /\ Len(K) = Len(J) - k + 1
        /\ \A i \in 1..Len(K) : (k - 1) + i \in 1..Len(J) /\ K[i] = J[(k - 1) + i]
    BY <1>3
  <2>4. k = 1 \/ (k = 2 /\ J[1].kind = "fee" /\ e.fee = 0 /\ J[2].kind \in {"mark", "order"})
    BY <1>5, FirstAwaited DEF Awaits
  <2> HIDE DEF K
  <2>5. K # <<>> /\ K[1] = J[k] /\ K[Len(K)] = J[Len(J)] /\ J # <<>>
    BY <1>3, <2>3
  <2>6. Plan(K, e)
    <3>1. Chain(K)
      <4> SUFFICES ASSUME NEW i \in 1..(Len(K) - 1) PROVE Link(K[i], K[i + 1])
        BY DEF Chain
      <4>1. (k - 1) + i \in 1..(Len(J) - 1) /\ K[i] = J[(k - 1) + i]
        <5>1. i \in 1..Len(K) /\ i <= Len(J) - k /\ i \in Nat \ {0}
          BY <1>3, <2>3
        <5> QED BY <1>3, <2>3, <5>1
      <4>2. K[i + 1] = J[((k - 1) + i) + 1]
        <5>1. i + 1 \in 1..Len(K) /\ (k - 1) + (i + 1) = ((k - 1) + i) + 1
          BY <1>3, <2>3
        <5>2. K[i + 1] = J[(k - 1) + (i + 1)]
          BY <2>3, <5>1
        <5> QED BY <5>1, <5>2
      <4> QED BY <4>1, <4>2 DEF Plan, Chain
    <3> QED BY <2>3, <2>5, <3>1 DEF Plan
  <2>7. Held(K, pendingDb', 2)
    <3>1. ASSUME NEW i \in 1..Len(K), NEW m \in 1..Len(K), Settles(K[i]), Settles(K[m]), i # m
          PROVE  K[i].oid # K[m].oid
      <4>1. (k - 1) + i # (k - 1) + m
        BY <3>1, <1>3, <2>3
      <4>2. (k - 1) + i \in 1..Len(J) /\ K[i] = J[(k - 1) + i]
        BY <2>3
      <4>3. (k - 1) + m \in 1..Len(J) /\ K[m] = J[(k - 1) + m]
        BY <2>3
      <4> QED BY <3>1, <4>1, <4>2, <4>3 DEF Held
    <3>2. ASSUME NEW i \in 2..Len(K), Settles(K[i]) PROVE K[i].oid \in DOMAIN pendingDb'
      <4>1. i \in 1..Len(K) /\ 1 \in 1..Len(K) /\ i # 1
        BY <1>3, <2>3
      <4>2. K[i].oid \in DOMAIN pend
        BY <2>3, <3>2, <4>1 DEF Held
      <4>3. Settles(J[k]) => K[i].oid # J[k].oid
        BY <2>5, <3>1, <3>2, <4>1
      <4> QED BY <2>2, <4>2, <4>3 DEF Without
    <3> QED BY <3>1, <3>2 DEF Held
  <2>8. Written(K, e, p, rows', booked', orders', used'.crash)
    <3>1. CASE k = 1
      <4>1. K = J
        BY <3>1, <2>3, SeqEqual
      <4> QED BY <4>1
    <3>2. CASE k # 1
      <4>1. Kind(J) = "fee" /\ e.fee = 0 /\ Kind(K) \in {"mark", "order"}
        BY <2>4, <2>5, <3>2 DEF Kind
      <4> QED BY <2>3, <4>1, WrittenOn
    <3> QED BY <3>1, <3>2
  <2>9. loc'[Ticks].row = p /\ loc'[Ticks].pos = e.pos /\ loc'[Ticks].fee = e.fee
    <3>1. J[k].kind = "fee" => new = p
      BY <2>4, <2>5 DEF Kind
    <3> QED BY <2>1, <3>1 DEF LocalsFor
  <2> QED BY <1>2, <2>1, <2>6, <2>7, <2>8, <2>9 DEF Following
<1> QED BY <1>2, <1>4, <1>5

\* What a handler decides is not yet written, and follows from where the tables stand.
LEMMA HandleFollows ==
  ASSUME Apis = {}, TInv, Following, todo[Ticks] = <<>>,
         UNCHANGED <<rows, orders, booked, used>>, NEW r, Outcome(eng, r), Handle(Ticks, r)
  PROVE  Following'
<1> DEFINE J == Jobs(r.events)
           e == r.eng
<1>1. /\ J \in Seq(JobSet)
      /\ \A i \in 1..Len(J) : Settles(J[i]) => J[i].oid \in Oids(eng)
      /\ \A i, k \in 1..Len(J) : Settles(J[i]) /\ Settles(J[k]) /\ i # k => J[i].oid # J[k].oid
  BY DEF Outcome
<1>2. \/ Trades(J, eng, e)
      \/ /\ Chain(J) /\ \A i \in 1..Len(J) : J[i].kind = "cancel"
         /\ e.pos = eng.pos /\ e.fee = eng.fee
      \/ J = <<Task("queue", NoClose, eng.oid + 1)>> /\ e.pos = eng.pos /\ e.fee = eng.fee
  BY DEF Outcome
<1>3. RunOn(Ticks, J, e, posDb, pendingDb, 0)
  BY DEF Handle
<1> HIDE DEF J, e
<1>4. Len(J) \in Nat /\ (J # <<>> => 1 \in 1..Len(J) /\ Len(J) \in 1..Len(J))
  BY <1>1
<1>5. Held(J, pendingDb, 1)
  <2>1. \A x \in Oids(eng) : x \in DOMAIN pendingDb
    BY DEF TInv, Settling, Queueing, Tasks
  <2> QED BY <1>1, <2>1 DEF Held
<1>6. ASSUME J = <<Task("queue", NoClose, eng.oid + 1)>>
      PROVE  Len(J) = 1 /\ J[1].kind = "queue" /\ \A i \in 1..Len(J) : i = 1
  <2>1. Len(J) = 1 /\ J[1] = Task("queue", NoClose, eng.oid + 1)
    BY <1>6
  <2>2. 1..Len(J) = {1}
    BY <2>1
  <2> QED BY <2>1, <2>2 DEF Task
<1>7. Plan(J, e)
  <2>1. CASE Trades(J, eng, e)
    BY <2>1 DEF Trades, Plan
  <2>2. CASE Chain(J) /\ \A i \in 1..Len(J) : J[i].kind = "cancel"
    BY <1>4, <2>2 DEF Plan
  <2>3. CASE J = <<Task("queue", NoClose, eng.oid + 1)>>
    <3>1. Len(J) = 1 /\ J[1].kind = "queue" /\ \A i \in 1..Len(J) : i = 1
      BY <1>6, <2>3
    <3>2. 1..(Len(J) - 1) = {}
      BY <3>1
    <3> QED BY <3>1, <3>2 DEF Plan, Chain
  <2> QED BY <1>2, <2>1, <2>2, <2>3
<1>8. \/ Kind(J) \in {"none", "cancel", "queue"} /\ e.pos = eng.pos /\ e.fee = eng.fee
      \/ Kind(J) = "open" /\ eng.pos = Flat
      \/ Kind(J) = "close" /\ eng.pos # Flat /\ J[1].closed.entryFee = eng.fee
  <2>1. CASE Trades(J, eng, e)
    BY <2>1 DEF Trades, Kind
  <2>2. CASE (\A i \in 1..Len(J) : J[i].kind = "cancel") /\ e.pos = eng.pos /\ e.fee = eng.fee
    BY <1>4, <2>2 DEF Kind
  <2>3. CASE J = <<Task("queue", NoClose, eng.oid + 1)>> /\ e.pos = eng.pos /\ e.fee = eng.fee
    <3>1. J[1].kind = "queue"
      BY <1>6, <2>3
    <3> QED BY <2>3, <3>1 DEF Kind
  <2> QED BY <1>2, <2>1, <2>2, <2>3
<1>9. Kind(todo[Ticks]) = "none" /\ Written(todo[Ticks], eng, posDb, rows, booked, orders, used.crash)
  BY DEF Following, Kind
<1>10. Matches(eng, posDb, rows)
  BY <1>9 DEF Written, Known
<1>11. Known(Kind(J), e, posDb, rows)
  <2>1. CASE Kind(J) \in {"none", "cancel", "queue"} /\ e.pos = eng.pos /\ e.fee = eng.fee
    BY <1>10, <2>1 DEF Known, Matches, Same
  <2>2. CASE (Kind(J) = "open" /\ eng.pos = Flat) \/ (Kind(J) = "close" /\ eng.pos # Flat)
    BY <1>10, <2>2 DEF Known, Matches
  <2> QED BY <1>8, <2>1, <2>2
<1>12. Paired(Kind(todo[Ticks]), posDb, rows, orders) => Paired(Kind(J), posDb, rows, orders)
  BY <1>8, <1>9 DEF Paired, PairedRow
<1>13. Paid(todo[Ticks], posDb, rows, booked) => Paid(J, posDb, rows, booked)
  <2>1. \A x \in DOMAIN rows : Owed(todo[Ticks], posDb, rows, x) = Owed(J, posDb, rows, x)
    BY <1>8, <1>9 DEF Owed
  <2>2. Kind(J) = "close" => J[1].closed.entryFee = rows[posDb].fee
    BY <1>8, <1>10 DEF Matches, Same
  <2> QED BY <2>1, <2>2 DEF Paid
<1>131. e.oid = 0 => eng.oid = 0
  <2>1. eng.oid \in Nat /\ (e.oid = eng.oid \/ e.oid = eng.oid + 1)
    BY DEF Outcome, e, TInv, Settling, EngineOK, Engine
  <2> QED BY <2>1
<1>14. Written(J, e, posDb, rows', booked', orders', used'.crash)
  BY <1>9, <1>11, <1>12, <1>13, <1>131 DEF Written
<1> QED BY <1>1, <1>3, <1>5, <1>7, <1>8, <1>14, RunOnFollows

\* The job that comes after the awaited one.
LEMMA NextJob ==
  ASSUME TInv, Following, todo[Ticks] # <<>>, NEW J, J = todo[Ticks], NEW K, K = Tail(J)
  PROVE  /\ K \in Seq(JobSet) /\ J \in Seq(JobSet) /\ Plan(K, eng) /\ Held(K, pendingDb, 1)
         /\ J[1].kind \in {"queue", "order"} => Kind(K) = "none"
         /\ J[1].kind = "close" => Kind(K) = "book" /\ K[1].closed = J[1].closed
         /\ J[1].kind = "book" => Kind(K) = "open" \/ (Kind(K) = "none" /\ eng.pos = Flat)
         /\ J[1].kind = "open" => Kind(K) = "fee"
         /\ J[1].kind = "fee" => Kind(K) \in {"mark", "order"}
         /\ J[1].kind = "mark" => Kind(K) \in {"none", "close"}
         /\ J[1].kind = "cancel" => Kind(K) \in {"none", "cancel"}
<1>1. J \in Seq(JobSet) /\ J # <<>> /\ Plan(J, eng) /\ Held(J, pendingDb, 2)
  BY DEF TInv, Types, Following, Tasks
<1>2. /\ K \in Seq(JobSet) /\ Plan(K, eng) /\ Held(K, pendingDb, 1)
      /\ K = <<>> => J[1].kind \in
           {"queue", "cancel"} \cup IF eng.pos = Flat THEN {"book"} ELSE {"mark", "order"}
      /\ K # <<>> => Link(J[1], K[1])
  BY <1>1, PlanOfTail
<1>3. 1 \in 1..Len(J)
  BY <1>1
<1>5. CASE K = <<>>
  <2>1. Kind(K) = "none"
    BY <1>5 DEF Kind
  <2>2. J[1].kind \notin {"close", "open", "fee"} /\ (J[1].kind = "book" => eng.pos = Flat)
    BY <1>2, <1>5
  <2> QED BY <1>1, <1>2, <2>1, <2>2
<1>6. CASE K # <<>>
  <2>1. Kind(K) = K[1].kind /\ Link(J[1], K[1])
    BY <1>2, <1>6 DEF Kind
  <2> QED BY <1>1, <1>2, <2>1 DEF Link
<1> QED BY <1>5, <1>6

\* The awaited job is done, and what it wrote is where the next one starts from.
LEMMA DoneFollows ==
  ASSUME TInv, Following, todo[Ticks] # <<>>, NEW p, NEW pend, NEW new,
         Done(Ticks, p, pend, new), DOMAIN pendingDb \subseteq DOMAIN pend,
         NEW K, K = Tail(todo[Ticks]), Kind(K) = "fee" => new = p,
         Written(K, eng, p, rows', booked', orders', used'.crash)
  PROVE  Following'
<1>1. K \in Seq(JobSet) /\ Plan(K, eng) /\ Held(K, pendingDb, 1)
  BY NextJob
<1>2. Held(K, pend, 1)
  BY <1>1 DEF Held
<1>3. RunOn(Ticks, K, eng, p, pend, new)
  BY DEF Done
<1> QED BY <1>1, <1>2, <1>3, RunOnFollows

\* Where the tables stand when a job of task Ticks is awaited.
LEMMA Standing ==
  ASSUME TInv, Following, todo[Ticks] # <<>>
  PROVE  /\ loc[Ticks].row = posDb /\ loc[Ticks].pos = eng.pos /\ loc[Ticks].fee = eng.fee
         /\ Kind(todo[Ticks]) = todo[Ticks][1].kind
         /\ Known(todo[Ticks][1].kind, eng, posDb, rows)
         /\ used.crash = 0 => /\ Paired(todo[Ticks][1].kind, posDb, rows, orders)
                              /\ eng.oid = 0 => Paid(todo[Ticks], posDb, rows, booked)
         /\ rows \in Seq(Row) /\ orders \in Seq(OrderRow) /\ posDb \in Nat
         /\ Len(rows) \in Nat /\ DOMAIN rows = 1..Len(rows)
         /\ Len(orders) \in Nat /\ DOMAIN orders = 1..Len(orders)
<1>1. Kind(todo[Ticks]) = todo[Ticks][1].kind
  BY DEF Kind
<1>2. rows \in Seq(Row) /\ orders \in Seq(OrderRow) /\ posDb \in Nat
  BY DEF TInv, Types
<1>3. /\ Len(rows) \in Nat /\ DOMAIN rows = 1..Len(rows)
      /\ Len(orders) \in Nat /\ DOMAIN orders = 1..Len(orders)
  BY <1>2
<1> QED BY <1>1, <1>2, <1>3 DEF Following, Written

\* An order's row is added: it is linked to the row it names.
LEMMA LinkedTo ==
  ASSUME NEW O \in Seq(OrderRow), NEW x
  PROVE  \A r, intent : LinkedIn(Append(O, x), r, intent) =
           IF x.pos = r /\ x.intent = intent THEN LinkedIn(O, r, intent) \cup {Len(O) + 1}
           ELSE LinkedIn(O, r, intent)
<1> DEFINE Q == Append(O, x)
<1>1. /\ Len(Q) = Len(O) + 1 /\ Len(O) \in Nat /\ Q[Len(O) + 1] = x
      /\ \A o \in 1..Len(O) : Q[o] = O[o]
      /\ DOMAIN Q = 1..Len(O) + 1 /\ DOMAIN O = 1..Len(O)
  OBVIOUS
<1>2. \A o : o \in DOMAIN Q <=> o \in DOMAIN O \/ o = Len(O) + 1
  BY <1>1
<1>3. Len(O) + 1 \notin DOMAIN O
  BY <1>1
<1>4. Q[Len(O) + 1] = x /\ \A o \in DOMAIN O : Q[o] = O[o]
  BY <1>1
<1> HIDE DEF Q
<1>5. \A r, intent : LinkedIn(Q, r, intent) =
        IF x.pos = r /\ x.intent = intent THEN LinkedIn(O, r, intent) \cup {Len(O) + 1}
        ELSE LinkedIn(O, r, intent)
  BY <1>2, <1>3, <1>4 DEF LinkedIn
<1> QED BY <1>5 DEF Q

\* The ledger owes nothing for these jobs.
LEMMA PaidStays ==
  ASSUME NEW J, NEW K, NEW p, NEW R, NEW B, Paid(J, p, R, B),
         Kind(J) \notin {"fee", "book"}, Kind(K) \notin {"fee", "book"},
         Kind(K) = "close" => K[1].closed.entryFee = R[p].fee
  PROVE  Paid(K, p, R, B)
<1>1. \A r \in DOMAIN R : Owed(J, p, R, r) = Owed(K, p, R, r)
  BY DEF Owed
<1> QED BY <1>1 DEF Paid

LEMMA StatusOnly ==
  ASSUME NEW O \in Seq(OrderRow), NEW m, NEW st, NEW Q, Q = [O EXCEPT ![m].status = st]
  PROVE  /\ DOMAIN Q = DOMAIN O
         /\ \A o \in DOMAIN O : Q[o].pos = O[o].pos /\ Q[o].intent = O[o].intent
<1>1. DOMAIN Q = DOMAIN O
  OBVIOUS
<1>2. ASSUME NEW o \in DOMAIN O PROVE Q[o].pos = O[o].pos /\ Q[o].intent = O[o].intent
  <2>1. O[o] \in OrderRow
    OBVIOUS
  <2>2. Q[o] = IF o = m THEN [O[o] EXCEPT !.status = st] ELSE O[o]
    OBVIOUS
  <2> QED BY <2>1, <2>2 DEF OrderRow
<1> QED BY <1>1, <1>2

\* The row of an order on its way is linked to no trade.
LEMMA FlushFollows ==
  ASSUME TInv, Following, FlushQueued(Ticks)
  PROVE  Following'
<1> DEFINE J == todo[Ticks]
           x == [status |-> "UNSEEN", pos |-> 0, intent |-> "none"]
           pend == Remember(todo[Ticks][1].oid, Len(orders) + 1)
<1>1. /\ J # <<>> /\ J[1].kind = "queue" /\ orders' = Append(orders, x)
      /\ pendingDb' = pend /\ loc' = [loc EXCEPT ![Ticks].order = Len(orders) + 1]
      /\ UNCHANGED <<eng, posDb, todo, rows, booked, used>>
  BY DEF FlushQueued, Waiting
<1>2. Kind(J) = "queue"
  BY <1>1, Standing
<1>3. x.pos = 0 /\ x.intent = "none"
  OBVIOUS
<1>4. DOMAIN pendingDb \subseteq DOMAIN pend
  BY DEF Remember
<1> HIDE DEF x, pend
<1>5. orders \in Seq(OrderRow) /\ DOMAIN rows = 1..Len(rows) /\ Len(rows) \in Nat
  BY <1>1, Standing
<1>6. \A r, intent : LinkedIn(orders', r, intent) =
        IF x.pos = r /\ x.intent = intent THEN LinkedIn(orders, r, intent) \cup {Len(orders) + 1}
        ELSE LinkedIn(orders, r, intent)
  BY <1>1, <1>5, LinkedTo
<1>7. Paired("queue", posDb, rows, orders) => Paired("queue", posDb, rows, orders')
  <2>1. \A r \in DOMAIN rows, intent \in {"OPEN", "CLOSE"} :
          LinkedIn(orders', r, intent) = LinkedIn(orders, r, intent)
    BY <1>3, <1>6
  <2>2. (\A o \in DOMAIN orders : orders[o].pos \in DOMAIN rows \cup {0})
          => \A o \in DOMAIN orders' : orders'[o].pos \in DOMAIN rows \cup {0}
    BY <1>1, <1>3, <1>5
  <2> QED BY <2>1, <2>2 DEF Paired, PairedRow
<1>8. Written(J, eng, posDb, rows', booked', orders', used'.crash)
  BY <1>1, <1>2, <1>7 DEF Following, Written
<1>9. Held(J, pend, 2)
  BY <1>4 DEF Following, Held
<1>10. /\ loc'[Ticks].row = loc[Ticks].row /\ loc'[Ticks].pos = loc[Ticks].pos
       /\ loc'[Ticks].fee = loc[Ticks].fee
  <2>1. loc \in [Tasks -> Locals] /\ Ticks \in Tasks
    BY DEF TInv, Types, Tasks
  <2> QED BY <1>1, <2>1 DEF Locals
<1> QED BY <1>1, <1>8, <1>9, <1>10 DEF Following

LEMMA QueueFollows ==
  ASSUME TInv, Following, PersistQueued(Ticks)
  PROVE  Following'
<1> DEFINE J == todo[Ticks]
           K == Tail(J)
           m == loc[Ticks].order
<1>1. /\ J # <<>> /\ J[1].kind = "queue" /\ orders' = [orders EXCEPT ![m].status = "NEW"]
      /\ Done(Ticks, posDb, pendingDb, 0) /\ UNCHANGED <<rows, booked, used>>
  BY DEF PersistQueued, Waiting
<1>2. Kind(K) = "none" /\ Kind(J) = "queue"
  BY <1>1, NextJob, Standing
<1>3. orders \in Seq(OrderRow)
  BY <1>1, Standing
<1>4. /\ DOMAIN orders' = DOMAIN orders
      /\ \A o \in DOMAIN orders : orders'[o].pos = orders[o].pos /\ orders'[o].intent = orders[o].intent
  BY <1>1, <1>3, StatusOnly
<1>5. \A r, intent : LinkedIn(orders', r, intent) = LinkedIn(orders, r, intent)
  BY <1>4 DEF LinkedIn
<1>6. Paired("queue", posDb, rows, orders) => Paired("none", posDb, rows, orders')
  BY <1>4, <1>5 DEF Paired, PairedRow
<1>7. Paid(J, posDb, rows, booked) => Paid(K, posDb, rows, booked)
  BY <1>2, PaidStays
<1>8. Known("none", eng, posDb, rows)
  BY <1>1, Standing DEF Known
<1>9. Written(K, eng, posDb, rows', booked', orders', used'.crash)
  BY <1>1, <1>2, <1>6, <1>7, <1>8, Standing DEF Written
<1> QED BY <1>1, <1>2, <1>9, DoneFollows

LEMMA FilledFollows ==
  ASSUME TInv, Following, PersistFilled(Ticks)
  PROVE  Following'
<1> DEFINE J == todo[Ticks]
           K == Tail(J)
           x == [status |-> "FILLED", pos |-> posDb, intent |-> "OPEN"]
<1>1. /\ J # <<>> /\ J[1].kind = "order"
      /\ Done(Ticks, posDb, pendingDb, 0) /\ UNCHANGED <<rows, booked, used>>
  BY DEF PersistFilled, Waiting
<1>2. Kind(K) = "none" /\ Kind(J) = "order"
  BY <1>1, NextJob, Standing
<1>3. eng.pos # Flat /\ Matches(eng, posDb, rows)
  BY <1>1, Standing DEF Known
<1>4. orders' = Append(orders, x)
  BY <1>1, <1>3, Standing DEF PersistFilled
<1>5. x.pos = posDb /\ x.intent = "OPEN"
  OBVIOUS
<1> HIDE DEF x
<1>6. orders \in Seq(OrderRow) /\ DOMAIN rows = 1..Len(rows) /\ Len(rows) \in Nat
  BY <1>1, Standing
<1>7. posDb \in DOMAIN rows /\ rows[posDb].open
  BY <1>3 DEF Matches, OpenIn
<1>12. \A r, intent : LinkedIn(orders', r, intent) =
        IF x.pos = r /\ x.intent = intent THEN LinkedIn(orders, r, intent) \cup {Len(orders) + 1}
        ELSE LinkedIn(orders, r, intent)
  BY <1>4, <1>6, LinkedTo
<1>8. Paired("order", posDb, rows, orders) => Paired("none", posDb, rows, orders')
  <2> SUFFICES ASSUME Paired("order", posDb, rows, orders) PROVE Paired("none", posDb, rows, orders')
    OBVIOUS
  <2>1. \A o \in DOMAIN orders' : orders'[o].pos \in DOMAIN rows \cup {0}
    BY <1>4, <1>5, <1>6, <1>7 DEF Paired
  <2>2. ASSUME NEW r \in DOMAIN rows PROVE PairedRow("none", posDb, rows, orders', r)
    <3>1. PairedRow("order", posDb, rows, orders, r)
      BY DEF Paired
    <3>2. LinkedIn(orders', r, "CLOSE") = LinkedIn(orders, r, "CLOSE")
      BY <1>5, <1>12
    <3>3. CASE r = posDb
      <4>1. LinkedIn(orders', r, "OPEN") = {} \cup {Len(orders) + 1}
        BY <1>5, <1>12, <3>1, <3>3 DEF PairedRow
      <4>2. One(LinkedIn(orders', r, "OPEN"))
        BY <4>1 DEF One
      <4> QED BY <3>1, <3>2, <4>2 DEF PairedRow
    <3>4. CASE r # posDb
      <4>1. LinkedIn(orders', r, "OPEN") = LinkedIn(orders, r, "OPEN")
        BY <1>5, <1>12, <3>4
      <4> QED BY <3>1, <3>2, <3>4, <4>1 DEF PairedRow
    <3> QED BY <3>3, <3>4
  <2> QED BY <2>1, <2>2 DEF Paired
<1>9. Paid(J, posDb, rows, booked) => Paid(K, posDb, rows, booked)
  BY <1>2, PaidStays
<1>10. Known("none", eng, posDb, rows)
  BY <1>3 DEF Known
<1>11. Written(K, eng, posDb, rows', booked', orders', used'.crash)
  BY <1>1, <1>2, <1>8, <1>9, <1>10, Standing DEF Written
<1> QED BY <1>1, <1>2, <1>11, DoneFollows

\* Q is R with row r closed.
Closed(Q, R, r, pnl, fee) ==
  /\ Q = [R EXCEPT ![r].open = FALSE, ![r].pnl = pnl, ![r].fee = fee]
  /\ Len(Q) = Len(R) /\ \A y \in DOMAIN R : y # r => Q[y] = R[y]
  /\ ~Q[r].open /\ Q[r].pnl = pnl /\ Q[r].fee = fee
LEMMA ClosedRow ==
  ASSUME NEW R \in Seq(Row), NEW r \in DOMAIN R, NEW pnl \in Int, NEW fee \in Int
  PROVE  \E Q \in Seq(Row) : Closed(Q, R, r, pnl, fee)
<1> DEFINE no == FALSE
           new == [R[r] EXCEPT !.open = no, !.pnl = pnl, !.fee = fee]
           Q == [R EXCEPT ![r] = new]
<1>1. Q = [R EXCEPT ![r].open = FALSE, ![r].pnl = pnl, ![r].fee = fee]
  OBVIOUS
<1>2. R[r] \in Row /\ no \in BOOLEAN /\ ~no
  OBVIOUS
<1> HIDE DEF no
<1>3. new \in Row /\ new.open = no /\ new.pnl = pnl /\ new.fee = fee
  BY <1>2 DEF Row
<1> HIDE DEF new
<1>4. /\ Q \in Seq(Row) /\ Len(Q) = Len(R) /\ Q[r] = new
      /\ \A y \in DOMAIN R : y # r => Q[y] = R[y]
  BY <1>3
<1> HIDE DEF Q
<1>5. ~Q[r].open /\ Q[r].pnl = pnl /\ Q[r].fee = fee
  BY <1>2, <1>3, <1>4
<1> QED BY <1>1, <1>4, <1>5 DEF Closed

LEMMA CloseFollows ==
  ASSUME TInv, Following, PersistClose(Ticks)
  PROVE  /\ Following'
         /\ \E r \in OpenIn(rows) :
              /\ Len(rows') = Len(rows) /\ rows' \in Seq(Row) /\ ~rows'[r].open
              /\ \A y \in DOMAIN rows : y # r => rows'[y] = rows[y]
<1> DEFINE J == todo[Ticks]
           K == Tail(J)
           c == J[1].closed
           pnl == c.gross - c.entryFee - c.exitFee
           fee == c.entryFee + c.exitFee
           x == [status |-> "FILLED", pos |-> posDb, intent |-> "CLOSE"]
<1>1. J # <<>> /\ J[1].kind = "close" /\ J \in Seq(JobSet)
  BY DEF PersistClose, Waiting, TInv, Types, Tasks
<1>2. /\ rows' = IF posDb = 0 THEN rows
                 ELSE [rows EXCEPT ![posDb].open = FALSE, ![posDb].pnl = pnl, ![posDb].fee = fee]
      /\ orders' = Append(orders, x)
      /\ Done(Ticks, posDb, pendingDb, 0) /\ UNCHANGED <<booked, used>>
  BY <1>1, Standing DEF PersistClose
<1>3. Kind(K) = "book" /\ K[1].closed = c /\ Kind(J) = "close" /\ OpenIn(rows) = {posDb}
  BY <1>1, NextJob, Standing DEF Known
<1>4. c.gross \in Int /\ c.entryFee \in Int /\ c.exitFee \in Int /\ pnl \in Int /\ fee \in Int
  <2>1. c \in Closing \cup {NoClose}
    <3>1. J[1] \in JobSet
      BY <1>1
    <3> QED BY <3>1 DEF JobSet
  <2> QED BY <2>1 DEF Closing, NoClose
<1>5. /\ x.pos = posDb /\ x.intent = "CLOSE"
      /\ pnl - c.gross + c.exitFee = -c.entryFee
  BY <1>4
<1> HIDE DEF x, pnl, fee
<1>6. /\ rows \in Seq(Row) /\ orders \in Seq(OrderRow)
      /\ DOMAIN rows = 1..Len(rows) /\ Len(rows) \in Nat /\ posDb \in DOMAIN rows /\ rows[posDb].open
  BY <1>1, <1>3, Standing DEF OpenIn
<1>7. /\ rows' \in Seq(Row) /\ Len(rows') = Len(rows) /\ DOMAIN rows' = DOMAIN rows
      /\ \A y \in DOMAIN rows : y # posDb => rows'[y] = rows[y]
      /\ ~rows'[posDb].open /\ rows'[posDb].pnl = pnl
  <2>1. rows' = [rows EXCEPT ![posDb].open = FALSE, ![posDb].pnl = pnl, ![posDb].fee = fee]
    BY <1>2, <1>6
  <2>2. PICK Q \in Seq(Row) : Closed(Q, rows, posDb, pnl, fee)
    BY <1>4, <1>6, ClosedRow
  <2>3. rows' = Q
    BY <2>1, <2>2 DEF Closed
  <2> QED BY <1>6, <2>2, <2>3 DEF Closed
<1>8. OpenIn(rows') = {}
  BY <1>3, <1>7 DEF OpenIn
<1>9. Known("book", eng, posDb, rows')
  BY <1>6, <1>7, <1>8 DEF Known
<1>10. \A r, intent : LinkedIn(orders', r, intent) =
         IF x.pos = r /\ x.intent = intent THEN LinkedIn(orders, r, intent) \cup {Len(orders) + 1}
         ELSE LinkedIn(orders, r, intent)
  BY <1>2, <1>6, LinkedTo
<1>11. Paired("close", posDb, rows, orders) => Paired("book", posDb, rows', orders')
  <2> SUFFICES ASSUME Paired("close", posDb, rows, orders) PROVE Paired("book", posDb, rows', orders')
    OBVIOUS
  <2>1. \A o \in DOMAIN orders' : orders'[o].pos \in DOMAIN rows' \cup {0}
    BY <1>2, <1>5, <1>6, <1>7 DEF Paired
  <2>2. ASSUME NEW r \in DOMAIN rows PROVE PairedRow("book", posDb, rows', orders', r)
    <3>1. PairedRow("close", posDb, rows, orders, r)
      BY DEF Paired
    <3>2. One(LinkedIn(orders', r, "OPEN"))
      <4>1. LinkedIn(orders', r, "OPEN") = LinkedIn(orders, r, "OPEN")
        BY <1>5, <1>10
      <4> QED BY <3>1, <4>1 DEF PairedRow
    <3>3. CASE r = posDb
      <4>1. LinkedIn(orders', r, "CLOSE") = {} \cup {Len(orders) + 1}
        BY <1>5, <1>6, <1>10, <3>1, <3>3 DEF PairedRow
      <4>2. One(LinkedIn(orders', r, "CLOSE"))
        BY <4>1 DEF One
      <4> QED BY <1>7, <3>2, <3>3, <4>2 DEF PairedRow
    <3>4. CASE r # posDb
      <4>1. LinkedIn(orders', r, "CLOSE") = LinkedIn(orders, r, "CLOSE") /\ rows'[r] = rows[r]
        BY <1>5, <1>7, <1>10, <3>4
      <4> QED BY <3>1, <3>2, <4>1 DEF PairedRow
    <3> QED BY <3>3, <3>4
  <2> QED BY <1>7, <2>1, <2>2 DEF Paired
<1>12. Paid(J, posDb, rows, booked) => Paid(K, posDb, rows', booked)
  <2> SUFFICES ASSUME Paid(J, posDb, rows, booked) PROVE Paid(K, posDb, rows', booked)
    OBVIOUS
  <2>1. ASSUME NEW r \in DOMAIN rows' PROVE booked[r] = Owed(K, posDb, rows', r)
    <3>1. booked[r] = Owed(J, posDb, rows, r) /\ c.entryFee = rows[posDb].fee
      BY <1>3, <1>7, <2>1 DEF Paid
    <3>2. CASE r = posDb
      <4>1. booked[r] = -c.entryFee
        BY <1>3, <1>6, <3>1, <3>2 DEF Owed
      <4>2. Owed(K, posDb, rows', r) = pnl - c.gross + c.exitFee
        BY <1>3, <1>7, <3>2 DEF Owed
      <4> QED BY <1>5, <4>1, <4>2
    <3>3. CASE r # posDb
      BY <1>7, <3>1, <3>3 DEF Owed
    <3> QED BY <3>2, <3>3
  <2> QED BY <1>3, <1>7, <2>1 DEF Paid
<1>13. Written(K, eng, posDb, rows', booked', orders', used'.crash)
  BY <1>1, <1>2, <1>3, <1>9, <1>11, <1>12, Standing DEF Written
<1>14. Following'
  BY <1>1, <1>2, <1>3, <1>13, DoneFollows
<1> QED BY <1>3, <1>7, <1>14

LEMMA BookFollows ==
  ASSUME TInv, Following, BookClose(Ticks)
  PROVE  Following'
<1> DEFINE J == todo[Ticks]
           K == Tail(J)
           c == J[1].closed
<1>1. /\ J # <<>> /\ J[1].kind = "book" /\ J \in Seq(JobSet)
      /\ Done(Ticks, 0, pendingDb, 0) /\ UNCHANGED <<rows, orders, used>>
  BY DEF BookClose, Waiting, TInv, Types, Tasks
<1>2. booked' = [booked EXCEPT ![posDb] = booked[posDb] + c.gross - c.exitFee]
  BY <1>1, Standing DEF BookClose
<1>3. /\ Kind(J) = "book" /\ OpenIn(rows) = {} /\ posDb \in DOMAIN rows
      /\ Kind(K) = "open" \/ (Kind(K) = "none" /\ eng.pos = Flat)
  BY <1>1, NextJob, Standing DEF Known
<1>4. c.gross \in Int /\ c.exitFee \in Int
  <2>1. J[1] \in JobSet
    BY <1>1
  <2> QED BY <2>1 DEF JobSet, Closing, NoClose
<1> HIDE DEF c
<1>5. rows \in Seq(Row) /\ DOMAIN rows = 1..Len(rows) /\ Len(rows) \in Nat
  BY <1>1, Standing
<1>6. Known(Kind(K), eng, 0, rows)
  BY <1>3 DEF Known, Matches
<1>7. Paired("book", posDb, rows, orders) => Paired(Kind(K), 0, rows, orders)
  BY <1>3 DEF Paired, PairedRow
<1>8. Paid(J, posDb, rows, booked) => Paid(K, 0, rows, booked')
  <2> SUFFICES ASSUME Paid(J, posDb, rows, booked) PROVE Paid(K, 0, rows, booked')
    OBVIOUS
  <2>1. booked \in [0..Len(rows) -> Int] /\ booked[0] = 0
    BY DEF Paid
  <2>2. /\ booked' \in [0..Len(rows) -> Int] /\ booked'[0] = 0
        /\ booked'[posDb] = booked[posDb] + c.gross - c.exitFee
        /\ \A r \in DOMAIN rows : r # posDb => booked'[r] = booked[r]
    BY <1>2, <1>3, <1>4, <1>5, <2>1
  <2>3. ASSUME NEW r \in DOMAIN rows PROVE booked'[r] = Owed(K, 0, rows, r)
    <3>1. booked[r] = Owed(J, posDb, rows, r) /\ ~rows[r].open /\ rows[r].pnl \in Int /\ r # 0
      <4>1. rows[r] \in Row
        BY <1>5
      <4>2. booked[r] = Owed(J, posDb, rows, r) /\ ~rows[r].open
        BY <1>3 DEF Paid, OpenIn
      <4> QED BY <1>5, <4>1, <4>2 DEF Row
    <3>2. Owed(K, 0, rows, r) = rows[r].pnl
      BY <1>3, <3>1 DEF Owed
    <3>3. CASE r = posDb
      <4>1. booked[r] = rows[r].pnl - c.gross + c.exitFee
        BY <1>3, <3>1, <3>3 DEF Owed, c
      <4> QED BY <1>4, <2>2, <3>1, <3>2, <3>3, <4>1
    <3>4. CASE r # posDb
      BY <1>3, <2>2, <3>1, <3>2, <3>4 DEF Owed
    <3> QED BY <3>3, <3>4
  <2> QED BY <1>3, <2>2, <2>3 DEF Paid
<1>9. Written(K, eng, 0, rows', booked', orders', used'.crash)
  BY <1>1, <1>6, <1>7, <1>8, Standing DEF Written
<1>10. Kind(K) # "fee"
  BY <1>3
<1> QED BY <1>1, <1>9, <1>10, DoneFollows

LEMMA OpenFollows ==
  ASSUME TInv, Following, PersistOpen(Ticks)
  PROVE  /\ Following'
         /\ OpenIn(rows) = {} /\ \E x \in Row : x.open /\ rows' = Append(rows, x)
<1> DEFINE J == todo[Ticks]
           K == Tail(J)
           n == Len(rows) + 1
           yes == TRUE
           zero == 0
           x == [side |-> eng.pos.side, entry |-> eng.pos.entry, sl |-> eng.pos.sl,
                 tp |-> eng.pos.tp, fee |-> eng.fee, open |-> yes, pnl |-> zero]
<1>1. /\ J # <<>> /\ J[1].kind = "open"
      /\ Done(Ticks, n, pendingDb, n) /\ UNCHANGED <<orders, used>>
  BY DEF PersistOpen, Waiting
<1>2. rows' = Append(rows, x)
  BY <1>1, Standing DEF PersistOpen
<1>3. booked' = [r \in 0..n |-> IF r \in DOMAIN booked THEN booked[r] ELSE 0]
  BY DEF PersistOpen
<1>4. Kind(K) = "fee" /\ Kind(J) = "open" /\ OpenIn(rows) = {} /\ posDb = 0
  BY <1>1, NextJob, Standing DEF Known
<1>5. /\ rows \in Seq(Row) /\ DOMAIN rows = 1..Len(rows) /\ Len(rows) \in Nat
      /\ n \in Nat /\ n \notin DOMAIN rows /\ n # 0
  BY <1>1, Standing
<1>6. eng.pos # Flat /\ eng.pos \in OpenPos /\ eng.fee \in Int
  <2>1. Waiting(Ticks, "open") /\ Ticks \in Tasks
    BY <1>1 DEF Waiting, Tasks
  <2>2. eng.pos # Flat
    BY <1>1, <2>1, Standing DEF TInv, Settling
  <2> QED BY <2>2 DEF TInv, Settling, EngineOK, Engine
<1>7. yes = TRUE /\ zero = 0
  OBVIOUS
<1> HIDE DEF yes, zero
<1>8. x \in Row /\ x.open /\ Same(x, eng)
  BY <1>6, <1>7 DEF Row, OpenPos, Same
<1> HIDE DEF x
<1>9. /\ rows' \in Seq(Row) /\ Len(rows') = n /\ DOMAIN rows' = 1..n /\ rows'[n] = x
      /\ \A r \in DOMAIN rows : rows'[r] = rows[r]
  BY <1>2, <1>5, <1>8
<1>10. \A r : r \in DOMAIN rows' <=> r \in DOMAIN rows \/ r = n
  BY <1>5, <1>9
<1> HIDE DEF n
<1>11. OpenIn(rows') = {n}
  BY <1>4, <1>8, <1>9, <1>10 DEF OpenIn
<1>12. Known("fee", eng, n, rows')
  BY <1>6, <1>8, <1>9, <1>11 DEF Known, Matches
<1>13. Paired("open", posDb, rows, orders) => Paired("fee", n, rows', orders)
  <2> SUFFICES ASSUME Paired("open", posDb, rows, orders) PROVE Paired("fee", n, rows', orders)
    OBVIOUS
  <2>1. \A o \in DOMAIN orders : orders[o].pos \in DOMAIN rows \cup {0}
    BY DEF Paired
  <2>2. ASSUME NEW r \in DOMAIN rows' PROVE PairedRow("fee", n, rows', orders, r)
    <3>1. CASE r = n
      <4>1. LinkedIn(orders, n, "OPEN") = {} /\ LinkedIn(orders, n, "CLOSE") = {}
        BY <1>5, <2>1 DEF LinkedIn
      <4> QED BY <1>8, <1>9, <3>1, <4>1 DEF PairedRow
    <3>2. CASE r # n
      <4>1. r \in DOMAIN rows /\ rows'[r] = rows[r]
        BY <1>9, <1>10, <3>2
      <4>2. PairedRow("open", posDb, rows, orders, r)
        BY <4>1 DEF Paired
      <4> QED BY <3>2, <4>1, <4>2 DEF PairedRow
    <3> QED BY <3>1, <3>2
  <2> QED BY <1>10, <2>1, <2>2 DEF Paired
<1>14. Paid(J, posDb, rows, booked) => Paid(K, n, rows', booked')
  <2> SUFFICES ASSUME Paid(J, posDb, rows, booked) PROVE Paid(K, n, rows', booked')
    OBVIOUS
  <2>1. booked \in [0..Len(rows) -> Int] /\ booked[0] = 0
    BY DEF Paid
  <2>2. /\ booked' \in [0..n -> Int] /\ booked'[0] = 0 /\ booked'[n] = 0
        /\ \A r \in DOMAIN rows : booked'[r] = booked[r]
    BY <1>3, <1>5, <2>1 DEF n
  <2>3. ASSUME NEW r \in DOMAIN rows' PROVE booked'[r] = Owed(K, n, rows', r)
    <3>1. CASE r = n
      BY <1>4, <2>2, <3>1 DEF Owed
    <3>2. CASE r # n
      <4>1. r \in DOMAIN rows /\ rows'[r] = rows[r] /\ booked'[r] = booked[r]
        BY <1>9, <1>10, <2>2, <3>2
      <4>2. booked[r] = Owed(J, posDb, rows, r)
        BY <4>1 DEF Paid
      <4> QED BY <1>4, <3>2, <4>1, <4>2 DEF Owed
    <3> QED BY <3>1, <3>2
  <2> QED BY <1>4, <1>9, <2>2, <2>3 DEF Paid
<1>15. Written(K, eng, n, rows', booked', orders', used'.crash)
  BY <1>1, <1>4, <1>12, <1>13, <1>14, Standing DEF Written
<1>16. Following'
  BY <1>1, <1>15, DoneFollows
<1> QED BY <1>2, <1>4, <1>8, <1>16

LEMMA FeeFollows ==
  ASSUME TInv, Following, BookFee(Ticks)
  PROVE  Following'
<1> DEFINE J == todo[Ticks]
           K == Tail(J)
<1>1. /\ J # <<>> /\ J[1].kind = "fee"
      /\ Done(Ticks, posDb, pendingDb, 0) /\ UNCHANGED <<rows, orders, used>>
  BY DEF BookFee, Waiting
<1>2. booked' = [booked EXCEPT ![posDb] = booked[posDb] - eng.fee]
  BY <1>1, Standing DEF BookFee
<1>3. Kind(K) \in {"mark", "order"} /\ Kind(J) = "fee" /\ eng.pos # Flat /\ Matches(eng, posDb, rows)
  BY <1>1, NextJob, Standing DEF Known
<1>4. eng.fee \in Int
  BY DEF TInv, Settling, EngineOK, Engine
<1>5. rows \in Seq(Row) /\ DOMAIN rows = 1..Len(rows) /\ Len(rows) \in Nat
  BY <1>1, Standing
<1>6. posDb \in DOMAIN rows /\ rows[posDb].open /\ rows[posDb].fee = eng.fee
  BY <1>3 DEF Matches, OpenIn, Same
<1>7. Known(Kind(K), eng, posDb, rows)
  BY <1>3 DEF Known
<1>8. Paired("fee", posDb, rows, orders) => Paired(Kind(K), posDb, rows, orders)
  BY <1>3 DEF Paired, PairedRow
<1>9. Paid(J, posDb, rows, booked) => Paid(K, posDb, rows, booked')
  <2> SUFFICES ASSUME Paid(J, posDb, rows, booked) PROVE Paid(K, posDb, rows, booked')
    OBVIOUS
  <2>1. booked \in [0..Len(rows) -> Int] /\ booked[0] = 0
    BY DEF Paid
  <2>2. /\ booked' \in [0..Len(rows) -> Int] /\ booked'[0] = 0
        /\ booked'[posDb] = booked[posDb] - eng.fee
        /\ \A r \in DOMAIN rows : r # posDb => booked'[r] = booked[r]
    BY <1>2, <1>4, <1>5, <1>6, <2>1
  <2>3. ASSUME NEW r \in DOMAIN rows PROVE booked'[r] = Owed(K, posDb, rows, r)
    <3>1. booked[r] = Owed(J, posDb, rows, r)
      BY DEF Paid
    <3>2. CASE r = posDb
      <4>1. booked[r] = 0
        BY <1>3, <3>1, <3>2 DEF Owed
      <4>2. Owed(K, posDb, rows, r) = -eng.fee
        BY <1>3, <1>6, <3>2 DEF Owed
      <4> QED BY <1>4, <2>2, <3>2, <4>1, <4>2
    <3>3. CASE r # posDb
      BY <2>2, <3>1, <3>3 DEF Owed
    <3> QED BY <3>2, <3>3
  <2> QED BY <1>3, <2>2, <2>3 DEF Paid
<1>10. Written(K, eng, posDb, rows', booked', orders', used'.crash)
  BY <1>1, <1>7, <1>8, <1>9, Standing DEF Written
<1>11. Kind(K) # "fee"
  BY <1>3
<1> QED BY <1>1, <1>10, <1>11, DoneFollows

LEMMA MarkFollows ==
  ASSUME TInv, Following, Seen, MarkOrder(Ticks), Waiting(Ticks, "mark")
  PROVE  Following'
<1> DEFINE J == todo[Ticks]
           K == Tail(J)
           m == loc[Ticks].order
           x == [status |-> "FILLED", pos |-> posDb, intent |-> "OPEN"]
<1>1. /\ J # <<>> /\ J[1].kind = "mark" /\ orders' = [orders EXCEPT ![m] = x]
      /\ Done(Ticks, posDb, pendingDb, 0) /\ UNCHANGED <<rows, booked, used>>
  BY DEF MarkOrder, Waiting
<1>2. /\ Kind(J) = "mark" /\ eng.pos # Flat /\ Matches(eng, posDb, rows)
      /\ Kind(K) \in {"none", "close"}
  BY <1>1, NextJob, Standing DEF Known
<1>3. m \in DOMAIN orders /\ orders[m] = Unfilled
  <2>1. Popped(Ticks) /\ Ticks \in Tasks
    BY <1>1 DEF Popped, Settles, Tasks
  <2> QED BY <2>1 DEF TInv, Settling, Taken, Seen
<1>4. /\ rows \in Seq(Row) /\ DOMAIN rows = 1..Len(rows) /\ Len(rows) \in Nat
      /\ orders \in Seq(OrderRow)
  BY <1>1, Standing
<1>5. posDb \in DOMAIN rows /\ rows[posDb].open /\ rows[posDb].fee = eng.fee /\ OpenIn(rows) = {posDb}
  BY <1>2 DEF Matches, OpenIn, Same
<1>6. x.pos = posDb /\ x.intent = "OPEN"
  OBVIOUS
<1> HIDE DEF x, m
<1>7. /\ DOMAIN orders' = DOMAIN orders /\ orders'[m] = x
      /\ \A o \in DOMAIN orders : o # m => orders'[o] = orders[o]
  BY <1>1, <1>3
<1>8. orders[m].pos = 0 /\ orders[m].intent = "none"
  BY <1>3 DEF Unfilled
<1>9. /\ \A r \in DOMAIN rows : LinkedIn(orders', r, "CLOSE") = LinkedIn(orders, r, "CLOSE")
      /\ \A r \in DOMAIN rows : r # posDb => LinkedIn(orders', r, "OPEN") = LinkedIn(orders, r, "OPEN")
      /\ LinkedIn(orders', posDb, "OPEN") = LinkedIn(orders, posDb, "OPEN") \cup {m}
  <2>1. ASSUME NEW r \in DOMAIN rows
        PROVE  /\ LinkedIn(orders', r, "CLOSE") = LinkedIn(orders, r, "CLOSE")
               /\ r # posDb => LinkedIn(orders', r, "OPEN") = LinkedIn(orders, r, "OPEN")
    BY <1>3, <1>6, <1>7, <1>8 DEF LinkedIn
  <2>2. LinkedIn(orders', posDb, "OPEN") = LinkedIn(orders, posDb, "OPEN") \cup {m}
    BY <1>3, <1>6, <1>7 DEF LinkedIn
  <2> QED BY <2>1, <2>2
<1>10. Paired("mark", posDb, rows, orders) => Paired(Kind(K), posDb, rows, orders')
  <2> SUFFICES ASSUME Paired("mark", posDb, rows, orders) PROVE Paired(Kind(K), posDb, rows, orders')
    OBVIOUS
  <2>1. \A o \in DOMAIN orders' : orders'[o].pos \in DOMAIN rows \cup {0}
    BY <1>5, <1>6, <1>7 DEF Paired
  <2>2. ASSUME NEW r \in DOMAIN rows PROVE PairedRow(Kind(K), posDb, rows, orders', r)
    <3>1. PairedRow("mark", posDb, rows, orders, r)
      BY DEF Paired
    <3>2. CASE r = posDb
      <4>1. LinkedIn(orders', r, "OPEN") = {m}
        BY <1>9, <3>1, <3>2 DEF PairedRow
      <4>2. One(LinkedIn(orders', r, "OPEN"))
        BY <4>1 DEF One
      <4> QED BY <1>2, <1>9, <3>1, <4>2 DEF PairedRow
    <3>3. CASE r # posDb
      BY <1>9, <3>1, <3>3 DEF PairedRow
    <3> QED BY <3>2, <3>3
  <2> QED BY <2>1, <2>2 DEF Paired
<1>11. eng.oid # 0
  <2>1. J \in Seq(JobSet) /\ JobsOK(J, eng) /\ eng.oid \in Nat
    BY DEF TInv, Types, Settling, EngineOK, Engine, Tasks
  <2>2. 1 \in 1..Len(J)
    BY <1>1, <2>1
  <2>3. J[1].oid \in 1..eng.oid
    BY <1>1, <2>1, <2>2 DEF JobsOK, Settles
  <2> QED BY <2>1, <2>3
<1>12. Known(Kind(K), eng, posDb, rows)
  BY <1>2, <1>5 DEF Known
<1>13. Written(K, eng, posDb, rows', booked', orders', used'.crash)
  BY <1>1, <1>10, <1>11, <1>12, Standing DEF Written
<1>14. Kind(K) # "fee"
  BY <1>2
<1> QED BY <1>1, <1>13, <1>14, DoneFollows

LEMMA CancelFollows ==
  ASSUME TInv, Following, Seen, MarkOrder(Ticks), ~Waiting(Ticks, "mark")
  PROVE  Following'
<1> DEFINE J == todo[Ticks]
           K == Tail(J)
           m == loc[Ticks].order
<1>0. J # <<>> /\ J[1].kind = "cancel"
  BY DEF MarkOrder, Waiting
<1>01. orders[m] = Unfilled
  BY <1>0 DEF Seen, Popped, Settles
<1>1. /\ J # <<>> /\ J[1].kind = "cancel" /\ orders' = [orders EXCEPT ![m].status = "CANCELLED"]
      /\ Done(Ticks, posDb, pendingDb, 0) /\ UNCHANGED <<rows, booked, used>>
  BY <1>0, <1>01 DEF MarkOrder, Waiting, Committed, Unfilled
<1>2. Kind(J) = "cancel" /\ Kind(K) \in {"none", "cancel"} /\ Matches(eng, posDb, rows)
  BY <1>1, NextJob, Standing DEF Known
<1>3. orders \in Seq(OrderRow) /\ rows \in Seq(Row)
  BY <1>1, Standing
<1>4. /\ DOMAIN orders' = DOMAIN orders
      /\ \A o \in DOMAIN orders : orders'[o].pos = orders[o].pos /\ orders'[o].intent = orders[o].intent
  BY <1>1, <1>3, StatusOnly
<1>5. \A r, intent : LinkedIn(orders', r, intent) = LinkedIn(orders, r, intent)
  BY <1>4 DEF LinkedIn
<1>6. Paired("cancel", posDb, rows, orders) => Paired(Kind(K), posDb, rows, orders')
  BY <1>2, <1>4, <1>5 DEF Paired, PairedRow
<1>7. Paid(J, posDb, rows, booked) => Paid(K, posDb, rows, booked)
  BY <1>2, PaidStays
<1>8. Known(Kind(K), eng, posDb, rows)
  BY <1>2 DEF Known
<1>9. Written(K, eng, posDb, rows', booked', orders', used'.crash)
  BY <1>1, <1>6, <1>7, <1>8, Standing DEF Written
<1>10. Kind(K) # "fee"
  BY <1>2
<1> QED BY <1>1, <1>9, <1>10, DoneFollows

\* Table positions is written by these steps only.
TradeStep ==
  \/ rows' = rows
  \/ OpenIn(rows) = {} /\ \E x \in Row : x.open /\ rows' = Append(rows, x)
  \/ \E r \in OpenIn(rows) :
       /\ Len(rows') = Len(rows) /\ rows' \in Seq(Row) /\ ~rows'[r].open
       /\ \A y \in DOMAIN rows : y # r => rows'[y] = rows[y]

LEMMA SInit == Init => SInv
<1> SUFFICES ASSUME Init PROVE SInv
  OBVIOUS
<1>1. todo[Ticks] = <<>> /\ Kind(todo[Ticks]) = "none"
  BY DEF Init, Tasks, Kind
<1>2. Plan(todo[Ticks], eng) /\ Held(todo[Ticks], pendingDb, 2)
  BY <1>1, PlanOfNone
<1>3. eng.pos = Flat /\ posDb = 0
  BY DEF Init, Engine0
<1>4. rows = <<>> /\ orders = <<>> /\ booked = [r \in 0..0 |-> 0]
  BY DEF Init
<1>5. DOMAIN rows = {} /\ DOMAIN orders = {} /\ Len(rows) = 0
  BY <1>4
<1>6. OpenIn(rows) = {}
  BY <1>5 DEF OpenIn
<1>7. Known("none", eng, posDb, rows)
  BY <1>3, <1>6 DEF Known, Matches
<1>8. Paired("none", posDb, rows, orders)
  BY <1>5 DEF Paired
<1>9. booked \in [0..Len(rows) -> Int] /\ booked[0] = 0
  BY <1>4, <1>5
<1>10. Paid(todo[Ticks], posDb, rows, booked)
  BY <1>1, <1>5, <1>9 DEF Paid
<1>11. Following
  BY <1>1, <1>2, <1>7, <1>8, <1>10 DEF Following, Written
<1>12. app = "up" /\ used \in [api : Nat, crash : Nat]
  BY DEF Init
<1> QED BY <1>11, <1>12 DEF SInv

LEMMA AtMostOneRow ==
  ASSUME Following
  PROVE  \A x, y \in OpenIn(rows) : x = y
<1>1. Known(Kind(todo[Ticks]), eng, posDb, rows)
  BY DEF Following, Written
<1>2. OpenIn(rows) = {} \/ OpenIn(rows) = {posDb}
  BY <1>1 DEF Known, Matches
<1> QED BY <1>2

LEMMA CrashFollows ==
  ASSUME TInv, SInv, Crash
  PROVE  SInv' /\ TradeStep
<1>1. /\ app' = "down" /\ posDb' = 0 /\ rows' = rows /\ app = "up"
      /\ used' = [used EXCEPT !.crash = used.crash + 1]
  BY DEF Crash, tables
<1>2. used' \in [api : Nat, crash : Nat] /\ used'.crash # 0
  BY <1>1 DEF SInv
<1>3. \A x, y \in OpenIn(rows) : x = y
  BY <1>1, AtMostOneRow DEF SInv
<1> QED BY <1>1, <1>2, <1>3 DEF SInv, TradeStep

LEMMA RestartFollows ==
  ASSUME TInv, SInv, Restart
  PROVE  SInv' /\ TradeStep
<1>1. /\ app = "down" /\ app' = "up"
      /\ UNCHANGED <<price, pendingDb, rows, orders, booked, todo, loc, used>>
  BY DEF Restart, tables
<1>2. /\ eng = Engine0 /\ posDb = 0 /\ used.crash # 0
      /\ \A x, y \in OpenIn(rows) : x = y
  BY <1>1 DEF SInv, TInv, Types
<1>3. todo[Ticks] = <<>>
  BY <1>1 DEF TInv, Types, Tasks
<1>4. rows \in Seq(Row)
  BY DEF TInv, Types
<1>5. Matches(eng', posDb', rows)
  <2>1. CASE OpenIn(rows) = {}
    <3>1. eng' = Engine0 /\ posDb' = 0
      BY <1>2, <2>1 DEF Restart, OpenRows, RowIds, OpenIn
    <3> QED BY <2>1, <3>1 DEF Matches, Engine0
  <2>2. CASE OpenIn(rows) # {}
    <3> DEFINE r == CHOOSE x \in OpenIn(rows) : \A y \in OpenIn(rows) : y <= x
               pos == [side |-> rows[r].side, entry |-> rows[r].entry, sl |-> rows[r].sl, tp |-> rows[r].tp]
    <3>1. posDb' = r /\ eng' = [Engine0 EXCEPT !.fee = rows[r].fee, !.pos = pos]
      BY <2>2 DEF Restart, OpenRows, RowIds, OpenIn
    <3>2. r \in OpenIn(rows)
      <4>1. OpenIn(rows) \subseteq 1..Len(rows) /\ Len(rows) \in Nat
        BY <1>4 DEF OpenIn
      <4> QED BY <2>2, <4>1, HighestRow
    <3> HIDE DEF r
    <3>3. OpenIn(rows) = {r} /\ rows[r] \in Row
      BY <1>2, <1>4, <3>2 DEF OpenIn
    <3>4. pos # Flat /\ pos.side = rows[r].side /\ pos.entry = rows[r].entry /\ pos.sl = rows[r].sl /\ pos.tp = rows[r].tp
      BY <3>3 DEF Row, Flat
    <3> HIDE DEF pos
    <3>5. eng'.pos = pos /\ eng'.fee = rows[r].fee
      BY <3>1 DEF Engine0
    <3> QED BY <3>1, <3>3, <3>4, <3>5 DEF Matches, Same
  <2> QED BY <2>1, <2>2
<1>6. todo'[Ticks] = <<>> /\ Kind(todo'[Ticks]) = "none"
  BY <1>1, <1>3 DEF Kind
<1>7. Plan(todo'[Ticks], eng') /\ Held(todo'[Ticks], pendingDb', 2)
  BY <1>6, PlanOfNone
<1>8. Written(todo'[Ticks], eng', posDb', rows', booked', orders', used'.crash)
  BY <1>1, <1>2, <1>5, <1>6 DEF Written, Known
<1>9. Following'
  BY <1>6, <1>7, <1>8 DEF Following
<1> QED BY <1>1, <1>9 DEF SInv, TradeStep

\* Task Ticks ran on, with dictionary pend.
LEMMA RunOnSeen ==
  ASSUME TInv, NEW J \in Seq(JobSet), NEW e, NEW p, NEW pend, NEW new, orders' \in Seq(OrderRow),
         RunOn(Ticks, J, e, p, pend, new),
         \A x \in DOMAIN pend : pend[x] \in DOMAIN orders' /\ orders'[pend[x]] = Unfilled
  PROVE  Seen'
<1>1. todo \in [Tasks -> Seq(JobSet)] /\ loc \in [Tasks -> Locals] /\ Ticks \in Tasks
  BY DEF TInv, Types, Tasks
<1>2. Unfilled # Unseen
  BY DEF Unfilled, Unseen
<1>3. CASE Stops(Ticks, J, e, pend)
  <2>1. todo'[Ticks] = <<>> /\ pendingDb' = pend
    BY <1>1, <1>3 DEF Stops
  <2> QED BY <1>2, <2>1 DEF Seen, Popped
<1>4. ASSUME NEW k \in 1..Len(J), Awaits(Ticks, k, J, e, p, pend, new) PROVE Seen'
  <2>1. /\ todo'[Ticks] = SubSeq(J, k, Len(J)) /\ loc'[Ticks] = LocalsFor(J[k], e, p, pend, new)
        /\ pendingDb' = IF Settles(J[k]) THEN Without(pend, J[k].oid) ELSE pend
    BY <1>1, <1>4 DEF Awaits
  <2>2. todo'[Ticks][1] = J[k]
    BY <2>1, Suffix
  <2>3. Settles(J[k]) => J[k].oid \in DOMAIN pend
    BY <1>4 DEF Awaits, Immediate, Settles
  <2>4. \A x \in DOMAIN pendingDb' : orders'[pendingDb'[x]] = Unfilled
    BY <2>1 DEF Without
  <2>5. Popped(Ticks)' => orders'[loc'[Ticks].order] = Unfilled
    BY <2>1, <2>2, <2>3 DEF Popped, LocalsFor
  <2> QED BY <1>2, <2>4, <2>5 DEF Seen
<1> QED BY <1>3, <1>4, RunOnCases

LEMMA SeenHandle ==
  ASSUME TInv, Seen, orders' = orders, todo[Ticks] = <<>>, NEW r, Outcome(eng, r), Handle(Ticks, r)
  PROVE  Seen'
<1> DEFINE J == Jobs(r.events)
<1>1. J \in Seq(JobSet) /\ RunOn(Ticks, J, r.eng, posDb, pendingDb, 0)
  BY DEF Outcome, Handle
<1>2. \A x \in DOMAIN pendingDb : pendingDb[x] \in DOMAIN orders /\ orders[pendingDb[x]] = Unfilled
  BY DEF Seen, Flushed, Waiting, TInv, Settling, Leads
<1>3. orders \in Seq(OrderRow)
  BY DEF TInv, Types
<1> HIDE DEF J
<1> QED BY <1>1, <1>2, <1>3, RunOnSeen

\* Of a task that writes no LIMIT order each row that is led to is committed.
LEMMA SeenDone ==
  ASSUME TInv, Seen, NEW t, t = Ticks, todo[t] # <<>>, NEW p, NEW new, Done(t, p, pendingDb, new),
         orders' \in Seq(OrderRow),
         \A x \in DOMAIN pendingDb : pendingDb[x] \in DOMAIN orders' /\ orders'[pendingDb[x]] = Unfilled
  PROVE  Seen'
<1> DEFINE J == Tail(todo[t])
<1>1. J \in Seq(JobSet) /\ RunOn(Ticks, J, eng, p, pendingDb, new)
  BY DEF Done, TInv, Types, Tasks
<1> HIDE DEF J
<1> QED BY <1>1, RunOnSeen

LEMMA SeenJob ==
  ASSUME TInv, Seen, JobStep(Ticks)
  PROVE  Seen'
<1> DEFINE J == todo[Ticks]
           m == loc[Ticks].order
<1>1. /\ orders \in Seq(OrderRow) /\ Leads(pendingDb, orders) /\ Flushing /\ Ticks \in Tasks
      /\ orders' \in Seq(OrderRow)
  <2>1. TInv'
    BY JobSettles DEF Tasks
  <2> QED BY <2>1 DEF TInv, Types, Settling, Tasks
<1>2. ~Flushed(Ticks) =>
        \A x \in DOMAIN pendingDb : pendingDb[x] \in DOMAIN orders /\ orders[pendingDb[x]] = Unfilled
  BY <1>1 DEF Seen, Leads
<1>3. Unfilled # Unseen
  BY DEF Unfilled, Unseen
<1>4. CASE FlushQueued(Ticks)
  <2> DEFINE n == Len(orders) + 1
             x == [status |-> "UNSEEN", pos |-> 0, intent |-> "none"]
             oid == todo[Ticks][1].oid
  <2>1. /\ Waiting(Ticks, "queue") /\ loc[Ticks].order = 0 /\ orders' = Append(orders, x)
        /\ pendingDb' = Remember(oid, n) /\ loc' = [loc EXCEPT ![Ticks].order = n]
        /\ todo' = todo
    BY <1>4 DEF FlushQueued
  <2>2. n \in Nat \ {0} /\ \A o \in DOMAIN orders : orders'[o] = orders[o]
    BY <1>1, <2>1
  <2> HIDE DEF x, n
  <2>3. loc'[Ticks].order = n
    <3>1. loc \in [Tasks -> Locals]
      BY DEF TInv, Types
    <3> QED BY <1>1, <2>1, <3>1 DEF Locals
  <2>4. Flushed(Ticks)' /\ ~Flushed(Ticks) /\ ~Popped(Ticks)'
    BY <2>1, <2>2, <2>3 DEF Flushed, Waiting, Popped, Settles
  <2>5. ASSUME NEW y \in DOMAIN pendingDb', orders'[pendingDb'[y]] = Unseen PROVE pendingDb'[y] = n
    <3>1. CASE y = oid
      BY <2>1, <3>1 DEF Remember
    <3>2. CASE y # oid
      <4>1. y \in DOMAIN pendingDb /\ pendingDb'[y] = pendingDb[y]
        BY <2>1, <2>5, <3>2 DEF Remember
      <4> QED BY <1>2, <1>3, <2>2, <2>4, <2>5, <4>1
    <3> QED BY <3>1, <3>2
  <2> QED BY <2>3, <2>4, <2>5 DEF Seen
<1>5. CASE PersistQueued(Ticks)
  <2>1. /\ J # <<>> /\ Flushed(Ticks) /\ Done(Ticks, posDb, pendingDb, 0)
        /\ orders' = [orders EXCEPT ![m].status = "NEW"]
    BY <1>5 DEF PersistQueued, Waiting, Flushed
  <2>2. m \in DOMAIN orders /\ orders[m] = Unseen
    BY <1>1, <2>1 DEF Flushing, Flushes
  <2> HIDE DEF m
  <2>3. orders'[m] = Unfilled /\ DOMAIN orders' = DOMAIN orders /\ \A o \in DOMAIN orders : o # m => orders'[o] = orders[o]
    <3>1. orders' = [orders EXCEPT ![m] = [orders[m] EXCEPT !.status = "NEW"]]
      BY <2>1
    <3>2. [orders[m] EXCEPT !.status = "NEW"] = Unfilled
      BY <2>2 DEF Unseen, Unfilled
    <3> QED BY <1>1, <2>2, <3>1, <3>2
  <2>4. \A x \in DOMAIN pendingDb : pendingDb[x] \in DOMAIN orders' /\ orders'[pendingDb[x]] = Unfilled
    BY <1>1, <2>3 DEF Seen, Leads, m
  <2> QED BY <1>1, <2>1, <2>4, SeenDone
<1>6. CASE MarkOrder(Ticks)
  <2>1. /\ J # <<>> /\ Settles(J[1]) /\ Done(Ticks, posDb, pendingDb, 0)
    BY <1>6 DEF MarkOrder, Waiting, Settles
  <2>2. Popped(Ticks) /\ ~Flushed(Ticks)
    BY <2>1 DEF Popped, Flushed, Waiting, Settles
  <2>3. Taken(m, pendingDb, orders)
    BY <1>1, <2>2 DEF TInv, Settling
  <2>4. \A o \in DOMAIN orders : o \in DOMAIN orders' /\ (o # m => orders'[o] = orders[o])
    BY <1>6 DEF MarkOrder
  <2> HIDE DEF m
  <2>5. \A x \in DOMAIN pendingDb : pendingDb[x] \in DOMAIN orders' /\ orders'[pendingDb[x]] = Unfilled
    BY <1>2, <2>2, <2>3, <2>4 DEF Taken
  <2> QED BY <1>1, <2>1, <2>5, SeenDone
<1>7. CASE MarkFails(Ticks)
  <2>1. todo'[Ticks] = <<>> /\ pendingDb' = pendingDb /\ orders' = orders /\ ~Flushed(Ticks)
    BY <1>1, <1>7 DEF MarkFails, tables, Flushed, Waiting, TInv, Types
  <2> QED BY <1>2, <1>3, <2>1 DEF Seen, Popped
<1>8. ASSUME J # <<>>, J[1].kind # "queue", NEW p, NEW new, Done(Ticks, p, pendingDb, new),
             \A o \in DOMAIN orders : o \in DOMAIN orders' /\ orders'[o] = orders[o]
      PROVE  Seen'
  <2>1. ~Flushed(Ticks)
    BY <1>8 DEF Flushed, Waiting
  <2> QED BY <1>1, <1>2, <1>8, <2>1, SeenDone
<1>9. \A x : \A o \in DOMAIN orders : o \in DOMAIN Append(orders, x) /\ Append(orders, x)[o] = orders[o]
  BY <1>1
<1>10. CASE PersistClose(Ticks)
  BY <1>8, <1>9, <1>10 DEF PersistClose, Waiting
<1>11. CASE BookClose(Ticks)
  BY <1>8, <1>11 DEF BookClose, Waiting
<1>12. CASE PersistOpen(Ticks)
  BY <1>8, <1>12 DEF PersistOpen, Waiting
<1>13. CASE BookFee(Ticks)
  BY <1>8, <1>13 DEF BookFee, Waiting
<1>14. CASE PersistFilled(Ticks)
  BY <1>8, <1>9, <1>14 DEF PersistFilled, Waiting
<1> QED BY <1>4, <1>5, <1>6, <1>7, <1>10, <1>11, <1>12, <1>13, <1>14 DEF JobStep

LEMMA SStep ==
  ASSUME Apis = {}, TInv, SInv, Seen, [Next]_vars
  PROVE  SInv' /\ Seen' /\ TradeStep
<1>1. Tasks = {Ticks} /\ TInv'
  BY TStep DEF Tasks
<1>2. ASSUME app = "up", app' = "up", UNCHANGED <<rows, orders, booked, used>>, todo[Ticks] = <<>>,
             NEW r, Outcome(eng, r), Handle(Ticks, r)
      PROVE  SInv' /\ Seen' /\ TradeStep
  <2>1. Following'
    BY <1>2, HandleFollows DEF SInv
  <2>2. Seen'
    BY <1>2, SeenHandle
  <2> QED BY <1>2, <2>1, <2>2 DEF SInv, TradeStep
<1>3. EngineOK(eng) /\ price \in Int
  BY DEF TInv, Types, Settling
<1>4. ASSUME NEW p \in Prices, Tick(p) PROVE SInv' /\ Seen' /\ TradeStep
  <2>1. /\ app = "up" /\ app' = "up" /\ todo[Ticks] = <<>> /\ UNCHANGED <<rows, orders, booked, used>>
        /\ Handle(Ticks, OnPrice(eng, p))
    BY <1>4 DEF Tick, Idle, tables
  <2>2. Outcome(eng, OnPrice(eng, p))
    BY <1>3, Constants, OnPriceOutcome
  <2> QED BY <1>2, <2>1, <2>2
<1>5. ASSUME NEW action \in {"MARKET", "LIMIT", "CLOSE", "CANCEL"}, Signal(action)
      PROVE  SInv' /\ Seen' /\ TradeStep
  <2>1. /\ app = "up" /\ app' = "up" /\ todo[Ticks] = <<>> /\ UNCHANGED <<rows, orders, booked, used>>
        /\ price' = price
    BY <1>5 DEF Signal, Idle, tables
  <2>2. CASE action \in {"MARKET", "LIMIT"} /\ PlaceOrder(Ticks, action)
    <3>1. PICK side \in {"BUY", "SELL"}, at \in IF action = "LIMIT" THEN LimitAt ELSE {0} :
            \E b \in Brackets(side) :
              Handle(Ticks, Submit(eng, [action |-> action, side |-> side, price |-> at,
                                         sl |-> b.sl, tp |-> b.tp], price'))
      BY <2>2 DEF PlaceOrder
    <3>2. PICK b \in Brackets(side) :
            Handle(Ticks, Submit(eng, [action |-> action, side |-> side, price |-> at,
                                       sl |-> b.sl, tp |-> b.tp], price'))
      BY <3>1
    <3> DEFINE r == Submit(eng, [action |-> action, side |-> side, price |-> at,
                                 sl |-> b.sl, tp |-> b.tp], price')
    <3>3. Outcome(eng, r)
      BY <1>3, <2>1, <2>2, OrderOutcome
    <3>4. Handle(Ticks, r)
      BY <3>2
    <3> HIDE DEF r
    <3> QED BY <1>2, <2>1, <3>3, <3>4
  <2>3. CASE action \in {"CLOSE", "CANCEL"} /\ Handle(Ticks, Submit(eng, [action |-> action], price))
    <3> DEFINE r == Submit(eng, [action |-> action], price)
    <3>1. Outcome(eng, r)
      BY <1>3, <2>3, StopOutcome
    <3>2. Handle(Ticks, r)
      BY <2>3
    <3> HIDE DEF r
    <3> QED BY <1>2, <2>1, <3>1, <3>2
  <2> QED BY <1>5, <2>2, <2>3 DEF Signal
<1>6. ASSUME NEW t \in Tasks, JobStep(t) PROVE SInv' /\ Seen' /\ TradeStep
  <2>1. t = Ticks /\ todo[Ticks] # <<>>
    BY <1>1, <1>6 DEF JobStep, FlushQueued, PersistQueued, PersistClose, BookClose, PersistOpen,
                      BookFee, PersistFilled, MarkOrder, MarkFails, Waiting
  <2>2. app = "up" /\ Following
    BY <1>1, <2>1 DEF TInv, Types, SInv
  <2>3. app' = app /\ used' = used
    BY <1>6 DEF JobStep, FlushQueued, PersistQueued, PersistClose, BookClose, PersistOpen,
                BookFee, PersistFilled, MarkOrder, MarkFails
  <2>31. Seen'
    BY <1>6, <2>1, SeenJob
  <2>4. Following' /\ TradeStep => SInv' /\ Seen' /\ TradeStep
    BY <2>2, <2>3, <2>31 DEF SInv
  <2>41. CASE FlushQueued(Ticks)
    BY <2>2, <2>4, <2>41, FlushFollows DEF FlushQueued, TradeStep
  <2>42. ~MarkFails(Ticks)
    BY DEF MarkFails, Waiting, Seen, Popped, Settles, Committed, Unfilled
  <2>5. CASE PersistQueued(Ticks)
    BY <2>2, <2>4, <2>5, QueueFollows DEF PersistQueued, TradeStep
  <2>6. CASE PersistClose(Ticks)
    BY <2>2, <2>4, <2>6, CloseFollows DEF TradeStep
  <2>7. CASE BookClose(Ticks)
    BY <2>2, <2>4, <2>7, BookFollows DEF BookClose, TradeStep
  <2>8. CASE PersistOpen(Ticks)
    BY <2>2, <2>4, <2>8, OpenFollows DEF TradeStep
  <2>9. CASE BookFee(Ticks)
    BY <2>2, <2>4, <2>9, FeeFollows DEF BookFee, TradeStep
  <2>10. CASE PersistFilled(Ticks)
    BY <2>2, <2>4, <2>10, FilledFollows DEF PersistFilled, TradeStep
  <2>11. CASE MarkOrder(Ticks)
    BY <2>2, <2>4, <2>11, MarkFollows, CancelFollows DEF MarkOrder, TradeStep
  <2> QED BY <1>6, <2>1, <2>41, <2>42, <2>5, <2>6, <2>7, <2>8, <2>9, <2>10, <2>11 DEF JobStep
<1>7. CASE Crash
  <2>1. DOMAIN pendingDb' = {} /\ todo'[Ticks] = <<>>
    <3>1. DOMAIN <<>> = {}
      OBVIOUS
    <3> QED BY <1>1, <1>7, <3>1 DEF Crash
  <2>2. Seen'
    BY <2>1 DEF Seen, Popped
  <2> QED BY <1>7, <2>2, CrashFollows
<1>8. CASE Restart
  <2>1. Seen'
    BY <1>8 DEF Restart, tables, Seen, Popped, Flushed, Waiting
  <2> QED BY <1>8, <2>1, RestartFollows
<1>9. CASE UNCHANGED vars
  <2>1. UNCHANGED <<app, eng, posDb, pendingDb, rows, orders, booked, todo, loc, used>>
    BY <1>9 DEF vars, memory, tables
  <2> QED BY <2>1 DEF SInv, Seen, Popped, Flushed, Waiting, Following, TradeStep
<1> QED BY <1>4, <1>5, <1>6, <1>7, <1>8, <1>9 DEF Next

LEMMA SAlways == ASSUME Apis = {} PROVE Spec => [](TInv /\ SInv /\ Seen)
<1>1. TInv /\ SInv /\ Seen /\ [Next]_vars => (TInv /\ SInv /\ Seen)'
  BY TStep, SStep
<1>2. Init => TInv /\ SInv /\ Seen
  <2>1. DOMAIN <<>> = {}
    OBVIOUS
  <2>2. Init => Seen
    BY <2>1 DEF Init, Seen, Popped, Tasks
  <2> QED BY <2>2, TInit, SInit
<1> QED BY <1>1, <1>2, PTL DEF Spec

\* At rest no job is left.
LEMMA Rested ==
  ASSUME TInv, SInv, AtRest
  PROVE  /\ Matches(eng, posDb, rows)
         /\ used.crash = 0 => /\ Paired("none", posDb, rows, orders)
                              /\ eng.oid = 0 => Paid(<<>>, posDb, rows, booked)
<1>1. todo[Ticks] = <<>> /\ Kind(todo[Ticks]) = "none" /\ Following
  BY DEF AtRest, SInv, Tasks, Kind
<1> QED BY <1>1 DEF Following, Written, Known

\* RowsMatchEngine of a bot without API requests, over crashes: whenever no handler runs,
\* the OPEN rows are the engine's position, with its entry, SL, TP and fee (paper.py:120).
THEOREM RowsFollowEngine == ASSUME Apis = {} PROVE Spec => []RowsMatchEngine
<1>1. TInv /\ SInv => RowsMatchEngine
  <2> SUFFICES ASSUME TInv, SInv, AtRest
               PROVE  IF eng.pos = Flat
                      THEN OpenRows = {}
                      ELSE /\ OpenRows = {posDb}
                           /\ [side |-> rows[posDb].side, entry |-> rows[posDb].entry,
                               sl |-> rows[posDb].sl, tp |-> rows[posDb].tp] = eng.pos
                           /\ rows[posDb].fee = eng.fee
    BY DEF RowsMatchEngine
  <2>1. Matches(eng, posDb, rows) /\ OpenRows = OpenIn(rows)
    BY Rested DEF OpenRows, RowIds, OpenIn
  <2>2. CASE eng.pos # Flat
    <3>1. eng.pos \in OpenPos
      BY <2>2 DEF TInv, Settling, EngineOK, Engine
    <3>2. OpenIn(rows) = {posDb} /\ Same(rows[posDb], eng)
      BY <2>1, <2>2 DEF Matches
    <3>3. [side |-> rows[posDb].side, entry |-> rows[posDb].entry,
           sl |-> rows[posDb].sl, tp |-> rows[posDb].tp] = eng.pos
      BY <3>1, <3>2 DEF Same, OpenPos
    <3> QED BY <2>1, <2>2, <3>2, <3>3 DEF Same
  <2> QED BY <2>1, <2>2 DEF Matches
<1> QED BY SAlways, <1>1, PTL

\* When no handler runs and until a crash, each row of a bot that has placed no LIMIT order
\* has its entry fee in the ledger and, once closed, its net result.
MarketTradesBooked ==
  AtRest /\ used.crash = 0 /\ eng.oid = 0 => booked[0] = 0 /\ \A r \in RowIds : Balanced(r)

\* What of "every PnL/fee is booked" (paper.py:46) holds for every size and price: each row
\* of a bot without API requests that trades at the market.  (A LIMIT order can be filled
\* and stopped out on one tick, which paper.py:172 does not book: EveryPnlBooked.)
THEOREM MarketRowsBooked == ASSUME Apis = {} PROVE Spec => []MarketTradesBooked
<1>1. TInv /\ SInv => MarketTradesBooked
  <2> SUFFICES ASSUME TInv, SInv, AtRest, used.crash = 0, eng.oid = 0
               PROVE  booked[0] = 0 /\ \A r \in RowIds : Balanced(r)
    BY DEF MarketTradesBooked
  <2>1. Paid(<<>>, posDb, rows, booked)
    BY Rested
  <2> QED BY <2>1 DEF Paid, Owed, Kind, Balanced, RowIds
<1> QED BY SAlways, <1>1, PTL

\* TradesPaired of a bot without API requests, until a crash: each row has the one order
\* that opened it and, closed, the one that closed it (paper.py:153-211).
THEOREM OrdersPairTrades == ASSUME Apis = {} PROVE Spec => []TradesPaired
<1>1. TInv /\ SInv => TradesPaired
  <2> SUFFICES ASSUME TInv, SInv, AtRest, used.crash = 0, NEW r \in RowIds
               PROVE  /\ Cardinality(Linked(r, "OPEN")) = 1
                      /\ Cardinality(Linked(r, "CLOSE")) = IF rows[r].open THEN 0 ELSE 1
    BY DEF TradesPaired
  <2>1. Paired("none", posDb, rows, orders)
    BY Rested
  <2>2. PairedRow("none", posDb, rows, orders, r)
    BY <2>1 DEF Paired, RowIds
  <2>3. \A intent : Linked(r, intent) = LinkedIn(orders, r, intent)
    BY DEF Linked, LinkedIn
  <2>4. \A S : One(S) => Cardinality(S) = 1
    <3> SUFFICES ASSUME NEW S, One(S) PROVE Cardinality(S) = 1
      OBVIOUS
    <3>1. PICK x \in S : S = {x}
      BY DEF One
    <3> QED BY <3>1, FS_Singleton
  <2>5. Cardinality({}) = 0
    BY FS_EmptySet
  <2> QED BY <2>2, <2>3, <2>4, <2>5 DEF PairedRow
<1> QED BY SAlways, <1>1, PTL

BookOf(R) == [r \in DOMAIN R |-> IF R[r].open THEN "OPEN" ELSE "CLOSED"]

LEMMA BookShape ==
  ASSUME NEW R \in Seq(Row)
  PROVE  /\ BookOf(R) \in Seq({"OPEN", "CLOSED"}) /\ Len(BookOf(R)) = Len(R)
         /\ \A r \in DOMAIN R : BookOf(R)[r] = IF R[r].open THEN "OPEN" ELSE "CLOSED"
         /\ {i \in DOMAIN BookOf(R) : BookOf(R)[i] = "OPEN"} = OpenIn(R)
<1>1. DOMAIN R = 1..Len(R) /\ Len(R) \in Nat
  OBVIOUS
<1>2. BookOf(R) = [r \in 1..Len(R) |-> IF R[r].open THEN "OPEN" ELSE "CLOSED"]
  BY <1>1 DEF BookOf
<1>3. BookOf(R) \in Seq({"OPEN", "CLOSED"}) /\ Len(BookOf(R)) = Len(R)
  BY <1>1, <1>2, IsASeq
<1>4. \A r \in DOMAIN R : BookOf(R)[r] = IF R[r].open THEN "OPEN" ELSE "CLOSED"
  BY DEF BookOf
<1>5. DOMAIN BookOf(R) = DOMAIN R
  BY DEF BookOf
<1>6. {i \in DOMAIN BookOf(R) : BookOf(R)[i] = "OPEN"} = OpenIn(R)
  BY <1>4, <1>5 DEF OpenIn
<1> QED BY <1>3, <1>4, <1>6

LEMMA BookMoves ==
  ASSUME TInv, TradeStep
  PROVE  \/ BookOf(rows') = BookOf(rows)
         \/ OpenIn(rows) = {} /\ BookOf(rows') = Append(BookOf(rows), "OPEN")
         \/ \E i \in OpenIn(rows) : BookOf(rows') = [BookOf(rows) EXCEPT ![i] = "CLOSED"]
<1>1. rows \in Seq(Row) /\ Len(rows) \in Nat /\ DOMAIN rows = 1..Len(rows)
  BY DEF TInv, Types
<1> DEFINE b == BookOf(rows)
           c == BookOf(rows')
<1>2. /\ b \in Seq({"OPEN", "CLOSED"}) /\ Len(b) = Len(rows)
      /\ \A r \in DOMAIN rows : b[r] = IF rows[r].open THEN "OPEN" ELSE "CLOSED"
  BY <1>1, BookShape
<1>3. CASE rows' = rows
  BY <1>3
<1>4. ASSUME OpenIn(rows) = {}, NEW x \in Row, x.open, rows' = Append(rows, x)
      PROVE  OpenIn(rows) = {} /\ c = Append(b, "OPEN")
  <2>1. /\ rows' \in Seq(Row) /\ Len(rows') = Len(rows) + 1 /\ DOMAIN rows' = 1..Len(rows) + 1
        /\ rows'[Len(rows) + 1] = x /\ \A r \in DOMAIN rows : rows'[r] = rows[r]
    BY <1>1, <1>4
  <2>2. /\ c \in Seq({"OPEN", "CLOSED"}) /\ Len(c) = Len(rows')
        /\ \A r \in DOMAIN rows' : c[r] = IF rows'[r].open THEN "OPEN" ELSE "CLOSED"
    BY <2>1, BookShape
  <2> HIDE DEF b, c
  <2>3. /\ Append(b, "OPEN") \in Seq({"OPEN", "CLOSED"}) /\ Len(Append(b, "OPEN")) = Len(rows) + 1
        /\ \A r \in 1..Len(rows) : Append(b, "OPEN")[r] = b[r]
        /\ Append(b, "OPEN")[Len(rows) + 1] = "OPEN"
    BY <1>1, <1>2
  <2>4. \A r \in 1..Len(rows) + 1 : c[r] = Append(b, "OPEN")[r]
    <3> SUFFICES ASSUME NEW r \in 1..Len(rows) + 1 PROVE c[r] = Append(b, "OPEN")[r]
      OBVIOUS
    <3>1. CASE r = Len(rows) + 1
      BY <1>4, <2>1, <2>2, <2>3, <3>1
    <3>2. CASE r # Len(rows) + 1
      <4>1. r \in 1..Len(rows)
        BY <1>1, <3>2
      <4> QED BY <1>1, <1>2, <2>1, <2>2, <2>3, <4>1
    <3> QED BY <3>1, <3>2
  <2> QED BY <1>4, <2>1, <2>2, <2>3, <2>4, SeqEqual
<1>5. ASSUME NEW i \in OpenIn(rows), Len(rows') = Len(rows), rows' \in Seq(Row), ~rows'[i].open,
             \A y \in DOMAIN rows : y # i => rows'[y] = rows[y]
      PROVE  c = [b EXCEPT ![i] = "CLOSED"]
  <2>1. DOMAIN rows' = DOMAIN rows /\ i \in DOMAIN rows
    BY <1>1, <1>5 DEF OpenIn
  <2>2. /\ c \in Seq({"OPEN", "CLOSED"}) /\ Len(c) = Len(rows)
        /\ \A r \in DOMAIN rows : c[r] = IF rows'[r].open THEN "OPEN" ELSE "CLOSED"
    BY <1>5, <2>1, BookShape
  <2> HIDE DEF b, c
  <2> DEFINE d == [b EXCEPT ![i] = "CLOSED"]
  <2>3. /\ d \in Seq({"OPEN", "CLOSED"}) /\ Len(d) = Len(rows)
        /\ \A r \in DOMAIN rows : d[r] = IF r = i THEN "CLOSED" ELSE b[r]
    BY <1>1, <1>2, <2>1
  <2> HIDE DEF d
  <2>4. \A r \in DOMAIN rows : c[r] = d[r]
    BY <1>2, <1>5, <2>2, <2>3
  <2>5. c = d
    BY <1>1, <2>2, <2>3, <2>4, SeqEqual
  <2> QED BY <2>5 DEF d
<1> QED BY <1>3, <1>4, <1>5 DEF TradeStep

\* IsTradeBook of a bot without API requests, over crashes: table positions implements
\* TradeBook, so a row is opened when none is open, and a closed one is never opened again
\* (paper_engine.py:4).
THEOREM ImplementsTradeBook == ASSUME Apis = {} PROVE Spec => IsTradeBook
<1>1. Init => Book!Init
  <2>1. Init => rows = <<>> /\ <<>> \in Seq(Row)
    BY DEF Init
  <2>2. BookOf(<<>>) = <<>>
    <3>1. <<>> \in Seq(Row) /\ Len(<<>>) = 0
      OBVIOUS
    <3>2. BookOf(<<>>) \in Seq({"OPEN", "CLOSED"}) /\ Len(BookOf(<<>>)) = 0
      BY <3>1, BookShape
    <3> QED BY <3>2
  <2> QED BY <2>1, <2>2 DEF Book!Init, BookOf, RowIds
<1>2. TInv /\ SInv /\ Seen /\ [Next]_vars =>
        [Book!Next]_([r \in RowIds |-> IF rows[r].open THEN "OPEN" ELSE "CLOSED"])
  <2> SUFFICES ASSUME TInv, SInv, Seen, [Next]_vars
               PROVE  [Book!Next]_([r \in RowIds |-> IF rows[r].open THEN "OPEN" ELSE "CLOSED"])
    OBVIOUS
  <2>1. /\ [r \in RowIds |-> IF rows[r].open THEN "OPEN" ELSE "CLOSED"] = BookOf(rows)
        /\ [r \in RowIds |-> IF rows[r].open THEN "OPEN" ELSE "CLOSED"]' = BookOf(rows')
    BY DEF BookOf, RowIds
  <2>2. Book!OpenTrades = OpenIn(rows)
    <3>1. rows \in Seq(Row)
      BY DEF TInv, Types
    <3> QED BY <2>1, <3>1, BookShape DEF Book!OpenTrades
  <2>3. TradeStep
    BY SStep
  <2>4. \/ BookOf(rows') = BookOf(rows)
        \/ OpenIn(rows) = {} /\ BookOf(rows') = Append(BookOf(rows), "OPEN")
        \/ \E i \in OpenIn(rows) : BookOf(rows') = [BookOf(rows) EXCEPT ![i] = "CLOSED"]
    BY <2>3, BookMoves
  <2> QED BY <2>1, <2>2, <2>4 DEF Book!Next, Book!OpenTrade, Book!CloseTrade
<1> QED BY SAlways, <1>1, <1>2, PTL DEF Spec, IsTradeBook, Book!Spec
=============================================================================
