-------------------------- MODULE CandleFlow_proofs --------------------------
(* Windows, queues and histories of any length; any number of updates, breaks,
   downloads and restarts.  DecidesOnce follows from the order of the closing
   messages: those under way, those queued and the candles already decided on are in
   one strictly increasing order, all of them before the clock.  A lost connection or
   a full queue only removes from it, a restart empties it.  HeardIsKept follows from
   that order and from what the window and the history keep of it.  HistoryContiguous is
   a count of rows, which are only ever added.  OpenStreamsAll is about the feed that
  delivers the candles, and is at the end.  *)
EXTENDS CandleFlow, MarketFeed, FiniteSetTheorems, WellFoundedInduction, TLAPS

Msg == [ts : Int, closed : BOOLEAN]
\* Closing messages are in the order of their candles.
Rising(q) == \A i, j \in DOMAIN q : i < j /\ q[i].closed /\ q[j].closed => q[i].ts < q[j].ts
ClosedIn(q) == {q[i].ts : i \in {j \in DOMAIN q : q[j].closed}}
AllBefore(S, T) == \A a \in S, b \in T : a < b
Decided == {calls[i] : i \in DOMAIN calls}

Queues ==
  /\ clock \in Int
  /\ wire \in Seq(Msg)
  /\ runnerQ \in Seq(Msg)
  /\ calls \in Seq(Int)

OneOrder ==
  /\ \A i, j \in DOMAIN calls : i < j => calls[i] < calls[j]
  /\ Rising(runnerQ) /\ Rising(wire)
  /\ AllBefore(Decided, ClosedIn(runnerQ) \cup ClosedIn(wire) \cup {clock})
  /\ AllBefore(ClosedIn(runnerQ), ClosedIn(wire) \cup {clock})
  /\ AllBefore(ClosedIn(wire), {clock})

IInv == Queues /\ OneOrder

\* Candles are named by numbers.
LEMMA ClosedAreInts ==
  ASSUME NEW q \in Seq(Msg)
  PROVE  ClosedIn(q) \subseteq Int
<1>1. \A i \in DOMAIN q : q[i] \in Msg
  OBVIOUS
<1> QED
  BY <1>1 DEF ClosedIn, Msg

\* A message at the end of a queue joins its closing messages.
LEMMA AppendClosed ==
  ASSUME NEW q \in Seq(Msg), NEW m \in Msg
  PROVE  /\ Append(q, m) \in Seq(Msg)
         /\ ClosedIn(Append(q, m)) = ClosedIn(q) \cup (IF m.closed THEN {m.ts} ELSE {})
<1> DEFINE a == Append(q, m)
<1>1. a \in Seq(Msg) /\ Len(a) = Len(q) + 1
  OBVIOUS
<1>2. \A i \in DOMAIN q : a[i] = q[i]
  OBVIOUS
<1>3. a[Len(q) + 1] = m
  OBVIOUS
<1>4. DOMAIN a = DOMAIN q \cup {Len(q) + 1}
  BY <1>1
<1> HIDE DEF a
<1>5. ClosedIn(a) \subseteq ClosedIn(q) \cup (IF m.closed THEN {m.ts} ELSE {})
  BY <1>2, <1>3, <1>4 DEF ClosedIn
<1>6. ClosedIn(q) \cup (IF m.closed THEN {m.ts} ELSE {}) \subseteq ClosedIn(a)
  BY <1>2, <1>3, <1>4 DEF ClosedIn
<1> QED
  BY <1>1, <1>5, <1>6 DEF a

\* It keeps them in order if it is the latest of them.
LEMMA AppendRising ==
  ASSUME NEW q \in Seq(Msg), NEW m \in Msg,
         Rising(q), m.closed => AllBefore(ClosedIn(q), {m.ts})
  PROVE  Rising(Append(q, m))
<1> DEFINE a == Append(q, m)
<1>1. Len(a) = Len(q) + 1 /\ DOMAIN a = 1..Len(a) /\ DOMAIN q = 1..Len(q) /\ Len(q) \in Nat
  OBVIOUS
<1>2. (\A i \in DOMAIN q : a[i] = q[i]) /\ a[Len(q) + 1] = m
  OBVIOUS
<1> HIDE DEF a
<1> SUFFICES ASSUME NEW i \in DOMAIN a, NEW j \in DOMAIN a, i < j, a[i].closed, a[j].closed
             PROVE a[i].ts < a[j].ts
  BY DEF Rising, a
<1>3. i \in DOMAIN q /\ a[i] = q[i]
  BY <1>1, <1>2
<1>4. CASE j \in DOMAIN q
  BY <1>2, <1>3, <1>4 DEF Rising
<1>5. CASE j = Len(q) + 1
  <2>1. q[i].ts \in ClosedIn(q)
    BY <1>3 DEF ClosedIn
  <2> QED
    BY <1>2, <1>3, <1>5, <2>1 DEF AllBefore
<1> QED
  BY <1>1, <1>4, <1>5

\* Taking a queue's first message keeps the order of the others, all after it.
LEMMA TailRising ==
  ASSUME NEW q \in Seq(Msg), q # <<>>, Rising(q)
  PROVE  /\ Tail(q) \in Seq(Msg)
         /\ Head(q) \in Msg
         /\ Rising(Tail(q))
         /\ ClosedIn(Tail(q)) \subseteq ClosedIn(q)
         /\ Head(q).closed => /\ Head(q).ts \in ClosedIn(q)
                              /\ AllBefore({Head(q).ts}, ClosedIn(Tail(q)))
<1> DEFINE t == Tail(q)
<1>1. /\ t \in Seq(Msg)
      /\ DOMAIN t = 1..Len(t) /\ Len(t) = Len(q) - 1 /\ Len(q) \in Nat \ {0} /\ DOMAIN q = 1..Len(q)
  OBVIOUS
<1>2. \A i \in DOMAIN t : t[i] = q[i + 1] /\ i + 1 \in DOMAIN q /\ 1 < i + 1
  OBVIOUS
<1>3. Head(q) = q[1] /\ 1 \in DOMAIN q
  BY <1>1
<1> HIDE DEF t
<1>4. ASSUME NEW i \in DOMAIN t, NEW j \in DOMAIN t, i < j, t[i].closed, t[j].closed
      PROVE t[i].ts < t[j].ts
  <2>1. i + 1 \in DOMAIN q /\ j + 1 \in DOMAIN q /\ i + 1 < j + 1
    BY <1>1, <1>2, <1>4
  <2> QED
    BY <1>2, <1>4, <2>1 DEF Rising
<1>5. ClosedIn(t) \subseteq ClosedIn(q)
  BY <1>1, <1>2 DEF ClosedIn
<1>6. ASSUME q[1].closed
      PROVE q[1].ts \in ClosedIn(q) /\ AllBefore({q[1].ts}, ClosedIn(t))
  <2>1. q[1].ts \in ClosedIn(q)
    BY <1>3, <1>6 DEF ClosedIn
  <2>2. ASSUME NEW i \in DOMAIN t, t[i].closed
        PROVE q[1].ts < t[i].ts
    BY <1>2, <1>3, <1>6, <2>2 DEF Rising
  <2> QED
    BY <2>1, <2>2 DEF ClosedIn, AllBefore
<1>7. Rising(t)
  BY <1>4 DEF Rising
<1>8. Head(q) \in Msg
  OBVIOUS
<1> QED
  BY <1>1, <1>3, <1>5, <1>6, <1>7, <1>8 DEF t

\* Nothing is in the order when the queues are empty.
LEMMA EmptyRising == Rising(<<>>) /\ ClosedIn(<<>>) = {}
  BY DEF Rising, ClosedIn

\* A message from Binance is about the open candle, or about the one that closes.
LEMMA SentKeeps ==
  ASSUME IInv, CandleCloses \/ CandleUpdate
  PROVE  IInv'
<1>1. PICK c \in BOOLEAN : /\ wire' \in {wire, Append(wire, [ts |-> clock, closed |-> c])}
                           /\ clock' = (IF c THEN clock + 1 ELSE clock)
                           /\ UNCHANGED <<runnerQ, calls>>
  BY DEF CandleCloses, CandleUpdate, Sent, runnerVars, queueVars
<1> DEFINE n == [ts |-> clock, closed |-> c]
<1>2. n \in Msg /\ n.ts = clock /\ n.closed = c
  BY DEF IInv, Queues, Msg
<1>3. Rising(Append(wire, n)) /\ Append(wire, n) \in Seq(Msg)
  BY <1>2, AppendClosed, AppendRising DEF IInv, Queues, OneOrder
<1>4. ClosedIn(wire') \subseteq ClosedIn(wire) \cup (IF c THEN {clock} ELSE {})
  BY <1>1, <1>2, AppendClosed DEF IInv, Queues
<1>5. wire' \in Seq(Msg) /\ Rising(wire')
  BY <1>1, <1>3 DEF IInv, Queues, OneOrder
<1>6. ClosedIn(wire) \subseteq Int /\ ClosedIn(runnerQ) \subseteq Int /\ Decided \subseteq Int /\ clock \in Int
  BY ClosedAreInts DEF IInv, Queues, Decided
<1>7. ClosedIn(runnerQ)' = ClosedIn(runnerQ) /\ Decided' = Decided /\ Rising(runnerQ)'
  BY <1>1 DEF ClosedIn, Decided, IInv, OneOrder, Rising
<1>8. AllBefore(Decided, ClosedIn(runnerQ) \cup ClosedIn(wire') \cup {clock'})
  BY <1>1, <1>4, <1>6 DEF IInv, OneOrder, AllBefore
<1>9. AllBefore(ClosedIn(runnerQ), ClosedIn(wire') \cup {clock'})
  BY <1>1, <1>4, <1>6 DEF IInv, OneOrder, AllBefore
<1>10. AllBefore(ClosedIn(wire'), {clock'})
  BY <1>1, <1>4, <1>6 DEF IInv, OneOrder, AllBefore
<1> QED
  BY <1>1, <1>5, <1>7, <1>8, <1>9, <1>10 DEF IInv, Queues, OneOrder, AllBefore

\* The feed passes a message on or the queue is full.
LEMMA ReceiveKeeps ==
  ASSUME IInv, Receive
  PROVE  IInv'
<1> DEFINE m == Head(wire)
<1>1. /\ wire # <<>> /\ wire' = Tail(wire)
      /\ runnerQ' \in {runnerQ, Append(runnerQ, m)}
      /\ UNCHANGED <<clock, calls>>
  BY DEF Receive, Offer, runnerVars, timeVars
<1>2. /\ Tail(wire) \in Seq(Msg) /\ m \in Msg
      /\ Rising(Tail(wire)) /\ ClosedIn(Tail(wire)) \subseteq ClosedIn(wire)
      /\ m.closed => m.ts \in ClosedIn(wire) /\ AllBefore({m.ts}, ClosedIn(Tail(wire)))
  BY <1>1, TailRising DEF IInv, Queues, OneOrder
<1> HIDE DEF m
<1>3. m.closed => AllBefore(ClosedIn(runnerQ), {m.ts})
  BY <1>2 DEF IInv, OneOrder, AllBefore
<1>4. Rising(Append(runnerQ, m)) /\ Append(runnerQ, m) \in Seq(Msg)
  BY <1>2, <1>3, AppendRising, AppendClosed DEF IInv, Queues, OneOrder
<1>5. ClosedIn(runnerQ') \subseteq ClosedIn(runnerQ) \cup (IF m.closed THEN {m.ts} ELSE {})
  BY <1>1, <1>2, AppendClosed DEF IInv, Queues
<1>6. Queues' /\ Rising(runnerQ') /\ Rising(wire')
  <2>1. runnerQ' \in Seq(Msg) /\ Rising(runnerQ')
    BY <1>1, <1>4 DEF IInv, Queues, OneOrder
  <2> QED
    BY <1>1, <1>2, <2>1 DEF IInv, Queues
<1>7. Decided' = Decided
  BY <1>1 DEF Decided
<1>8. AllBefore(Decided, ClosedIn(runnerQ') \cup ClosedIn(wire') \cup {clock})
  BY <1>1, <1>2, <1>5 DEF IInv, OneOrder, AllBefore
<1>9. AllBefore(ClosedIn(runnerQ'), ClosedIn(wire') \cup {clock}) /\ AllBefore(ClosedIn(wire'), {clock})
  BY <1>1, <1>2, <1>5 DEF IInv, OneOrder, AllBefore
<1> QED
  BY <1>1, <1>6, <1>7, <1>8, <1>9 DEF IInv, OneOrder, AllBefore

\* The strategy is called for the message at hand, if at all.
LEMMA HandleKeeps ==
  ASSUME IInv, Handle
  PROVE  IInv'
<1> DEFINE m == Head(runnerQ)
<1>1. /\ runnerQ # <<>> /\ runnerQ' = Tail(runnerQ)
      /\ calls' = calls \/ (m.closed /\ calls' = Append(calls, m.ts))
      /\ UNCHANGED <<clock, wire>>
  BY DEF Handle, Skips, wireVars, timeVars
<1>2. /\ Tail(runnerQ) \in Seq(Msg) /\ m \in Msg
      /\ Rising(Tail(runnerQ)) /\ ClosedIn(Tail(runnerQ)) \subseteq ClosedIn(runnerQ)
      /\ m.closed => m.ts \in ClosedIn(runnerQ) /\ AllBefore({m.ts}, ClosedIn(Tail(runnerQ)))
  BY <1>1, TailRising DEF IInv, Queues, OneOrder
<1> HIDE DEF m
<1>3. calls' \in Seq(Int)
  <2>1. calls \in Seq(Int) /\ m.ts \in Int
    BY <1>2 DEF IInv, Queues, Msg
  <2>2. Append(calls, m.ts) \in Seq(Int)
    BY <2>1
  <2> QED
    BY <1>1, <2>1, <2>2
<1>6. Rising(runnerQ') /\ Rising(wire') /\ ClosedIn(wire') = ClosedIn(wire)
  BY <1>1, <1>2 DEF IInv, Queues, OneOrder
<1>4. CASE calls' = calls
  <2>1. Decided' = Decided
    BY <1>4 DEF Decided
  <2> QED
    BY <1>1, <1>2, <1>3, <1>4, <1>6, <2>1 DEF IInv, Queues, OneOrder, AllBefore
<1>5. CASE m.closed /\ calls' = Append(calls, m.ts)
  <2>1. /\ calls \in Seq(Int) /\ Len(calls) \in Nat /\ DOMAIN calls = 1..Len(calls)
        /\ DOMAIN calls' = 1..(Len(calls) + 1)
        /\ \A i \in DOMAIN calls : calls'[i] = calls[i]
        /\ calls'[Len(calls) + 1] = m.ts
    BY <1>2, <1>5 DEF IInv, Queues
  <2>2. Decided' = Decided \cup {m.ts}
    BY <2>1 DEF Decided
  <2>3. \A i, j \in DOMAIN calls' : i < j => calls'[i] < calls'[j]
    <3> SUFFICES ASSUME NEW i \in DOMAIN calls', NEW j \in DOMAIN calls', i < j
                 PROVE calls'[i] < calls'[j]
      OBVIOUS
    <3>1. i \in DOMAIN calls /\ calls[i] \in Decided
      BY <2>1 DEF Decided
    <3>2. CASE j \in DOMAIN calls
      BY <2>1, <3>1, <3>2 DEF IInv, OneOrder
    <3>3. CASE j = Len(calls) + 1
      BY <1>2, <1>5, <2>1, <3>1, <3>3 DEF IInv, OneOrder, AllBefore
    <3> QED
      BY <2>1, <3>2, <3>3
  <2> QED
    BY <1>1, <1>2, <1>3, <1>5, <1>6, <2>2, <2>3 DEF IInv, Queues, OneOrder, AllBefore
<1> QED
  BY <1>1, <1>4, <1>5

\* Messages under way are lost with the connection, all of them with the process.
LEMMA LossKeeps ==
  ASSUME IInv, Breaks \/ Restart
  PROVE  IInv'
<1>1. /\ wire' = <<>> /\ clock' = clock
      /\ \/ runnerQ' = runnerQ /\ calls' = calls
         \/ runnerQ' = <<>> /\ calls' = <<>>
  BY DEF Breaks, Restart, queueVars, runnerVars, timeVars
<1>2. wire' \in Seq(Msg) /\ Rising(wire') /\ ClosedIn(wire') = {}
  BY <1>1, EmptyRising
<1>3. CASE runnerQ' = runnerQ /\ calls' = calls
  BY <1>1, <1>2, <1>3 DEF IInv, Queues, OneOrder, AllBefore, Decided
<1>4. CASE runnerQ' = <<>> /\ calls' = <<>>
  <2>1. runnerQ' \in Seq(Msg) /\ Rising(runnerQ') /\ ClosedIn(runnerQ') = {}
    BY <1>4, EmptyRising
  <2>2. calls' \in Seq(Int) /\ DOMAIN calls' = {} /\ Decided' = {}
    BY <1>4 DEF Decided
  <2> QED
    BY <1>1, <1>2, <2>1, <2>2 DEF IInv, Queues, OneOrder, AllBefore
<1> QED
  BY <1>1, <1>3, <1>4

LEMMA OrderInit == ASSUME Init PROVE IInv
BY CandleConstants, EmptyRising
   DEF Init, CandleConstants, IInv, Queues, OneOrder, AllBefore, Decided

LEMMA OrderStep == ASSUME IInv, [Next]_vars PROVE IInv'
<1>1. CASE CandleCloses \/ CandleUpdate
  BY <1>1, SentKeeps
<1>2. CASE Receive
  BY <1>2, ReceiveKeeps
<1>3. CASE Handle
  BY <1>3, HandleKeeps
<1>4. CASE Breaks \/ Restart
  BY <1>4, LossKeeps
<1>5. ASSUME UNCHANGED <<clock, wire, runnerQ, calls>>
      PROVE IInv'
  BY <1>5 DEF IInv, Queues, OneOrder, AllBefore, Decided, ClosedIn, Rising
<1>6. CASE StartBot \/ Starting \/ SetStatus
  BY <1>6, <1>5 DEF StartBot, Starting, SetStatus, Backfill, BackfillUpsert, ReadHistory,
     FillWindow, RunnerSubscribes, wireVars, queueVars, timeVars
<1>7. CASE Downloads
  BY <1>7, <1>5 DEF Downloads, ScannerDownload, ScannerUpsert, EnsureHistory, HistoryUpsert,
     runnerVars, wireVars, queueVars, timeVars
<1>8. CASE Connects \/ Persist \/ UNCHANGED vars
  BY <1>8, <1>5 DEF Connects, Persist, runnerVars, wireVars, queueVars, timeVars, vars
<1> QED
  BY <1>1, <1>2, <1>3, <1>4, <1>6, <1>7, <1>8 DEF Next, Live

\* A strategy decides at most once on a candle, and on candles in their order,
\* whatever is lost on the way and however often the bot starts again.
THEOREM DecidesInOrder == Spec => []DecidesOnce
<1>1. Init => IInv
  BY OrderInit
<1>2. IInv /\ [Next]_vars => IInv'
  BY OrderStep
<1>3. IInv => DecidesOnce
  <2> SUFFICES ASSUME IInv, NEW i \in 1..Len(calls) - 1
               PROVE calls[i] < calls[i + 1]
    BY DEF DecidesOnce
  <2>1. i \in DOMAIN calls /\ i + 1 \in DOMAIN calls /\ i < i + 1
    BY DEF IInv, Queues
  <2> QED
    BY <2>1 DEF IInv, OneOrder
<1> QED
  BY <1>1, <1>2, <1>3, PTL DEF Spec
--------------------------------------------------------------------------------
(* HeardIsKept.  A candle that was handled is in the window with only later ones behind
   it, or has left the window to later ones, or was in the history.  What is at the end
   of the window comes from the history or is earlier than all that is still to come. *)

Ahead == ClosedIn(runnerQ) \cup ClosedIn(wire) \cup {clock}
Handled == heard \ ClosedIn(runnerQ)
Later(ts, i) == \A j \in DOMAIN window : i < j => ts < window[j].ts
Remembered(ts) ==
  \/ \E i \in DOMAIN window : window[i] = [ts |-> ts, row |-> "final"] /\ Later(ts, i)
  \/ window # <<>> /\ Later(ts, 0)
  \/ hist # <<>> /\ ts < Last(hist).ts
IsSeq(s) == Len(s) \in Nat /\ s = [i \in 1..Len(s) |-> s[i]]

Windows ==
  /\ heard \subseteq Int
  /\ IsSeq(hist) /\ IsSeq(window)
  /\ phase # "run" => heard = {} /\ runnerQ = <<>>
  /\ phase \notin {"task", "run"} => window = <<>>
Kept ==
  /\ AllBefore(Handled, Ahead)
  /\ window # <<>> => \/ hist # <<>> /\ Last(window).ts = Last(hist).ts
                      \/ Last(window).ts \in Int /\ AllBefore({Last(window).ts}, Ahead)
  /\ \A ts \in Handled : Remembered(ts)
HInv == IInv /\ Windows /\ Kept

\* Every function on 1..n is a sequence, of whatever its elements are in.
LEMMA ElementsIn ==
  ASSUME NEW S, NEW s, IsSeq(s), \A i \in 1..Len(s) : s[i] \in S
  PROVE  s \in Seq(S)
<1>1. s \in [1..Len(s) -> S]
  BY DEF IsSeq
<1>2. Len(s) \in Nat
  BY DEF IsSeq
<1> QED BY <1>1, <1>2

LEMMA SeqIsSeq == ASSUME NEW S, NEW s \in Seq(S) PROVE IsSeq(s)
  BY DEF IsSeq

\* What a bounded deque keeps of a sequence: its last n elements.
LEMMA KeepLastOf ==
  ASSUME NEW S, NEW s \in Seq(S), NEW n \in Nat \ {0}
  PROVE  /\ KeepLast(s, n) \in Seq(S)
         /\ \E k \in 0..Len(s) : /\ Len(KeepLast(s, n)) = Len(s) - k
                                 /\ \A i \in 1..(Len(s) - k) : KeepLast(s, n)[i] = s[i + k]
                                 /\ s # <<>> => k < Len(s)
<1>1. Len(s) \in Nat /\ (s # <<>> => Len(s) > 0)
  OBVIOUS
<1>2. CASE Len(s) > n
  <2>1. KeepLast(s, n) = SubSeq(s, Len(s) - n + 1, Len(s))
    BY <1>2 DEF KeepLast
  <2>2. Len(s) - n \in 0..Len(s) /\ Len(s) - n + 1 \in 1..Len(s) /\ Len(s) - n < Len(s)
    BY <1>1, <1>2
  <2>3. SubSeq(s, Len(s) - n + 1, Len(s)) \in Seq(S)
    BY <1>1, <2>2
  <2>4. Len(SubSeq(s, Len(s) - n + 1, Len(s))) = Len(s) - (Len(s) - n)
    BY <1>1, <2>2
  <2>5. \A i \in 1..n : SubSeq(s, Len(s) - n + 1, Len(s))[i] = s[i + (Len(s) - n)]
    BY <1>1, <2>2
  <2> QED BY <2>1, <2>2, <2>3, <2>4, <2>5
<1>3. CASE ~(Len(s) > n)
  <2>1. KeepLast(s, n) = s
    BY <1>3 DEF KeepLast
  <2>2. 0 \in 0..Len(s) /\ (s # <<>> => 0 < Len(s)) /\ \A i \in 1..(Len(s) - 0) : s[i] = s[i + 0]
    BY <1>1
  <2> QED BY <1>1, <2>1, <2>2
<1> QED BY <1>2, <1>3

\* The first message leaves the queue, the others stay.
LEMMA TailClosed ==
  ASSUME NEW q \in Seq(Msg), q # <<>>
  PROVE  ClosedIn(q) \subseteq ClosedIn(Tail(q)) \cup (IF Head(q).closed THEN {Head(q).ts} ELSE {})
<1> DEFINE t == Tail(q)
<1>1. /\ DOMAIN t = 1..Len(t) /\ Len(t) = Len(q) - 1 /\ Len(q) \in Nat \ {0} /\ DOMAIN q = 1..Len(q)
      /\ \A i \in DOMAIN t : t[i] = q[i + 1]
      /\ Head(q) = q[1]
  OBVIOUS
<1> HIDE DEF t
<1>2. ASSUME NEW i \in DOMAIN q, q[i].closed, i # 1
      PROVE  q[i].ts \in ClosedIn(t)
  <2>1. i - 1 \in DOMAIN t /\ t[i - 1] = q[i]
    BY <1>1, <1>2
  <2> QED BY <1>2, <2>1 DEF ClosedIn
<1> QED BY <1>1, <1>2 DEF ClosedIn, t

LEMMA AheadInts == ASSUME IInv PROVE Ahead \subseteq Int
  BY ClosedAreInts DEF IInv, Queues, Ahead

\* A window and its history are as they were, and nothing that is to come is earlier
\* than what was to come.
LEMMA Forward ==
  ASSUME HInv, UNCHANGED <<window, hist>>, Handled' \subseteq Handled,
         \A a \in Ahead' : a \in Int /\ \E b \in Ahead : b <= a
  PROVE  Kept'
<1>1. Ahead \subseteq Int /\ Handled \subseteq Int
  BY AheadInts DEF HInv, Windows, Handled
<1>2. AllBefore(Handled', Ahead')
  BY <1>1 DEF HInv, Kept, AllBefore
<1>3. window' # <<>> => \/ hist' # <<>> /\ Last(window').ts = Last(hist').ts
                        \/ Last(window').ts \in Int /\ AllBefore({Last(window').ts}, Ahead')
  BY <1>1 DEF HInv, Kept, AllBefore
<1>4. \A ts : Remembered(ts)' <=> Remembered(ts)
  BY DEF Remembered, Later
<1> QED BY <1>2, <1>3, <1>4 DEF HInv, Kept

LEMMA SentKeepsWindow ==
  ASSUME HInv, CandleCloses \/ CandleUpdate
  PROVE  Windows' /\ Kept'
<1>1. PICK c \in BOOLEAN : /\ wire' \in {wire, Append(wire, [ts |-> clock, closed |-> c])}
                           /\ clock' = (IF c THEN clock + 1 ELSE clock)
  BY DEF CandleCloses, CandleUpdate, Sent
<1>2. UNCHANGED <<runnerQ, heard, window, hist, phase>>
  BY DEF CandleCloses, CandleUpdate, runnerVars, queueVars
<1> DEFINE n == [ts |-> clock, closed |-> c]
<1>3. n \in Msg /\ n.ts = clock /\ n.closed = c
  BY DEF HInv, IInv, Queues, Msg
<1>4. ClosedIn(wire') \subseteq ClosedIn(wire) \cup (IF c THEN {clock} ELSE {})
  BY <1>1, <1>3, AppendClosed DEF HInv, IInv, Queues
<1>5. Ahead \subseteq Int /\ clock \in Ahead /\ clock \in Int
  BY AheadInts DEF HInv, IInv, Queues, Ahead
<1>6. ClosedIn(runnerQ)' = ClosedIn(runnerQ)
  BY <1>2 DEF ClosedIn
<1>7. ASSUME NEW a \in Ahead' PROVE a \in Int /\ \E b \in Ahead : b <= a
  <2>1. a \in Ahead \/ a = clock + 1
    BY <1>1, <1>4, <1>6 DEF Ahead
  <2>2. CASE a \in Ahead
    BY <1>5, <2>2
  <2>3. CASE a = clock + 1
    <3>1. clock <= a
      BY <1>5, <2>3
    <3> QED BY <1>5, <2>3, <3>1
  <2> QED BY <2>1, <2>2, <2>3
<1>8. Handled' = Handled
  BY <1>2, <1>6 DEF Handled
<1> QED BY <1>2, <1>7, <1>8, Forward DEF HInv, Windows

LEMMA ReceiveKeepsWindow ==
  ASSUME HInv, Receive
  PROVE  Windows' /\ Kept'
<1> DEFINE m == Head(wire)
<1>1. /\ wire # <<>> /\ wire' = Tail(wire)
      /\ runnerQ' \in {runnerQ, Append(runnerQ, m)}
      /\ UNCHANGED <<clock, window, hist, phase>>
  BY DEF Receive, Offer, runnerVars, timeVars
<1>2. \/ heard' = heard
      \/ heard' = heard \cup {m.ts} /\ m.closed /\ runnerQ' = Append(runnerQ, m) /\ phase = "run"
  BY DEF Receive, Offer
<1>9. phase # "run" => runnerQ' = runnerQ
  BY DEF Receive
<1>3. /\ m \in Msg
      /\ ClosedIn(Tail(wire)) \subseteq ClosedIn(wire)
      /\ m.closed => m.ts \in ClosedIn(wire)
  BY <1>1, TailRising DEF HInv, IInv, Queues, OneOrder
<1> HIDE DEF m
<1>4. ClosedIn(Append(runnerQ, m)) = ClosedIn(runnerQ) \cup (IF m.closed THEN {m.ts} ELSE {})
  BY <1>3, AppendClosed DEF HInv, IInv, Queues
<1>5. Ahead' \subseteq Ahead
  BY <1>1, <1>3, <1>4 DEF Ahead
<1>6. Handled' \subseteq Handled
  BY <1>1, <1>2, <1>4 DEF Handled
<1>7. \A a \in Ahead' : a \in Int /\ \E b \in Ahead : b <= a
  BY <1>5, AheadInts DEF HInv
<1>8. Windows'
  BY <1>1, <1>2, <1>3, <1>9 DEF HInv, Windows, Msg
<1> QED BY <1>1, <1>6, <1>7, <1>8, Forward

\* The candle at hand becomes the last of the window, in the place of its own earlier
\* row or behind all others, of which the oldest may leave.
LEMMA HandleRemembers ==
  ASSUME HInv, NEW m \in Msg, m.closed, m.ts \in ClosedIn(runnerQ),
         window = <<>> \/ ~(m.ts < Last(window).ts),
         LET c == [ts |-> m.ts, row |-> "final"] IN
         window' = IF window # <<>> /\ m.ts = Last(window).ts THEN [window EXCEPT ![Len(window)] = c]
                   ELSE KeepLast(Append(window, c), Lookback),
         hist' = hist
  PROVE  /\ IsSeq(window') /\ window' # <<>> /\ Last(window').ts = m.ts
         /\ Remembered(m.ts)'
         /\ \A ts \in Handled : Remembered(ts)'
<1> DEFINE c == [ts |-> m.ts, row |-> "final"]
           S == {window[i] : i \in 1..Len(window)} \cup {c}
<1>1. /\ Len(window) \in Nat /\ window = [i \in 1..Len(window) |-> window[i]]
      /\ DOMAIN window = 1..Len(window)
      /\ (window # <<>> <=> Len(window) > 0)
  BY DEF HInv, Windows, IsSeq
<1>8. c \in S /\ \A i \in 1..Len(window) : window[i] \in S
  OBVIOUS
<1> HIDE DEF S
<1>9. IsSeq(window)
  BY DEF HInv, Windows
<1>0. window \in Seq(S) /\ c \in S
  BY <1>8, <1>9, ElementsIn
<1>2. \A ts \in Handled : ts \in Int /\ ts < m.ts
  BY DEF HInv, Windows, Kept, AllBefore, Handled, Ahead
<1>3. m.ts \in Int
  BY DEF Msg
<1>4. CASE window # <<>> /\ m.ts = Last(window).ts
  <2>1. window' = [window EXCEPT ![Len(window)] = c] /\ Len(window) > 0
    BY <1>1, <1>4
  <2>2. /\ window' \in Seq(S)
        /\ Len(window') = Len(window) /\ DOMAIN window' = 1..Len(window)
        /\ window'[Len(window)] = c /\ window' # <<>>
        /\ \A i \in 1..Len(window) : i # Len(window) => window'[i] = window[i]
    BY <1>0, <1>1, <2>1
  <2>3. IsSeq(window') /\ window' # <<>> /\ Last(window').ts = m.ts
    <3>1. IsSeq(window')
      BY <2>2, SeqIsSeq
    <3>2. Last(window') = c
      BY <1>1, <2>1, <2>2 DEF Last
    <3> QED BY <2>2, <3>1, <3>2
  <2>4. Remembered(m.ts)'
    <3>1. Len(window) \in DOMAIN window' /\ Later(m.ts, Len(window))'
      BY <1>1, <2>1, <2>2 DEF Later
    <3> QED BY <2>2, <3>1 DEF Remembered
  <2>5. ASSUME NEW ts \in Handled PROVE Remembered(ts)'
    <3>1. Remembered(ts)
      BY DEF HInv, Kept
    <3>2. ASSUME NEW i \in DOMAIN window, window[i] = [ts |-> ts, row |-> "final"], Later(ts, i)
          PROVE  Remembered(ts)'
      <4>1. i # Len(window)
        BY <1>2, <1>4, <3>2 DEF Last
      <4>2. window'[i] = [ts |-> ts, row |-> "final"] /\ i \in DOMAIN window'
        BY <1>1, <2>2, <3>2, <4>1
      <4>3. Later(ts, i)'
        BY <1>1, <1>2, <2>2, <3>2 DEF Later
      <4> QED BY <4>2, <4>3 DEF Remembered
    <3>3. CASE window # <<>> /\ Later(ts, 0)
      <4>1. Later(ts, 0)'
        BY <1>1, <1>2, <2>2, <3>3 DEF Later
      <4> QED BY <2>2, <4>1 DEF Remembered
    <3> QED BY <3>1, <3>2, <3>3 DEF Remembered
  <2> QED BY <2>3, <2>4, <2>5
<1>5. CASE ~(window # <<>> /\ m.ts = Last(window).ts)
  <2> DEFINE a == Append(window, c)
  <2>2. /\ a \in Seq(S) /\ Len(a) = Len(window) + 1 /\ a[Len(window) + 1] = c
        /\ \A i \in 1..Len(window) : a[i] = window[i]
    BY <1>0, <1>1
  <2>3. window' = KeepLast(a, Lookback)
    BY <1>5
  <2>4. Lookback \in Nat \ {0}
    BY CandleConstants DEF CandleConstants
  <2> HIDE DEF a
  <2>5. a # <<>>
    BY <1>1, <2>2
  <2>6. window' \in Seq(S)
    BY <2>2, <2>3, <2>4, KeepLastOf
  <2>7. PICK k \in 0..Len(a) : /\ Len(window') = Len(a) - k
                               /\ \A i \in 1..(Len(a) - k) : window'[i] = a[i + k]
                               /\ k < Len(a)
    BY <2>2, <2>3, <2>4, <2>5, KeepLastOf, ZenonT(30)
  <2>8. PICK n \in Nat :
        /\ n = Len(window) + 1 - k /\ n > 0 /\ k \in Nat
        /\ Len(window') = n /\ DOMAIN window' = 1..n
        /\ window'[n] = c
        /\ \A i \in 1..n : i # n => window'[i] = window[i + k] /\ i + k \in 1..Len(window)
    <3>1. Len(window) + 1 - k \in Nat /\ Len(window) + 1 - k > 0 /\ k \in Nat
      BY <1>1, <2>2, <2>7
    <3> QED BY <1>1, <2>2, <2>6, <2>7, <3>1, SMTT(20)
  <2>9. IsSeq(window') /\ window' # <<>> /\ Last(window').ts = m.ts
    <3>1. IsSeq(window')
      BY <2>6, SeqIsSeq
    <3>2. window'[Len(window')] = c /\ window' # <<>>
      BY <2>8
    <3>3. Last(window').ts = m.ts
      BY <3>2 DEF Last
    <3> QED BY <3>1, <3>2, <3>3
  <2>10. Remembered(m.ts)'
    <3>1. n \in DOMAIN window' /\ Later(m.ts, n)'
      BY <2>8 DEF Later
    <3> QED BY <2>8, <3>1 DEF Remembered
  <2>11. ASSUME NEW ts \in Handled PROVE Remembered(ts)'
    <3>1. Remembered(ts)
      BY DEF HInv, Kept
    <3>2. ASSUME NEW i \in DOMAIN window, window[i] = [ts |-> ts, row |-> "final"], Later(ts, i)
          PROVE  Remembered(ts)'
      <4>1. CASE i > k
        <5>1. i - k \in 1..n /\ i - k # n /\ (i - k) + k = i
          BY <1>1, <2>8, <4>1
        <5>2. window'[i - k] = [ts |-> ts, row |-> "final"]
          BY <2>8, <3>2, <5>1
        <5>3. Later(ts, i - k)'
          <6> SUFFICES ASSUME NEW j \in 1..n, i - k < j PROVE ts < window'[j].ts
            BY <2>8 DEF Later
          <6>1. CASE j = n
            BY <1>2, <2>8, <6>1
          <6>2. CASE j # n
            <7>1. i < j + k /\ j + k \in DOMAIN window
              BY <1>1, <2>8, <6>2, <4>1
            <7> QED BY <2>8, <3>2, <6>2, <7>1 DEF Later
          <6> QED BY <6>1, <6>2
        <5> QED BY <2>8, <5>1, <5>2, <5>3 DEF Remembered
      <4>2. CASE ~(i > k)
        <5>1. Later(ts, 0)'
          <6> SUFFICES ASSUME NEW j \in 1..n PROVE ts < window'[j].ts
            BY <2>8 DEF Later
          <6>1. CASE j = n
            BY <1>2, <2>8, <6>1
          <6>2. CASE j # n
            BY <1>1, <2>8, <3>2, <4>2, <6>2, SMTT(20) DEF Later
          <6> QED BY <6>1, <6>2
        <5> QED BY <2>9, <5>1 DEF Remembered
      <4> QED BY <4>1, <4>2
    <3>3. CASE window # <<>> /\ Later(ts, 0)
      <4>1. Later(ts, 0)'
        <5> SUFFICES ASSUME NEW j \in 1..n PROVE ts < window'[j].ts
          BY <2>8 DEF Later
        <5>1. CASE j = n
          BY <1>2, <2>8, <5>1
        <5>2. CASE j # n
          BY <1>1, <2>8, <3>3, <5>2 DEF Later
        <5> QED BY <5>1, <5>2
      <4> QED BY <2>9, <4>1 DEF Remembered
    <3>4. CASE hist # <<>> /\ ts < Last(hist).ts
      BY <3>4 DEF Remembered
    <3> QED BY <3>1, <3>2, <3>3, <3>4 DEF Remembered
  <2> QED BY <2>9, <2>10, <2>11
<1> QED BY <1>4, <1>5

\* A handled message is earlier than all that are still to come.
LEMMA HandleKeepsWindow ==
  ASSUME HInv, Handle
  PROVE  Windows' /\ Kept'
<1>0. PICK m : m = Head(runnerQ)
  OBVIOUS
<1> DEFINE c == [ts |-> m.ts, row |-> "final"]
<1>1. /\ runnerQ # <<>> /\ runnerQ' = Tail(runnerQ)
      /\ UNCHANGED <<clock, wire, heard, hist, phase>>
  BY DEF Handle, wireVars, timeVars
<1>2. /\ m \in Msg /\ ClosedIn(Tail(runnerQ)) \subseteq ClosedIn(runnerQ)
      /\ m.closed => m.ts \in ClosedIn(runnerQ) /\ AllBefore({m.ts}, ClosedIn(Tail(runnerQ)))
      /\ ClosedIn(runnerQ) \subseteq ClosedIn(Tail(runnerQ)) \cup (IF m.closed THEN {m.ts} ELSE {})
  BY <1>0, <1>1, TailRising, TailClosed DEF HInv, IInv, Queues, OneOrder
<1>3. \/ Skips(m) /\ window' = window
      \/ /\ ~Skips(m)
         /\ window' = IF window # <<>> /\ m.ts = Last(window).ts
                      THEN [window EXCEPT ![Len(window)] = c]
                      ELSE KeepLast(Append(window, c), Lookback)
  BY <1>0 DEF Handle
<1>4. phase = "run"
  BY <1>1 DEF HInv, Windows
<1>5. Ahead' \subseteq Ahead /\ Ahead \subseteq Int
  BY <1>1, <1>2, AheadInts DEF Ahead, HInv
<1>6. Handled' \subseteq Handled \cup (IF m.closed THEN {m.ts} ELSE {})
  BY <1>1, <1>2 DEF Handled
<1>7. m.closed => AllBefore({m.ts}, Ahead')
  <2>1. m.closed => AllBefore({m.ts}, ClosedIn(wire) \cup {clock})
    BY <1>2 DEF HInv, IInv, OneOrder, AllBefore
  <2>2. ClosedIn(wire)' = ClosedIn(wire)
    BY <1>1 DEF ClosedIn
  <2> QED BY <1>1, <1>2, <2>1, <2>2 DEF AllBefore, Ahead
<1>8. AllBefore(Handled', Ahead')
  BY <1>5, <1>6, <1>7 DEF HInv, Kept, AllBefore
<1>9. CASE ~m.closed
  <2>1. window' = window
    BY <1>3, <1>9 DEF Skips
  <2>2. Handled' \subseteq Handled /\ \A a \in Ahead' : a \in Int /\ \E b \in Ahead : b <= a
    BY <1>5, <1>6, <1>9
  <2>3. Kept'
    BY <1>1, <2>1, <2>2, Forward
  <2> QED BY <1>1, <1>4, <2>1, <2>3 DEF HInv, Windows
<1>10. CASE m.closed /\ Skips(m)
  <2>1. window' = window /\ window # <<>> /\ m.ts < Last(window).ts
    BY <1>3, <1>10 DEF Skips
  <2>2. m.ts \in Int /\ m.ts \in Ahead
    BY <1>2, <1>10 DEF Msg, Ahead
  <2>3. hist # <<>> /\ Last(window).ts = Last(hist).ts
    BY <2>1, <2>2 DEF HInv, Kept, AllBefore
  <2>4. Remembered(m.ts)'
    BY <1>1, <2>1, <2>3 DEF Remembered
  <2>5. \A ts \in Handled : Remembered(ts)'
    BY <1>1, <2>1 DEF HInv, Kept, Remembered, Later
  <2>6. Kept'
    BY <1>1, <1>6, <1>8, <2>1, <2>3, <2>4, <2>5 DEF Kept
  <2> QED BY <1>1, <1>4, <2>1, <2>6 DEF HInv, Windows
<1>11. CASE m.closed /\ ~Skips(m)
  <2>1. window = <<>> \/ ~(m.ts < Last(window).ts)
    BY <1>11 DEF Skips
  <2>2. window' = IF window # <<>> /\ m.ts = Last(window).ts
                  THEN [window EXCEPT ![Len(window)] = c]
                  ELSE KeepLast(Append(window, c), Lookback)
    BY <1>3, <1>11
  <2>3. /\ IsSeq(window') /\ window' # <<>> /\ Last(window').ts = m.ts
        /\ Remembered(m.ts)' /\ \A ts \in Handled : Remembered(ts)'
    BY <1>1, <1>2, <1>11, <2>1, <2>2, HandleRemembers
  <2>4. m.ts \in Int
    BY <1>2 DEF Msg
  <2>5. Kept'
    BY <1>6, <1>7, <1>8, <1>11, <2>3, <2>4 DEF Kept
  <2> QED BY <1>1, <1>4, <2>3, <2>5 DEF HInv, Windows
<1> QED BY <1>9, <1>10, <1>11

\* The table's rows are finitely many, so what is read of them is a sequence.
LEMMA HistoryIsSeq == IsSeq(History)
<1>1. IsFiniteSet(Times)
  BY CandleConstants, FS_Interval DEF CandleConstants, Times
<1>2. IsFiniteSet(Rows)
  BY <1>1, FS_Subset DEF Rows
<1>3. Cardinality(Rows) \in Nat
  BY <1>2, FS_CardinalityType
<1> DEFINE row(i) == LET ts == SetToSortSeq(Rows, <)[i] IN [ts |-> ts, row |-> db[ts]]
<1>4. History = [i \in 1..Cardinality(Rows) |-> row(i)]
  BY DEF History
<1> HIDE DEF row
<1>5. Len(History) = Cardinality(Rows)
  BY <1>3, <1>4
<1>6. History = [i \in 1..Cardinality(Rows) |-> History[i]]
  BY <1>3, <1>4
<1> QED BY <1>3, <1>5, <1>6 DEF IsSeq

\* A sequence's elements at which something holds are no more than the sequence.
LEMMA CountInSeq ==
  ASSUME NEW s, IsSeq(s), NEW D \in SUBSET (DOMAIN s)
  PROVE  Cardinality(D) \in 0..Len(s)
<1>1. DOMAIN s = 1..Len(s) /\ Len(s) \in Nat
  BY DEF IsSeq
<1>2. IsFiniteSet(1..Len(s)) /\ Cardinality(1..Len(s)) = Len(s)
  BY <1>1, FS_Interval
<1>3. Cardinality(D) <= Len(s) /\ Cardinality(D) \in Nat
  BY <1>1, <1>2, FS_Subset, FS_CardinalityType
<1> QED BY <1>1, <1>3

LEMMA PrefixIsSeq ==
  ASSUME NEW s, IsSeq(s), NEW n \in 0..Len(s)
  PROVE  IsSeq(SubSeq(s, 1, n))
<1> DEFINE S == {s[i] : i \in 1..Len(s)}
<1>1. \A i \in 1..Len(s) : s[i] \in S
  OBVIOUS
<1> HIDE DEF S
<1>2. s \in Seq(S)
  BY <1>1, ElementsIn
<1>3. SubSeq(s, 1, n) \in Seq(S)
  BY <1>2
<1> QED BY <1>3, SeqIsSeq

\* Until its task runs, a bot has heard nothing, and its window is what it has read.
LEMMA StartKeepsWindow ==
  ASSUME HInv, StartBot \/ Starting
  PROVE  Windows' /\ Kept'
<1>1. /\ phase # "run" /\ UNCHANGED <<clock, wire, runnerQ, heard>>
      /\ phase' = "run" => RunnerSubscribes
  BY DEF StartBot, Starting, Backfill, BackfillUpsert, ReadHistory, FillWindow,
     RunnerSubscribes, wireVars, queueVars, timeVars
<1>2. heard = {} /\ heard' = {} /\ runnerQ' = <<>> /\ Handled' = {}
  BY <1>1 DEF HInv, Windows, Handled
<1>3. CASE UNCHANGED <<hist, window>> /\ (phase' \in {"task", "run"} \/ window = <<>>)
  <2>1. Handled' \subseteq Handled /\ Ahead' = Ahead
    BY <1>1, <1>2 DEF Ahead, ClosedIn
  <2>2. \A a \in Ahead' : a \in Int /\ \E b \in Ahead : b <= a
    BY <2>1, AheadInts DEF HInv
  <2>3. Kept'
    BY <1>3, <2>1, <2>2, Forward
  <2> QED BY <1>2, <1>3, <2>3 DEF HInv, Windows
<1>4. CASE ReadHistory
  <2>1. hist' = KeepLast(History, Lookback) /\ window' = <<>> /\ window = <<>> /\ phase' = "filter"
    BY <1>4 DEF ReadHistory, HInv, Windows
  <2> DEFINE S == {History[i] : i \in 1..Len(History)}
  <2>2. \A i \in 1..Len(History) : History[i] \in S
    OBVIOUS
  <2> HIDE DEF S
  <2>3. History \in Seq(S) /\ Lookback \in Nat \ {0}
    BY <2>2, HistoryIsSeq, ElementsIn, CandleConstants DEF CandleConstants
  <2>4. IsSeq(hist')
    BY <2>1, <2>3, KeepLastOf, SeqIsSeq
  <2> QED BY <1>2, <2>1, <2>4 DEF HInv, Windows, Kept, AllBefore
<1>5. CASE FillWindow
  <2>1. IsSeq(hist)
    BY DEF HInv, Windows
  <2>2. PICK D \in SUBSET (DOMAIN hist) : hist' = SubSeq(hist, 1, Cardinality(D))
    BY <1>5 DEF FillWindow
  <2>3. IsSeq(hist')
    BY <2>1, <2>2, CountInSeq, PrefixIsSeq
  <2>4. window' = hist' /\ phase' = "task"
    BY <1>5 DEF FillWindow
  <2> QED BY <1>2, <2>3, <2>4 DEF Windows, Kept, AllBefore
<1>6. CASE StartBot
  BY <1>3, <1>6 DEF StartBot, HInv, Windows
<1>7. CASE Backfill \/ BackfillUpsert
  BY <1>3, <1>7 DEF Backfill, BackfillUpsert, HInv, Windows
<1>8. CASE RunnerSubscribes
  BY <1>3, <1>8 DEF RunnerSubscribes
<1> QED BY <1>4, <1>5, <1>6, <1>7, <1>8 DEF Starting

\* A lost connection leaves the runner alone, a restart empties all it holds.
LEMMA LossKeepsWindow ==
  ASSUME HInv, Breaks \/ Restart
  PROVE  Windows' /\ Kept'
<1>1. CASE Breaks
  <2>1. UNCHANGED <<clock, phase, hist, window, runnerQ, heard>> /\ wire' = <<>>
    BY <1>1 DEF Breaks, runnerVars, queueVars, timeVars
  <2>2. Handled' \subseteq Handled /\ Ahead' \subseteq Ahead
    BY <2>1, EmptyRising DEF Handled, Ahead, ClosedIn
  <2>3. \A a \in Ahead' : a \in Int /\ \E b \in Ahead : b <= a
    BY <2>2, AheadInts DEF HInv
  <2>4. Kept'
    BY <2>1, <2>2, <2>3, Forward
  <2> QED BY <2>1, <2>4 DEF HInv, Windows
<1>2. CASE Restart
  <2>1. hist' = <<>> /\ window' = <<>> /\ heard' = {} /\ runnerQ' = <<>>
    BY <1>2 DEF Restart
  <2>2. IsSeq(hist') /\ IsSeq(window')
    BY <2>1 DEF IsSeq
  <2> QED BY <2>1, <2>2 DEF Windows, Kept, AllBefore, Handled
<1> QED BY <1>1, <1>2

\* Pausing a bot, downloads and the table leave its window alone.
LEMMA OthersKeepWindow ==
  ASSUME HInv, SetStatus \/ Downloads \/ Connects \/ Persist \/ UNCHANGED vars
  PROVE  Windows' /\ Kept'
<1>1. UNCHANGED <<clock, wire, phase, hist, window, runnerQ, heard>>
  <2>1. CASE SetStatus \/ Connects \/ Persist \/ UNCHANGED vars
    BY <2>1 DEF SetStatus, Connects, Persist, vars, wireVars, queueVars, timeVars, runnerVars
  <2>2. CASE Downloads
    BY <2>2 DEF Downloads, ScannerDownload, ScannerUpsert, EnsureHistory, HistoryUpsert,
       runnerVars, wireVars, queueVars, timeVars
  <2> QED BY <2>1, <2>2
<1>2. Handled' \subseteq Handled /\ Ahead' = Ahead
  BY <1>1 DEF Handled, Ahead, ClosedIn
<1>3. \A a \in Ahead' : a \in Int /\ \E b \in Ahead : b <= a
  BY <1>2, AheadInts DEF HInv
<1>4. Kept'
  BY <1>1, <1>2, <1>3, Forward
<1> QED BY <1>1, <1>4 DEF HInv, Windows

\* A closing message that reached the runner is not lost there: until it is handled it
\* is queued; then its candle is in the window, or older than all of it, or was older
\* than the history the bot started with.
THEOREM HeardStays == Spec => []HeardIsKept
<1>1. Init => HInv
  <2> SUFFICES ASSUME Init PROVE HInv
    OBVIOUS
  <2>1. IInv
    BY OrderInit
  <2>2. IsSeq(hist) /\ IsSeq(window)
    BY DEF Init, IsSeq
  <2> QED BY <2>1, <2>2 DEF Init, HInv, Windows, Kept, AllBefore, Handled
<1>2. HInv /\ [Next]_vars => HInv'
  <2> SUFFICES ASSUME HInv, [Next]_vars PROVE HInv'
    OBVIOUS
  <2>1. IInv'
    BY OrderStep DEF HInv
  <2>2. Windows' /\ Kept'
    BY SentKeepsWindow, ReceiveKeepsWindow, HandleKeepsWindow, StartKeepsWindow,
       LossKeepsWindow, OthersKeepWindow DEF Next, Live
  <2> QED BY <2>1, <2>2 DEF HInv
<1>3. HInv => HeardIsKept
  <2> SUFFICES ASSUME HInv, NEW ts \in heard
               PROVE \/ \E i \in 1..Len(runnerQ) : runnerQ[i] = [ts |-> ts, closed |-> TRUE]
                     \/ \E i \in 1..Len(window) : window[i] = [ts |-> ts, row |-> "final"]
                     \/ window # <<>> /\ ts < window[1].ts
                     \/ hist # <<>> /\ ts < Last(hist).ts
    BY DEF HeardIsKept
  <2>1. DOMAIN window = 1..Len(window) /\ (window # <<>> => 1 \in DOMAIN window)
    BY DEF HInv, Windows, IsSeq
  <2>2. CASE ts \in ClosedIn(runnerQ)
    <3>1. PICK i \in DOMAIN runnerQ : runnerQ[i].closed /\ runnerQ[i].ts = ts
      BY <2>2 DEF ClosedIn
    <3>2. runnerQ[i] \in Msg /\ i \in 1..Len(runnerQ)
      BY DEF HInv, IInv, Queues
    <3>3. runnerQ[i] = [ts |-> ts, closed |-> TRUE]
      BY <3>1, <3>2 DEF Msg
    <3> QED BY <3>2, <3>3
  <2>3. CASE ts \notin ClosedIn(runnerQ)
    <3>1. Remembered(ts)
      BY <2>3 DEF HInv, Kept, Handled
    <3> QED BY <2>1, <3>1 DEF Remembered, Later
  <2> QED BY <2>2, <2>3
<1> QED
  BY <1>1, <1>2, <1>3, PTL DEF Spec
--------------------------------------------------------------------------------
(* HistoryContiguous.  Table kline only grows, and nothing in it is later than the open
   candle, so what a download leaves out is what was missing when it was counted.  *)

Candle == [ts : 0..clock, closed : BOOLEAN]
Rowed(d, now) == \A t \in Times : d[t] # "none" => t <= now
\* What is missing before the first candle of download f.
Skipped(d, f) == {ts \in 2..f.at : ts < f.from /\ d[ts] = "none"}
Counted(d, f) == 100 * Cardinality(Skipped(d, f)) <= f.at + 1

Stored ==
  /\ clock \in Times
  /\ db \in [Times -> {"none", "partial", "final"}] /\ Rowed(db, clock)
  /\ wire \in Seq(Candle) /\ persistQ \in Seq(Candle)
  /\ \A t \in Tasks : fetch[t] = None \/ fetch[t] \in [from : Nat, at : 0..clock]
  /\ fetch \in [Tasks -> [from : Nat, at : Int]]
  /\ fetch["backtest"] # None => Counted(db, fetch["backtest"])

\* A set of numbers has a least and, when it is bounded, a greatest element.
LEMMA Least ==
  ASSUME NEW S \in SUBSET Nat, S # {}
  PROVE  \E x \in S : \A y \in S : x <= y
<1> DEFINE R == OpToRel(<, Nat)
<1>1. IsWellFoundedOn(R, Nat)
  BY NatLessThanWellFounded
<1>2. R = {ss \in Nat \X Nat : ss[1] < ss[2]}
  BY DEF OpToRel
<1> HIDE DEF R
<1>3. PICK x \in S : \A y \in S : ~(<<y, x>> \in R)
  BY <1>1, WFMin
<1>4. ASSUME NEW y \in S PROVE x <= y
  <2>1. x \in Nat /\ y \in Nat
    OBVIOUS
  <2>2. <<y, x>> \notin R
    BY <1>3
  <2>3. ~(y < x)
    BY <1>2, <2>1, <2>2
  <2> QED BY <2>1, <2>3
<1> QED BY <1>4

LEMMA Greatest ==
  ASSUME NEW n \in Nat, NEW S \in SUBSET (0..n), S # {}
  PROVE  \E x \in S : \A y \in S : y <= x
<1> DEFINE T == {k \in Nat : \A y \in S : y <= k}
<1>1. n \in T
  OBVIOUS
<1>2. PICK k \in T : \A j \in T : k <= j
  BY <1>1, Least
<1>3. k \in S
  <2>1. CASE k = 0
    <3>1. PICK y \in S : TRUE
      OBVIOUS
    <3> QED BY <2>1, <3>1
  <2>2. CASE k # 0
    <3>1. k - 1 \in Nat /\ ~(k <= k - 1)
      BY <2>2
    <3>2. k - 1 \notin T
      BY <1>2, <3>1
    <3>3. PICK y \in S : ~(y <= k - 1)
      BY <3>1, <3>2
    <3>4. y \in Nat /\ y <= k /\ k \in Nat
      OBVIOUS
    <3>5. y = k
      BY <3>3, <3>4
    <3> QED BY <3>5
  <2> QED BY <2>1, <2>2
<1> QED BY <1>3

\* A history that counts as contiguous lacks one row of a hundred at most.
LEMMA CountedRows ==
  ASSUME Stored, Contiguous
  PROVE  /\ Newest \in 0..clock
         /\ Counted(db, [from |-> Newest, at |-> clock])
<1> DEFINE G == {ts \in 2..clock : ts < Newest /\ db[ts] = "none"}
           span == First..Newest
<1>1. clock \in Nat /\ Times = 0..LastCandle /\ LastCandle \in Nat /\ clock <= LastCandle
  BY CandleConstants DEF Stored, CandleConstants, Times
<1>2. Rows \subseteq 0..clock /\ Rows \subseteq Nat /\ Rows # {}
  BY <1>1 DEF Stored, Rowed, Rows, Contiguous
<1>3. First \in Rows /\ \A u \in Rows : First <= u
  BY <1>2, Least DEF First
<1>4. Newest \in Rows /\ \A u \in Rows : Newest >= u
  <2>1. \E x \in Rows : \A y \in Rows : y <= x
    BY <1>1, <1>2, Greatest
  <2>2. \E x \in Rows : \A y \in Rows : x >= y
    BY <1>2, <2>1
  <2> QED BY <2>2 DEF Newest
<1>5. First \in 0..clock /\ Newest \in 0..clock /\ First <= Newest /\ First <= 2
  BY <1>2, <1>3, <1>4 DEF Contiguous
<1>6. Rows \subseteq span /\ G \subseteq span /\ Rows \cap G = {}
  <2>1. Rows \subseteq span
    BY <1>2, <1>3, <1>4, <1>5
  <2>2. G \subseteq span
    BY <1>1, <1>5
  <2>3. Rows \cap G = {}
    BY DEF Rows
  <2> QED BY <2>1, <2>2, <2>3
<1>7. IsFiniteSet(span) /\ Cardinality(span) = Newest - First + 1
  BY <1>5, FS_Interval
<1>8. IsFiniteSet(Rows) /\ IsFiniteSet(G)
  BY <1>6, <1>7, FS_Subset
<1>9. Cardinality(Rows) + Cardinality(G) <= Newest - First + 1
  <2>1. Rows \cup G \in SUBSET span
    BY <1>6
  <2>2. Cardinality(Rows \cup G) <= Newest - First + 1
    <3>1. Cardinality(Rows \cup G) <= Cardinality(span)
      <4> HIDE DEF G, span
      <4> QED BY <2>1, <1>7, FS_Subset
    <3> QED BY <3>1, <1>7
  <2>3. Cardinality(Rows \cup G) = Cardinality(Rows) + Cardinality(G) - Cardinality(Rows \cap G)
    BY <1>8, FS_Union
  <2>4. Cardinality(Rows \cap G) = 0
    BY <1>6, FS_EmptySet
  <2>5. Cardinality(Rows) \in Nat /\ Cardinality(G) \in Nat
    BY <1>8, FS_CardinalityType
  <2> HIDE DEF G, span
  <2> QED BY <2>2, <2>3, <2>4, <2>5
<1>10. 100 * Cardinality(G) <= clock + 1
  <2>1. Cardinality(Rows) \in Nat /\ Cardinality(G) \in Nat
    BY <1>8, FS_CardinalityType
  <2>2. 100 * Cardinality(Rows) >= 99 * (Newest - First + 1)
    BY DEF Contiguous
  <2>3. Newest \in Nat /\ First \in Nat /\ Newest <= clock
    BY <1>1, <1>5
  <2> HIDE DEF G
  <2> QED BY <1>1, <1>9, <2>1, <2>2, <2>3
<1>11. Skipped(db, [from |-> Newest, at |-> clock]) = G
  BY DEF Skipped
<1> QED BY <1>5, <1>10, <1>11 DEF Counted

\* Rows that are added leave no more out.
LEMMA MoreRows ==
  ASSUME NEW d, NEW e, NEW f \in [from : Nat, at : Int], Counted(d, f),
         \A ts \in 2..f.at : e[ts] = "none" => d[ts] = "none"
  PROVE  Counted(e, f)
<1>1. Skipped(e, f) \subseteq Skipped(d, f)
  BY DEF Skipped
<1>2. Skipped(d, f) \in SUBSET (2..f.at) /\ f.at \in Int
  BY DEF Skipped
<1>3. IsFiniteSet(Skipped(d, f))
  <2>1. IsFiniteSet(2..f.at)
    BY <1>2, FS_Interval
  <2> QED BY <1>2, <2>1, FS_Subset
<1>4. /\ Cardinality(Skipped(e, f)) <= Cardinality(Skipped(d, f))
      /\ IsFiniteSet(Skipped(e, f))
  BY <1>1, <1>3, FS_Subset
<1>5. Cardinality(Skipped(e, f)) \in Nat /\ Cardinality(Skipped(d, f)) \in Nat
  BY <1>3, <1>4, FS_CardinalityType
<1> QED BY <1>2, <1>4, <1>5 DEF Counted

LEMMA InitStored == Init => Stored
<1> SUFFICES ASSUME Init PROVE Stored
  OBVIOUS
<1>1. clock \in Times /\ FirstOpen \in Nat /\ clock = FirstOpen
  BY CandleConstants DEF Init, CandleConstants, Times
<1>2. db \in [Times -> {"none", "partial", "final"}] /\ Rowed(db, clock)
  BY <1>1 DEF Init, Rowed, Times
<1>3. None \in [from : Nat, at : Int]
  BY DEF None
<1>4. fetch \in [Tasks -> [from : Nat, at : Int]] /\ \A t \in Tasks : fetch[t] = None
  BY <1>3 DEF Init
<1>5. wire \in Seq(Candle) /\ persistQ \in Seq(Candle)
  BY DEF Init
<1> QED BY <1>1, <1>2, <1>4, <1>5 DEF Stored, Tasks

\* A message is about the candle that is open or closes.
LEMMA SentStored ==
  ASSUME Stored, CandleCloses \/ CandleUpdate PROVE Stored'
<1>1. PICK c \in BOOLEAN : /\ wire' \in {wire, Append(wire, [ts |-> clock, closed |-> c])}
                           /\ clock' \in {clock, clock + 1} /\ clock' \in Times
                           /\ UNCHANGED <<db, fetch, persistQ>>
  <2>1. CASE CandleCloses
    <3>1. clock + 1 \in Times
      BY <2>1, CandleConstants DEF CandleCloses, Stored, Times, CandleConstants
    <3> QED BY <2>1, <3>1 DEF CandleCloses, Sent, queueVars, dbVars
  <2>2. CASE CandleUpdate
    BY <2>2 DEF CandleUpdate, Sent, queueVars, dbVars, Stored
  <2> QED BY <2>1, <2>2
<1>2. clock \in Nat /\ 0..clock \subseteq 0..clock' /\ clock <= clock'
  BY <1>1 DEF Stored, Times
<1>3. [ts |-> clock, closed |-> c] \in Candle
  BY <1>2 DEF Candle
<1>4. wire' \in Seq(Candle) /\ persistQ' \in Seq(Candle)
  <2>1. wire \in Seq(Candle) /\ persistQ \in Seq(Candle)
    BY DEF Stored
  <2>2. Append(wire, [ts |-> clock, closed |-> c]) \in Seq(Candle)
    BY <1>3, <2>1
  <2> QED BY <1>1, <2>1, <2>2
<1>5. Candle \subseteq Candle'
  BY <1>2 DEF Candle
<1>6. wire' \in Seq(Candle') /\ persistQ' \in Seq(Candle')
  BY <1>4, <1>5
<1>7. Rowed(db', clock')
  BY <1>1, <1>2 DEF Stored, Rowed, Times
<1>8. \A t \in Tasks : fetch'[t] = None \/ fetch'[t] \in [from : Nat, at : 0..clock']
  BY <1>1, <1>2 DEF Stored
<1> QED BY <1>1, <1>6, <1>7, <1>8 DEF Stored, Rowed, Counted, Skipped

LEMMA QueuesStored ==
  ASSUME Stored, Receive \/ Persist \/ Breaks \/ Restart
  PROVE  /\ wire' \in Seq(Candle) /\ persistQ' \in Seq(Candle) /\ clock' = clock
<1>1. Stored
  OBVIOUS
<1>2. CASE Receive
  <2>1. wire # <<>> /\ Head(wire) \in Candle /\ Tail(wire) \in Seq(Candle)
    BY <1>1, <1>2 DEF Receive, Stored
  <2>2. Append(persistQ, Head(wire)) \in Seq(Candle)
    BY <2>1 DEF Stored
  <2> QED BY <1>2, <2>1, <2>2 DEF Receive, Offer, Stored, timeVars
<1>3. CASE Persist
  BY <1>3 DEF Persist, Stored, wireVars, timeVars
<1>4. CASE Breaks \/ Restart
  <2>1. <<>> \in Seq(Candle) /\ persistQ \in Seq(Candle)
    BY <1>1 DEF Stored
  <2> QED BY <1>4, <2>1 DEF Breaks, Restart, queueVars, timeVars
<1> QED BY <1>2, <1>3, <1>4

\* A table with more rows, none of them of a later candle.
LEMMA GrownStored ==
  ASSUME Stored, UNCHANGED clock,
         wire' \in Seq(Candle), persistQ' \in Seq(Candle),
         db' \in [Times -> {"none", "partial", "final"}],
         \A ts \in Times : db'[ts] # "none" => db[ts] # "none" \/ ts <= clock,
         \A ts \in Times : db'[ts] = "none" => db[ts] = "none",
         \A t \in Tasks : fetch'[t] \in {fetch[t], None},
         DOMAIN fetch' = Tasks, fetch' = [t \in Tasks |-> fetch'[t]]
  PROVE  Stored'
<1>1. None \in [from : Nat, at : Int]
  BY DEF None
<1>2. fetch' \in [Tasks -> [from : Nat, at : Int]]
  BY <1>1 DEF Stored
<1>3. \A t \in Tasks : fetch'[t] = None \/ fetch'[t] \in [from : Nat, at : 0..clock]
  BY DEF Stored
<1>4. Rowed(db', clock)
  BY DEF Stored, Rowed
<1>5. ASSUME fetch'["backtest"] # None
      PROVE  Counted(db', fetch'["backtest"])
  <2> DEFINE f == fetch["backtest"]
  <2>1. fetch'["backtest"] = f /\ f # None
    BY <1>5 DEF Tasks
  <2>2. f \in [from : Nat, at : 0..clock] /\ f \in [from : Nat, at : Int] /\ Counted(db, f)
    BY <2>1 DEF Stored, Tasks
  <2> HIDE DEF f
  <2>3. 2..f.at \subseteq Times
    <3>1. f.at \in 0..clock /\ clock \in Nat /\ clock <= LastCandle /\ LastCandle \in Nat
      BY <2>2, CandleConstants DEF Stored, Times, CandleConstants
    <3> QED BY <3>1 DEF Times
  <2>4. \A ts \in 2..f.at : db'[ts] = "none" => db[ts] = "none"
    BY <2>3
  <2>5. Counted(db', f)
    BY <2>2, <2>4, MoreRows
  <2> QED BY <2>1, <2>5
<1>6. Candle' = Candle
  BY DEF Candle
<1>7. Rowed(db', clock')
  BY <1>4 DEF Rowed
<1>8. Counted(db, fetch["backtest"])' <=> Counted(db', fetch'["backtest"])
  BY DEF Counted, Skipped
<1> QED BY <1>2, <1>3, <1>5, <1>6, <1>7, <1>8 DEF Stored

LEMMA UpsertStored ==
  ASSUME Stored, NEW t \in Tasks, Upsert(t),
         UNCHANGED <<clock, wire, persistQ>>
  PROVE  Stored'
<1>1. \A ts \in fetch[t].from..fetch[t].at : ts <= clock
  <2>1. CASE fetch[t] = None
    BY <2>1 DEF None
  <2>2. CASE fetch[t] \in [from : Nat, at : 0..clock]
    BY <2>2 DEF Stored, Times
  <2> QED BY <2>1, <2>2 DEF Stored
<1>2. fetch' = [fetch EXCEPT ![t] = None] /\ DOMAIN fetch = Tasks
  BY DEF Upsert, Stored
<1>3. db' \in [Times -> {"none", "partial", "final"}]
  BY DEF Upsert, Stored
<1>4. \A ts \in Times : /\ ts \notin fetch[t].from..fetch[t].at => db'[ts] = db[ts]
                        /\ ts \in fetch[t].from..fetch[t].at => db'[ts] # "none"
  BY DEF Upsert
<1>5. \A ts \in Times : ts \in fetch[t].from..fetch[t].at => ts <= clock
  BY <1>1
<1>6. /\ \A ts \in Times : db'[ts] # "none" => db[ts] # "none" \/ ts <= clock
      /\ \A ts \in Times : db'[ts] = "none" => db[ts] = "none"
  BY <1>4, <1>5
<1>7. /\ \A u \in Tasks : fetch'[u] \in {fetch[u], None}
      /\ DOMAIN fetch' = Tasks /\ fetch' = [u \in Tasks |-> fetch'[u]]
  BY <1>2
<1> QED BY <1>3, <1>6, <1>7, GrownStored DEF Stored

\* A closed candle that arrived.
LEMMA PersistStored == ASSUME Stored, Persist PROVE Stored'
<1>1. persistQ # <<>> /\ Head(persistQ) \in Candle
  BY DEF Persist, Stored
<1>2. wire' \in Seq(Candle) /\ persistQ' \in Seq(Candle) /\ clock' = clock
  BY QueuesStored
<1>3. Head(persistQ).ts \in Times /\ Head(persistQ).ts <= clock
  <2>1. clock \in Nat /\ clock <= LastCandle
    BY CandleConstants DEF Stored, Times, CandleConstants
  <2>2. Head(persistQ).ts \in 0..clock
    BY <1>1 DEF Candle
  <2> QED BY <2>1, <2>2, CandleConstants DEF Times, CandleConstants
<1> DEFINE ts == Head(persistQ).ts
<1>4. db' \in {db, [db EXCEPT ![ts] = "final"]} /\ fetch' = fetch
  BY DEF Persist
<1> HIDE DEF ts
<1>5. db' \in [Times -> {"none", "partial", "final"}]
  BY <1>4 DEF Stored
<1>6. \A u \in Times : db'[u] = db[u] \/ (u = ts /\ db'[u] # "none")
  BY <1>4 DEF Stored
<1>7. /\ \A u \in Times : db'[u] # "none" => db[u] # "none" \/ u <= clock
      /\ \A u \in Times : db'[u] = "none" => db[u] = "none"
  BY <1>3, <1>6 DEF ts
<1>8. /\ \A u \in Tasks : fetch'[u] \in {fetch[u], None}
      /\ DOMAIN fetch' = Tasks /\ fetch' = [u \in Tasks |-> fetch'[u]]
  BY <1>4 DEF Stored
<1> QED BY <1>2, <1>5, <1>7, <1>8, GrownStored

\* What the backtest will leave out is counted when its download is answered.
LEMMA DownloadStored ==
  ASSUME Stored, NEW t \in Tasks, NEW from \in Nat, Download(t, from),
         t = "backtest" => Counted(db, [from |-> from, at |-> clock]),
         UNCHANGED <<clock, db, wire, persistQ>>
  PROVE  Stored'
<1> DEFINE f == [from |-> from, at |-> clock]
<1>1. clock \in Nat /\ f \in [from : Nat, at : 0..clock] /\ f \in [from : Nat, at : Int]
  BY DEF Stored, Times
<1>2. fetch' = [fetch EXCEPT ![t] = f]
  BY DEF Download
<1>3. t = "backtest" => Counted(db, f)
  OBVIOUS
<1> HIDE DEF f
<1>4. fetch' \in [Tasks -> [from : Nat, at : Int]]
  BY <1>1, <1>2 DEF Stored
<1>5. \A u \in Tasks : fetch'[u] = None \/ fetch'[u] \in [from : Nat, at : 0..clock]
  BY <1>1, <1>2 DEF Stored
<1>6. fetch'["backtest"] # None => Counted(db, fetch'["backtest"])
  BY <1>2, <1>3 DEF Stored, Tasks
<1>7. Counted(db, fetch["backtest"])' <=> Counted(db, fetch'["backtest"])
  BY DEF Counted, Skipped
<1>8. Candle' = Candle /\ (Rowed(db', clock') <=> Rowed(db, clock))
  BY DEF Candle, Rowed
<1> QED BY <1>4, <1>5, <1>6, <1>7, <1>8 DEF Stored

LEMMA BeforeNat == ASSUME Stored, NEW n \in Nat PROVE Before(n) \in Nat
BY DEF Stored, Times, Before

\* A history that is not contiguous is downloaded from its start.
LEMMA EnsureStored == ASSUME Stored, EnsureHistory PROVE Stored'
<1> DEFINE from == IF Contiguous THEN Newest ELSE 0
<1>1. Download("backtest", from) /\ UNCHANGED <<clock, db, wire, persistQ>>
  BY DEF EnsureHistory, wireVars, queueVars, timeVars
<1>2. from \in Nat /\ Counted(db, [from |-> from, at |-> clock])
  <2>1. CASE Contiguous
    <3>1. Newest \in 0..clock /\ Counted(db, [from |-> Newest, at |-> clock])
      BY <2>1, CountedRows
    <3> QED BY <2>1, <3>1 DEF Stored, Times
  <2>2. CASE ~Contiguous
    <3>1. Skipped(db, [from |-> 0, at |-> clock]) = {}
      BY DEF Skipped
    <3>2. Counted(db, [from |-> 0, at |-> clock])
      <4>1. Cardinality({}) = 0 /\ clock \in Nat
        BY FS_EmptySet DEF Stored, Times
      <4> QED BY <3>1, <4>1 DEF Counted
    <3> QED BY <2>2, <3>2
  <2> QED BY <2>1, <2>2
<1> HIDE DEF from
<1>3. "backtest" \in Tasks
  BY DEF Tasks
<1> QED BY <1>1, <1>2, <1>3, DownloadStored

LEMMA StepStored == ASSUME Stored, [Next]_vars PROVE Stored'
<1>1. CASE CandleCloses \/ CandleUpdate
  BY <1>1, SentStored
<1>2. ASSUME UNCHANGED <<clock, db, fetch>>, wire' \in Seq(Candle), persistQ' \in Seq(Candle)
      PROVE  Stored'
  <2>1. fetch = [u \in Tasks |-> fetch[u]] /\ DOMAIN fetch = Tasks
    BY DEF Stored
  <2>2. db' \in [Times -> {"none", "partial", "final"}]
    BY <1>2 DEF Stored
  <2> QED BY <1>2, <2>1, <2>2, GrownStored
<1>3. ASSUME UNCHANGED <<clock, db, fetch, wire, persistQ>> PROVE Stored'
  BY <1>2, <1>3 DEF Stored
<1>4. CASE Receive \/ Breaks
  <2>1. UNCHANGED <<clock, db, fetch>>
    BY <1>4 DEF Receive, Breaks, dbVars, timeVars
  <2> QED BY <1>2, <1>4, <2>1, QueuesStored
<1>5. CASE Restart
  <2>1. db' = db /\ fetch' = [u \in Tasks |-> None]
    BY <1>5 DEF Restart
  <2>2. wire' \in Seq(Candle) /\ persistQ' \in Seq(Candle) /\ clock' = clock
    BY <1>5, QueuesStored
  <2>3. /\ \A u \in Tasks : fetch'[u] \in {fetch[u], None}
        /\ DOMAIN fetch' = Tasks /\ fetch' = [u \in Tasks |-> fetch'[u]]
    BY <2>1
  <2>4. db' \in [Times -> {"none", "partial", "final"}]
    BY <2>1 DEF Stored
  <2> QED BY <2>1, <2>2, <2>3, <2>4, GrownStored
<1>6. CASE Persist
  BY <1>6, PersistStored
<1>7. CASE Handle \/ Connects \/ StartBot \/ SetStatus \/ UNCHANGED vars
  BY <1>7, <1>3 DEF Handle, Connects, StartBot, SetStatus, dbVars, wireVars, queueVars,
     runnerVars, timeVars, vars
<1>8. CASE ReadHistory \/ FillWindow \/ RunnerSubscribes
  BY <1>8, <1>3 DEF ReadHistory, FillWindow, RunnerSubscribes, dbVars, wireVars, queueVars,
     timeVars
<1>9. CASE Backfill
  <2>1. UNCHANGED <<clock, db, wire, persistQ>>
    BY <1>9 DEF Backfill, wireVars, queueVars, timeVars
  <2>2. CASE Download("runner", Before(Lookback + 5))
    <3>1. Before(Lookback + 5) \in Nat
      BY BeforeNat, CandleConstants DEF CandleConstants
    <3> QED BY <2>1, <2>2, <3>1, DownloadStored DEF Tasks
  <2>3. CASE UNCHANGED fetch
    BY <1>3, <2>1, <2>3
  <2> QED BY <1>9, <2>2, <2>3 DEF Backfill
<1>10. CASE BackfillUpsert \/ ScannerUpsert \/ HistoryUpsert
  <2>1. UNCHANGED <<clock, wire, persistQ>>
    BY <1>10 DEF BackfillUpsert, ScannerUpsert, HistoryUpsert, wireVars, queueVars, timeVars
  <2> QED BY <1>10, <2>1, UpsertStored
      DEF BackfillUpsert, ScannerUpsert, HistoryUpsert, Tasks
<1>11. CASE ScannerDownload
  <2>1. Download("scanner", Before(1)) /\ UNCHANGED <<clock, db, wire, persistQ>>
    BY <1>11 DEF ScannerDownload, wireVars, queueVars, timeVars
  <2> QED BY <2>1, BeforeNat, DownloadStored DEF Tasks
<1>12. CASE EnsureHistory
  BY <1>12, EnsureStored
<1> QED
  BY <1>1, <1>4, <1>5, <1>6, <1>7, <1>8, <1>9, <1>10, <1>11, <1>12
     DEF Next, Starting, Downloads, Live

\* When a backtest's download is in the table, no candle of the history is missing but
\* for the one of a hundred that the count lets through, whoever writes rows meanwhile.
THEOREM HistoryWhole == Spec => HistoryContiguous
<1>1. Init => Stored
  BY InitStored
<1>2. Stored /\ [Next]_vars => Stored'
  BY StepStored
<1> DEFINE last == fetch["backtest"].at
           Whole == HistoryUpsert => 100 * Cardinality(Gaps(db', last)) <= last + 1
<1>3. Stored => Whole
  <2> SUFFICES ASSUME Stored, HistoryUpsert
               PROVE 100 * Cardinality(Gaps(db', last)) <= last + 1
    OBVIOUS
  <2> DEFINE f == fetch["backtest"]
  <2>1. /\ f \in [from : Nat, at : 0..clock] /\ f \in [from : Nat, at : Int]
        /\ Counted(db, f) /\ clock \in Times
    BY DEF Stored, HistoryUpsert, Tasks
  <2>2. \A ts \in Times : db'[ts] = "none" => ts \notin f.from..f.at /\ db[ts] = "none"
    BY DEF HistoryUpsert, Upsert
  <2> HIDE DEF f
  <2>3. 2..f.at \subseteq Times
    BY <2>1, CandleConstants DEF Times, CandleConstants
  <2>4. Gaps(db', f.at) = Skipped(db', f)
    BY <2>1, <2>2, <2>3 DEF Gaps, Skipped
  <2>5. Counted(db', f)
    <3>1. \A ts \in 2..f.at : db'[ts] = "none" => db[ts] = "none"
      BY <2>2, <2>3
    <3> QED BY <2>1, <3>1, MoreRows
  <2> QED BY <2>4, <2>5 DEF Counted, f
<1>4. Stored /\ [Next]_vars => [Whole]_vars
  BY <1>3
<1>5. HistoryContiguous <=> [][Whole]_vars
  BY DEF HistoryContiguous
<1> HIDE DEF Whole
<1> QED
  BY <1>1, <1>2, <1>4, <1>5, PTL DEF Spec
--------------------------------------------------------------------------------
(* OpenStreamsAll, of MarketFeed, for any watchlist, any bots and any number of requests,
   lost connections and restarts.  It is inductive as it stands: a change of what is needed
   and the SUBSCRIBE that follows from it are one step, since feed.py does not await in
   between, and a handshake ends by catching up.  *)

\* The streams of one pair are never those of another.
LEMMA StreamsApart ==
  ASSUME NEW s, NEW t, s # t
  PROVE StreamsFor(s) \cap StreamsFor(t) = {}
  BY DEF StreamsFor

\* A handshake catches up with everything that was added while it lasted.
LEMMA CatchesUp ==
  ASSUME Connected
  PROVE OpenStreamsAll'
<1>1. AllStreams' = AllStreams
  BY DEF Connected, AllStreams, StreamsFor
<1>2. subscribed' = url \cup (AllStreams \ url)
  BY DEF Connected
<1> QED
  BY <1>1, <1>2 DEF OpenStreamsAll

\* Adding a pair subscribes to what it needs.
LEMMA AddKeeps ==
  ASSUME OpenStreamsAll, NEW s, AddSymbol(s), UNCHANGED <<conn, botKlines>>
  PROVE OpenStreamsAll'
<1> SUFFICES ASSUME conn = "open"
             PROVE AllStreams' \subseteq subscribed'
  BY DEF OpenStreamsAll
<1>1. AllStreams' = AllStreams \cup StreamsFor(s)
  BY DEF AddSymbol, AllStreams, StreamsFor
<1>2. CASE s \in symbols
  <2>1. StreamsFor(s) \subseteq AllStreams
    BY <1>2 DEF AllStreams
  <2> QED
    BY <1>1, <1>2, <2>1 DEF AddSymbol, Subscribe, OpenStreamsAll
<1>3. CASE s \notin symbols
  BY <1>1, <1>3 DEF AddSymbol, Subscribe, OpenStreamsAll
<1> QED
  BY <1>2, <1>3

\* Removing a pair keeps the streams of the other pairs and those of bots on it.
LEMMA RemoveKeeps ==
  ASSUME OpenStreamsAll, NEW s, RemoveSymbol(s), UNCHANGED <<conn, botKlines>>
  PROVE OpenStreamsAll'
<1> SUFFICES ASSUME conn = "open", NEW x \in AllStreams'
             PROVE x \in subscribed'
  BY DEF OpenStreamsAll
<1>1. x \in AllStreams
  BY DEF RemoveSymbol, AllStreams, StreamsFor
<1>2. x \in subscribed
  BY <1>1 DEF OpenStreamsAll
<1>3. CASE x \in botKlines
  BY <1>2, <1>3 DEF RemoveSymbol, Unsubscribe
<1>4. CASE x \notin botKlines
  <2>1. PICK t \in symbols \ {s} : x \in StreamsFor(t)
    BY <1>4 DEF RemoveSymbol, AllStreams, StreamsFor
  <2>2. x \notin StreamsFor(s)
    BY <2>1, StreamsApart
  <2> QED
    BY <1>2, <2>2 DEF RemoveSymbol, Unsubscribe
<1> QED
  BY <1>3, <1>4

\* What a bot asks for is subscribed, unless its pair's chart has it already.
LEMMA BotKeeps ==
  ASSUME OpenStreamsAll, NEW key \in BotKeys, BotNeeds(key)
  PROVE OpenStreamsAll'
<1> SUFFICES ASSUME conn = "open"
             PROVE AllStreams' \subseteq subscribed'
  BY DEF BotNeeds, OpenStreamsAll
<1>1. AllStreams' = AllStreams \cup {key}
  BY DEF BotNeeds, EnsureKline, AllStreams, StreamsFor
<1>2. key = <<key[1], key[2]>>
  BY FeedConstants DEF FeedConstants
<1>3. CASE key[1] \in symbols /\ key[2] = DefaultTf
  <2>1. key \in AllStreams
    BY <1>2, <1>3 DEF AllStreams, StreamsFor
  <2> QED
    BY <1>1, <1>3, <2>1 DEF BotNeeds, EnsureKline, Subscribe, OpenStreamsAll
<1>4. CASE ~(key[1] \in symbols /\ key[2] = DefaultTf)
  BY <1>1, <1>4 DEF BotNeeds, EnsureKline, Subscribe, OpenStreamsAll
<1> QED
  BY <1>3, <1>4

\* Whatever was added or removed, before, during or after a handshake: an open
\* connection streams everything the watchlist and the bots need.
THEOREM AlwaysStreams == FeedSpec => []OpenStreamsAll
<1>1. FeedInit => OpenStreamsAll
  BY DEF FeedInit, OpenStreamsAll
<1>2. OpenStreamsAll /\ [FeedNext]_feedVars => OpenStreamsAll'
  <2> SUFFICES ASSUME OpenStreamsAll, [FeedNext]_feedVars
               PROVE OpenStreamsAll'
    OBVIOUS
  <2>1. CASE BuildUrl \/ SleepOver \/ Broken \/ Ended \/ FeedRestart
    BY <2>1 DEF BuildUrl, SleepOver, Broken, Ended, FeedRestart, OpenStreamsAll
  <2>2. CASE Connected
    BY <2>2, CatchesUp
  <2>3. ASSUME NEW r \in Requests, NEW op \in Ops, NEW s \in Symbols, WatchlistRequest(r, op, s)
        PROVE OpenStreamsAll'
    BY <2>3 DEF WatchlistRequest, OpenStreamsAll, AllStreams, StreamsFor
  <2>4. ASSUME NEW r \in Requests, WatchlistFeed(r)
        PROVE OpenStreamsAll'
    BY <2>4, AddKeeps, RemoveKeeps DEF WatchlistFeed
  <2>5. ASSUME NEW key \in BotKeys, BotNeeds(key)
        PROVE OpenStreamsAll'
    BY <2>5, BotKeeps
  <2>6. CASE Autopause \/ UNCHANGED feedVars
    BY <2>6 DEF Autopause, feedVars, OpenStreamsAll, AllStreams, StreamsFor
  <2> QED
    BY <2>1, <2>2, <2>3, <2>4, <2>5, <2>6 DEF FeedNext, FeedLoop, Handlers
<1> QED
  BY <1>1, <1>2, PTL DEF FeedSpec
=============================================================================
