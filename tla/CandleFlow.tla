----------------------------- MODULE CandleFlow -----------------------------
(* The candles of one bot's stream, from Binance to table kline and to the bot's
   window: bus.py, store.py, the start and the loop of StrategyRunner, and the
   downloads that write the same rows (scanner, POST /klines/sync, the backtest's
   ensure_history).  Of the feed only this is left: the stream is delivered or it
   is not (MarketFeed shows that it comes back).

   A candle is named by its opening time.  Candle `clock` is open, the earlier
   ones are closed.  A row or a window entry holds the final values or the partial
   ones of a candle that was still open when it was downloaded.  *)
EXTENDS Bus, Integers, FiniteSets, SequencesExt

CONSTANTS
  Lookback,      \* maxlen of the window
  FirstOpen,     \* the candle that is open at first
  LastCandle,    \* bound: the last candle
  MaxWire,       \* bound: messages under way from Binance
  MaxTicks,      \* bound: updates of an open candle
  MaxBreaks,     \* bound: connections that break
  MaxDownloads   \* bound: downloads other than the bot's own

ASSUME CandleConstants ==
  /\ {Lookback, FirstOpen, LastCandle, MaxWire, MaxTicks, MaxBreaks,
      MaxDownloads} \subseteq Nat
  /\ Lookback > 0 /\ FirstOpen <= LastCandle

VARIABLES
  clock,
  up,            \* a connection is open and streams the bot's candles
  wire,          \* messages from Binance on that connection
  db,            \* table kline of the bot's stream: "none", "partial", "final"
  persistQ,      \* persist_closed_klines' queue ("*")
  runnerQ,       \* the runner's queue, while it is subscribed
  phase,         \* where the bot's start is
  running,       \* runner.status = "RUNNING"
  fetch,         \* fetch[t]: the download task t holds in memory, or None
  hist, window,  \* the history start() has read; the runner's deque
  calls,         \* the candles on_candle was called for
  heard,         \* the candles whose closing message entered the runner's queue
  ticks, breaks, downloads

dbVars == <<db, fetch, downloads>>
runnerVars == <<phase, running, hist, window, calls>>
wireVars == <<up, wire, breaks>>
queueVars == <<persistQ, runnerQ, heard>>
timeVars == <<clock, ticks>>
vars == <<dbVars, runnerVars, wireVars, queueVars, timeVars>>

Times == 0..LastCandle
Tasks == {"runner", "backtest", "scanner"}
None == [from |-> 0, at |-> -1]      \* a download of no candle
Message == [ts : Times, closed : BOOLEAN]
Entry == [ts : Times, row : {"partial", "final"}]

Before(n) == IF clock > n THEN clock - n ELSE 0
KeepLast(s, n) == IF Len(s) > n THEN SubSeq(s, Len(s) - n + 1, Len(s)) ELSE s

Init ==
  /\ clock = FirstOpen
  /\ up = FALSE /\ wire = <<>> /\ breaks = 0
  /\ db \in {d \in [Times -> {"none", "partial", "final"}] :
               \A t \in Times : t >= FirstOpen => d[t] = "none"}
  /\ persistQ = <<>> /\ runnerQ = <<>> /\ heard = {}
  /\ phase = "off" /\ running = TRUE
  /\ fetch = [t \in Tasks |-> None]
  /\ hist = <<>> /\ window = <<>> /\ calls = <<>>
  /\ ticks = 0 /\ downloads = 0

--------------------------------------------------------------------------------
(* Binance (external), the feed and the bus *)

Sent(m) == wire' = IF up THEN Append(wire, m) ELSE wire

CandleCloses ==
  /\ clock < LastCandle
  /\ Len(wire) < MaxWire
  /\ clock' = clock + 1
  /\ Sent([ts |-> clock, closed |-> TRUE])
  /\ UNCHANGED <<dbVars, runnerVars, up, breaks, queueVars, ticks>>

CandleUpdate ==
  /\ ticks < MaxTicks
  /\ up /\ Len(wire) < MaxWire
  /\ ticks' = ticks + 1
  /\ Sent([ts |-> clock, closed |-> FALSE])
  /\ UNCHANGED <<dbVars, runnerVars, up, breaks, queueVars, clock>>

\* Streams the bot has asked for come with the connection, or with a SUBSCRIBE.
Connects ==
  /\ phase # "off" /\ ~up
  /\ up' = TRUE
  /\ UNCHANGED <<dbVars, runnerVars, wire, breaks, queueVars, timeVars>>

\* Messages under way are lost with the connection.
Breaks ==
  /\ up /\ breaks < MaxBreaks
  /\ up' = FALSE /\ wire' = <<>>
  /\ breaks' = breaks + 1
  /\ UNCHANGED <<dbVars, runnerVars, queueVars, timeVars>>

\* handle_raw: publish to the topic's subscribers and to the firehose.
Receive ==
  /\ wire # <<>>
  /\ wire' = Tail(wire)
  /\ persistQ' = Offer(persistQ, Head(wire))
  /\ runnerQ' = IF phase = "run" THEN Offer(runnerQ, Head(wire)) ELSE runnerQ
  /\ heard' = IF Head(wire).closed /\ runnerQ' # runnerQ THEN heard \cup {Head(wire).ts}
              ELSE heard
  /\ UNCHANGED <<dbVars, runnerVars, up, breaks, timeVars>>

--------------------------------------------------------------------------------
(* Table kline *)

Persist ==
  /\ persistQ # <<>>
  /\ persistQ' = Tail(persistQ)
  /\ db' = IF Head(persistQ).closed THEN [db EXCEPT ![Head(persistQ).ts] = "final"] ELSE db
  /\ UNCHANGED <<fetch, downloads, runnerVars, wireVars, runnerQ, heard, timeVars>>

\* The REST answer of sync_historical: candles from..at, the last one still open.
Download(t, from) == fetch' = [fetch EXCEPT ![t] = [from |-> from, at |-> clock]]

\* upsert_klines.
Upsert(t) ==
  /\ db' = [ts \in Times |->
              IF ts \notin fetch[t].from..fetch[t].at THEN db[ts]
              ELSE IF ts = fetch[t].at THEN "partial" ELSE "final"]
  /\ fetch' = [fetch EXCEPT ![t] = None]

MayDownload == downloads < MaxDownloads /\ downloads' = downloads + 1

\* scan_once and POST /klines/sync.
ScannerDownload ==
  /\ fetch["scanner"] = None
  /\ MayDownload
  /\ Download("scanner", Before(1))
  /\ UNCHANGED <<db, runnerVars, wireVars, queueVars, timeVars>>

ScannerUpsert ==
  /\ fetch["scanner"] # None
  /\ Upsert("scanner")
  /\ UNCHANGED <<downloads, runnerVars, wireVars, queueVars, timeVars>>

\* ensure_history from candle 0: where the download starts.
Rows == {t \in Times : db[t] # "none"}
First == CHOOSE t \in Rows : \A u \in Rows : t <= u
Newest == CHOOSE t \in Rows : \A u \in Rows : t >= u
ContiguousUncounted == Rows # {} /\ First <= 2
Contiguous ==
  /\ Rows # {}
  /\ First <= 2
  /\ 100 * Cardinality(Rows) >= 99 * (Newest - First + 1)

EnsureHistory ==
  /\ fetch["backtest"] = None
  /\ MayDownload
  /\ Download("backtest", IF Contiguous THEN Newest ELSE 0)
  /\ UNCHANGED <<db, runnerVars, wireVars, queueVars, timeVars>>

HistoryUpsert ==
  /\ fetch["backtest"] # None
  /\ Upsert("backtest")
  /\ UNCHANGED <<downloads, runnerVars, wireVars, queueVars, timeVars>>

--------------------------------------------------------------------------------
(* start_bot and StrategyRunner.start *)

StartBot ==
  /\ phase = "off"
  /\ phase' = "sync"
  /\ UNCHANGED <<dbVars, running, hist, window, calls, wireVars, queueVars, timeVars>>

\* A backfill that fails is logged: the bot runs with what the table has.
Backfill ==
  /\ phase = "sync"
  /\ \/ Download("runner", Before(Lookback + 5)) /\ phase' = "upsert"
     \/ phase' = "read" /\ UNCHANGED fetch
  /\ UNCHANGED <<db, downloads, running, hist, window, calls, wireVars, queueVars, timeVars>>

BackfillUpsert ==
  /\ phase = "upsert"
  /\ Upsert("runner")
  /\ phase' = "read"
  /\ UNCHANGED <<downloads, running, hist, window, calls, wireVars, queueVars, timeVars>>

\* get_klines: the last Lookback rows, oldest first.
History ==
  [i \in 1..Cardinality(Rows) |->
     LET ts == SetToSortSeq(Rows, <)[i] IN [ts |-> ts, row |-> db[ts]]]
ReadHistory ==
  /\ phase = "read"
  /\ hist' = KeepLast(History, Lookback)
  /\ phase' = "filter"
  /\ UNCHANGED <<dbVars, running, window, calls, wireVars, queueVars, timeVars>>

\* Drops what is not closed by now, which may be later than the download: the last
\* rows, since they are in the order of their candles.
FillWindow ==
  /\ phase = "filter"
  /\ hist' = SubSeq(hist, 1, Cardinality({i \in DOMAIN hist : hist[i].ts < clock}))
  /\ window' = hist'
  /\ phase' = "task"
  /\ UNCHANGED <<dbVars, running, calls, wireVars, queueVars, timeVars>>

\* run() subscribes when its task first runs.
RunnerSubscribes ==
  /\ phase = "task"
  /\ phase' = "run"
  /\ UNCHANGED <<dbVars, running, hist, window, calls, wireVars, queueVars, timeVars>>

\* _handle.  The price part is PaperExecutor's and ExchangeExecutor's.
SkipsEarly(m) == ~m.closed \/ (window # <<>> /\ m.ts <= Last(window).ts)
SkipsNoOpenCandle(m) == window # <<>> /\ m.ts < Last(window).ts
Skips(m) == ~m.closed \/ (window # <<>> /\ m.ts < Last(window).ts)

Handle ==
  LET m == Head(runnerQ)
      c == [ts |-> m.ts, row |-> "final"]
      again == window # <<>> /\ m.ts = Last(window).ts IN
  /\ runnerQ # <<>>
  /\ runnerQ' = Tail(runnerQ)
  /\ IF Skips(m) THEN UNCHANGED <<window, calls>>
     ELSE /\ window' = IF again THEN [window EXCEPT ![Len(window)] = c]
                       ELSE KeepLast(Append(window, c), Lookback)
          /\ calls' = IF running THEN Append(calls, m.ts) ELSE calls
  /\ UNCHANGED <<dbVars, phase, running, hist, wireVars, persistQ, heard, timeVars>>

\* Pause and resume (trading.py, pause_all_running).
SetStatus ==
  /\ phase = "run"
  /\ running' = ~running
  /\ UNCHANGED <<dbVars, phase, hist, window, calls, wireVars, queueVars, timeVars>>

\* A restart of the process; the bot starts again from the table.
Restart ==
  /\ phase # "off" /\ breaks < MaxBreaks
  /\ breaks' = breaks + 1
  /\ up' = FALSE /\ wire' = <<>> /\ persistQ' = <<>> /\ runnerQ' = <<>> /\ heard' = {}
  /\ phase' = "off" /\ running' = TRUE
  /\ fetch' = [t \in Tasks |-> None]
  /\ hist' = <<>> /\ window' = <<>> /\ calls' = <<>>
  /\ UNCHANGED <<db, downloads, timeVars>>

Starting == Backfill \/ BackfillUpsert \/ ReadHistory \/ FillWindow \/ RunnerSubscribes
Downloads == ScannerDownload \/ ScannerUpsert \/ EnsureHistory \/ HistoryUpsert
Live == CandleCloses \/ CandleUpdate \/ Connects \/ Breaks \/ Receive \/ Persist \/ Handle

Next == StartBot \/ Starting \/ SetStatus \/ Restart \/ Downloads \/ Live

Spec == Init /\ [][Next]_vars

--------------------------------------------------------------------------------
TypeOK ==
  /\ clock \in Times
  /\ up \in BOOLEAN /\ running \in BOOLEAN
  /\ wire \in Seq(Message) /\ Len(wire) <= MaxWire
  /\ db \in [Times -> {"none", "partial", "final"}]
  /\ persistQ \in Seq(Message) /\ Len(persistQ) <= QueueSize
  /\ runnerQ \in Seq(Message) /\ Len(runnerQ) <= QueueSize
  /\ phase \in {"off", "sync", "upsert", "read", "filter", "task", "run"}
  /\ \A t \in Tasks : fetch[t] = None \/ fetch[t] \in [from : Times, at : Times]
  /\ hist \in Seq(Entry)
  /\ window \in Seq(Entry) /\ Len(window) <= Lookback
  /\ calls \in Seq(Times)
  /\ heard \subseteq Times

\* Late messages, downloads and history never put the window out of order, so
\* an indicator never sees time run backwards.
WindowOrdered ==
  \A i \in 1..Len(window) - 1 : window[i].ts < window[i + 1].ts

\* A closing message that reached the runner is still queued, or its candle is
\* in the window with its final values, or has left it as the oldest, or is older
\* than the history the bot started with: nothing else is skipped, by a paused bot
\* either.
HeardIsKept ==
  \A ts \in heard :
    \/ \E i \in 1..Len(runnerQ) : runnerQ[i] = [ts |-> ts, closed |-> TRUE]
    \/ \E i \in 1..Len(window) : window[i] = [ts |-> ts, row |-> "final"]
    \/ window # <<>> /\ ts < window[1].ts
    \/ hist # <<>> /\ ts < Last(hist).ts

\* A strategy decides at most once on a candle, and on candles in their order.
DecidesOnce == \A i \in 1..Len(calls) - 1 : calls[i] < calls[i + 1]

\* "Ensure the DB has contiguous candles" (store.py:119): when the download is in the
\* table, at most one candle of a hundred is missing from the third on, which is what
\* the count of 99% lets through; in a history of less than a hundred, none.
Gaps(d, last) == {ts \in 2..last : d[ts] = "none"}
HistoryContiguous ==
  [][HistoryUpsert =>
       100 * Cardinality(Gaps(db', fetch["backtest"].at)) <= fetch["backtest"].at + 1]_vars

\* runner.py:83 drops the candle that is not closed yet, so that a strategy
\* decides on closed candles: none of those before the newest one is partial.
DecidesOnClosedCandles ==
  [][calls' # calls => \A i \in 1..Len(window') : window'[i].row = "final"]_vars
=============================================================================
