----------------------------- MODULE MarketFeed -----------------------------
(* The market feed (market/feed.py), the watchlist behind it (market/watchlist.py,
   api/routes.py) and the task that should pause bots when the feed is lost
   (main.py, runner.py).

   One task connects to Binance, reads until the connection breaks, waits and
   connects again.  Meanwhile requests and starting bots change what it should be
   subscribed to: while a connection is open they tell Binance, during a
   handshake they cannot.  A stream is <<symbol, kind>>, kind a timeframe or
   "ticker".  *)
EXTENDS Bus, FiniteSets

CONSTANTS
  Symbols,      \* pairs a request may add or remove
  Defaults,     \* settings.default_symbols
  Tfs,          \* timeframes
  DefaultTf,    \* the chart's timeframe
  BotKeys,      \* <<symbol, timeframe>> of the bots that may start
  Requests,     \* request handlers that can be under way at the same time
  BackoffBase, BackoffMax,
  MaxLoss,      \* bound: connections that fail or break
  MaxRequests   \* bound: watchlist requests

ASSUME FeedConstants ==
  /\ BotKeys \subseteq Symbols \X Tfs
  /\ Defaults \subseteq Symbols
  /\ DefaultTf \in Tfs
  /\ "ticker" \notin Tfs
  /\ {BackoffBase, BackoffMax} \subseteq Nat \ {0}
  /\ BackoffBase <= BackoffMax
  /\ {MaxLoss, MaxRequests} \subseteq Nat

VARIABLES
  symbols,      \* feed._symbols
  botKlines,    \* feed._bot_klines
  conn,         \* where run() is: "loop", "handshake", "open", "sleep"
  url,          \* url_streams: the streams the connection was opened with
  subscribed,   \* what Binance streams on the open connection (external)
  backoff,
  watch,        \* table watch_symbol
  request,      \* request[r]: what handler r still has to tell the feed
  told,         \* the auto-pause watcher's queue of feed statuses
  botStatus,    \* table bot and runner.status, of a bot that is RUNNING at first
  losses, requests

feedVars == <<symbols, botKlines, conn, url, subscribed, backoff, watch, request,
              told, botStatus, losses, requests>>

Free == [op |-> "none"]
Ops == {"add", "remove"}
Statuses == {"OK", "RECONNECTING", "DOWN"}

StreamsFor(s) == {<<s, DefaultTf>>, <<s, "ticker">>}
AllStreams == (UNION {StreamsFor(s) : s \in symbols}) \cup botKlines

Seeded == IF watch = {} THEN Defaults ELSE watch

FeedInit ==
  /\ watch \in SUBSET Symbols
  /\ symbols = Seeded
  /\ botKlines = {}
  /\ conn = "loop"
  /\ url = {}
  /\ subscribed = {}
  /\ backoff = BackoffBase
  /\ request = [r \in Requests |-> Free]
  /\ told = <<>>
  /\ botStatus = "RUNNING"
  /\ losses = 0
  /\ requests = 0

--------------------------------------------------------------------------------
(* run() *)

BuildUrl ==
  /\ conn = "loop"
  /\ conn' = "handshake"
  /\ url' = AllStreams
  /\ UNCHANGED <<symbols, botKlines, subscribed, backoff, watch, request, told,
                 botStatus, losses, requests>>

\* Streams that were added during the handshake are caught up.
Connected ==
  LET missing == AllStreams \ url IN
  /\ conn = "handshake"
  /\ conn' = "open"
  /\ subscribed' = url \cup missing
  /\ backoff' = BackoffBase
  /\ told' = Offer(told, "OK")
  /\ UNCHANGED <<symbols, botKlines, url, watch, request, botStatus, losses, requests>>

\* The except branch: a handshake that fails or a connection that breaks.
Broken ==
  /\ conn \in {"handshake", "open"}
  /\ losses < MaxLoss
  /\ losses' = losses + 1
  /\ conn' = "sleep"
  /\ subscribed' = {}
  /\ told' = Offer(told, "RECONNECTING")
  /\ UNCHANGED <<symbols, botKlines, url, backoff, watch, request, botStatus, requests>>

SleepOver ==
  /\ conn = "sleep"
  /\ conn' = "loop"
  /\ backoff' = IF backoff * 2 < BackoffMax THEN backoff * 2 ELSE BackoffMax
  /\ UNCHANGED <<symbols, botKlines, url, subscribed, watch, request, told,
                 botStatus, losses, requests>>

\* The server closed the connection normally: the iterator just ends, the loop
\* goes round without a status and without a pause.
Ended ==
  /\ conn = "open"
  /\ losses < MaxLoss
  /\ losses' = losses + 1
  /\ conn' = "loop"
  /\ subscribed' = {}
  /\ UNCHANGED <<symbols, botKlines, url, backoff, watch, request, told, botStatus, requests>>

--------------------------------------------------------------------------------
(* Runtime subscriptions.  On a broken connection the send raises, after the set
   has changed: the handler fails and the next connection has the stream.  *)

Subscribe(new) == subscribed' = IF conn = "open" THEN subscribed \cup new ELSE subscribed
Unsubscribe(old) == subscribed' = IF conn = "open" THEN subscribed \ old ELSE subscribed

EnsureKlineAnyFrame(key) ==  \* forgets that the chart has one timeframe only
  /\ botKlines' = botKlines \cup {key}
  /\ Subscribe(IF key[1] \in symbols THEN {} ELSE {key})
EnsureKline(key) ==
  LET already == key[1] \in symbols /\ key[2] = DefaultTf IN
  /\ botKlines' = botKlines \cup {key}
  /\ Subscribe(IF already \/ key \in botKlines THEN {} ELSE {key})

AddSymbol(s) ==
  /\ symbols' = symbols \cup {s}
  /\ Subscribe(IF s \in symbols THEN {} ELSE StreamsFor(s))

RemoveSymbolOfBot(s) ==
  /\ symbols' = symbols \ {s}
  /\ Unsubscribe(IF s \in symbols THEN StreamsFor(s) ELSE {})
RemoveSymbol(s) ==
  /\ symbols' = symbols \ {s}
  /\ Unsubscribe(IF s \in symbols THEN StreamsFor(s) \ botKlines ELSE {})

--------------------------------------------------------------------------------
(* POST and DELETE /watchlist: the row first, the feed after the commit. *)

WatchlistRequest(r, op, s) ==
  /\ request[r] = Free
  /\ requests < MaxRequests
  /\ requests' = requests + 1
  /\ watch' = IF op = "add" THEN watch \cup {s} ELSE watch \ {s}
  /\ request' = [request EXCEPT ![r] = [op |-> op, sym |-> s]]
  /\ UNCHANGED <<symbols, botKlines, conn, url, subscribed, backoff, told, botStatus, losses>>

WatchlistFeed(r) ==
  /\ request[r] # Free
  /\ IF request[r].op = "add" THEN AddSymbol(request[r].sym) ELSE RemoveSymbol(request[r].sym)
  /\ request' = [request EXCEPT ![r] = Free]
  /\ UNCHANGED <<botKlines, conn, url, backoff, watch, told, botStatus, losses, requests>>

\* start_bot, up to its call to the feed.
BotNeeds(key) ==
  /\ key \notin botKlines
  /\ EnsureKline(key)
  /\ UNCHANGED <<symbols, conn, url, backoff, watch, request, told, botStatus, losses, requests>>

--------------------------------------------------------------------------------
(* _feed_autopause_watcher and pause_all_running.  DOWN is published only when
   run() returns, and at shutdown run() is cancelled instead.  *)

Autopause ==
  /\ told # <<>>
  /\ told' = Tail(told)
  /\ botStatus' = IF Head(told) = "DOWN" /\ botStatus = "RUNNING" THEN "PAUSED" ELSE botStatus
  /\ UNCHANGED <<symbols, botKlines, conn, url, subscribed, backoff, watch, request,
                 losses, requests>>

\* The process is restarted: the feed is built from the table, bots start again.
FeedRestart ==
  /\ losses < MaxLoss
  /\ losses' = losses + 1
  /\ watch' = Seeded
  /\ symbols' = Seeded
  /\ botKlines' = {}
  /\ conn' = "loop"
  /\ url' = {}
  /\ subscribed' = {}
  /\ backoff' = BackoffBase
  /\ request' = [r \in Requests |-> Free]
  /\ told' = <<>>
  /\ UNCHANGED <<botStatus, requests>>

--------------------------------------------------------------------------------
FeedLoop == BuildUrl \/ Connected \/ SleepOver
Handlers ==
  \/ \E r \in Requests, op \in Ops, s \in Symbols : WatchlistRequest(r, op, s)
  \/ \E r \in Requests : WatchlistFeed(r)
  \/ \E key \in BotKeys : BotNeeds(key)

FeedNext == FeedLoop \/ Broken \/ Ended \/ Handlers \/ Autopause \/ FeedRestart

\* run() is a task of the event loop whose handshakes are answered or time out,
\* and so is the watcher; nothing is assumed of requests and failures.
FeedSpec ==
  /\ FeedInit
  /\ [][FeedNext]_feedVars
  /\ WF_feedVars(FeedLoop)
  /\ WF_feedVars(Autopause)

--------------------------------------------------------------------------------
FeedTypeOK ==
  /\ watch \subseteq Symbols
  /\ symbols \subseteq Symbols
  /\ botKlines \subseteq BotKeys
  /\ conn \in {"loop", "handshake", "open", "sleep"}
  /\ url \subseteq Symbols \X (Tfs \cup {"ticker"})
  /\ subscribed \subseteq Symbols \X (Tfs \cup {"ticker"})
  /\ backoff \in BackoffBase..BackoffMax
  /\ request \in [Requests -> {Free} \cup [op : Ops, sym : Symbols]]
  /\ told \in Seq(Statuses)
  /\ botStatus \in {"RUNNING", "PAUSED"}
  /\ {losses, requests} \subseteq Nat

\* Whatever was added or removed, before, during or after a handshake: an open
\* connection streams everything the watchlist and the bots need.
OpenStreamsAll == conn = "open" => AllStreams \subseteq subscribed

\* A stream nobody needs any more may stay on the connection it was opened with,
\* and only on that one: a pair removed during a handshake.
LeftoversFromUrl == subscribed \ AllStreams \subseteq url

\* What a bot has asked for is streamed again after every break, or the process
\* starts anew.
BotHears ==
  \A key \in BotKeys : key \in botKlines ~> (key \in subscribed \/ key \notin botKlines)

\* README.md:42: bots pause when the feed is lost.  When the watcher has handled
\* the status of a feed that is not connected, no bot is RUNNING.
FeedLossPauses == conn = "sleep" /\ told = <<>> => botStatus # "RUNNING"
=============================================================================
