------------------------- MODULE BotLifecycle_proofs -------------------------
(* StatusesAgree and PositionsHeld for any bots, accounts, trades, failures and
   crashes, as long as one request is served at a time.  The HTTP server does not
   see to that: with two, lifecycle_two.cfg shows a bot that is started twice.

   The properties speak of the moments between requests.  Inductive is what holds
   within them: where a request is tells what the bot it works on looks like, and
   every other bot is as between requests.  *)
EXTENDS BotLifecycle, FiniteSetTheorems, TLAPS

OneAtATime == \A t, u \in Apis : t = u

Rows == {NoBot} \cup [status : Statuses, acct : Accounts]
Runners == {NoRunner} \cup [acct : Accounts, status : {"RUNNING", "PAUSED"}, holds : Nat]
Starting == {"create", "created", "start", "started", "restart", "restarted"}
Patching == Starting \cup {"account", "switch", "status", "commit"}
Works == [pc : Patching \cup {"idle", "delete", "orphan"}, bot : Bots \cup {None}, status : Statuses \cup {None, Bogus},
          acct : Accounts \cup {None}, seen : Rows, holds : Nat]
Position == [bot : Bots \cup {None}, open : BOOLEAN]

Types ==
  /\ app \in {"up", "starting", "down"}
  /\ row \in [Bots -> Rows]
  /\ registered \in [Bots -> Runners]
  /\ trades \in Seq(Position)
  /\ work \in [Apis -> Works]
  /\ restoring \subseteq Bots
  /\ used \in [api : Nat, fail : Nat, crash : Nat]

\* h is the position a runner of bot b has to hold.
IsHeld(b, h) == OpenTrades(b) = IF h = 0 THEN {} ELSE {h}
Held ==
  /\ \A b \in Bots : \A i, j \in OpenTrades(b) : i = j
  /\ \A b \in Bots : registered[b] # NoRunner => IsHeld(b, registered[b].holds)

Agrees(b) ==
  registered[b] # NoRunner => registered[b].status = row[b].status
Backed(b) == row[b].status = "RUNNING" /\ used.fail = 0 => registered[b] # NoRunner
Served(b) == \E t \in Apis : work[t] # Idle /\ work[t].bot = b

\* A bot no request works on.
Quiet ==
  \A b \in Bots : ~Served(b) =>
    /\ Agrees(b)
    /\ app = "up" => Backed(b)
    /\ app = "starting" => Backed(b) \/ b \in restoring

Process ==
  /\ app # "up" => \A t \in Apis : work[t] = Idle
  /\ app # "starting" => restoring = {}
  /\ app = "down" => \A b \in Bots : registered[b] = NoRunner
  /\ \A b \in restoring : row[b].status = "RUNNING" /\ registered[b] = NoRunner

\* The bot request t works on.
Serves(w) ==
  /\ w.pc = "idle" <=> w = Idle
  /\ w.pc # "idle" => w.bot \in Bots
  /\ w.pc \in Patching => row[w.bot] # NoBot /\ w.seen = row[w.bot] /\ w.acct \in Accounts
  /\ w.pc \in {"account", "switch", "status", "delete"} => Agrees(w.bot) /\ Backed(w.bot)
  /\ w.pc \in Starting \cup {"orphan"} => registered[w.bot] = NoRunner
  /\ w.pc \in {"create", "created"} => row[w.bot] = [status |-> "RUNNING", acct |-> w.acct]
  /\ w.pc \in {"start", "started"} => w.status \in {"RUNNING", "PAUSED"}
  /\ w.pc \in {"restart", "restarted"} => row[w.bot].status \in {"RUNNING", "PAUSED"}
  /\ w.pc \in {"created", "started", "restarted"} => IsHeld(w.bot, w.holds)
  /\ w.pc = "commit" => w.status # Bogus
  /\ w.pc = "commit" =>
       LET status == IF w.status = None THEN w.seen.status ELSE w.status IN
       /\ registered[w.bot] # NoRunner => registered[w.bot].status = status
       /\ status = "RUNNING" /\ used.fail = 0 => registered[w.bot] # NoRunner
Serving == \A t \in Apis : Serves(work[t])

IInv == Types /\ leaked = {} /\ Held /\ Quiet /\ Process /\ Serving

\* A request that is not there is on no bot.
LEMMA IdleWork == Idle \in Works /\ Idle.pc = "idle" /\ Idle.bot = None
  BY DEF Idle, Works, Patching, Rows, NoBot

\* A row or a runner that is not there is not one of the others.
LEMMA RowsApart == NoBot.status = None /\ NoBot \in Rows /\ NoRunner \in Runners
  BY DEF NoBot, Rows, NoRunner, Runners

\* The newest open position is the one there is.
LEMMA NewestIsHeld ==
  ASSUME Types, Held, NEW b \in Bots
  PROVE  Newest(b) \in Nat /\ IsHeld(b, Newest(b))
<1>1. CASE OpenTrades(b) = {}
  BY <1>1 DEF Newest, IsHeld
<1>2. CASE OpenTrades(b) # {}
  <2>1. PICK i \in OpenTrades(b) : OpenTrades(b) = {i}
    BY <1>2 DEF Held
  <2>2. i \in Nat \ {0}
    BY <2>1 DEF OpenTrades, Types
  <2>3. Max({i}) = i
    BY <2>2 DEF Max
  <2> QED
    BY <1>2, <2>1, <2>2, <2>3 DEF Newest, IsHeld
<1> QED
  BY <1>1, <1>2

\* What a runner holds is the newest open position.
LEMMA HeldIsNewest ==
  ASSUME Types, NEW b \in Bots, NEW h \in Nat, IsHeld(b, h)
  PROVE  Newest(b) = h /\ \A i, j \in OpenTrades(b) : i = j
<1>1. Max({h}) = h
  BY DEF Max
<1> QED
  BY <1>1 DEF Newest, IsHeld

\* A runner enters or leaves its own position; the other bots' are not touched.
LEMMA TradeKeeps ==
  ASSUME IInv, NEW b \in Bots, Trade(b)
  PROVE  IInv'
<1> DEFINE r == registered[b]
<1>1. /\ r # NoRunner /\ r \in Runners /\ IsHeld(b, r.holds) /\ r.holds \in Nat
      /\ trades \in Seq(Position) /\ DOMAIN trades = 1..Len(trades) /\ Len(trades) \in Nat
  BY DEF Trade, IInv, Types, Held, Runners
<1>2. UNCHANGED <<app, row, leaked, work, restoring, used>>
  BY DEF Trade
<1>3. PICK h \in Nat :
        /\ registered' = [registered EXCEPT ![b].holds = h]
        /\ trades' \in Seq(Position)
        /\ OpenTrades(b)' = (IF h = 0 THEN {} ELSE {h})
        /\ \A c \in Bots \ {b} : OpenTrades(c)' = OpenTrades(c)
  <2>1. CASE /\ Entered(b, r) /\ registered' = [registered EXCEPT ![b].holds = Len(trades) + 1]
    <3>1. OpenTrades(b) = {}
      BY <1>1, <2>1 DEF Entered, Enters, IsHeld
    <3>2. /\ trades' \in Seq(Position) /\ DOMAIN trades' = 1..(Len(trades) + 1)
          /\ \A i \in DOMAIN trades : trades'[i] = trades[i]
          /\ trades'[Len(trades) + 1] = [bot |-> b, open |-> TRUE]
      BY <1>1, <2>1 DEF Entered, Position
    <3>3. OpenTrades(b)' = {Len(trades) + 1}
      BY <1>1, <3>1, <3>2 DEF OpenTrades
    <3>4. \A c \in Bots \ {b} : OpenTrades(c)' = OpenTrades(c)
      BY <1>1, <3>2 DEF OpenTrades
    <3>5. Len(trades) + 1 \in Nat /\ Len(trades) + 1 # 0
      BY <1>1
    <3> QED
      BY <2>1, <3>2, <3>3, <3>4, <3>5
  <2>2. CASE Exited(r) /\ registered' = [registered EXCEPT ![b].holds = 0]
    <3>1. /\ OpenTrades(b) = {r.holds}
          /\ r.holds \in DOMAIN trades /\ trades[r.holds].bot = b
      BY <1>1, <2>2 DEF Exited, IsHeld, OpenTrades
    <3>2. /\ trades' \in Seq(Position) /\ DOMAIN trades' = DOMAIN trades
          /\ \A i \in DOMAIN trades : i # r.holds => trades'[i] = trades[i]
          /\ trades'[r.holds].open = FALSE
      <4>1. trades[r.holds] \in Position
        BY <1>1, <3>1
      <4>2. [trades[r.holds] EXCEPT !.open = FALSE] \in Position
        BY <4>1 DEF Position
      <4> QED
        BY <1>1, <2>2, <3>1, <4>1, <4>2 DEF Exited, Position
    <3>3. OpenTrades(b)' = {}
      BY <3>1, <3>2 DEF OpenTrades
    <3>4. \A c \in Bots \ {b} : OpenTrades(c)' = OpenTrades(c)
      BY <3>1, <3>2 DEF OpenTrades
    <3> QED
      BY <1>1, <2>2, <3>2, <3>3, <3>4
  <2> QED
    BY <2>1, <2>2 DEF Trade
<1>4. /\ registered'[b] # NoRunner /\ registered'[b] \in Runners
      /\ registered'[b].status = r.status /\ registered'[b].acct = r.acct /\ registered'[b].holds = h
      /\ \A c \in Bots \ {b} : registered'[c] = registered[c]
      /\ registered' \in [Bots -> Runners]
  <2>1. r \in [acct : Accounts, status : {"RUNNING", "PAUSED"}, holds : Nat]
    BY <1>1 DEF Runners
  <2>2. /\ [r EXCEPT !.holds = h] \in [acct : Accounts, status : {"RUNNING", "PAUSED"}, holds : Nat]
        /\ [r EXCEPT !.holds = h].status = r.status /\ [r EXCEPT !.holds = h].acct = r.acct
        /\ [r EXCEPT !.holds = h].holds = h
    BY <1>3, <2>1
  <2>3. [r EXCEPT !.holds = h] # NoRunner
    BY <2>2 DEF NoRunner, None
  <2>4. registered \in [Bots -> Runners] /\ registered' = [registered EXCEPT ![b] = [r EXCEPT !.holds = h]]
    BY <1>3 DEF IInv, Types
  <2> HIDE DEF r
  <2> QED
    BY <2>2, <2>3, <2>4 DEF Runners
<1>5. Types'
  BY <1>2, <1>3, <1>4 DEF IInv, Types
<1>6. Held'
  BY <1>3, <1>4 DEF IInv, Held, IsHeld
<1>7. \A c \in Bots : Agrees(c)' = Agrees(c) /\ Backed(c)' = Backed(c) /\ Served(c)' = Served(c)
  BY <1>1, <1>2, <1>4 DEF Agrees, Backed, Served
<1>8. Quiet'
  BY <1>2, <1>7 DEF IInv, Quiet
<1>9. Process'
  BY <1>1, <1>2, <1>4 DEF IInv, Types, Process
<1>10. Serving'
  <2> SUFFICES ASSUME NEW t \in Apis
               PROVE Serves(work[t])'
    BY DEF Serving
  <2>1. Serves(work[t])
    BY DEF IInv, Serving
  <2>2. CASE work[t].bot # b \/ work[t].pc = "idle"
    BY <1>2, <1>3, <1>4, <1>7, <2>1, <2>2 DEF Serves, IsHeld, Starting, Patching
  <2>3. CASE work[t].bot = b /\ work[t].pc # "idle"
    BY <1>1, <1>2, <1>4, <1>7, <2>1, <2>3 DEF Serves, Starting, Patching
  <2> QED
    BY <2>2, <2>3
<1> QED
  BY <1>2, <1>5, <1>6, <1>8, <1>9, <1>10 DEF IInv

\* A step of the only request, on bot b: what has to be shown is that the request
\* is at its next place, or that it leaves b as a bot between requests is.
LEMMA RequestStep ==
  ASSUME OneAtATime, IInv, NEW t \in Apis, NEW b \in Bots, NEW w \in Works,
         app = "up", work[t] = Idle \/ work[t].bot = b,
         work' = [work EXCEPT ![t] = w], UNCHANGED <<app, restoring>>, leaked' = {},
         row' \in [Bots -> Rows], registered' \in [Bots -> Runners], trades' \in Seq(Position),
         used' \in [api : Nat, fail : Nat, crash : Nat], used'.fail = 0 => used.fail = 0,
         \A c \in Bots \ {b} : /\ row'[c] = row[c] /\ registered'[c] = registered[c]
                               /\ OpenTrades(c)' = OpenTrades(c),
         \A i, j \in OpenTrades(b)' : i = j,
         (registered[b] # NoRunner => IsHeld(b, registered[b].holds))',
         w # Idle => w.bot = b,
         w = Idle => (Agrees(b) /\ Backed(b))',
         Serves(w)'
  PROVE  IInv'
<1>1. work'[t] = w /\ work' \in [Apis -> Works] /\ Apis = {t}
  BY DEF OneAtATime, IInv, Types
<1>2. Types' /\ Process'
  BY <1>1 DEF IInv, Types, Process
<1>3. Held'
  <2>1. ASSUME NEW c \in Bots
        PROVE /\ \A i, j \in OpenTrades(c)' : i = j
              /\ registered'[c] # NoRunner =>
                   OpenTrades(c)' = IF registered'[c].holds = 0 THEN {} ELSE {registered'[c].holds}
    <3>1. CASE c = b
      BY <3>1 DEF IsHeld
    <3>2. CASE c # b
      <4>1. /\ \A i, j \in OpenTrades(c) : i = j
            /\ registered[c] # NoRunner =>
                 OpenTrades(c) = IF registered[c].holds = 0 THEN {} ELSE {registered[c].holds}
        BY DEF IInv, Held, IsHeld
      <4>2. registered'[c] = registered[c] /\ OpenTrades(c)' = OpenTrades(c)
        BY <3>2
      <4> QED
        BY <4>1, <4>2
    <3> QED
      BY <3>1, <3>2
  <2> QED
    BY <2>1 DEF Held, IsHeld
<1>4. Serving'
  BY <1>1 DEF Serving, Serves, Agrees, Backed, IsHeld
<1>5. \A c \in Bots \ {b} : ~Served(c) /\ Agrees(c) /\ Backed(c)
  BY <1>1, IdleWork DEF IInv, Quiet, Served
<1>6. ASSUME NEW c \in Bots, ~Served(c)'
      PROVE Agrees(c)' /\ Backed(c)'
  <2>1. CASE c # b
    BY <1>5, <2>1 DEF Agrees, Backed
  <2>2. CASE c = b
    BY <1>1, <1>6, <2>2 DEF Served
  <2> QED
    BY <2>1, <2>2
<1>7. Quiet'
  BY <1>6 DEF Quiet
<1> QED
  BY <1>2, <1>3, <1>4, <1>7 DEF IInv

\* The same for a step that does not change trades.
LEMMA UntradedStep ==
  ASSUME OneAtATime, IInv, NEW t \in Apis, NEW b \in Bots, NEW w \in Works,
         app = "up", work[t] = Idle \/ work[t].bot = b,
         work' = [work EXCEPT ![t] = w], UNCHANGED <<app, restoring, trades>>, leaked' = {},
         row' \in [Bots -> Rows], registered' \in [Bots -> Runners],
         used' \in [api : Nat, fail : Nat, crash : Nat], used'.fail = 0 => used.fail = 0,
         \A c \in Bots \ {b} : row'[c] = row[c] /\ registered'[c] = registered[c],
         registered'[b] # NoRunner => IsHeld(b, registered'[b].holds),
         w # Idle => w.bot = b,
         w = Idle => (Agrees(b) /\ Backed(b))',
         Serves(w)'
  PROVE  IInv'
<1>1. \A c \in Bots : OpenTrades(c)' = OpenTrades(c)
  BY DEF OpenTrades
<1>2. trades' \in Seq(Position)
  BY DEF IInv, Types
<1>3. \A i, j \in OpenTrades(b)' : i = j
  BY <1>1 DEF IInv, Held
<1>4. (registered[b] # NoRunner => IsHeld(b, registered[b].holds))'
  BY <1>1 DEF IsHeld
<1>5. \A c \in Bots \ {b} : /\ row'[c] = row[c] /\ registered'[c] = registered[c]
                            /\ OpenTrades(c)' = OpenTrades(c)
  BY <1>1
<1> QED
  BY <1>2, <1>3, <1>4, <1>5, RequestStep

\* What is known while a request is served.
LEMMA AtWork ==
  ASSUME IInv, NEW t \in Apis, work[t].pc # "idle"
  PROVE  /\ app = "up" /\ leaked = {} /\ Serves(work[t]) /\ work[t] \in Works /\ work[t].bot \in Bots
         /\ row \in [Bots -> Rows] /\ registered \in [Bots -> Runners]
         /\ used \in [api : Nat, fail : Nat, crash : Nat]
         /\ registered[work[t].bot] # NoRunner => IsHeld(work[t].bot, registered[work[t].bot].holds)
  BY IdleWork DEF IInv, Types, Process, Serving, Serves, Held

\* What is known when a request comes: nothing is being served.
LEMMA BeforeWork ==
  ASSUME OneAtATime, IInv, NEW t \in Apis, NEW b \in Bots, Request(t, b)
  PROVE  /\ app = "up" /\ leaked' = {} /\ work[t] = Idle /\ Agrees(b) /\ Backed(b)
         /\ row \in [Bots -> Rows] /\ registered' \in [Bots -> Runners]
         /\ used' \in [api : Nat, fail : Nat, crash : Nat] /\ used'.fail = used.fail
         /\ registered'[b] # NoRunner => IsHeld(b, registered'[b].holds)
         /\ UNCHANGED <<app, restoring, trades, registered>> /\ work \in [Apis -> Works]
         /\ row[b] = NoBot => registered[b] = NoRunner
<1>1. app = "up" /\ work[t] = Idle /\ UNCHANGED <<app, restoring, trades, registered, leaked>>
      /\ used' = [used EXCEPT !.api = @ + 1]
  BY DEF Request
<1>2. ~Served(b)
  BY <1>1 DEF Served, OneAtATime
<1>3. Agrees(b) /\ Backed(b)
  BY <1>1, <1>2 DEF IInv, Quiet
<1>4. row[b] = NoBot => registered[b] = NoRunner
  <2>1. registered[b] \in Runners
    BY DEF IInv, Types
  <2>2. registered[b] # NoRunner => registered[b].status \in {"RUNNING", "PAUSED"}
    BY <2>1 DEF Runners
  <2> QED
    BY <1>3, <2>2, RowsApart DEF Agrees, None
<1> QED
  BY <1>1, <1>3, <1>4 DEF IInv, Types, Held

\* POST: the row is there before the runner.
LEMMA CreateKeeps ==
  ASSUME OneAtATime, IInv, NEW t \in Apis, NEW b \in Bots, CreateBot(t, b)
  PROVE  IInv'
<1>1. PICK a \in Accounts :
        /\ row' = [row EXCEPT ![b] = [status |-> "RUNNING", acct |-> a]]
        /\ work' = [work EXCEPT ![t] = [Idle EXCEPT !.pc = "create", !.bot = b, !.acct = a,
                                                  !.seen = row'[b]]]
  BY DEF CreateBot
<1>2. Request(t, b) /\ row[b] = NoBot
  BY DEF CreateBot
<1> DEFINE r == [status |-> "RUNNING", acct |-> a]
<1> DEFINE w == [Idle EXCEPT !.pc = "create", !.bot = b, !.acct = a, !.seen = r]
<1>3. r \in Rows /\ r # NoBot /\ r.status = "RUNNING" /\ r.acct = a
  BY DEF Rows, NoBot, Statuses, None
<1>4. row' \in [Bots -> Rows] /\ row'[b] = r /\ \A c \in Bots \ {b} : row'[c] = row[c]
  BY <1>1, <1>2, <1>3, BeforeWork
<1>5. /\ w \in Works /\ w # Idle /\ work' = [work EXCEPT ![t] = w]
      /\ w.pc = "create" /\ w.bot = b /\ w.acct = a /\ w.seen = r /\ w.status = None
  BY <1>1, <1>3, <1>4 DEF Works, Patching, Starting, Idle
<1> HIDE DEF w, r
<1>6. Serves(w)'
  BY <1>2, <1>3, <1>4, <1>5, BeforeWork DEF Serves, Patching, Starting, r
<1> QED
  BY <1>2, <1>4, <1>5, <1>6, BeforeWork, UntradedStep

\* PATCH starts from the row as it is.
LEMMA PatchKeeps ==
  ASSUME OneAtATime, IInv, NEW t \in Apis, NEW b \in Bots, PatchBot(t, b)
  PROVE  IInv'
<1>1. Request(t, b) /\ row[b] # NoBot /\ row' = row
  BY DEF PatchBot
<1>2. PICK s \in Statuses \cup {None, Bogus}, a \in Accounts \cup {None} :
        work' = [work EXCEPT ![t] =
          [Idle EXCEPT !.bot = b, !.status = s, !.seen = row[b],
             !.pc = IF a \in {None, row[b].acct} THEN "status" ELSE "account",
             !.acct = IF a = None THEN row[b].acct ELSE a]]
  BY DEF PatchBot
<1>3. row[b] \in Rows /\ row[b].acct \in Accounts
  BY <1>1, BeforeWork DEF Rows
<1>4. PICK w \in Works :
        /\ w # Idle /\ work' = [work EXCEPT ![t] = w]
        /\ w.pc \in {"status", "account"} /\ w.bot = b /\ w.seen = row[b] /\ w.acct \in Accounts
  <2> DEFINE v == [Idle EXCEPT !.bot = b, !.status = s, !.seen = row[b],
             !.pc = IF a \in {None, row[b].acct} THEN "status" ELSE "account",
             !.acct = IF a = None THEN row[b].acct ELSE a]
  <2>1. /\ v \in Works /\ v # Idle /\ v.pc \in {"status", "account"} /\ v.bot = b /\ v.seen = row[b]
        /\ v.acct \in Accounts
    BY <1>3 DEF Works, Patching, Starting, Idle
  <2> QED
    BY <1>2, <2>1
<1>5. Serves(w)'
  BY <1>1, <1>4, BeforeWork DEF Serves, Patching, Starting, Agrees, Backed
<1> QED
  BY <1>1, <1>4, <1>5, BeforeWork, UntradedStep

\* DELETE, before it stops the bot.
LEMMA DeleteKeeps ==
  ASSUME OneAtATime, IInv, NEW t \in Apis, NEW b \in Bots, DeleteBot(t, b)
  PROVE  IInv'
<1>1. Request(t, b) /\ row' = row
  BY DEF DeleteBot
<1> DEFINE w == [Idle EXCEPT !.pc = "delete", !.bot = b]
<1>2. w \in Works /\ w # Idle /\ w.pc = "delete" /\ w.bot = b /\ work' = [work EXCEPT ![t] = w]
  BY DEF DeleteBot, Works, Idle, Rows
<1> HIDE DEF w
<1>3. Serves(w)'
  BY <1>1, <1>2, BeforeWork DEF Serves, Patching, Starting, Agrees, Backed
<1> QED
  BY <1>1, <1>2, <1>3, BeforeWork, UntradedStep

\* A step that only moves the request on, or ends it.
LEMMA MovesOn ==
  ASSUME OneAtATime, IInv, NEW t \in Apis, work[t].pc # "idle", NEW w \in Works,
         work' = [work EXCEPT ![t] = w], UNCHANGED <<app, row, registered, leaked, restoring, trades, used>>,
         w # Idle => w.bot = work[t].bot,
         w = Idle => Agrees(work[t].bot) /\ Backed(work[t].bot),
         Serves(w)
  PROVE  IInv'
<1>1. PICK b \in Bots : b = work[t].bot
  BY AtWork
<1>2. Serves(w)' /\ (w = Idle => (Agrees(b) /\ Backed(b))')
  BY <1>1 DEF Serves, Agrees, Backed, IsHeld, OpenTrades
<1> QED
  BY <1>1, <1>2, AtWork, UntradedStep

\* A bot with an OPEN position does not change its account.
LEMMA CheckKeeps ==
  ASSUME OneAtATime, IInv, NEW t \in Apis, CheckOpen(t)
  PROVE  IInv'
<1>1. /\ work[t].pc = "account"
      /\ UNCHANGED <<app, row, registered, leaked, restoring, trades, used>>
      /\ Ends(t) \/ Stays(t, "switch")
  BY DEF CheckOpen
<1>2. CASE Ends(t)
  <2>1. Serves(Idle)
    BY IdleWork DEF Serves, Patching, Starting
  <2>2. Agrees(work[t].bot) /\ Backed(work[t].bot)
    BY <1>1, AtWork DEF Serves
  <2> QED
    BY <1>1, <1>2, <2>1, <2>2, IdleWork, MovesOn DEF Ends
<1>3. CASE Stays(t, "switch")
  <2>1. PICK w \in Works : w = [work[t] EXCEPT !.pc = "switch"]
    BY <1>1, AtWork DEF Works, Patching
  <2>2. /\ work' = [work EXCEPT ![t] = w] /\ w.pc = "switch" /\ w # Idle /\ w.bot = work[t].bot
        /\ w.seen = work[t].seen /\ w.acct = work[t].acct
    BY <1>1, <1>3, <2>1, AtWork DEF Stays, Works, Idle, IInv, Types
  <2>3. Serves(w)
    BY <1>1, <2>2, AtWork, ZenonT(30) DEF Serves, Patching, Starting
  <2> QED
    BY <1>1, <2>2, <2>3, MovesOn
<1> QED
  BY <1>1, <1>2, <1>3

\* A status that patch_bot does not know ends the request where it is.
LEMMA UnknownKeeps ==
  ASSUME OneAtATime, IInv, NEW t \in Apis, ApplyStatus(t), work[t].status = Bogus,
         work[t].pc \in {"status", "switch"},
         UNCHANGED <<app, row, trades, restoring, used>>
  PROVE  IInv'
<1>1. Ends(t) /\ UNCHANGED <<registered, leaked>>
  BY DEF ApplyStatus, Bogus, None
<1>2. Serves(Idle)
  BY IdleWork DEF Serves, Patching, Starting
<1>3. Agrees(work[t].bot) /\ Backed(work[t].bot)
  BY AtWork DEF Serves
<1> QED
  BY <1>1, <1>2, <1>3, IdleWork, MovesOn DEF Ends

\* The status part of PATCH: what it leaves for the commit.
LEMMA StatusKeeps ==
  ASSUME OneAtATime, IInv, NEW t \in Apis, ApplyStatus(t), work[t].status # Bogus,
         work[t].pc \in {"status", "switch"},
         work[t].pc = "switch" => registered[work[t].bot] = NoRunner,
         UNCHANGED <<app, row, trades, restoring, used>>
  PROVE  IInv'
<1> DEFINE s == work[t].status
<1>1. PICK b \in Bots : b = work[t].bot
  BY AtWork
<1>2. /\ Serves(work[t]) /\ Agrees(b) /\ Backed(b)
      /\ row[b] # NoBot /\ work[t].seen = row[b] /\ work[t].acct \in Accounts
      /\ s \in Statuses \cup {None, Bogus}
  BY <1>1, AtWork DEF Serves, Patching, Works
<1>3. PICK pc \in {"start", "commit"} :
        /\ Stays(t, pc)
        /\ pc = "start" => s \in {"RUNNING", "PAUSED"} /\ registered[b] = NoRunner
  BY <1>1, <1>2 DEF ApplyStatus
<1>4. PICK w \in Works : w = [work[t] EXCEPT !.pc = pc]
  BY <1>2, AtWork DEF Works, Patching, Starting
<1>5. /\ work' = [work EXCEPT ![t] = w] /\ w.pc = pc /\ w # Idle /\ w.bot = b
      /\ w.seen = row[b] /\ w.acct = work[t].acct /\ w.status = s
  <2>1. work[t] \in Works /\ work \in [Apis -> Works]
    BY AtWork DEF IInv, Types
  <2>2. /\ w.pc = pc /\ w.bot = work[t].bot /\ w.seen = work[t].seen /\ w.acct = work[t].acct
        /\ w.status = work[t].status
    BY <1>4, <2>1 DEF Works
  <2>3. work' = [work EXCEPT ![t].pc = pc]
    BY <1>3 DEF Stays
  <2>4. work' = [work EXCEPT ![t] = w]
    BY <1>4, <2>1, <2>3
  <2> QED
    BY <1>1, <1>2, <2>2, <2>4, IdleWork
<1>6. leaked' = {} /\ registered \in [Bots -> Runners]
  BY AtWork DEF ApplyStatus, StopBot
<1>7. CASE registered' = registered /\ (pc = "commit" => s = None)
  <2>1. Serves(w)'
    <3>1. CASE pc = "start"
      <4>1. /\ row'[b] = row[b] /\ registered'[b] = NoRunner /\ w.status \in {"RUNNING", "PAUSED"}
            /\ w.pc = "start"
        BY <1>3, <1>5, <1>7, <3>1
      <4> QED
        BY <1>2, <1>5, <4>1 DEF Serves, Patching, Starting
    <3>2. CASE pc = "commit"
      BY <1>2, <1>5, <1>7, <3>2 DEF Serves, Patching, Starting, Agrees, Backed
    <3> QED
      BY <3>1, <3>2
  <2>2. UNCHANGED leaked
    BY <1>6, AtWork
  <2> QED
    BY <1>1, <1>2, <1>5, <1>6, <1>7, <2>1, AtWork, UntradedStep
<1>8. CASE s = "STOPPED" /\ StopBot(b) /\ pc = "commit"
  <2>1. registered' \in [Bots -> Runners] /\ registered'[b] = NoRunner
        /\ \A c \in Bots \ {b} : registered'[c] = registered[c]
    BY <1>6, <1>8, RowsApart DEF StopBot
  <2>2. Serves(w)'
    BY <1>2, <1>5, <1>8, <2>1 DEF Serves, Patching, Starting, None
  <2> QED
    BY <1>1, <1>2, <1>5, <1>6, <2>1, <2>2, AtWork, UntradedStep
<1>9. CASE s \in {"RUNNING", "PAUSED"} /\ registered[b] # NoRunner /\ pc = "commit"
           /\ registered' = [registered EXCEPT ![b].status = s]
  <2>1. PICK r \in [acct : Accounts, status : {"RUNNING", "PAUSED"}, holds : Nat] :
          r = [registered[b] EXCEPT !.status = s] /\ r.acct = registered[b].acct /\ r.status = s
          /\ r.holds = registered[b].holds
    BY <1>6, <1>9 DEF Runners
  <2>2. r # NoRunner
    BY DEF NoRunner, None
  <2>3. registered' = [registered EXCEPT ![b] = r]
    BY <1>9, <2>1
  <2>4. /\ registered' \in [Bots -> Runners] /\ registered'[b] = r
        /\ \A c \in Bots \ {b} : registered'[c] = registered[c]
    BY <1>6, <2>3 DEF Runners
  <2>5. Serves(w)'
    BY <1>2, <1>5, <1>9, <2>1, <2>2, <2>4 DEF Serves, Patching, Starting, Agrees, None
  <2>6. IsHeld(b, registered'[b].holds)
    BY <1>1, <1>9, <2>1, <2>4, AtWork
  <2> QED
    BY <1>1, <1>2, <1>5, <1>6, <2>4, <2>5, <2>6, AtWork, UntradedStep
<1>10. \/ UNCHANGED registered /\ (s = None \/ Stays(t, "start"))
       \/ s = "STOPPED" /\ StopBot(b) /\ Stays(t, "commit")
       \/ s \in {"RUNNING", "PAUSED"} /\ registered[b] # NoRunner /\ Stays(t, "commit")
          /\ registered' = [registered EXCEPT ![b].status = s]
  BY <1>1 DEF ApplyStatus
<1>11. \A q \in {"start", "commit"} : Stays(t, q) => q = pc
  <2>1. \A q \in {"start", "commit"} : Stays(t, q) => work'[t].pc = q
    BY AtWork DEF Stays, IInv, Types, Works
  <2>2. work'[t].pc = pc
    <3>1. pc \in {"start", "commit"} /\ Stays(t, pc)
      BY <1>3
    <3> QED
      BY <2>1, <3>1
  <2> QED
    BY <2>1, <2>2
<1> QED
  BY <1>7, <1>8, <1>9, <1>10, <1>11

\* A bot that changes its account is stopped first, another takes its status.
LEMMA SwitchKeeps ==
  ASSUME OneAtATime, IInv, NEW t \in Apis, SetStatus(t) \/ SwitchAccount(t)
  PROVE  IInv'
<1>1. /\ work[t].pc \in {"status", "switch"}
      /\ UNCHANGED <<app, row, trades, restoring, used>>
  BY DEF SetStatus, SwitchAccount
<1>2. CASE ApplyStatus(t) /\ (work[t].pc = "switch" => registered[work[t].bot] = NoRunner)
  BY <1>1, <1>2, StatusKeeps, UnknownKeeps
<1>3. CASE /\ work[t].pc = "switch" /\ registered[work[t].bot] # NoRunner
           /\ StopBot(work[t].bot) /\ Stays(t, "restart")
  <2>1. PICK b \in Bots : b = work[t].bot
    BY <1>1, AtWork
  <2>2. /\ Serves(work[t]) /\ Agrees(b) /\ row[b] # NoBot /\ work[t].seen = row[b]
        /\ work[t].acct \in Accounts /\ registered[b] \in Runners
    BY <1>1, <1>3, <2>1, AtWork DEF Serves, Patching
  <2>3. row[b].status \in {"RUNNING", "PAUSED"}
    BY <1>3, <2>1, <2>2 DEF Agrees, Runners
  <2>4. PICK w \in Works : w = [work[t] EXCEPT !.pc = "restart"]
    BY <1>1, AtWork DEF Works, Patching, Starting
  <2>5. /\ work' = [work EXCEPT ![t] = w] /\ w.pc = "restart" /\ w # Idle /\ w.bot = b
        /\ w.seen = row[b] /\ w.acct = work[t].acct
    BY <1>1, <1>3, <2>1, <2>2, <2>4, AtWork, IdleWork DEF Stays, Works, IInv, Types
  <2>6. /\ registered' \in [Bots -> Runners] /\ registered'[b] = NoRunner /\ leaked' = {}
        /\ \A c \in Bots \ {b} : registered'[c] = registered[c]
    BY <1>1, <1>3, <2>1, AtWork, RowsApart DEF StopBot
  <2>7. Serves(w)'
    BY <1>1, <2>2, <2>3, <2>5, <2>6 DEF Serves, Patching, Starting
  <2> QED
    BY <1>1, <2>1, <2>5, <2>6, <2>7, AtWork, UntradedStep
<1> QED
  BY <1>2, <1>3 DEF SetStatus, SwitchAccount

\* start_bot restores the position there is.
LEMMA StartKeeps ==
  ASSUME OneAtATime, IInv, NEW t \in Apis, StartBot(t)
  PROVE  IInv'
<1>1. work[t].pc \in {"create", "restart", "start"}
  BY DEF StartBot
<1>2. /\ Serves(work[t]) /\ work[t] \in Works /\ work[t].bot \in Bots
      /\ Newest(work[t].bot) \in Nat /\ IsHeld(work[t].bot, Newest(work[t].bot))
  BY <1>1, AtWork, NewestIsHeld DEF IInv
<1>3. PICK pc \in {"created", "restarted", "started"} :
        /\ work[t].pc = "create" <=> pc = "created"
        /\ work[t].pc = "restart" <=> pc = "restarted"
        /\ work' = [work EXCEPT ![t].holds = Newest(work[t].bot), ![t].pc = pc]
  BY <1>1 DEF StartBot
<1>4. PICK w \in Works : w = [work[t] EXCEPT !.holds = Newest(work[t].bot), !.pc = pc]
  BY <1>2 DEF Works, Patching, Starting
<1>5. /\ w.pc = pc /\ w.bot = work[t].bot /\ w.holds = Newest(work[t].bot) /\ w.seen = work[t].seen
      /\ w.acct = work[t].acct /\ w.status = work[t].status
  BY <1>2, <1>4 DEF Works
<1>6. work' = [work EXCEPT ![t] = w]
  BY <1>3, <1>4 DEF IInv, Types
<1>7. Serves(w) /\ w # Idle
  BY <1>1, <1>2, <1>3, <1>5, IdleWork DEF Serves, Patching, Starting
<1> QED
  BY <1>1, <1>5, <1>6, <1>7, MovesOn DEF StartBot

\* The runner that is registered has the account and the position of its bot, and
\* nothing was registered for the bot before.
LEMMA RegisterKeeps ==
  ASSUME OneAtATime, IInv, NEW t \in Apis, Registered(t)
  PROVE  IInv'
<1>1. work[t].pc \in {"created", "started", "restarted"} /\ UNCHANGED <<app, row, trades, restoring, used>>
  BY DEF Registered
<1>2. PICK b \in Bots : b = work[t].bot
  BY <1>1, AtWork
<1>3. /\ Serves(work[t]) /\ work[t] \in Works /\ registered[b] = NoRunner /\ row[b] # NoBot
      /\ work[t].seen = row[b] /\ work[t].acct \in Accounts /\ IsHeld(b, work[t].holds)
  BY <1>1, <1>2, AtWork DEF Serves, Patching, Starting
<1> DEFINE last == work[t].pc = "created" \/ work[t].status = Bogus
<1>4. PICK w \in Works : /\ work' = [work EXCEPT ![t] = w]
                         /\ w = IF last THEN Idle ELSE [work[t] EXCEPT !.pc = "commit"]
  <2>1. CASE last
    BY <1>1, <1>3, <2>1, IdleWork DEF Registered, Ends, Serves, Bogus
  <2>2. CASE ~last
    <3>1. [work[t] EXCEPT !.pc = "commit"] \in Works
      BY <1>3 DEF Works, Patching
    <3>2. work' = [work EXCEPT ![t].pc = "commit"]
      BY <2>2 DEF Registered, Stays
    <3> QED
      BY <2>2, <3>1, <3>2 DEF IInv, Types
  <2> QED
    BY <2>1, <2>2
<1>5. ~last => /\ w.pc = "commit" /\ w # Idle /\ w.bot = b /\ w.seen = row[b]
               /\ w.acct = work[t].acct /\ w.status = work[t].status
  BY <1>2, <1>3, <1>4, IdleWork DEF Works
<1>6. leaked' = {} /\ registered \in [Bots -> Runners]
  BY <1>2, <1>3 DEF Registered, Register, StopBot, IInv, Types
<1> DEFINE told == IF work[t].pc = "created" THEN "RUNNING"
                   ELSE IF work[t].pc = "started" THEN work[t].status
                   ELSE IF work[t].status \in {None, Bogus} THEN work[t].seen.status
                   ELSE work[t].status
<1>7. CASE work[t].pc = "restarted" /\ work[t].status = "STOPPED"
  <2>1. registered' = [registered EXCEPT ![b] = NoRunner]
    BY <1>2, <1>7 DEF Registered, StopBot
  <2>2. /\ registered' \in [Bots -> Runners] /\ registered'[b] = NoRunner
        /\ \A c \in Bots \ {b} : registered'[c] = registered[c]
    BY <1>6, <2>1, RowsApart
  <2>3. Serves(w)'
    BY <1>1, <1>3, <1>5, <1>7, <2>2 DEF Serves, Patching, Starting, None, Bogus
  <2>4. ~last
    BY <1>7 DEF Bogus
  <2>5. w # Idle /\ w.bot = b
    BY <1>5, <2>4
  <2> QED
    BY <1>1, <1>2, <1>4, <1>6, <2>2, <2>3, <2>5, AtWork, UntradedStep
<1>8. CASE ~(work[t].pc = "restarted" /\ work[t].status = "STOPPED")
  <2>1. told \in {"RUNNING", "PAUSED"}
    BY <1>1, <1>2, <1>3, <1>8 DEF Serves, Works, Statuses
  <2>2. registered' = [registered EXCEPT ![b] = Runner(work[t].acct, told, work[t].holds)]
    BY <1>1, <1>2, <1>8 DEF Registered, Register
  <2>3. PICK r \in [acct : Accounts, status : {"RUNNING", "PAUSED"}, holds : Nat] :
          /\ r = Runner(work[t].acct, told, work[t].holds)
          /\ r.acct = work[t].acct /\ r.status = told /\ r.holds = work[t].holds
    <3> HIDE DEF told
    <3>1. work[t].holds \in Nat
      BY <1>3 DEF Works
    <3> DEFINE q == Runner(work[t].acct, told, work[t].holds)
    <3>2. /\ q \in [acct : Accounts, status : {"RUNNING", "PAUSED"}, holds : Nat]
          /\ q.acct = work[t].acct /\ q.status = told /\ q.holds = work[t].holds
      BY <1>3, <2>1, <3>1 DEF Runner
    <3> HIDE DEF q
    <3> QED
      BY <3>2 DEF q
  <2>4. r # NoRunner
    BY DEF NoRunner, None
  <2>5. /\ registered' \in [Bots -> Runners] /\ registered'[b] = r
        /\ \A c \in Bots \ {b} : registered'[c] = registered[c]
    BY <1>6, <2>2, <2>3 DEF Runners
  <2>6. IsHeld(b, registered'[b].holds)
    BY <1>3, <2>3, <2>5
  <2>7. CASE last
    <3>1. (Agrees(b) /\ Backed(b))'
      BY <1>1, <1>2, <1>3, <2>3, <2>4, <2>5, <2>7 DEF Serves, Agrees, Backed, Bogus
    <3>2. Serves(w)' /\ w = Idle
      BY <1>4, <2>7, IdleWork DEF Serves, Patching, Starting
    <3> QED
      BY <1>1, <1>2, <1>4, <1>6, <2>5, <2>6, <3>1, <3>2, AtWork, UntradedStep
  <2>8. CASE ~last
    <3>1. told = IF w.status = None THEN w.seen.status ELSE w.status
      BY <1>1, <1>3, <1>5, <2>8 DEF Serves, None
    <3>2. Serves(w)'
      BY <1>1, <1>3, <1>5, <2>3, <2>4, <2>5, <2>8, <3>1, SMTT(30) DEF Serves, Patching, Starting
    <3> QED
      BY <1>1, <1>2, <1>4, <1>5, <1>6, <2>5, <2>6, <2>8, <3>2, AtWork, UntradedStep, ZenonT(30)
  <2> QED
    BY <2>7, <2>8
<1> QED
  BY <1>7, <1>8

\* A start that fails leaves no runner behind, and a failure behind it.
LEMMA FailKeeps ==
  ASSUME OneAtATime, IInv, NEW t \in Apis, StartFails(t)
  PROVE  IInv'
<1>1. /\ work[t].pc \in Starting /\ UNCHANGED <<app, registered, leaked, trades, restoring>>
      /\ used' = [used EXCEPT !.fail = @ + 1] /\ work' = [work EXCEPT ![t] = Idle]
  BY DEF StartFails, Starting, Ends
<1>2. PICK b \in Bots : b = work[t].bot
  BY <1>1, AtWork DEF Starting
<1>3. /\ registered[b] = NoRunner /\ app = "up" /\ leaked = {} /\ row \in [Bots -> Rows]
      /\ registered \in [Bots -> Runners] /\ used \in [api : Nat, fail : Nat, crash : Nat]
  BY <1>1, <1>2, AtWork DEF Serves, Starting
<1>4. row' \in [Bots -> Rows] /\ \A c \in Bots \ {b} : row'[c] = row[c]
  BY <1>2, <1>3, RowsApart DEF StartFails
<1>5. used' \in [api : Nat, fail : Nat, crash : Nat] /\ used'.fail # 0
  BY <1>1, <1>3
<1>6. (Agrees(b) /\ Backed(b))'
  BY <1>1, <1>3, <1>5 DEF Agrees, Backed
<1>7. Serves(Idle)'
  BY IdleWork DEF Serves, Patching, Starting
<1> QED
  BY <1>1, <1>2, <1>3, <1>4, <1>5, <1>6, <1>7, IdleWork, UntradedStep

\* The commit brings the row to what the runner has been told.
LEMMA CommitKeeps ==
  ASSUME OneAtATime, IInv, NEW t \in Apis, CommitPatch(t)
  PROVE  IInv'
<1> DEFINE s == IF work[t].status = None THEN work[t].seen.status ELSE work[t].status
<1>1. /\ work[t].pc = "commit" /\ UNCHANGED <<app, registered, leaked, trades, restoring, used>>
      /\ work' = [work EXCEPT ![t] = Idle]
  BY DEF CommitPatch, Ends
<1>2. PICK b \in Bots : b = work[t].bot
  BY <1>1, AtWork
<1>3. /\ row[b] # NoBot /\ work[t].seen = row[b] /\ work[t].acct \in Accounts /\ row[b] \in Rows
      /\ registered[b] # NoRunner => registered[b].status = s
      /\ work[t].status # Bogus
      /\ s = "RUNNING" /\ used.fail = 0 => registered[b] # NoRunner
  BY <1>1, <1>2, AtWork DEF Serves, Patching
<1>4. s \in Statuses
  BY <1>1, <1>3, AtWork DEF Rows, Works
<1>5. PICK r \in [status : Statuses, acct : Accounts] :
        r = [status |-> s, acct |-> work[t].acct] /\ r.status = s /\ r.acct = work[t].acct
  <2> HIDE DEF s
  <2> DEFINE q == [status |-> s, acct |-> work[t].acct]
  <2>1. q \in [status : Statuses, acct : Accounts] /\ q.status = s /\ q.acct = work[t].acct
    BY <1>3, <1>4
  <2> HIDE DEF q
  <2> QED
    BY <2>1 DEF q
<1>6. row' = [row EXCEPT ![b] = r]
  <2>1. row[b] \in [status : Statuses, acct : Accounts]
    BY <1>3 DEF Rows
  <2>2. row' = [row EXCEPT ![b].status = IF s = row[b].status THEN @ ELSE s,
                           ![b].acct = IF work[t].acct = row[b].acct THEN @ ELSE work[t].acct]
    BY <1>2, <1>3 DEF CommitPatch
  <2>3. row' = [row EXCEPT ![b] = [row[b] EXCEPT !.status = s, !.acct = work[t].acct]]
    <3> HIDE DEF s
    <3> QED
      BY <1>1, <2>1, <2>2, AtWork
  <2>4. [row[b] EXCEPT !.status = s, !.acct = work[t].acct] = r
    <3> HIDE DEF s
    <3> QED
      BY <1>5, <2>1
  <2> QED
    BY <2>3, <2>4
<1>7. row' \in [Bots -> Rows] /\ row'[b] = r /\ \A c \in Bots \ {b} : row'[c] = row[c]
  BY <1>1, <1>6, AtWork DEF Rows
<1>8. (Agrees(b) /\ Backed(b))'
  BY <1>1, <1>3, <1>5, <1>7 DEF Agrees, Backed
<1>9. Serves(Idle)'
  BY IdleWork DEF Serves, Patching, Starting
<1> QED
  BY <1>1, <1>2, <1>7, <1>8, <1>9, AtWork, IdleWork, UntradedStep

\* A bot is stopped before its row goes.
LEMMA DeleteStopsKeeps ==
  ASSUME OneAtATime, IInv, NEW t \in Apis, DeleteStops(t)
  PROVE  IInv'
<1>1. work[t].pc = "delete" /\ UNCHANGED <<app, row, leaked, trades, restoring, used>>
  BY DEF DeleteStops, StopBot
<1>2. PICK b \in Bots : b = work[t].bot
  BY <1>1, AtWork
<1>3. PICK w \in Works : w = [work[t] EXCEPT !.pc = "orphan"]
  BY <1>1, AtWork DEF Works
<1>4. work' = [work EXCEPT ![t] = w] /\ w.pc = "orphan" /\ w # Idle /\ w.bot = b
  <2>1. work' = [work EXCEPT ![t].pc = "orphan"]
    BY DEF DeleteStops, Stays
  <2> QED
    BY <1>1, <1>2, <1>3, <2>1, AtWork, IdleWork DEF Works, IInv, Types
<1>5. /\ registered' \in [Bots -> Runners] /\ registered'[b] = NoRunner
      /\ \A c \in Bots \ {b} : registered'[c] = registered[c]
  BY <1>1, <1>2, AtWork, RowsApart DEF DeleteStops, StopBot
<1>6. Serves(w)'
  BY <1>4, <1>5 DEF Serves, Patching, Starting
<1> QED
  BY <1>1, <1>2, <1>4, <1>5, <1>6, AtWork, UntradedStep

\* The row goes, and the bot's positions are no longer its own.
LEMMA CommitDeleteKeeps ==
  ASSUME OneAtATime, IInv, NEW t \in Apis, CommitDelete(t)
  PROVE  IInv'
<1>1. /\ work[t].pc = "orphan" /\ UNCHANGED <<app, registered, leaked, restoring, used>>
      /\ work' = [work EXCEPT ![t] = Idle]
  BY DEF CommitDelete, Ends
<1>2. PICK b \in Bots : b = work[t].bot
  BY <1>1, AtWork
<1>3. registered[b] = NoRunner
  BY <1>1, <1>2, AtWork DEF Serves
<1>4. /\ row' \in [Bots -> Rows] /\ row'[b] = NoBot /\ \A c \in Bots \ {b} : row'[c] = row[c]
  BY <1>1, <1>2, AtWork, RowsApart DEF CommitDelete
<1>5. /\ trades' = [i \in DOMAIN trades |-> IF trades[i].bot = b THEN [trades[i] EXCEPT !.bot = None] ELSE trades[i]]
      /\ trades \in Seq(Position) /\ \A i \in DOMAIN trades : trades[i] \in Position
  BY <1>2 DEF CommitDelete, IInv, Types
<1>6. \A i \in DOMAIN trades :
        trades'[i] \in Position /\ trades'[i].open = trades[i].open
        /\ trades'[i].bot = (IF trades[i].bot = b THEN None ELSE trades[i].bot)
  BY <1>5 DEF Position
<1>7. trades' \in Seq(Position) /\ DOMAIN trades' = DOMAIN trades
  <2>1. DOMAIN trades = 1..Len(trades) /\ Len(trades) \in Nat
    BY <1>5
  <2>2. trades' \in [1..Len(trades) -> Position]
    BY <1>5, <1>6, <2>1
  <2> QED
    BY <1>5, <2>1, <2>2
<1>8. None # b
  BY LifecycleOK DEF LifecycleOK
<1>9. OpenTrades(b)' = {} /\ \A c \in Bots \ {b} : OpenTrades(c)' = OpenTrades(c)
  BY <1>6, <1>7, <1>8, LifecycleOK DEF OpenTrades, LifecycleOK
<1>10. (Agrees(b) /\ Backed(b))'
  BY <1>1, <1>3, <1>4, RowsApart DEF Agrees, Backed, None
<1>11. Serves(Idle)'
  BY IdleWork DEF Serves, Patching, Starting
<1> QED
  BY <1>1, <1>2, <1>3, <1>4, <1>7, <1>9, <1>10, <1>11, AtWork, IdleWork, RequestStep

\* The process: a crash leaves rows and positions, the next start registers the
\* RUNNING bots with their positions before it takes requests.
LEMMA ProcessKeeps ==
  ASSUME IInv, Crash \/ Restart \/ Yield
  PROVE  IInv'
<1>1. /\ UNCHANGED <<row, trades>> /\ leaked' = {} /\ app' \in {"up", "starting", "down"}
      /\ restoring' \subseteq Bots /\ used' \in [api : Nat, fail : Nat, crash : Nat]
      /\ used'.fail = used.fail
      /\ registered' \in [Bots -> Runners] /\ work' \in [Apis -> Works]
      /\ \A b \in Bots : registered'[b] \in {registered[b], NoRunner}
      /\ \A t \in Apis : work'[t] = Idle
  <2>1. CASE Crash
    BY <2>1, IdleWork, RowsApart DEF Crash, IInv, Types
  <2>2. CASE Restart \/ Yield
    BY <2>2 DEF Restart, Yield, IInv, Types, Process
  <2> QED
    BY <2>1, <2>2
<1>2. Types'
  BY <1>1 DEF IInv, Types
<1>3. \A c \in Bots : OpenTrades(c)' = OpenTrades(c)
  BY <1>1 DEF OpenTrades
<1>4. Held'
  BY <1>1, <1>3 DEF IInv, Held, IsHeld
<1>5. Serving'
  BY <1>1, IdleWork DEF Serving, Serves, Patching, Starting
<1>6. \A b \in Bots : ~Served(b)'
  BY <1>1 DEF Served
<1>7. Process' /\ Quiet'
  <2>1. CASE Crash
    BY <1>1, <2>1 DEF Crash, Process, Quiet, Agrees
  <2>2. CASE Restart
    <3>1. /\ app' = "starting" /\ restoring' = {b \in Bots : row[b].status = "RUNNING"}
          /\ registered' = registered /\ \A b \in Bots : registered[b] = NoRunner
      BY <2>2 DEF Restart, IInv, Process
    <3> QED
      BY <1>1, <3>1 DEF Process, Quiet, Agrees, Backed
  <2>3. CASE Yield
    <3>1. \A b \in Bots : ~Served(b) /\ Agrees(b) /\ Backed(b)
      BY <2>3 DEF Yield, IInv, Process, Quiet, Served
    <3>2. \A b \in Bots : Agrees(b)' /\ Backed(b)'
      BY <1>1, <2>3, <3>1 DEF Yield, Agrees, Backed
    <3> QED
      BY <2>3, <3>2 DEF Yield, Process, Quiet
  <2> QED
    BY <2>1, <2>2, <2>3
<1> QED
  BY <1>1, <1>2, <1>4, <1>5, <1>7 DEF IInv

\* The bot that is restored gets the account of its row and the position there is.
LEMMA RestoreKeeps ==
  ASSUME IInv, NEW b \in Bots, RestoreBot(b)
  PROVE  IInv'
<1>1. /\ app = "starting" /\ b \in restoring /\ UNCHANGED <<app, row, trades, work>>
      /\ row[b].status = "RUNNING" /\ registered[b] = NoRunner /\ row[b] \in Rows
      /\ \A t \in Apis : work[t] = Idle
      /\ registered \in [Bots -> Runners] /\ Newest(b) \in Nat /\ IsHeld(b, Newest(b))
  BY NewestIsHeld DEF RestoreBot, IInv, Types, Process
<1>2. \A c \in Bots : (OpenTrades(c)' = OpenTrades(c)) /\ ~Served(c) /\ ~Served(c)'
  BY <1>1 DEF OpenTrades, Served
<1>3. Serving'
  BY <1>1, IdleWork DEF Serving, Serves, Patching, Starting
<1>4. \A c \in Bots : Agrees(c) /\ (Backed(c) \/ c \in restoring)
  BY <1>1, <1>2 DEF IInv, Quiet
<1>5. CASE /\ Register(b, Runner(row[b].acct, "RUNNING", Newest(b)))
           /\ restoring' = restoring \ {b} /\ UNCHANGED used
  <2> DEFINE r == Runner(row[b].acct, "RUNNING", Newest(b))
  <2>1. row[b].acct \in Accounts
    BY <1>1, RowsApart DEF Rows, NoBot, None
  <2>2. /\ r \in [acct : Accounts, status : {"RUNNING", "PAUSED"}, holds : Nat] /\ r # NoRunner
        /\ r.acct = row[b].acct /\ r.status = "RUNNING" /\ r.holds = Newest(b)
    BY <1>1, <2>1 DEF Runner, NoRunner, None
  <2> HIDE DEF r
  <2>3. /\ registered' \in [Bots -> Runners] /\ registered'[b] = r /\ leaked' = {}
        /\ \A c \in Bots \ {b} : registered'[c] = registered[c]
    BY <1>1, <1>5, <2>2 DEF Register, Runners, IInv, r
  <2>4. Types' /\ Process'
    BY <1>1, <1>5, <2>3 DEF IInv, Types, Process
  <2>5. Held'
    BY <1>1, <1>2, <2>2, <2>3 DEF IInv, Held, IsHeld
  <2>6. Quiet'
    BY <1>1, <1>4, <1>5, <2>2, <2>3 DEF Quiet, Agrees, Backed
  <2> QED
    BY <1>3, <2>3, <2>4, <2>5, <2>6 DEF IInv
<1>6. CASE /\ used' = [used EXCEPT !.fail = @ + 1] /\ restoring' = {}
           /\ UNCHANGED <<registered, leaked>>
  <2>1. used' \in [api : Nat, fail : Nat, crash : Nat] /\ used'.fail # 0
    BY <1>6 DEF IInv, Types
  <2>2. Types' /\ Process'
    BY <1>1, <1>6, <2>1 DEF IInv, Types, Process
  <2>3. Held'
    BY <1>2, <1>6 DEF IInv, Held, IsHeld
  <2>4. Quiet'
    BY <1>1, <1>4, <1>6, <2>1 DEF Quiet, Agrees, Backed
  <2> QED
    BY <1>3, <1>6, <2>2, <2>3, <2>4 DEF IInv
<1> QED
  BY <1>5, <1>6 DEF RestoreBot

\* With one request at a time, every step keeps the invariant.
LEMMA Inductive ==
  ASSUME OneAtATime
  PROVE  Spec => []IInv
<1>1. Init => IInv
  <2> SUFFICES ASSUME Init
               PROVE IInv
    OBVIOUS
  <2>1. Types
    BY IdleWork, RowsApart DEF Init, Types
  <2>2. \A b \in Bots : OpenTrades(b) = {}
    BY DEF Init, OpenTrades
  <2>3. Held /\ Process /\ Serving
    BY <2>2, IdleWork DEF Init, Held, Process, Serving, Serves, Patching, Starting
  <2>4. Quiet
    BY RowsApart DEF Init, Quiet, Agrees, Backed, None
  <2> QED
    BY <2>1, <2>3, <2>4 DEF Init, IInv
<1>2. IInv /\ [Next]_vars => IInv'
  <2> SUFFICES ASSUME IInv, [Next]_vars
               PROVE IInv'
    OBVIOUS
  <2>1. ASSUME NEW b \in Bots, Trade(b) \/ RestoreBot(b)
        PROVE IInv'
    BY <2>1, TradeKeeps, RestoreKeeps
  <2>2. ASSUME NEW t \in Apis, NEW b \in Bots, CreateBot(t, b) \/ PatchBot(t, b) \/ DeleteBot(t, b)
        PROVE IInv'
    BY <2>2, CreateKeeps, PatchKeeps, DeleteKeeps
  <2>3. ASSUME NEW t \in Apis, CheckOpen(t) \/ SwitchAccount(t) \/ SetStatus(t) \/ StartBot(t)
        PROVE IInv'
    BY <2>3, CheckKeeps, SwitchKeeps, StartKeeps
  <2>4. ASSUME NEW t \in Apis, Registered(t) \/ StartFails(t) \/ CommitPatch(t) \/ DeleteStops(t) \/ CommitDelete(t)
        PROVE IInv'
    BY <2>4, RegisterKeeps, FailKeeps, CommitKeeps, DeleteStopsKeeps, CommitDeleteKeeps
  <2>5. CASE Crash \/ Restart \/ Yield
    BY <2>5, ProcessKeeps
  <2>6. CASE UNCHANGED vars
    BY <2>6 DEF vars, IInv, Types, Held, IsHeld, OpenTrades, Quiet, Agrees, Backed, Served,
       Process, Serving, Serves
  <2> QED
    BY <2>1, <2>2, <2>3, <2>4, <2>5, <2>6 DEF Next
<1> QED
  BY <1>1, <1>2, PTL DEF Spec

\* Between requests a runner has the status of its row, a bot that is stopped or
\* deleted has none, and a RUNNING bot has one unless a start has failed.
THEOREM StatusesFollowed ==
  ASSUME OneAtATime
  PROVE  Spec => []StatusesAgree
<1>1. IInv => StatusesAgree
  BY DEF StatusesAgree, AtRest, IInv, Quiet, Served, Agrees, Backed
<1> QED
  BY <1>1, Inductive, PTL

\* A bot has at most one OPEN position, and the runner that is registered for it,
\* after however many stops and restarts, holds that one.
THEOREM PositionsFollowed ==
  ASSUME OneAtATime
  PROVE  Spec => []PositionsHeld
<1>1. IInv => PositionsHeld
  <2> SUFFICES ASSUME IInv, NEW b \in Bots
               PROVE /\ Cardinality(OpenTrades(b)) <= 1
                     /\ registered[b] # NoRunner => registered[b].holds = Newest(b)
    BY DEF PositionsHeld
  <2>1. PICK h \in Nat : IsHeld(b, h)
    BY NewestIsHeld DEF IInv
  <2>2. Cardinality(OpenTrades(b)) <= 1
    <3>1. Cardinality({}) = 0 /\ Cardinality({h}) = 1
      BY FS_EmptySet, FS_Singleton
    <3>2. OpenTrades(b) = {} \/ OpenTrades(b) = {h}
      BY <2>1 DEF IsHeld
    <3> QED
      BY <3>1, <3>2
  <2>3. ASSUME registered[b] # NoRunner
        PROVE registered[b].holds = Newest(b)
    <3>1. registered[b].holds \in Nat /\ IsHeld(b, registered[b].holds)
      BY <2>3 DEF IInv, Types, Runners, Held
    <3> QED
      BY <3>1, HeldIsNewest DEF IInv
  <2> QED
    BY <2>2, <2>3
<1> QED
  BY <1>1, Inductive, PTL
=============================================================================
