---------------------------- MODULE BotLifecycle ----------------------------
(***************************************************************************)
(* The life of bots: the rows of table bots, the BotManager's registry of  *)
(* StrategyRunners (app/strategy/runner.py), the routes that create, patch *)
(* and delete bots (app/api/trading.py) and the restoration of bots when   *)
(* the process starts (app/main.py).  A runner trades while a request is   *)
(* between two awaits.  What an executor does inside is left to            *)
(* PaperExecutor and ExchangeExecutor: here it holds at most one trade.    *)
(***************************************************************************)
EXTENDS Naturals, Sequences, FiniteSets, FiniteSetsExt

CONSTANTS
  Bots,       \* ids a bot may have
  Apis,       \* requests that may be in flight at the same time
  Accounts,   \* trading accounts of the bots' mode
  MaxTrades,  \* bound: trades opened
  MaxApi,     \* bound: requests
  MaxFail,    \* bound: failing calls of start_bot
  MaxCrash    \* bound: process crashes

None == "none"

ASSUME LifecycleOK == None \notin Bots \cup Accounts /\ Accounts # {}

VARIABLES
  app,        \* "up" | "starting" (lifespan, before it yields) | "down"
  row,        \* table bots: [status, acct] of each id
  registered, \* BotManager._runners: [acct, status, holds] or NoRunner
  leaked,     \* bots with a runner still running that _runners no longer has; what
              \* it trades is not followed
  trades,     \* table positions: [bot, open]
  work,       \* what each request awaits, with its locals
  restoring,  \* RUNNING bots the starting process has not restored yet
  used        \* budgets spent: [api, fail, crash]

vars == <<app, row, registered, leaked, trades, work, restoring, used>>

Statuses == {"RUNNING", "PAUSED", "STOPPED"}
Bogus == "bogus"  \* any status patch_bot does not know
NoBot == [status |-> None, acct |-> None]
NoRunner == [acct |-> None, status |-> None, holds |-> 0]
Idle == [pc |-> "idle", bot |-> None, status |-> None, acct |-> None, seen |-> NoBot,
         holds |-> 0]
OpenTrades(b) == {i \in DOMAIN trades : trades[i].bot = b /\ trades[i].open}
Newest(b) == IF OpenTrades(b) = {} THEN 0 ELSE Max(OpenTrades(b))
Stays(t, pc) == work' = [work EXCEPT ![t].pc = pc]
Ends(t) == work' = [work EXCEPT ![t] = Idle]
-----------------------------------------------------------------------------
(* Runners.  A runner is a bot with its account, the status it was last    *)
(* told, and the trade its executor's engine holds.                        *)

Runner(acct, status, holds) == [acct |-> acct, status |-> status, holds |-> holds]

\* _handle: only a RUNNING bot acts on a closed candle.
Enters(r) == r.status = "RUNNING" /\ r.holds = 0 /\ Len(trades) < MaxTrades
Entered(b, r) ==
  /\ Enters(r)
  /\ trades' = Append(trades, [bot |-> b, open |-> TRUE])

\* SL, TP or a CLOSE signal, whatever the status.
Exited(r) ==
  /\ r.holds # 0
  /\ trades' = [trades EXCEPT ![r.holds].open = FALSE]

Trade(b) ==
  /\ registered[b] # NoRunner
  /\ \/ /\ Entered(b, registered[b])
        /\ registered' = [registered EXCEPT ![b].holds = Len(trades) + 1]
     \/ /\ Exited(registered[b])
        /\ registered' = [registered EXCEPT ![b].holds = 0]
  /\ UNCHANGED <<app, row, leaked, work, restoring, used>>

\* start_bot ends with `self._runners[bot_id] = runner`: whatever was there
\* before goes on running.
Register(b, runner) ==
  /\ registered' = [registered EXCEPT ![b] = runner]
  /\ leaked' = IF registered[b] = NoRunner THEN leaked ELSE leaked \cup {b}
StopBot(b) ==
  /\ registered' = [registered EXCEPT ![b] = NoRunner]
  /\ UNCHANGED leaked
-----------------------------------------------------------------------------
(* Requests.                                                               *)

Request(t, b) ==
  /\ app = "up" /\ work[t] = Idle
  /\ used.api < MaxApi
  /\ used' = [used EXCEPT !.api = @ + 1]
  /\ UNCHANGED <<app, registered, leaked, trades, restoring>>

\* create_bot commits the row before it starts the bot.
CreateBot(t, b) ==
  /\ Request(t, b)
  /\ row[b] = NoBot
  /\ \E a \in Accounts :
       /\ row' = [row EXCEPT ![b] = [status |-> "RUNNING", acct |-> a]]
       /\ work' = [work EXCEPT ![t] = [Idle EXCEPT !.pc = "create", !.bot = b,
            !.acct = a, !.seen = row'[b]]]

\* patch_bot loads the row into its session; another account than the row's is
\* first checked for an OPEN position, and the status only after that.
PatchBot(t, b) ==
  /\ Request(t, b)
  /\ row[b] # NoBot
  /\ \E s \in Statuses \cup {None, Bogus}, a \in Accounts \cup {None} :
       work' = [work EXCEPT ![t] =
         [Idle EXCEPT !.bot = b, !.status = s, !.seen = row[b],
            !.pc = IF a \in {None, row[b].acct} THEN "status" ELSE "account",
            !.acct = IF a = None THEN row[b].acct ELSE a]]
  /\ UNCHANGED row

DeleteBot(t, b) ==
  /\ Request(t, b)
  /\ row[b] # NoBot
  /\ work' = [work EXCEPT ![t] = [Idle EXCEPT !.pc = "delete", !.bot = b]]
  /\ UNCHANGED row

\* The query for OPEN positions, with the 409 refusal.
CheckOpen(t) ==
  /\ work[t].pc = "account"
  /\ IF OpenTrades(work[t].bot) # {} THEN Ends(t) ELSE Stays(t, "switch")
  /\ UNCHANGED <<app, row, registered, leaked, trades, restoring, used>>

\* The status part of patch_bot, once no restart is due: an unknown one ends the
\* request (400), STOPPED stops, another status reaches the runner, and a bot
\* without a runner is started.
ApplyStatus(t) ==
  LET b == work[t].bot
      s == work[t].status
  IN \/ s = None /\ UNCHANGED <<registered, leaked>> /\ Stays(t, "commit")
     \/ s = Bogus /\ UNCHANGED <<registered, leaked>> /\ Ends(t)
     \/ s = "STOPPED" /\ StopBot(b) /\ Stays(t, "commit")
     \/ /\ s \in {"RUNNING", "PAUSED"} /\ registered[b] = NoRunner
        /\ Stays(t, "start") /\ UNCHANGED <<registered, leaked>>
     \/ /\ s \in {"RUNNING", "PAUSED"} /\ registered[b] # NoRunner
        /\ registered' = [registered EXCEPT ![b].status = s]
        /\ Stays(t, "commit") /\ UNCHANGED leaked

SetStatus(t) ==
  /\ work[t].pc = "status"
  /\ ApplyStatus(t)
  /\ UNCHANGED <<app, row, trades, restoring, used>>

\* A running bot is restarted on its new account.
SwitchAccount(t) ==
  /\ work[t].pc = "switch"
  /\ IF registered[work[t].bot] = NoRunner
     THEN ApplyStatus(t)
     ELSE StopBot(work[t].bot) /\ Stays(t, "restart")
  /\ UNCHANGED <<app, row, trades, restoring, used>>

StartBotMutant(t) ==  \* restore_open is not called
  /\ work[t].pc \in {"create", "restart", "start"}
  /\ work' = [work EXCEPT ![t].holds = 0,
       ![t].pc = CASE work[t].pc = "create"  -> "created"
                   [] work[t].pc = "restart" -> "restarted"
                   [] work[t].pc = "start"   -> "started"]
  /\ UNCHANGED <<app, row, registered, leaked, trades, restoring, used>>
\* start_bot: the executor is attached to the account and restores the newest
\* OPEN position (restore_open) ...
StartBot(t) ==
  /\ work[t].pc \in {"create", "restart", "start"}
  /\ work' = [work EXCEPT ![t].holds = Newest(work[t].bot),
       ![t].pc = CASE work[t].pc = "create"  -> "created"
                   [] work[t].pc = "restart" -> "restarted"
                   [] work[t].pc = "start"   -> "started"]
  /\ UNCHANGED <<app, row, registered, leaked, trades, restoring, used>>

RegisteredMutant(t) ==  \* set_status is not called after a start
  /\ work[t].pc \in {"created", "started", "restarted"}
  /\ Register(work[t].bot, Runner(work[t].acct, "RUNNING", work[t].holds))
  /\ IF work[t].pc = "created" \/ work[t].status = Bogus THEN Ends(t)
     ELSE Stays(t, "commit")
  /\ UNCHANGED <<app, row, trades, restoring, used>>
\* ... and the runner, its candles read, is started and registered.  After a
\* restart the status of the row, then that of the request, is set without an
\* await between them; an unknown one ends the request here, without its commit.
Registered(t) ==
  LET b == work[t].bot
      Started(status) == Register(b, Runner(work[t].acct, status, work[t].holds))
  IN /\ \/ work[t].pc = "created" /\ Started("RUNNING") /\ Ends(t)
        \/ /\ work[t].pc = "started"
           /\ Started(work[t].status) /\ Stays(t, "commit")
        \/ /\ work[t].pc = "restarted"
           /\ IF work[t].status = "STOPPED" THEN StopBot(b)
              ELSE Started(IF work[t].status \in {None, Bogus} THEN work[t].seen.status
                           ELSE work[t].status)
           /\ IF work[t].status = Bogus THEN Ends(t) ELSE Stays(t, "commit")
     /\ UNCHANGED <<app, row, trades, restoring, used>>

\* start_bot raises: a PATCH ends without its commit; a bot just created is
\* deleted when the error is a ValueError, and stays otherwise.
StartFails(t) ==
  /\ work[t].pc \in {"create", "created", "restart", "restarted", "start", "started"}
  /\ used.fail < MaxFail
  /\ used' = [used EXCEPT !.fail = @ + 1]
  /\ \/ UNCHANGED row
     \/ work[t].pc = "create" /\ row' = [row EXCEPT ![work[t].bot] = NoBot]
  /\ Ends(t)
  /\ UNCHANGED <<app, registered, leaked, trades, restoring>>

\* The session writes the attributes that differ from what it loaded.
CommitPatch(t) ==
  /\ work[t].pc = "commit"
  /\ LET w == work[t]
         s == IF w.status = None THEN w.seen.status ELSE w.status
     IN row' = IF row[w.bot] = NoBot THEN row
               ELSE [row EXCEPT
                 ![w.bot].status = IF s = w.seen.status THEN @ ELSE s,
                 ![w.bot].acct = IF w.acct = w.seen.acct THEN @ ELSE w.acct]
  /\ Ends(t)
  /\ UNCHANGED <<app, registered, leaked, trades, restoring, used>>

\* delete_bot, after the audit entry: the bot stops, then its history is kept
\* without it and the row goes.
DeleteStops(t) ==
  /\ work[t].pc = "delete"
  /\ StopBot(work[t].bot)
  /\ Stays(t, "orphan")
  /\ UNCHANGED <<app, row, trades, restoring, used>>

CommitDelete(t) ==
  /\ work[t].pc = "orphan"
  /\ row' = [row EXCEPT ![work[t].bot] = NoBot]
  /\ trades' = [i \in DOMAIN trades |->
       IF trades[i].bot = work[t].bot THEN [trades[i] EXCEPT !.bot = None]
       ELSE trades[i]]
  /\ Ends(t)
  /\ UNCHANGED <<app, registered, leaked, restoring, used>>
-----------------------------------------------------------------------------
(* The process.                                                            *)

Crash ==
  /\ app # "down" /\ used.crash < MaxCrash
  /\ used' = [used EXCEPT !.crash = @ + 1]
  /\ app' = "down"
  /\ registered' = [b \in Bots |-> NoRunner] /\ leaked' = {}
  /\ work' = [t \in Apis |-> Idle]
  /\ restoring' = {}
  /\ UNCHANGED <<row, trades>>

\* _restore_running_bots reads the RUNNING rows ...
Restart ==
  /\ app = "down"
  /\ app' = "starting"
  /\ restoring' = {b \in Bots : row[b].status = "RUNNING"}
  /\ UNCHANGED <<row, registered, leaked, trades, work, used>>

\* ... and starts them one after the other; an exception ends the loop.
RestoreBot(b) ==
  /\ app = "starting" /\ b \in restoring
  /\ \/ /\ Register(b, Runner(row[b].acct, "RUNNING", Newest(b)))
        /\ restoring' = restoring \ {b}
        /\ UNCHANGED used
     \/ /\ used.fail < MaxFail
        /\ used' = [used EXCEPT !.fail = @ + 1]
        /\ restoring' = {}
        /\ UNCHANGED <<registered, leaked>>
  /\ UNCHANGED <<app, row, trades, work>>

Yield ==
  /\ app = "starting" /\ restoring = {}
  /\ app' = "up"
  /\ UNCHANGED <<row, registered, leaked, trades, work, restoring, used>>
-----------------------------------------------------------------------------
Init ==
  /\ app = "up"
  /\ row = [b \in Bots |-> NoBot]
  /\ registered = [b \in Bots |-> NoRunner] /\ leaked = {}
  /\ trades = <<>>
  /\ work = [t \in Apis |-> Idle]
  /\ restoring = {}
  /\ used = [api |-> 0, fail |-> 0, crash |-> 0]

Next ==
  \/ \E b \in Bots : Trade(b) \/ RestoreBot(b)
  \/ \E t \in Apis, b \in Bots : CreateBot(t, b) \/ PatchBot(t, b) \/ DeleteBot(t, b)
  \/ \E t \in Apis :
       \/ CheckOpen(t) \/ SwitchAccount(t) \/ SetStatus(t) \/ StartBot(t)
       \/ Registered(t) \/ StartFails(t) \/ CommitPatch(t)
       \/ DeleteStops(t) \/ CommitDelete(t)
  \/ Crash \/ Restart \/ Yield

Spec == Init /\ [][Next]_vars
-----------------------------------------------------------------------------
(* Properties.                                                             *)

\* Every variable holds a value of the kind the code stores in it.
TypeOK ==
  /\ app \in {"up", "starting", "down"}
  /\ \A b \in Bots : row[b] = NoBot
       \/ row[b] \in [status : Statuses, acct : Accounts]
  /\ \A b \in Bots : registered[b] = NoRunner
       \/ registered[b] \in [acct : Accounts, status : {"RUNNING", "PAUSED"},
                             holds : 0..Len(trades)]
  /\ \A i \in DOMAIN trades :
       trades[i] \in [bot : Bots \cup {None}, open : BOOLEAN]
  /\ restoring \subseteq Bots

AtRest == app = "up" /\ \A t \in Apis : work[t] = Idle

\* "StrategyRunner (1 task per bot)" (runner.py:1): no bot is ever traded by two
\* runners, nor by one that a STOP would not find.  Does not hold of two requests
\* that start the same bot (lifecycle_two.cfg).
OneTaskPerBot == leaked = {}

\* When no request is being served, a runner has the status of its row, so that a
\* bot that is stopped or deleted has none; and unless a start has failed, a
\* RUNNING bot has one.
StatusesAgree ==
  AtRest => \A b \in Bots :
    /\ registered[b] # NoRunner => registered[b].status = row[b].status
    /\ row[b].status = "RUNNING" /\ used.fail = 0 => registered[b] # NoRunner

\* When no request is being served, table bots and the registry agree: a runner
\* has the status and the account of its row, and a RUNNING bot has a runner.  Does
\* not hold: a PATCH refused with 400 after it has moved the runner to another
\* account leaves the row on the old one (lifecycle_drift.cfg), and a start that
\* fails leaves a RUNNING row without a runner.
RowsAgree ==
  AtRest => \A b \in Bots :
    /\ registered[b] # NoRunner =>
         [status |-> registered[b].status, acct |-> registered[b].acct] = row[b]
    /\ row[b].status = "RUNNING" => registered[b] # NoRunner

\* A bot has at most one OPEN position, and a registered runner's engine holds
\* exactly that one, through stops, restarts and account switches (restore_open).
PositionsHeld ==
  AtRest => \A b \in Bots :
    /\ Cardinality(OpenTrades(b)) <= 1
    /\ registered[b] # NoRunner => registered[b].holds = Newest(b)

\* "PAUSED = still manages the existing position (SL/TP exits)"
\* (docs/05-Strategy-Dev-Guide.md:183).
PausedManaged ==
  AtRest => \A b \in Bots :
    row[b].status = "PAUSED" /\ OpenTrades(b) # {} => registered[b] # NoRunner
=============================================================================
