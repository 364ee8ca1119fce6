---------------------------- MODULE AccountLedger ----------------------------
(***************************************************************************)
(* app/account/service.py for one PAPER account, with the callers that     *)
(* share it: bots that size and open positions (strategy/runner.py,        *)
(* _dispatch and _size), positions that close and are booked               *)
(* (PaperExecutor._persist_close), and API requests that move money or     *)
(* resume the account.  Two locks exist: the asyncio lock per account      *)
(* (lock) and the database's row lock (SELECT ... FOR UPDATE in _post).    *)
(* An action is the code between two awaits on the database; a read and    *)
(* the use of what was read are different steps.                           *)
(***************************************************************************)
EXTENDS Integers, FiniteSets, FiniteSetsExt

CONSTANTS
  Bots,          \* running bots, one position each at most
  LimitBots,     \* those whose strategy also places LIMIT orders
  Start,         \* opening balance
  Fee,           \* entry fee of a position
  Margin,        \* margin of a position
  Moves,         \* unrealized PnL a position may have
  MaxPositions,  \* accounts.max_positions
  MaxDD,         \* accounts.max_dd_pct
  MaxDaily,      \* accounts.daily_loss_pct
  ApiOps,        \* requests: subset of {deposit, withdraw, resume}
  Amounts,       \* what may be deposited or withdrawn
  MaxTrades,     \* bound: positions opened
  MaxEvents      \* bound: API requests and midnights

Api == "api"
Tasks == Bots \cup {Api}
None == "none"

ASSUME LedgerOK ==
  /\ Api \notin Bots /\ None \notin Bots \cup {Api}
  /\ Start \in Nat /\ Fee \in Nat \ {0} /\ Margin \in Nat /\ 0 \in Moves
  /\ IsFiniteSet(Bots) /\ MaxPositions \in Nat
  /\ LimitBots \subseteq Bots /\ Moves \subseteq Int /\ Amounts \subseteq Nat \ {0}

VARIABLES
  balance, peak, status,  \* the row of table accounts
  paused,    \* halted_until lies in the future
  dayPnl,    \* today's REALIZED_PNL and FEE
  dayStart,  \* balance at midnight; 0 when the ledger has no earlier day
  pos,       \* each bot's position: [open, pnl, by, limit]; pnl is the unrealized,
             \* then the gross PnL; by is the order that opened it; limit tells
             \* that a LIMIT order is resting in the bot's engine
  lock,      \* holder of the asyncio lock, or None
  rowLock,   \* holder of the row lock, or None
  pc,        \* what each task awaits
  why,       \* whom the running snapshot is for
  loc,       \* what a task has read: account, snapshot and amount to post
  used,      \* budgets spent: [trades, events]
  posted     \* history: sum of the committed account_txn amounts

account == <<balance, peak, status, paused, dayPnl, dayStart, posted>>
vars == <<account, pos, lock, rowLock, pc, why, loc, used>>

Open == {b \in Bots : pos[b].open}
Unrealized == FoldSet(LAMBDA b, sum : sum + pos[b].pnl, 0, Open)
Goto(t, label) == pc' = [pc EXCEPT ![t] = label]
For(t, caller) == why' = [why EXCEPT ![t] = caller]
\* Locals are forgotten with the statement that used them.
Nothing == [bal |-> 0, peak |-> 0, equity |-> 0, free |-> 0, day |-> 0, n |-> 0,
            amt |-> 0]
Forget(t) == loc' = [loc EXCEPT ![t] = Nothing]
Release(t) == lock' = IF lock = t THEN None ELSE lock
\* What follows the close of a reversal, by the order that reverses.
Reversals == {"flipped", "refilled"}
-----------------------------------------------------------------------------
(* Callers.                                                                *)

\* A price moves.
Move(b, pnl) ==
  /\ pos[b].open /\ pnl # pos[b].pnl
  /\ pos' = [pos EXCEPT ![b].pnl = pnl]
  /\ UNCHANGED <<account, lock, rowLock, pc, why, loc, used>>

\* _dispatch of a BUY or SELL waits for the account's lock; _size begins with
\* enforce.
SignalMutant(b) ==  \* sizing does not wait for other bots
  /\ pc[b] = "idle" /\ used.trades < MaxTrades
  /\ used' = [used EXCEPT !.trades = @ + 1]
  /\ Goto(b, "read") /\ For(b, "enforce")
  /\ UNCHANGED <<account, pos, lock, rowLock, loc>>
Signal(b) ==
  /\ pc[b] = "idle" /\ used.trades < MaxTrades
  /\ lock = None /\ lock' = b
  /\ used' = [used EXCEPT !.trades = @ + 1]
  /\ Goto(b, "read") /\ For(b, "enforce")
  /\ UNCHANGED <<account, pos, rowLock, loc>>

\* SL, TP or a CLOSE signal: the row is CLOSED first, and booked afterwards.
CloseRow(b, then) ==
  /\ pos' = [pos EXCEPT ![b].open = FALSE,
                        ![b].limit = @ /\ then # "refilled"]
  /\ loc' = [loc EXCEPT ![b].amt = pos[b].pnl]
  /\ Goto(b, "post") /\ For(b, then)

ClosePosition(b) ==
  /\ pc[b] = "idle" /\ pos[b].open
  /\ CloseRow(b, "booked")
  /\ UNCHANGED <<account, lock, rowLock, used>>

\* on_price fills a LIMIT order without the lock and without a new sizing: on the
\* same side it is dropped, on the other side the position is closed first.
LimitCrosses(b) ==
  /\ pc[b] = "idle" /\ pos[b].limit
  /\ \/ /\ pos[b].open /\ CloseRow(b, "refilled")
     \/ /\ pos' = [pos EXCEPT ![b].limit = FALSE]
        /\ IF pos[b].open THEN UNCHANGED pc ELSE Goto(b, "fill")
        /\ UNCHANGED <<why, loc>>
  /\ UNCHANGED <<account, lock, rowLock, used>>

Request(op) ==
  /\ op \in ApiOps
  /\ pc[Api] = "idle" /\ used.events < MaxEvents
  /\ used' = [used EXCEPT !.events = @ + 1]
  /\ \E amount \in Amounts :
       \/ /\ op = "deposit"
          /\ loc' = [loc EXCEPT ![Api].amt = amount]
          /\ Goto(Api, "post") /\ For(Api, "deposit") /\ UNCHANGED lock
       \/ /\ op = "withdraw"
          /\ lock = None /\ lock' = Api
          /\ loc' = [loc EXCEPT ![Api].amt = -amount]
          /\ Goto(Api, "read") /\ For(Api, "withdraw")
       \/ /\ op = "resume"
          /\ Goto(Api, "resume") /\ For(Api, "resume")
          /\ UNCHANGED <<loc, lock>>
  /\ UNCHANGED <<account, pos, rowLock>>

\* Midnight UTC.
NewDay ==
  /\ used.events < MaxEvents
  /\ used' = [used EXCEPT !.events = @ + 1]
  /\ dayPnl' = 0 /\ dayStart' = balance /\ paused' = FALSE
  /\ UNCHANGED <<balance, peak, status, posted, pos, lock, rowLock, pc, why, loc>>
-----------------------------------------------------------------------------
(* enforce and snapshot.                                                   *)

\* Task t ends, giving back the lock if it holds it.
End(t) == Goto(t, "idle") /\ Release(t) /\ For(t, None)

\* What follows enforce when entries are not blocked.
Allowed(t) ==
  \/ why[t] = "enforce" /\ Goto(t, "read") /\ For(t, "size") /\ UNCHANGED lock
  \/ why[t] = "flipped" /\ Goto(t, "open") /\ UNCHANGED <<why, lock>>
  \/ why[t] = "refilled" /\ Goto(t, "fill") /\ UNCHANGED <<why, lock>>
  \/ why[t] = "booked" /\ End(t)

\* A blocked entry is rejected; the close that found the block has ended anyway,
\* and a reversal that has already closed goes on to open.
BlockedMutant(t) ==  \* RiskReject leaves the lock held
  IF why[t] \in Reversals THEN Allowed(t)
  ELSE Goto(t, "idle") /\ For(t, None) /\ UNCHANGED lock
Blocked(t) == IF why[t] \in Reversals THEN Allowed(t) ELSE End(t)

\* The account's row is read: by enforce, for its status, and by snapshot.
ReadAccount(t) ==
  /\ pc[t] = "read"
  /\ IF why[t] \in {"enforce", "booked"} \cup Reversals /\ (status = "HALTED" \/ paused)
     THEN Blocked(t) /\ UNCHANGED loc
     ELSE /\ loc' = [loc EXCEPT ![t].bal = balance, ![t].peak = peak]
          /\ Goto(t, "snapshot") /\ UNCHANGED <<why, lock>>
  /\ UNCHANGED <<account, pos, rowLock, used>>

\* check_halt.
Drawdown(l) == l.peak # 0 /\ (l.peak - l.equity) * 100 >= MaxDD * l.peak
DailyLoss(l) ==
  LET base == IF dayStart = 0 THEN l.bal ELSE dayStart
  IN base # 0 /\ -l.day * 100 >= MaxDaily * base

\* _size: the caps of size_order, counting out what a reversal frees.
Fits(b, l) ==
  /\ l.n - (IF pos[b].open THEN 1 ELSE 0) < MaxPositions
  /\ l.free + (IF pos[b].open THEN Margin ELSE 0) >= Margin + Fee

\* snapshot reads positions and today's ledger; the peak it stores is the maximum
\* of what it read, and equity adds the balance read before to the PnL of now.
Snapshot(t) ==
  /\ pc[t] = "snapshot"
  /\ LET equity == loc[t].bal + Unrealized
         l == [loc[t] EXCEPT
                 !.equity = equity,
                 !.peak = IF equity > loc[t].peak THEN equity ELSE loc[t].peak,
                 !.free = equity - Margin * Cardinality(Open),
                 !.day = dayPnl + Unrealized,
                 !.n = Cardinality(Open)]
     IN /\ equity > loc[t].peak => rowLock = None
        /\ peak' = IF equity > loc[t].peak THEN equity ELSE peak
        /\ \/ /\ why[t] \in {"enforce", "booked"} \cup Reversals
              /\ IF Drawdown(l) \/ DailyLoss(l)
                 THEN Goto(t, "halt") /\ UNCHANGED <<why, lock>>
                 ELSE Allowed(t)
           \/ /\ why[t] = "size"
              /\ IF Fits(t, l) THEN Goto(t, "submit") /\ UNCHANGED <<why, lock>>
                 ELSE End(t)
           \/ /\ why[t] = "withdraw"
              /\ IF -l.amt <= l.free THEN Goto(t, "post") /\ UNCHANGED <<why, lock>>
                 ELSE End(t)
           \/ /\ why[t] = "resume"
              /\ Goto(t, "resumed") /\ UNCHANGED <<why, lock>>
        /\ loc' = [loc EXCEPT ![t] =
             IF pc'[t] \in {"halt", "post", "resumed"} THEN l ELSE Nothing]
  /\ UNCHANGED <<balance, status, paused, dayPnl, dayStart, posted, pos, rowLock,
                 used>>

\* enforce writes the verdict of its snapshot.
Halt(t) ==
  /\ pc[t] = "halt" /\ rowLock = None
  /\ IF Drawdown(loc[t])
     THEN status' = "HALTED" /\ UNCHANGED paused
     ELSE paused' = TRUE /\ UNCHANGED status
  /\ Blocked(t) /\ Forget(t)
  /\ UNCHANGED <<balance, peak, dayPnl, dayStart, posted, pos, rowLock, used>>

\* resume: ACTIVE with the peak at the balance; then, from a snapshot, at equity.
ResumeFirst ==
  /\ pc[Api] = "resume" /\ rowLock = None
  /\ status' = "ACTIVE" /\ paused' = FALSE /\ peak' = balance
  /\ Goto(Api, "read")
  /\ UNCHANGED <<balance, dayPnl, dayStart, posted, pos, lock, rowLock, why, loc,
                 used>>

ResumePeak ==
  /\ pc[Api] = "resumed" /\ rowLock = None
  /\ peak' = loc[Api].equity
  /\ End(Api) /\ Forget(Api)
  /\ UNCHANGED <<balance, status, paused, dayPnl, dayStart, posted, pos, rowLock,
                 used>>
-----------------------------------------------------------------------------
(* The executor's part of an entry, and _post.                             *)

\* executor.submit under the lock: a reversal first closes what is there.
SubmitOrder(b) ==
  /\ pc[b] = "submit"
  /\ \/ pos[b].open /\ CloseRow(b, "flipped")
     \/ ~pos[b].open /\ Goto(b, "open") /\ UNCHANGED <<pos, loc, why>>
  /\ UNCHANGED <<account, lock, rowLock, used>>

\* A LIMIT order is queued: the lock is given back before it fills.
QueueLimit(b) ==
  /\ pc[b] = "submit" /\ b \in LimitBots /\ ~pos[b].limit
  /\ pos' = [pos EXCEPT ![b].limit = TRUE]
  /\ End(b)
  /\ UNCHANGED <<account, rowLock, loc, used>>

OpenPosition(b) ==
  /\ pc[b] \in {"open", "fill"}
  /\ pos' = [pos EXCEPT ![b].open = TRUE, ![b].pnl = 0,
                        ![b].by = IF pc[b] = "open" THEN "MARKET" ELSE "LIMIT"]
  /\ loc' = [loc EXCEPT ![b].amt = -Fee]
  /\ Goto(b, "post") /\ For(b, "fee")
  /\ UNCHANGED <<account, lock, rowLock, used>>

\* _post: SELECT ... FOR UPDATE ...
PostLockMutant(t) ==  \* the row is read without FOR UPDATE
  /\ pc[t] = "post"
  /\ loc' = [loc EXCEPT ![t].bal = balance, ![t].peak = peak]
  /\ Goto(t, "commit")
  /\ UNCHANGED <<account, pos, lock, rowLock, why, used>>
PostLock(t) ==
  /\ pc[t] = "post" /\ rowLock = None
  /\ rowLock' = t
  /\ loc' = [loc EXCEPT ![t].bal = balance, ![t].peak = peak]
  /\ Goto(t, "commit")
  /\ UNCHANGED <<account, pos, lock, why, used>>

\* ... and the commit: the balance, the account_txn row, and for money that is
\* not PnL the peak.
PostCommit(t) ==
  /\ pc[t] = "commit"
  /\ rowLock' = IF rowLock = t THEN None ELSE rowLock
  /\ balance' = loc[t].bal + loc[t].amt
  /\ posted' = posted + loc[t].amt
  /\ IF why[t] \in {"deposit", "withdraw"}
     THEN peak' = Max({0, loc[t].peak + loc[t].amt}) /\ UNCHANGED dayPnl
     ELSE dayPnl' = dayPnl + loc[t].amt /\ UNCHANGED peak
  /\ IF why[t] \in {"booked"} \cup Reversals
     THEN Goto(t, "read") /\ UNCHANGED <<lock, why>>
     ELSE End(t)
  /\ Forget(t)
  /\ UNCHANGED <<status, paused, dayStart, pos, used>>
-----------------------------------------------------------------------------
Init ==
  /\ balance = Start /\ peak = Start /\ status = "ACTIVE" /\ paused = FALSE
  /\ dayPnl = 0 /\ dayStart = 0 /\ posted = 0
  /\ pos = [b \in Bots |-> [open |-> FALSE, pnl |-> 0, by |-> "MARKET", limit |-> FALSE]]
  /\ lock = None /\ rowLock = None
  /\ pc = [t \in Tasks |-> "idle"] /\ why = [t \in Tasks |-> None]
  /\ loc = [t \in Tasks |-> Nothing]
  /\ used = [trades |-> 0, events |-> 0]

\* What brings a handler that has started to its end.
Step(t) ==
  \/ ReadAccount(t) \/ Snapshot(t) \/ Halt(t) \/ PostLock(t) \/ PostCommit(t)
  \/ t \in Bots /\ (SubmitOrder(t) \/ QueueLimit(t) \/ OpenPosition(t))
  \/ t = Api /\ (ResumeFirst \/ ResumePeak)

Next ==
  \/ \E b \in Bots : (\E pnl \in Moves : Move(b, pnl)) \/ Signal(b) \/ ClosePosition(b)
                     \/ LimitCrosses(b)
  \/ \E op \in {"deposit", "withdraw", "resume"} : Request(op)
  \/ NewDay
  \/ \E t \in Tasks : Step(t)

\* asyncio runs every task whose await has returned, and PostgreSQL grants a row
\* lock in the order of the requests.
Fairness == \A t \in Tasks : SF_vars(Step(t))

Spec == Init /\ [][Next]_vars /\ Fairness
-----------------------------------------------------------------------------
(* Properties.                                                             *)

\* Every variable holds a value of the kind the code stores in it.
TypeOK ==
  /\ balance \in Int /\ peak \in Int /\ status \in {"ACTIVE", "HALTED"}
  /\ paused \in BOOLEAN /\ dayPnl \in Int /\ dayStart \in Int
  /\ pos \in [Bots -> [open : BOOLEAN, pnl : Moves, by : {"MARKET", "LIMIT"},
                       limit : BOOLEAN]]
  /\ lock \in Tasks \cup {None} /\ rowLock \in Tasks \cup {None}
  /\ pc \in [Tasks -> {"idle", "read", "snapshot", "halt", "submit", "open", "fill", "post",
                       "commit", "resume", "resumed"}]
  /\ why \in [Tasks -> {"enforce", "size", "flipped", "refilled", "booked", "fee", "deposit",
                        "withdraw", "resume", None}]

\* The balance is the sum of the ledger (service.py:3-4), whatever runs at the
\* same time: no posting overwrites another.
BalanceIsLedger == balance = Start + posted

\* lock: "sizing + opening an order is one atomic step (multiple bots)"
\* (service.py:70): the MARKET entries of all bots together never exceed the
\* account's position cap.  A LIMIT order fills later and without the lock, so
\* positions that it opened are not bound by the cap.
PositionsCapped ==
  Cardinality({b \in Open : pos[b].by = "MARKET"}) <= MaxPositions

\* The lock is given back again and again: no path of _size, enforce, submit or
\* withdraw, with a rejection or without, ends with the lock held.
LockReturned == []<>(lock = None)

\* "Account HALTED - bots won't open new positions" (frontend Account.tsx:121): no
\* position opens on an account that is HALTED or paused for the day.
NoEntryWhenBlocked ==
  [][\A b \in Bots : pos'[b].open /\ ~pos[b].open => status = "ACTIVE" /\ ~paused]_vars
=============================================================================
