---------------------------- MODULE ExchangeSync ----------------------------
(* app/account/service.py for one exchange account: sync_exchange, which the loop
   run_exchange_sync and the API's requests run, and the loop's enforce.  The
   exchange keeps the wallet and a history of income; a sync asks for both, one
   after the other, and books what it was told in one transaction.

   A row of income is named by its time, in ticks of the exchange's clock, which the
   backend's clock agrees with: rows of one moment arrive together and count as one.
   No position is open, so equity is the wallet; assets other than the account's
   currency and the daily loss limit are left out.  *)
EXTENDS Integers, Sequences, SequencesExt, FiniteSetsExt

CONSTANTS
  Requests,    \* API tasks that sync
  Funds,       \* the wallet when the account is created
  Results,     \* what a trade may bring
  Transfers,   \* what the user may move into or out of the wallet
  DrawdownPct, \* accounts.max_dd_pct
  MaxIncome,   \* bound: rows of income
  MaxTroubles  \* bound: requests, calls that fail and restarts

Loop == "loop"
Tasks == Requests \cup {Loop}
NoTask == "nobody"
Unset == -1

VARIABLES
  wallet, income,  \* the exchange: income[i] = [type, amount] at time i
  account,   \* the row: [balance, peak, cursor, equity, status, error]
  ledger,    \* table account_txn: [rows, sum], rows[i] counts those with the id of
             \* income i, sum adds up all amounts
  rowLock,   \* holder of the account's row lock
  pc,        \* what each task awaits
  loc,       \* what a task has read
  used,      \* budget spent: troubles
  since,     \* history: the latest cursor that a first sync has stored
  best       \* history: the highest the wallet has been, transfers aside

exchange == <<wallet, income, best>>
vars == <<exchange, account, ledger, rowLock, pc, loc, used, since>>

Now == Len(income)
Goto(t, label) == pc' = [pc EXCEPT ![t] = label]
Larger(a, b) == IF a < b THEN b ELSE a
Row(a) == [balance |-> a.balance, cursor |-> a.cursor, equity |-> a.equity]
Blank == [balance |-> 0, cursor |-> Unset, equity |-> Unset]
Nothing == [first |-> FALSE, before |-> 0, cursor |-> Unset, wallet |-> 0, rows |-> {},
            read |-> Blank]
Ids == 1..MaxIncome
Imported == {i \in Ids : ledger.rows[i] > 0}
DrawnDown(peak, equity) == peak > 0 /\ (peak - equity) * 100 >= DrawdownPct * peak

Trouble == used < MaxTroubles /\ used' = used + 1
\* The task is done; the loop goes on to enforce.
Done(t) ==
  /\ Goto(t, IF t = Loop THEN "enforce" ELSE "idle")
  /\ loc' = [loc EXCEPT ![t] = Nothing]
--------------------------------------------------------------------------------
(* sync_exchange, up to what it writes. *)

\* get: the row as it is before the calls.
Begin(t) ==
  /\ pc[t] = "idle"
  /\ \/ t = Loop /\ UNCHANGED used
     \/ t # Loop /\ Trouble
  /\ loc' = [loc EXCEPT ![t].first = account.cursor = Unset, ![t].cursor = account.cursor,
                        ![t].before = account.balance]
  /\ Goto(t, "account")
  /\ UNCHANGED <<exchange, account, ledger, rowLock, since>>

\* client.account answers.  A first sync asks for no income.
ReadWallet(t) ==
  /\ pc[t] = "account"
  /\ \/ /\ loc' = [loc EXCEPT ![t].wallet = wallet]
        /\ Goto(t, IF loc[t].first THEN "clock" ELSE "income")
        /\ UNCHANGED used
     \/ Trouble /\ Goto(t, "failed") /\ UNCHANGED loc
  /\ UNCHANGED <<exchange, account, ledger, rowLock, since>>

\* The cursor of a first sync is the time at which the answer is back.
ReadClock(t) ==
  /\ pc[t] = "clock"
  /\ loc' = [loc EXCEPT ![t].cursor = Now]
  /\ Goto(t, "post")
  /\ UNCHANGED <<exchange, account, ledger, rowLock, used, since>>

\* client.income answers with what came after the cursor, which moves past it.
ReadIncome(t) ==
  /\ pc[t] = "income"
  /\ \/ /\ loc' = [loc EXCEPT ![t].rows = (loc[t].cursor + 1)..Now,
                              ![t].cursor = Larger(@, Now)]
        /\ Goto(t, "seen")
        /\ UNCHANGED used
     \/ Trouble /\ Goto(t, "failed") /\ UNCHANGED loc
  /\ UNCHANGED <<exchange, account, ledger, rowLock, since>>

\* The ids among them that the ledger already has.
ReadSeen(t) ==
  /\ pc[t] = "seen"
  /\ loc' = [loc EXCEPT ![t].rows = @ \ Imported]
  /\ Goto(t, IF loc[t].rows \subseteq Imported THEN "row" ELSE "post")
  /\ UNCHANGED <<exchange, account, ledger, rowLock, used, since>>

\* Nothing to import: the row is read without a lock, and compared.
ReadRow(t) ==
  /\ pc[t] = "row"
  /\ loc' = [loc EXCEPT ![t].read = Row(account)]
  /\ Goto(t, IF account.balance = loc[t].wallet THEN "stamp" ELSE "adjust")
  /\ UNCHANGED <<exchange, account, ledger, rowLock, used, since>>

\* The except branch: the error is kept for the page, the task goes on.
Failed(t) ==
  /\ pc[t] = "failed" /\ rowLock = NoTask
  /\ account' = [account EXCEPT !.error = TRUE]
  /\ Done(t)
  /\ UNCHANGED <<exchange, ledger, rowLock, used, since>>
--------------------------------------------------------------------------------
(* What it writes, in one transaction. *)

\* What the rows bring, on a first sync the initial balance.
Brought(t) ==
  IF loc[t].first THEN loc[t].wallet - loc[t].before
  ELSE MapThenSumSet(LAMBDA i : income[i].amount, loc[t].rows)
\* The row ADJUST that makes up for what is left of the difference to the wallet.
AdjustNothing(t) == 0
Adjustment(t) == loc[t].wallet - (loc[t].read.balance + Brought(t))

\* Money that is not PnL moves the peak along: transfers, oldest first, and the
\* initial balance.
Moved(peak, amount) == Larger(0, peak + amount)
TransferIds(t) ==
  SetToSortSeq({i \in loc[t].rows : income[i].type = "TRANSFER"}, <)
PeakAfter(t) ==
  IF loc[t].first THEN Moved(account.peak, Brought(t))
  ELSE FoldLeft(LAMBDA p, i : Moved(p, income[i].amount), account.peak, TransferIds(t))

\* The first _post: SELECT ... FOR UPDATE.  A session that has read the row before
\* keeps what it has read.
PostLock(t) ==
  /\ pc[t] \in {"post", "adjust"} /\ rowLock = NoTask
  /\ rowLock' = t
  /\ loc' = IF pc[t] = "post" THEN [loc EXCEPT ![t].read = Row(account)] ELSE loc
  /\ Goto(t, "commit")
  /\ UNCHANGED <<exchange, account, ledger, used, since>>

\* uq_txn_ext: an id that the ledger has by now fails the whole transaction.
NoClash(t) == FALSE
Clashes(t) == loc[t].rows \cap Imported # {}

Refused(t) ==
  /\ pc[t] = "commit" /\ Clashes(t)
  /\ rowLock' = NoTask
  /\ Goto(t, "idle") /\ loc' = [loc EXCEPT ![t] = Nothing]
  /\ UNCHANGED <<exchange, account, ledger, used, since>>

\* The UPDATE names the columns whose value differs from the one read.
Column(t, name, new) == IF new = loc[t].read[name] THEN account[name] ELSE new
Stored(t) ==
  [account EXCEPT !.cursor = Column(t, "cursor", loc[t].cursor),
                  !.equity = Column(t, "equity", loc[t].wallet), !.error = FALSE]

Commit(t) ==
  LET posted == Brought(t) + Adjustment(t) IN
  /\ pc[t] = "commit" /\ ~Clashes(t)
  /\ rowLock' = NoTask
  /\ ledger' = [rows |-> [i \in Ids |-> ledger.rows[i] + IF i \in loc[t].rows THEN 1 ELSE 0],
                sum |-> ledger.sum + posted]
  /\ account' = [Stored(t) EXCEPT
       !.balance = Column(t, "balance", loc[t].read.balance + posted), !.peak = PeakAfter(t)]
  /\ since' = IF loc[t].first THEN Larger(since, loc[t].cursor) ELSE since
  /\ Done(t)
  /\ UNCHANGED <<exchange, used>>

\* No posting: the cursor and the exchange's figures only.
Stamp(t) ==
  /\ pc[t] = "stamp" /\ rowLock = NoTask
  /\ account' = Stored(t)
  /\ Done(t)
  /\ UNCHANGED <<exchange, ledger, rowLock, used, since>>
--------------------------------------------------------------------------------
(* enforce, after each round of the loop: the drawdown against the exchange's figures. *)

\* get and snapshot read the row; a new peak is written before check_halt decides.
Equity == IF account.equity = Unset THEN account.balance ELSE account.equity
Verdict ==
  CASE account.status = "HALTED" -> "idle"
    [] account.status # "HALTED" /\ Equity > account.peak -> "raise"
    [] account.status # "HALTED" /\ DrawnDown(account.peak, Equity) -> "halt"
    [] OTHER -> "idle"
Enforce ==
  /\ pc[Loop] = "enforce"
  /\ Goto(Loop, Verdict)
  /\ loc' = IF Verdict = "raise" THEN [loc EXCEPT ![Loop].wallet = Equity] ELSE loc
  /\ UNCHANGED <<exchange, account, ledger, rowLock, used, since>>

RaisePeak ==
  /\ pc[Loop] = "raise" /\ rowLock = NoTask
  /\ account' = [account EXCEPT !.peak = loc[Loop].wallet]
  /\ Goto(Loop, "idle") /\ loc' = [loc EXCEPT ![Loop] = Nothing]
  /\ UNCHANGED <<exchange, ledger, rowLock, used, since>>

Halt ==
  /\ pc[Loop] = "halt" /\ rowLock = NoTask
  /\ account' = [account EXCEPT !.status = "HALTED"]
  /\ Goto(Loop, "idle")
  /\ UNCHANGED <<exchange, ledger, rowLock, loc, used, since>>
--------------------------------------------------------------------------------
(* The exchange, and a restart: a transaction under way is rolled back. *)

Happens(type, amount, high) ==
  /\ Now < MaxIncome
  /\ wallet + amount >= 0
  /\ wallet' = wallet + amount
  /\ income' = Append(income, [type |-> type, amount |-> amount])
  /\ best' = [high |-> high, fell |-> best.fell \/ DrawnDown(high, wallet')]
  /\ UNCHANGED <<account, ledger, rowLock, pc, loc, used, since>>
Result(amount) == Happens("RESULT", amount, Larger(best.high, wallet + amount))
Transfer(amount) == Happens("TRANSFER", amount, Larger(0, best.high + amount))

Stop ==
  /\ Trouble
  /\ pc' = [t \in Tasks |-> "idle"] /\ loc' = [t \in Tasks |-> Nothing]
  /\ rowLock' = NoTask
  /\ UNCHANGED <<exchange, account, ledger, since>>

\* create_account has committed the row.
Init ==
  /\ wallet = Funds /\ income = <<>> /\ best = [high |-> Funds, fell |-> FALSE]
  /\ account = [balance |-> 0, peak |-> 0, cursor |-> Unset, equity |-> Unset,
                status |-> "ACTIVE", error |-> FALSE]
  /\ ledger = [rows |-> [i \in Ids |-> 0], sum |-> 0] /\ since = 0
  /\ rowLock = NoTask
  /\ pc = [t \in Tasks |-> "idle"] /\ loc = [t \in Tasks |-> Nothing]
  /\ used = 0

Sync(t) ==
  \/ Begin(t) \/ ReadWallet(t) \/ ReadClock(t) \/ ReadIncome(t) \/ ReadSeen(t)
  \/ ReadRow(t) \/ Failed(t)
  \/ PostLock(t) \/ Refused(t) \/ Commit(t) \/ Stamp(t)
Round == Sync(Loop) \/ Enforce \/ RaisePeak \/ Halt
Outside ==
  \/ \E amount \in Results : Result(amount)
  \/ \E amount \in Transfers : Transfer(amount)
  \/ Stop
Next == Round \/ (\E t \in Requests : Sync(t)) \/ Outside

\* Calls are answered or time out, and the loop never ends (run_exchange_sync).
Fairness == WF_vars(Round) /\ \A t \in Requests : WF_vars(Sync(t))
Spec == Init /\ [][Next]_vars /\ Fairness
--------------------------------------------------------------------------------
\* Every variable holds a value of the kind the code stores in it.
Cursors == Nat \cup {Unset}
TypeOK ==
  /\ income \in Seq([type : {"RESULT", "TRANSFER"}, amount : Int]) /\ Now <= MaxIncome
  /\ account \in [balance : Int, peak : Int, cursor : Cursors, equity : Int,
                   status : {"ACTIVE", "HALTED"}, error : BOOLEAN]
  /\ ledger \in [rows : [Ids -> Nat], sum : Int]
  /\ since \in Nat /\ rowLock \in Tasks \cup {NoTask}
  /\ pc \in [Tasks -> {"idle", "account", "clock", "income", "seen", "row", "stamp", "adjust",
                       "post", "commit", "failed", "enforce", "raise", "halt"}]
  /\ loc \in [Tasks -> [first : BOOLEAN, before : Int, cursor : Cursors, wallet : Int,
                        rows : SUBSET Ids,
                        read : [balance : Int, cursor : Cursors, equity : Int]]]

\* What the exchange booked after the first sync is in the ledger once, at the latest
\* when the cursor has passed it: nothing is skipped and nothing booked twice, whoever
\* syncs at the same time (service.py:223, "deduped by ext_id").
IncomeImported ==
  /\ \A i \in Ids : ledger.rows[i] <= 1
  /\ (since + 1)..account.cursor \subseteq Imported

\* The sync heals: through failed calls, restarts and requests that sync at the same time,
\* again and again the account's balance is the exchange's wallet and all the income since
\* the first sync has been imported.  It says nothing of the sum of the ledger.
CatchesUp ==
  []<>(account.balance = wallet /\ (since + 1)..Now \subseteq Imported)

\* Drawdown "From peak equity" (frontend/src/pages/Account.tsx:390): an account is
\* HALTED only if its money, transfers aside, has once been that far below its peak.
HaltedForLosses == account.status = "HALTED" => best.fell

\* The balance is the sum of the ledger (service.py:3), "ledger sum == exchange wallet"
\* (docs/10-Live-Readiness.md:23).  It does not hold: see exchange_drift.cfg.
LedgerSumsUp == account.balance = ledger.sum
=============================================================================
