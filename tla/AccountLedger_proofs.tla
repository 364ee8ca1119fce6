------------------------ MODULE AccountLedger_proofs ------------------------
(***************************************************************************)
(* Two promises of app/account/service.py, for any number of bots, amounts *)
(* and prices.  The balance is the sum of the ledger, by the row lock; and *)
(* MARKET entries stay within the position cap, by the asyncio lock.  Each *)
(* needs its own strengthening: what a task that is about to write knows.  *)
(***************************************************************************)
EXTENDS AccountLedger, FiniteSetTheorems, TLAPS

Labels == {"idle", "read", "snapshot", "halt", "submit", "open", "fill", "post",
           "commit", "resume", "resumed"}
Callers == {"enforce", "size", "flipped", "refilled", "booked", "fee", "deposit",
            "withdraw", "resume", None}
Sides == {"MARKET", "LIMIT"}

ControlType ==
  /\ pc \in [Tasks -> Labels]
  /\ why \in [Tasks -> Callers]

PosType ==
  pos \in [Bots -> [open : BOOLEAN, pnl : Moves, by : Sides, limit : BOOLEAN]]

\* What a task has read can be added up; the equity of a snapshot is not needed.
LocType ==
  /\ DOMAIN loc = Tasks
  /\ \A t \in Tasks : /\ DOMAIN loc[t] = DOMAIN Nothing
                      /\ loc[t].amt \in Int
  /\ balance \in Int /\ posted \in Int

\* A task about to commit holds the row lock, and what it read is still true.
ReadIsFresh ==
  \A t \in Tasks : pc[t] = "commit" => rowLock = t /\ loc[t].bal = balance

LedgerInv ==
  /\ ControlType /\ PosType /\ LocType
  /\ ReadIsFresh
  /\ BalanceIsLedger

\* A bot that is sizing, reversing or about to open holds the account's lock.
Sizing == {"enforce", "size", "flipped"}
SizerLocks == \A b \in Bots : why[b] \in Sizing => lock = b

OpensAsSizer ==
  \A b \in Bots : /\ pc[b] = "submit" => why[b] = "size"
                  /\ pc[b] = "open" => why[b] \in {"size", "flipped"}

\* Between the check of the cap and the opening, the others leave room.
Market == {b \in Open : pos[b].by = "MARKET"}
Checked(b) == pc[b] \in {"submit", "open"} \/ why[b] = "flipped"
RoomWhenChecked ==
  \A b \in Bots : Checked(b) => Cardinality(Market \ {b}) < MaxPositions

CapInv ==
  /\ SizerLocks /\ OpensAsSizer /\ RoomWhenChecked
  /\ PositionsCapped

USE LedgerOK DEF Tasks, Api, None

\* The control state after a verdict of enforce, or after a task ends.
LEMMA VerdictLemma ==
  ASSUME ControlType, NEW t \in Tasks,
         \/ why[t] \in {"enforce", "booked"} \cup Reversals /\ Allowed(t)
         \/ Blocked(t)
         \/ End(t)
  PROVE  /\ ControlType'
         /\ \A u \in Tasks \ {t} : pc'[u] = pc[u] /\ why'[u] = why[u]
         /\ pc'[t] \in {"idle", "read", "open", "fill"}
         /\ pc'[t] = "open" => why[t] = "flipped"
         /\ why'[t] # None => lock' = lock
         /\ why'[t] \in {None, why[t]} \/ (why[t] = "enforce" /\ why'[t] = "size")
         /\ pc'[t] = "open" => why'[t] = "flipped"
         /\ lock' = lock \/ lock = t
<1>1. CASE End(t)
  BY <1>1 DEF End, Goto, For, Release, ControlType, Labels, Callers
<1>2. CASE why[t] = "enforce" /\ Allowed(t)
  BY <1>2 DEF Allowed, Goto, For, ControlType, Labels, Callers
<1>3. CASE why[t] = "flipped" /\ Allowed(t)
  BY <1>3 DEF Allowed, Goto, For, ControlType, Labels, Callers
<1>4. CASE why[t] = "refilled" /\ Allowed(t)
  BY <1>4 DEF Allowed, Goto, For, ControlType, Labels, Callers
<1>5. CASE why[t] = "booked" /\ Allowed(t)
  <2>1. End(t)
    BY <1>5 DEF Allowed
  <2> QED
    BY <2>1, <1>1
<1> QED
  BY <1>1, <1>2, <1>3, <1>4, <1>5 DEF Blocked, Reversals

\* Where a snapshot leads, by the caller it is for.
LEMMA SnapshotControl ==
  ASSUME ControlType, NEW t \in Tasks, Snapshot(t)
  PROVE  /\ ControlType'
         /\ \A u \in Tasks \ {t} : pc'[u] = pc[u] /\ why'[u] = why[u]
         /\ pc'[t] \in {"idle", "read", "open", "fill", "halt", "submit", "post",
                        "resumed"}
         /\ why'[t] # None => lock' = lock
         /\ why'[t] \in {None, why[t]} \/ (why[t] = "enforce" /\ why'[t] = "size")
         /\ pc'[t] = "open" => why[t] = "flipped" /\ why'[t] = "flipped"
         /\ pc'[t] = "submit" => why[t] = "size" /\ why'[t] = "size"
         /\ lock' = lock \/ lock = t
<1>1. CASE why[t] \in {"enforce", "booked"} \cup Reversals /\ Allowed(t)
  BY <1>1, VerdictLemma
<1>2. CASE End(t)
  BY <1>2, VerdictLemma DEF End, For, ControlType
<1>3. CASE /\ \/ Goto(t, "halt") \/ Goto(t, "post") \/ Goto(t, "resumed")
              \/ Goto(t, "submit") /\ why[t] = "size"
           /\ UNCHANGED <<why, lock>>
  BY <1>3 DEF Goto, ControlType, Labels
<1> QED
  BY <1>1, <1>2, <1>3 DEF Snapshot

\* What a snapshot leaves in the task's locals.
LEMMA SnapshotReads ==
  ASSUME LocType, NEW t \in Tasks, Snapshot(t)
  PROVE  /\ LocType'
         /\ \A u \in Tasks \ {t} : loc'[u] = loc[u]
<1> DEFINE equity == loc[t].bal + Unrealized
           l == [loc[t] EXCEPT
                   !.equity = equity,
                   !.peak = IF equity > loc[t].peak THEN equity ELSE loc[t].peak,
                   !.free = equity - Margin * Cardinality(Open),
                   !.day = dayPnl + Unrealized,
                   !.n = Cardinality(Open)]
<1>1. loc' = [loc EXCEPT ![t] =
                IF pc'[t] \in {"halt", "post", "resumed"} THEN l ELSE Nothing]
  BY DEF Snapshot
<1>2. DOMAIN l = DOMAIN Nothing /\ l.amt = loc[t].amt
  <2> HIDE DEF equity
  <2> QED
    BY DEF LocType, Nothing
<1> HIDE DEF l
<1>3. UNCHANGED <<balance, posted>>
  BY DEF Snapshot
<1> QED
  BY <1>1, <1>2, <1>3 DEF LocType, Nothing

-----------------------------------------------------------------------------
(* The balance.                                                            *)

\* A step that commits nothing and moves nobody to a commit keeps the balance's
\* invariant.
LEMMA MoneyKept ==
  ASSUME LedgerInv, ControlType', PosType', LocType',
         UNCHANGED <<balance, posted, rowLock>>,
         \A u \in Tasks : pc'[u] = "commit" =>
           pc[u] = "commit" /\ loc'[u].bal = loc[u].bal
  PROVE  LedgerInv'
BY DEF LedgerInv, ReadIsFresh, BalanceIsLedger

\* The initial state satisfies it.
LEMMA LedgerInit == Init => LedgerInv
<1> SUFFICES ASSUME Init PROVE LedgerInv
  OBVIOUS
<1>1. ControlType /\ PosType
  BY DEF Init, ControlType, PosType, Labels, Callers, Sides
<1>2. LocType
  BY DEF Init, LocType, Nothing
<1>3. ReadIsFresh /\ BalanceIsLedger
  BY DEF Init, ReadIsFresh, BalanceIsLedger
<1> QED
  BY <1>1, <1>2, <1>3 DEF LedgerInv

\* Prices, signals, requests, closes and fills commit nothing.
LEMMA CallersKeepLedger ==
  ASSUME LedgerInv,
         \/ \E b \in Bots : \/ \E pnl \in Moves : Move(b, pnl)
                            \/ Signal(b) \/ ClosePosition(b) \/ LimitCrosses(b)
         \/ \E op \in {"deposit", "withdraw", "resume"} : Request(op)
         \/ NewDay
  PROVE  LedgerInv'
<1> USE DEF LedgerInv
<1>1. ASSUME NEW b \in Bots, NEW pnl \in Moves, Move(b, pnl) PROVE LedgerInv'
  <2>1. ControlType' /\ PosType' /\ LocType'
    BY <1>1 DEF Move, ControlType, PosType, LocType, account
  <2> QED
    BY <1>1, <2>1, MoneyKept DEF Move, account
<1>2. ASSUME NEW b \in Bots, Signal(b) PROVE LedgerInv'
  <2>1. ControlType' /\ PosType' /\ LocType'
    BY <1>2 DEF Signal, ControlType, PosType, LocType, account, Goto, For, Labels,
                Callers
  <2> QED
    BY <1>2, <2>1, MoneyKept DEF Signal, account, Goto, ControlType
<1>3. ASSUME NEW b \in Bots, NEW then \in {"booked", "refilled"},
             CloseRow(b, then), UNCHANGED <<account, rowLock>>, pc[b] = "idle"
      PROVE  LedgerInv'
  <2>1. ControlType'
    BY <1>3 DEF CloseRow, ControlType, Goto, For, Labels, Callers
  <2>2. PosType'
    BY <1>3, ZenonT(30) DEF CloseRow, PosType
  <2>3. pos[b].pnl \in Int
    BY DEF PosType
  <2>4. LocType'
    BY <1>3, <2>3 DEF CloseRow, LocType, account, Nothing
  <2>5. \A u \in Tasks : pc'[u] = "commit" =>
          pc[u] = "commit" /\ loc'[u].bal = loc[u].bal
    BY <1>3 DEF CloseRow, Goto, ControlType, LocType, Nothing
  <2> QED
    BY <1>3, <2>1, <2>2, <2>4, <2>5, MoneyKept DEF account
<1>4. ASSUME NEW b \in Bots, LimitCrosses(b) PROVE LedgerInv'
  <2>1. CASE CloseRow(b, "refilled")
    BY <1>4, <2>1, <1>3 DEF LimitCrosses
  <2>2. CASE ~CloseRow(b, "refilled")
    <3>1. /\ pos' = [pos EXCEPT ![b].limit = FALSE]
          /\ UNCHANGED pc \/ Goto(b, "fill")
          /\ UNCHANGED <<account, why, loc, rowLock>>
      BY <1>4, <2>2 DEF LimitCrosses
    <3>2. ControlType' /\ LocType'
      BY <3>1 DEF ControlType, LocType, account, Goto, Labels
    <3>3. PosType'
      BY <3>1 DEF PosType
    <3>4. \A u \in Tasks : pc'[u] = "commit" => pc[u] = "commit"
      BY <3>1 DEF Goto, ControlType
    <3> QED
      BY <3>1, <3>2, <3>3, <3>4, MoneyKept DEF account
  <2> QED
    BY <2>1, <2>2
<1>5. ASSUME NEW op \in {"deposit", "withdraw", "resume"}, Request(op)
      PROVE  LedgerInv'
  <2> PICK amount \in Amounts :
        \/ /\ op = "deposit"
           /\ loc' = [loc EXCEPT ![Api].amt = amount]
           /\ Goto(Api, "post") /\ For(Api, "deposit") /\ UNCHANGED lock
        \/ /\ op = "withdraw"
           /\ lock = None /\ lock' = Api
           /\ loc' = [loc EXCEPT ![Api].amt = -amount]
           /\ Goto(Api, "read") /\ For(Api, "withdraw")
        \/ /\ op = "resume"
           /\ Goto(Api, "resume") /\ For(Api, "resume")
           /\ UNCHANGED <<loc, lock>>
    BY <1>5 DEF Request
  <2>1. ControlType' /\ PosType'
    BY <1>5 DEF Request, ControlType, PosType, Goto, For, Labels, Callers
  <2>2. amount \in Int /\ -amount \in Int
    OBVIOUS
  <2>3. LocType'
    BY <1>5, <2>2 DEF Request, LocType, account, Nothing
  <2>4. \A u \in Tasks : pc'[u] = "commit" =>
          pc[u] = "commit" /\ loc'[u].bal = loc[u].bal
    BY <1>5 DEF Request, Goto, ControlType, LocType, Nothing
  <2> QED
    BY <1>5, <2>1, <2>3, <2>4, MoneyKept DEF Request, account
<1>6. CASE NewDay
  <2>1. ControlType' /\ PosType' /\ LocType'
    BY <1>6 DEF NewDay, ControlType, PosType, LocType
  <2> QED
    BY <1>6, <2>1, MoneyKept DEF NewDay
<1>7. ASSUME NEW b \in Bots, ClosePosition(b) PROVE LedgerInv'
  BY <1>7, <1>3 DEF ClosePosition
<1> QED
  BY <1>1, <1>2, <1>4, <1>5, <1>6, <1>7

\* So do the steps of a task, but for those of _post.
LEMMA TasksKeepLedger ==
  ASSUME LedgerInv, NEW t \in Tasks, Step(t)
  PROVE  LedgerInv'
<1> USE DEF LedgerInv
<1>1. CASE ReadAccount(t)
  <2>1. CASE Blocked(t) /\ UNCHANGED loc
    <3>1. ControlType' /\ \A u \in Tasks : pc'[u] = "commit" => pc[u] = "commit"
      BY <2>1, VerdictLemma
    <3>2. PosType' /\ LocType'
      BY <1>1, <2>1 DEF ReadAccount, PosType, LocType, account
    <3> QED
      BY <1>1, <2>1, <3>1, <3>2, MoneyKept DEF ReadAccount, account
  <2>2. CASE /\ loc' = [loc EXCEPT ![t].bal = balance, ![t].peak = peak]
             /\ Goto(t, "snapshot") /\ UNCHANGED <<why, lock>>
    <3>1. ControlType' /\ PosType'
      BY <1>1, <2>2 DEF ReadAccount, ControlType, PosType, Goto, Labels
    <3>2. LocType'
      BY <1>1, <2>2 DEF ReadAccount, LocType, account, Nothing
    <3>3. \A u \in Tasks : pc'[u] = "commit" =>
            pc[u] = "commit" /\ loc'[u].bal = loc[u].bal
      BY <2>2 DEF Goto, ControlType, LocType, Nothing
    <3> QED
      BY <1>1, <3>1, <3>2, <3>3, MoneyKept DEF ReadAccount, account
  <2> QED
    BY <1>1, <2>1, <2>2 DEF ReadAccount
<1>2. CASE Snapshot(t)
  <2>1. /\ ControlType'
        /\ \A u \in Tasks \ {t} : pc'[u] = pc[u]
        /\ pc'[t] # "commit"
    BY <1>2, SnapshotControl
  <2>2. LocType' /\ \A u \in Tasks \ {t} : loc'[u] = loc[u]
    BY <1>2, SnapshotReads
  <2>3. PosType'
    BY <1>2 DEF Snapshot, PosType
  <2> QED
    BY <1>2, <2>1, <2>2, <2>3, MoneyKept DEF Snapshot
<1>3. CASE Halt(t)
  <2>1. ControlType' /\ \A u \in Tasks : pc'[u] = "commit" => pc[u] = "commit"
    BY <1>3, VerdictLemma DEF Halt
  <2>2. pc'[t] # "commit"
    BY <1>3, VerdictLemma DEF Halt
  <2>3. PosType' /\ LocType' /\ \A u \in Tasks \ {t} : loc'[u] = loc[u]
    BY <1>3 DEF Halt, Forget, PosType, LocType, Nothing
  <2> QED
    BY <1>3, <2>1, <2>2, <2>3, MoneyKept DEF Halt
<1>4. CASE PostLock(t)
  <2>1. ControlType' /\ PosType'
    BY <1>4 DEF PostLock, ControlType, PosType, Goto, Labels
  <2>2. LocType'
    BY <1>4 DEF PostLock, LocType, account, Nothing
  <2>3. ReadIsFresh'
    BY <1>4 DEF PostLock, ReadIsFresh, ControlType, LocType, Goto, account, Nothing
  <2>4. BalanceIsLedger'
    BY <1>4 DEF PostLock, BalanceIsLedger, account
  <2> QED
    BY <2>1, <2>2, <2>3, <2>4
<1>5. CASE PostCommit(t)
  <2>1. /\ ControlType'
        /\ \A u \in Tasks \ {t} : pc'[u] = pc[u]
        /\ pc'[t] # "commit"
    <3>1. CASE End(t)
      BY <3>1, VerdictLemma
    <3>2. CASE Goto(t, "read") /\ UNCHANGED <<lock, why>>
      BY <3>2 DEF ControlType, Goto, Labels
    <3> QED
      BY <1>5, <3>1, <3>2 DEF PostCommit
  <2>2. /\ balance' = balance + loc[t].amt /\ posted' = posted + loc[t].amt
        /\ rowLock = t
    BY <1>5 DEF PostCommit, ReadIsFresh
  <2>3. PosType' /\ LocType'
    BY <1>5, <2>2 DEF PostCommit, Forget, PosType, LocType, Nothing
  <2>4. \A u \in Tasks : pc'[u] # "commit"
    BY <2>1, <2>2 DEF ReadIsFresh
  <2>5. BalanceIsLedger'
    BY <2>2 DEF BalanceIsLedger, LocType
  <2> QED
    BY <2>1, <2>3, <2>4, <2>5 DEF ReadIsFresh
<1>6. CASE t \in Bots /\ SubmitOrder(t)
  <2>1. ControlType'
    BY <1>6 DEF SubmitOrder, CloseRow, ControlType, Goto, For, Labels, Callers
  <2>2. PosType'
    <3>1. CASE CloseRow(t, "flipped")
      BY <1>6, <3>1, ZenonT(30) DEF CloseRow, PosType
    <3> QED
      BY <1>6, <3>1 DEF SubmitOrder, PosType
  <2>3. t \in Bots => pos[t].pnl \in Int
    BY DEF PosType
  <2>4. LocType'
    BY <1>6, <2>3 DEF SubmitOrder, CloseRow, LocType, account, Nothing
  <2>5. \A u \in Tasks : pc'[u] = "commit" =>
          pc[u] = "commit" /\ loc'[u].bal = loc[u].bal
    BY <1>6 DEF SubmitOrder, CloseRow, Goto, ControlType, LocType, Nothing
  <2> QED
    BY <1>6, <2>1, <2>2, <2>4, <2>5, MoneyKept DEF SubmitOrder, account
<1>7. CASE t \in Bots /\ QueueLimit(t)
  <2>1. ControlType' /\ \A u \in Tasks : pc'[u] = "commit" => pc[u] = "commit"
    BY <1>7, VerdictLemma DEF QueueLimit
  <2>2. PosType' /\ LocType'
    BY <1>7, ZenonT(30) DEF QueueLimit, PosType, LocType, account
  <2> QED
    BY <1>7, <2>1, <2>2, MoneyKept DEF QueueLimit, account
<1>8. CASE t \in Bots /\ OpenPosition(t)
  <2>1. ControlType'
    BY <1>8 DEF OpenPosition, ControlType, Goto, For, Labels, Callers
  <2>2. PosType'
    <3>1. PICK side \in Sides :
            pos' = [pos EXCEPT ![t].open = TRUE, ![t].pnl = 0, ![t].by = side]
      BY <1>8 DEF OpenPosition, Sides
    <3> QED
      BY <1>8, <3>1, ZenonT(30) DEF PosType
  <2>3. -Fee \in Int
    OBVIOUS
  <2>4. LocType'
    BY <1>8, <2>3 DEF OpenPosition, LocType, account, Nothing
  <2>5. \A u \in Tasks : pc'[u] = "commit" =>
          pc[u] = "commit" /\ loc'[u].bal = loc[u].bal
    BY <1>8 DEF OpenPosition, Goto, ControlType, LocType, Nothing
  <2> QED
    BY <1>8, <2>1, <2>2, <2>4, <2>5, MoneyKept DEF OpenPosition, account
<1>9. CASE t = Api /\ ResumeFirst
  <2>1. ControlType' /\ PosType' /\ LocType'
    BY <1>9 DEF ResumeFirst, ControlType, PosType, LocType, Goto, Labels
  <2>2. \A u \in Tasks : pc'[u] = "commit" => pc[u] = "commit"
    BY <1>9 DEF ResumeFirst, Goto, ControlType
  <2> QED
    BY <1>9, <2>1, <2>2, MoneyKept DEF ResumeFirst
<1>10. CASE t = Api /\ ResumePeak
  <2>1. ControlType' /\ \A u \in Tasks : pc'[u] = "commit" => pc[u] = "commit"
    BY <1>10, VerdictLemma DEF ResumePeak
  <2>2. pc'[t] # "commit"
    BY <1>10, VerdictLemma DEF ResumePeak
  <2>3. PosType' /\ LocType' /\ \A u \in Tasks \ {t} : loc'[u] = loc[u]
    BY <1>10 DEF ResumePeak, Forget, PosType, LocType, Nothing
  <2> QED
    BY <1>10, <2>1, <2>2, <2>3, MoneyKept DEF ResumePeak
<1> QED
  BY <1>1, <1>2, <1>3, <1>4, <1>5, <1>6, <1>7, <1>8, <1>9, <1>10 DEF Step

\* Every step of the specification keeps it.
LEMMA LedgerNext == LedgerInv /\ [Next]_vars => LedgerInv'
<1> SUFFICES ASSUME LedgerInv, [Next]_vars PROVE LedgerInv'
  OBVIOUS
<1>1. CASE UNCHANGED vars
  BY <1>1 DEF vars, account, LedgerInv, ControlType, PosType, LocType, ReadIsFresh,
              BalanceIsLedger
<1>2. CASE Next
  BY <1>2, CallersKeepLedger, TasksKeepLedger DEF Next
<1> QED
  BY <1>1, <1>2

\* The inductive invariant holds in every reachable state.
LEMMA LedgerAlways == Spec => []LedgerInv
BY LedgerInit, LedgerNext, PTL DEF Spec

\* service.py:3-4: the balance is the sum of the account's transactions, for any
\* number of bots and requests posting at once.
THEOREM BalanceFollowsLedger == Spec => []BalanceIsLedger
<1>1. LedgerInv => BalanceIsLedger
  BY DEF LedgerInv
<1> QED
  BY <1>1, LedgerAlways, PTL
-----------------------------------------------------------------------------
(* The position cap.                                                       *)

\* The market positions are finitely many, and fewer of them count no more.
LEMMA FewerMarket ==
  /\ IsFiniteSet(Market)
  /\ \A S \in SUBSET Market : \A b :
       /\ IsFiniteSet(S) /\ Cardinality(S) <= Cardinality(Market)
       /\ Cardinality(S \ {b}) <= Cardinality(Market \ {b})
       /\ Cardinality(S) \in Nat /\ Cardinality(S \ {b}) \in Nat
       /\ Cardinality(Market) \in Nat /\ Cardinality(Market \ {b}) \in Nat
<1>1. IsFiniteSet(Market)
  BY FS_Subset DEF Market, Open
<1>2. ASSUME NEW S \in SUBSET Market, NEW b
      PROVE  /\ IsFiniteSet(S) /\ Cardinality(S) <= Cardinality(Market)
             /\ Cardinality(S \ {b}) <= Cardinality(Market \ {b})
             /\ Cardinality(S) \in Nat /\ Cardinality(S \ {b}) \in Nat
             /\ Cardinality(Market) \in Nat /\ Cardinality(Market \ {b}) \in Nat
  <2>1. IsFiniteSet(S) /\ Cardinality(S) <= Cardinality(Market)
    BY <1>1, FS_Subset
  <2>2. IsFiniteSet(Market \ {b}) /\ S \ {b} \in SUBSET (Market \ {b})
    BY <1>1, FS_Subset, Market \ {b} \in SUBSET Market
  <2>3. /\ IsFiniteSet(S \ {b})
        /\ Cardinality(S \ {b}) <= Cardinality(Market \ {b})
    BY <2>2, FS_Subset
  <2> QED
    BY <1>1, <2>1, <2>2, <2>3, FS_CardinalityType
<1> QED
  BY <1>1, <1>2

\* A step of task t that opens nothing at market price and lets t claim no new
\* room keeps the invariant.
LEMMA CapKept ==
  ASSUME CapInv, NEW t \in Tasks,
         Market' \in SUBSET Market,
         \A u \in Tasks \ {t} : pc'[u] = pc[u] /\ why'[u] = why[u],
         lock' = lock \/ lock = None \/ lock = t,
         t \in Bots =>
           /\ why'[t] \in Sizing => lock' = t
           /\ pc'[t] = "submit" => why'[t] = "size"
           /\ pc'[t] = "open" => why'[t] \in {"size", "flipped"}
           /\ Checked(t)' => Checked(t)
  PROVE  CapInv'
<1>1. SizerLocks'
  BY DEF CapInv, SizerLocks
<1>2. OpensAsSizer'
  BY DEF CapInv, OpensAsSizer
<1>3. ASSUME NEW b \in Bots, Checked(b)'
      PROVE  Cardinality(Market' \ {b}) < MaxPositions
  <2>1. Checked(b)
    BY <1>3 DEF Checked
  <2>2. Cardinality(Market \ {b}) < MaxPositions
    BY <2>1 DEF CapInv, RoomWhenChecked
  <2>3. /\ Cardinality(Market' \ {b}) <= Cardinality(Market \ {b})
        /\ Cardinality(Market' \ {b}) \in Nat /\ Cardinality(Market \ {b}) \in Nat
    BY FewerMarket
  <2> QED
    BY <2>2, <2>3
<1>4. PositionsCapped'
  <2>1. Cardinality(Market) <= MaxPositions
    BY DEF CapInv, PositionsCapped, Market
  <2>2. Cardinality(Market') <= Cardinality(Market) /\ Cardinality(Market') \in Nat
        /\ Cardinality(Market) \in Nat
    BY FewerMarket
  <2>3. Cardinality(Market') <= MaxPositions
    BY <2>1, <2>2
  <2> QED
    BY <2>3 DEF PositionsCapped, Market
<1>5. RoomWhenChecked'
  BY <1>3 DEF RoomWhenChecked
<1> QED
  BY <1>1, <1>2, <1>4, <1>5 DEF CapInv

\* The initial state has no positions.
LEMMA CapInit == Init => CapInv
<1> SUFFICES ASSUME Init PROVE CapInv
  OBVIOUS
<1>1. SizerLocks /\ OpensAsSizer /\ \A b \in Bots : ~Checked(b)
  BY DEF Init, SizerLocks, OpensAsSizer, Sizing, Checked
<1>2. Open = {}
  BY DEF Init, Open
<1>3. PositionsCapped
  <2>1. {b \in Open : pos[b].by = "MARKET"} = {}
    BY <1>2
  <2> QED
    BY <2>1, FS_EmptySet DEF PositionsCapped
<1> QED
  BY <1>1, <1>3 DEF CapInv, RoomWhenChecked

\* Prices, signals, requests, closes and fills.
LEMMA CallersKeepCap ==
  ASSUME ControlType, PosType, CapInv,
         \/ \E b \in Bots : \/ \E pnl \in Moves : Move(b, pnl)
                            \/ Signal(b) \/ ClosePosition(b) \/ LimitCrosses(b)
         \/ \E op \in {"deposit", "withdraw", "resume"} : Request(op)
         \/ NewDay
  PROVE  CapInv'
<1>1. ASSUME NEW b \in Bots, NEW pnl \in Moves, Move(b, pnl) PROVE CapInv'
  <2>1. Market' = Market
    BY <1>1 DEF Move, Market, Open, PosType
  <2> QED
    BY <1>1, <2>1, CapKept DEF Move, Checked, CapInv, SizerLocks, OpensAsSizer
<1>2. ASSUME NEW b \in Bots, Signal(b) PROVE CapInv'
  <2>1. Market' = Market
    BY <1>2 DEF Signal, Market, Open
  <2>2. /\ \A u \in Tasks \ {b} : pc'[u] = pc[u] /\ why'[u] = why[u]
        /\ pc'[b] = "read" /\ why'[b] = "enforce" /\ lock = None /\ lock' = b
    BY <1>2 DEF Signal, Goto, For, ControlType
  <2> QED
    BY <2>1, <2>2, CapKept DEF Checked
<1>3. ASSUME NEW b \in Bots, NEW then \in {"booked", "refilled"},
             CloseRow(b, then), UNCHANGED lock
      PROVE  CapInv'
  <2>1. Market' \in SUBSET Market
    BY <1>3 DEF CloseRow, Market, Open, PosType
  <2>2. /\ \A u \in Tasks \ {b} : pc'[u] = pc[u] /\ why'[u] = why[u]
        /\ pc'[b] = "post" /\ why'[b] = then
    BY <1>3 DEF CloseRow, Goto, For, ControlType
  <2> QED
    BY <1>3, <2>1, <2>2, CapKept DEF Checked, Sizing
<1>4. ASSUME NEW b \in Bots, ClosePosition(b) PROVE CapInv'
  BY <1>4, <1>3 DEF ClosePosition
<1>5. ASSUME NEW b \in Bots, LimitCrosses(b) PROVE CapInv'
  <2>1. CASE CloseRow(b, "refilled")
    BY <1>5, <2>1, <1>3 DEF LimitCrosses
  <2>2. CASE ~CloseRow(b, "refilled")
    <3>1. /\ pos' = [pos EXCEPT ![b].limit = FALSE]
          /\ UNCHANGED pc \/ Goto(b, "fill")
          /\ UNCHANGED <<why, lock>>
      BY <1>5, <2>2 DEF LimitCrosses
    <3>2. Market' = Market
      BY <3>1 DEF Market, Open, PosType
    <3>3. (\A u \in Tasks \ {b} : pc'[u] = pc[u]) /\ pc'[b] \in {pc[b], "fill"}
      BY <3>1 DEF Goto, ControlType
    <3> QED
      BY <3>1, <3>2, <3>3, CapKept DEF Checked, CapInv, SizerLocks, OpensAsSizer
  <2> QED
    BY <2>1, <2>2
<1>6. ASSUME NEW op \in {"deposit", "withdraw", "resume"}, Request(op)
      PROVE  CapInv'
  <2>1. Market' = Market
    BY <1>6 DEF Request, Market, Open
  <2>2. /\ \A u \in Tasks \ {Api} : pc'[u] = pc[u] /\ why'[u] = why[u]
        /\ pc'[Api] \in {"post", "read", "resume"}
        /\ why'[Api] \in {"deposit", "withdraw", "resume"}
        /\ lock' = lock \/ lock = None
    BY <1>6 DEF Request, Goto, For, ControlType
  <2> QED
    BY <2>1, <2>2, CapKept DEF Checked, Sizing
<1>7. CASE NewDay
  BY <1>7 DEF NewDay, CapInv, SizerLocks, OpensAsSizer, RoomWhenChecked,
              PositionsCapped, Market, Open, Checked
<1> QED
  BY <1>1, <1>2, <1>4, <1>5, <1>6, <1>7

\* What _size has found when it hands an order to the executor.
LEMMA FitsLeavesRoom ==
  ASSUME PosType, NEW b \in Bots,
         Cardinality(Open) - (IF pos[b].open THEN 1 ELSE 0) < MaxPositions
  PROVE  Cardinality(Market \ {b}) < MaxPositions
<1>1. IsFiniteSet(Open) /\ IsFiniteSet(Open \ {b})
  BY FS_Subset DEF Open
<1>2. Cardinality(Open \ {b}) < MaxPositions
  <2>1. /\ Cardinality(Open \ {b}) =
             IF b \in Open THEN Cardinality(Open) - 1 ELSE Cardinality(Open)
        /\ Cardinality(Open) \in Nat
    BY <1>1, FS_RemoveElement, FS_CardinalityType
  <2>2. b \in Open <=> pos[b].open
    BY DEF Open
  <2> QED
    BY <2>1, <2>2
<1>3. Market \ {b} \in SUBSET (Open \ {b})
  BY DEF Market
<1> QED
  BY <1>1, <1>2, <1>3, FS_Subset, FS_CardinalityType

\* _size submits only what its snapshot found to fit.
LEMMA SizingFits ==
  ASSUME LocType, ControlType, NEW t \in Tasks, Snapshot(t), pc'[t] = "submit",
         why[t] = "size", why'[t] = "size"
  PROVE  Cardinality(Open) - (IF pos[t].open THEN 1 ELSE 0) < MaxPositions
<1> DEFINE equity == loc[t].bal + Unrealized
           l == [loc[t] EXCEPT
                   !.equity = equity,
                   !.peak = IF equity > loc[t].peak THEN equity ELSE loc[t].peak,
                   !.free = equity - Margin * Cardinality(Open),
                   !.day = dayPnl + Unrealized,
                   !.n = Cardinality(Open)]
<1>1. IF Fits(t, l) THEN Goto(t, "submit") ELSE End(t)
  BY DEF Snapshot, Reversals
<1>2. ~End(t)
  BY DEF End, Goto, ControlType
<1>3. Fits(t, l)
  <2> HIDE DEF l
  <2> QED
    BY <1>1, <1>2
<1>4. l.n = Cardinality(Open)
  <2> HIDE DEF equity
  <2> QED
    BY DEF LocType, Nothing
<1> HIDE DEF l
<1> QED
  BY <1>3, <1>4 DEF Fits

\* An order that opens at market price fills the room it was sized for.
LEMMA OpeningFits ==
  ASSUME PosType, NEW b \in Bots, pos'[b].by = "MARKET" => Checked(b), CapInv,
         \A c \in Bots \ {b} : pos'[c] = pos[c]
  PROVE  Cardinality(Market') <= MaxPositions
<1>1. CASE b \in Market'
  <2>1. Checked(b) /\ Cardinality(Market \ {b}) < MaxPositions
    BY <1>1 DEF Market, Open, CapInv, RoomWhenChecked
  <2>2. Market' = (Market \ {b}) \cup {b}
    BY <1>1 DEF Market, Open
  <2>3. IsFiniteSet(Market \ {b})
    BY FewerMarket, Market \ {b} \in SUBSET Market
  <2>4. Cardinality(Market') = Cardinality(Market \ {b}) + 1
    BY <2>2, <2>3, FS_AddElement
  <2> QED
    BY <2>1, <2>3, <2>4, FS_CardinalityType
<1>2. CASE b \notin Market'
  <2>1. Market' \in SUBSET Market
    BY <1>2 DEF Market, Open
  <2>2. Cardinality(Market) <= MaxPositions
    BY DEF CapInv, PositionsCapped, Market
  <2>3. /\ Cardinality(Market') <= Cardinality(Market)
        /\ Cardinality(Market') \in Nat /\ Cardinality(Market) \in Nat
    BY <2>1, FewerMarket
  <2> QED
    BY <2>2, <2>3
<1> QED
  BY <1>1, <1>2

\* A verdict of enforce gives no room away that it has not found.
LEMMA VerdictKeepsCap ==
  ASSUME ControlType, CapInv, NEW t \in Tasks, Market' \in SUBSET Market,
         \/ why[t] \in {"enforce", "booked"} \cup Reversals /\ Allowed(t)
         \/ Blocked(t)
         \/ End(t)
  PROVE  CapInv'
<1>1. /\ \A u \in Tasks \ {t} : pc'[u] = pc[u] /\ why'[u] = why[u]
      /\ pc'[t] \in {"idle", "read", "open", "fill"}
      /\ pc'[t] = "open" => why[t] = "flipped" /\ why'[t] = "flipped"
      /\ why'[t] # None => lock' = lock
      /\ why'[t] \in {None, why[t]} \/ (why[t] = "enforce" /\ why'[t] = "size")
      /\ lock' = lock \/ lock = t
  BY VerdictLemma
<1>2. t \in Bots => (why'[t] \in Sizing => lock' = t)
  BY <1>1 DEF CapInv, SizerLocks, Sizing
<1>3. Checked(t)' => Checked(t)
  BY <1>1 DEF Checked
<1> QED
  BY <1>1, <1>2, <1>3, CapKept

\* The steps of a task: a claim to room is made only by a snapshot that found it,
\* and used only under the lock.
LEMMA TasksKeepCap ==
  ASSUME ControlType, PosType, LocType, CapInv, NEW t \in Tasks, Step(t)
  PROVE  CapInv'
<1>1. CASE ReadAccount(t)
  <2>1. Market' = Market
    BY <1>1 DEF ReadAccount, Market, Open
  <2>2. CASE Blocked(t)
    BY <2>1, <2>2, VerdictKeepsCap
  <2>3. CASE Goto(t, "snapshot") /\ UNCHANGED <<why, lock>>
    <3>1. (\A u \in Tasks \ {t} : pc'[u] = pc[u]) /\ pc'[t] = "snapshot"
      BY <2>3 DEF Goto, ControlType
    <3> QED
      BY <2>1, <2>3, <3>1, CapKept DEF Checked, CapInv, SizerLocks
  <2> QED
    BY <1>1, <2>2, <2>3 DEF ReadAccount
<1>2. CASE Snapshot(t)
  <2>1. /\ \A u \in Tasks \ {t} : pc'[u] = pc[u] /\ why'[u] = why[u]
        /\ why'[t] # None => lock' = lock
        /\ why'[t] \in {None, why[t]} \/ (why[t] = "enforce" /\ why'[t] = "size")
        /\ pc'[t] = "open" => why[t] = "flipped" /\ why'[t] = "flipped"
        /\ pc'[t] = "submit" => why[t] = "size" /\ why'[t] = "size"
        /\ lock' = lock \/ lock = t
    BY <1>2, SnapshotControl
  <2>2. Market' = Market
    BY <1>2 DEF Snapshot, Market, Open
  <2>3. t \in Bots => (why'[t] \in Sizing => lock' = t)
    BY <2>1 DEF CapInv, SizerLocks, Sizing
  <2>4. CASE t \notin Bots \/ pc'[t] # "submit"
    <3>1. t \in Bots => (Checked(t)' => Checked(t))
      BY <2>1, <2>4 DEF Checked
    <3> QED
      BY <2>1, <2>2, <2>3, <2>4, <3>1, CapKept
  <2>5. CASE t \in Bots /\ pc'[t] = "submit"
    <3>1. Cardinality(Market \ {t}) < MaxPositions
      <4>1. Cardinality(Open) - (IF pos[t].open THEN 1 ELSE 0) < MaxPositions
        BY <1>2, <2>1, <2>5, SizingFits
      <4> QED
        BY <2>5, <4>1, FitsLeavesRoom
    <3>2. lock = t /\ lock' = t
      BY <2>1, <2>5 DEF CapInv, SizerLocks, Sizing
    <3>3. SizerLocks' /\ OpensAsSizer'
      BY <2>1, <2>3, <2>5 DEF CapInv, SizerLocks, OpensAsSizer
    <3>4. RoomWhenChecked'
      <4> SUFFICES ASSUME NEW b \in Bots, Checked(b)'
                   PROVE  Cardinality(Market \ {b}) < MaxPositions
        BY <2>2 DEF RoomWhenChecked
      <4>1. CASE b # t
        BY <2>1, <4>1 DEF Checked, CapInv, RoomWhenChecked
      <4> QED
        BY <3>1, <4>1
    <3>5. PositionsCapped'
      BY <2>2 DEF CapInv, PositionsCapped, Market
    <3> QED
      BY <3>3, <3>4, <3>5 DEF CapInv
  <2> QED
    BY <2>4, <2>5
<1>3. CASE Halt(t)
  BY <1>3, VerdictKeepsCap DEF Halt, Market, Open
<1>4. CASE PostLock(t)
  <2>1. /\ \A u \in Tasks \ {t} : pc'[u] = pc[u]
        /\ pc'[t] = "commit" /\ UNCHANGED <<why, lock>>
    BY <1>4 DEF PostLock, Goto, ControlType
  <2>2. Market' = Market
    BY <1>4 DEF PostLock, Market, Open
  <2> QED
    BY <2>1, <2>2, CapKept DEF Checked, CapInv, SizerLocks
<1>5. CASE PostCommit(t)
  <2>1. Market' = Market
    BY <1>5 DEF PostCommit, Market, Open
  <2>2. CASE End(t)
    BY <2>1, <2>2, VerdictKeepsCap
  <2>3. CASE Goto(t, "read") /\ UNCHANGED <<lock, why>>
    <3>1. (\A u \in Tasks \ {t} : pc'[u] = pc[u]) /\ pc'[t] = "read"
      BY <2>3 DEF Goto, ControlType
    <3> QED
      BY <2>1, <2>3, <3>1, CapKept DEF Checked, CapInv, SizerLocks
  <2> QED
    BY <1>5, <2>2, <2>3 DEF PostCommit
<1>6. CASE t \in Bots /\ SubmitOrder(t)
  <2>1. why[t] = "size" /\ lock = t /\ lock' = t /\ Checked(t)
    BY <1>6 DEF SubmitOrder, CapInv, OpensAsSizer, SizerLocks, Sizing, Checked
  <2>2. CASE CloseRow(t, "flipped")
    <3>1. Market' \in SUBSET Market
      BY <1>6, <2>2 DEF CloseRow, Market, Open, PosType
    <3>2. /\ \A u \in Tasks \ {t} : pc'[u] = pc[u] /\ why'[u] = why[u]
          /\ pc'[t] = "post" /\ why'[t] = "flipped"
      BY <2>2 DEF CloseRow, Goto, For, ControlType
    <3> QED
      BY <2>1, <3>1, <3>2, CapKept
  <2>3. CASE Goto(t, "open") /\ UNCHANGED <<pos, loc, why>>
    <3>1. Market' = Market
      BY <2>3 DEF Market, Open
    <3>2. (\A u \in Tasks \ {t} : pc'[u] = pc[u]) /\ pc'[t] = "open"
      BY <2>3 DEF Goto, ControlType
    <3> QED
      BY <2>1, <2>3, <3>1, <3>2, CapKept
  <2> QED
    BY <1>6, <2>2, <2>3 DEF SubmitOrder
<1>7. CASE t \in Bots /\ QueueLimit(t)
  <2>1. Market' = Market
    BY <1>7 DEF QueueLimit, Market, Open, PosType
  <2> QED
    BY <1>7, <2>1, VerdictKeepsCap DEF QueueLimit
<1>8. CASE t \in Bots /\ OpenPosition(t)
  <2>1. /\ \A u \in Tasks \ {t} : pc'[u] = pc[u] /\ why'[u] = why[u]
        /\ pc'[t] = "post" /\ why'[t] = "fee" /\ lock' = lock
    BY <1>8 DEF OpenPosition, Goto, For, ControlType
  <2>2. CASE pc[t] = "open"
    <3>1. Checked(t) /\ lock = t
      BY <1>8, <2>2 DEF Checked, CapInv, OpensAsSizer, SizerLocks, Sizing
    <3>2. \A b \in Bots : ~Checked(b)'
      <4> SUFFICES ASSUME NEW b \in Bots, b # t, Checked(b) PROVE FALSE
        BY <2>1 DEF Checked
      <4>1. why[b] \in Sizing
        BY DEF Checked, CapInv, OpensAsSizer, Sizing
      <4> QED
        BY <3>1, <4>1 DEF CapInv, SizerLocks
    <3>3. \A c \in Bots \ {t} : pos'[c] = pos[c]
      BY <1>8 DEF OpenPosition, PosType
    <3>4. PositionsCapped'
      BY <1>8, <3>1, <3>3, OpeningFits DEF PositionsCapped, Market
    <3>5. SizerLocks' /\ OpensAsSizer'
      BY <1>8, <2>1 DEF CapInv, SizerLocks, OpensAsSizer, Sizing
    <3> QED
      BY <3>2, <3>4, <3>5 DEF CapInv, RoomWhenChecked
  <2>3. CASE pc[t] = "fill"
    <3>1. pos' = [pos EXCEPT ![t].open = TRUE, ![t].pnl = 0, ![t].by = "LIMIT"]
      BY <1>8, <2>3 DEF OpenPosition
    <3>2. Market' \in SUBSET Market
      BY <1>8, <3>1 DEF Market, Open, PosType
    <3> QED
      BY <2>1, <3>2, CapKept DEF Checked, Sizing
  <2> QED
    BY <1>8, <2>2, <2>3 DEF OpenPosition
<1>9. CASE t = Api /\ ResumeFirst
  <2>1. Market' = Market
    BY <1>9 DEF ResumeFirst, Market, Open
  <2>2. (\A u \in Tasks \ {t} : pc'[u] = pc[u]) /\ UNCHANGED <<why, lock>>
    BY <1>9 DEF ResumeFirst, Goto, ControlType
  <2> QED
    BY <1>9, <2>1, <2>2, CapKept
<1>10. CASE t = Api /\ ResumePeak
  BY <1>10, VerdictKeepsCap DEF ResumePeak, Market, Open
<1> QED
  BY <1>1, <1>2, <1>3, <1>4, <1>5, <1>6, <1>7, <1>8, <1>9, <1>10 DEF Step

\* Every step of the specification keeps both invariants.
LEMMA CapNext == LedgerInv /\ CapInv /\ [Next]_vars => CapInv'
<1> SUFFICES ASSUME LedgerInv, CapInv, [Next]_vars PROVE CapInv'
  OBVIOUS
<1>1. CASE UNCHANGED vars
  BY <1>1 DEF vars, CapInv, SizerLocks, OpensAsSizer, RoomWhenChecked,
              PositionsCapped, Market, Open, Checked
<1>2. CASE Next
  BY <1>2, CallersKeepCap, TasksKeepCap DEF Next, LedgerInv
<1> QED
  BY <1>1, <1>2

\* service.py:70: "sizing + opening an order is one atomic step (multiple bots)":
\* the MARKET entries of any number of bots never exceed the account's cap.
THEOREM CapHolds == Spec => []PositionsCapped
<1>1. CapInv => PositionsCapped
  BY DEF CapInv
<1> QED
  BY <1>1, CapInit, CapNext, LedgerAlways, PTL DEF Spec
=============================================================================
