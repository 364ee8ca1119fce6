------------------------- MODULE ExchangeSync_proofs -------------------------
(* Whoever syncs at the same time, and whatever fails: income after the first sync is
   booked once and never skipped.  The cursor may run ahead of the ledger only by the
   rows that a task still holds.                                                    *)
EXTENDS ExchangeSync, TLAPS

Entry == [type : {"RESULT", "TRANSFER"}, amount : Results \cup Transfers]
Fields == {"first", "before", "cursor", "wallet", "rows", "read"}
\* The parts of the state the argument reads.
Shape ==
  /\ income \in Seq(Entry) /\ Len(income) <= MaxIncome
  /\ since \in Nat
  /\ "cursor" \in DOMAIN account /\ account.cursor \in Cursors
  /\ ledger.rows \in [Ids -> {0, 1}]
  /\ DOMAIN pc = Tasks /\ DOMAIN loc = Tasks

\* What a task that awaits p holds in l.  Only a sync that is not the first asks for
\* income, and it holds no rows before it has and once all of them are known.
Held(l) ==
  /\ Fields \subseteq DOMAIN l
  /\ l.first \in BOOLEAN /\ l.cursor \in Cursors /\ l.rows \subseteq Ids
Staged(p, l) ==
  /\ p \in {"income", "seen", "row", "stamp", "adjust"} => ~l.first
  /\ p \notin {"seen", "post", "adjust", "commit"} => l.rows = {}
  /\ l.first => l.rows = {}
  /\ p \in {"account", "income"} => l.first \/ l.cursor \in Nat
  /\ p = "clock" => l.first

\* From the first sync on, everything up to its cursor is imported or held.
Covered(l, from, imported) == l.first \/ (from + 1)..l.cursor \subseteq imported \cup l.rows
Good(t) == Held(loc[t]) /\ Staged(pc[t], loc[t]) /\ Covered(loc[t], since, Imported)

IInv ==
  /\ Shape
  /\ (since + 1)..account.cursor \subseteq Imported
  /\ \A t \in Tasks : Good(t)

\* A task that is between two syncs holds nothing.
LEMMA NothingHeld ==
  ASSUME NEW p \in {"idle", "enforce", "raise", "halt"}, NEW from \in Nat, NEW imported
  PROVE  Held(Nothing) /\ Staged(p, Nothing) /\ Covered(Nothing, from, imported)
<1>1. /\ Fields \subseteq DOMAIN Nothing
      /\ Nothing.first = FALSE /\ Nothing.cursor = Unset /\ Nothing.rows = {}
  BY DEF Nothing, Fields
<1>2. Held(Nothing)
  BY <1>1 DEF Held, Cursors, Ids
<1>3. Staged(p, Nothing)
  BY <1>1 DEF Staged
<1>4. Covered(Nothing, from, imported)
  BY <1>1 DEF Covered, Unset
<1> QED BY <1>2, <1>3, <1>4

LEMMA InitInv == ASSUME MaxIncome \in Nat PROVE Init => IInv
<1> SUFFICES ASSUME Init PROVE IInv
  OBVIOUS
<1>1. /\ DOMAIN pc = Tasks /\ DOMAIN loc = Tasks
      /\ \A t \in Tasks : loc[t] = Nothing /\ pc[t] = "idle"
  BY DEF Init
<1>2. income \in Seq(Entry) /\ Len(income) <= MaxIncome /\ since \in Nat
  BY DEF Init
<1>3. "cursor" \in DOMAIN account /\ account.cursor = Unset
  BY DEF Init
<1>4. ledger.rows \in [Ids -> {0, 1}]
  BY DEF Init
<1>5. Shape
  BY <1>1, <1>2, <1>3, <1>4 DEF Shape, Cursors
<1>6. (since + 1)..account.cursor \subseteq Imported
  BY <1>2, <1>3 DEF Unset
<1> QED BY <1>1, <1>2, <1>5, <1>6, NothingHeld DEF IInv, Good

\* A step of one task that writes neither the ledger nor the cursor.
LEMMA OwnStep ==
  ASSUME IInv, NEW t \in Tasks, NEW l, Goto(t, l),
         DOMAIN loc' = Tasks, \A u \in Tasks \ {t} : loc'[u] = loc[u],
         UNCHANGED <<since, ledger, income>>,
         "cursor" \in DOMAIN account', account'.cursor = account.cursor, Good(t)'
  PROVE  IInv'
<1>1. Shape'
  BY DEF IInv, Shape, Goto
<1>2. ((since + 1)..account.cursor \subseteq Imported)'
  BY DEF IInv, Imported
<1>3. ASSUME NEW u \in Tasks PROVE Good(u)'
  <2>1. CASE u = t
    BY <2>1
  <2>2. CASE u # t
    <3>1. loc'[u] = loc[u] /\ pc'[u] = pc[u]
      BY <2>2 DEF Goto, IInv, Shape
    <3>2. Good(u)
      BY DEF IInv
    <3> QED BY <3>1, <3>2 DEF Good, Held, Staged, Covered, Imported
  <2> QED BY <2>1, <2>2
<1> QED BY <1>1, <1>2, <1>3 DEF IInv

LEMMA BeginStep ==
  ASSUME IInv, NEW t \in Tasks, Begin(t) PROVE IInv'
<1>1. /\ Fields \subseteq DOMAIN loc'[t]
      /\ loc'[t].first = (account.cursor = Unset) /\ loc'[t].cursor = account.cursor
      /\ loc'[t].rows = loc[t].rows
  BY DEF Begin, IInv, Shape, Good, Held, Fields
<1>2. Held(loc[t])'
  BY <1>1 DEF IInv, Shape, Good, Held, Ids
<1>3. pc'[t] = "account"
  BY DEF Begin, Goto, IInv, Shape
<1>4. loc[t].rows = {}
  BY DEF Begin, IInv, Good, Staged
<1>5. Staged(pc[t], loc[t])' /\ Covered(loc[t], since, Imported)'
  BY <1>1, <1>3, <1>4 DEF Staged, Covered, Imported, IInv, Begin, Shape, Cursors
<1> QED BY <1>2, <1>5, OwnStep DEF Good, Begin, IInv, Shape, exchange

LEMMA ReadWalletStep ==
  ASSUME IInv, NEW t \in Tasks, ReadWallet(t) PROVE IInv'
<1>1. /\ Fields \subseteq DOMAIN loc'[t] /\ loc'[t].first = loc[t].first
      /\ loc'[t].cursor = loc[t].cursor /\ loc'[t].rows = loc[t].rows
  BY DEF ReadWallet, IInv, Shape, Good, Held, Fields
<1>2. Held(loc[t])'
  BY <1>1 DEF IInv, Good, Held, Ids
<1>3. pc'[t] \in {IF loc[t].first THEN "clock" ELSE "income", "failed"}
  BY DEF ReadWallet, Goto, IInv, Shape
<1>4. loc[t].rows = {}
  BY DEF ReadWallet, IInv, Good, Staged
<1>5. Staged(pc[t], loc[t])' /\ Covered(loc[t], since, Imported)'
  BY <1>1, <1>3, <1>4 DEF Staged, Covered, Imported, IInv, Good, ReadWallet
<1> QED BY <1>2, <1>5, OwnStep DEF Good, ReadWallet, IInv, Shape, exchange

LEMMA ReadClockStep ==
  ASSUME IInv, NEW t \in Tasks, ReadClock(t), loc[t].first PROVE IInv'
<1>1. /\ Fields \subseteq DOMAIN loc'[t] /\ loc'[t].first = loc[t].first
      /\ loc'[t].cursor = Now /\ loc'[t].rows = loc[t].rows
  BY DEF ReadClock, IInv, Shape, Good, Held, Fields
<1>2. Now \in Nat
  BY DEF Now, IInv, Shape
<1>3. Held(loc[t])'
  BY <1>1, <1>2 DEF IInv, Good, Held, Ids, Cursors
<1>4. pc'[t] = "post"
  BY DEF ReadClock, Goto, IInv, Shape
<1>5. Staged(pc[t], loc[t])' /\ Covered(loc[t], since, Imported)'
  BY <1>1, <1>4 DEF Staged, Covered, IInv, Good
<1> QED BY <1>3, <1>5, OwnStep DEF Good, ReadClock, IInv, Shape, exchange

\* Nothing between the cursor and now is left out.
LEMMA ReadIncomeStep ==
  ASSUME MaxIncome \in Nat, IInv, NEW t \in Tasks, ReadIncome(t) PROVE IInv'
<1>1. CASE loc' = loc
  <2>1. pc'[t] = "failed" \/ pc'[t] = "seen"
    BY DEF ReadIncome, Goto, IInv, Shape
  <2>2. ~loc[t].first /\ loc[t].rows = {}
    BY DEF ReadIncome, IInv, Good, Staged
  <2>3. Good(t)'
    BY <1>1, <2>1, <2>2 DEF Good, Held, Staged, Covered, Imported, IInv, ReadIncome, Ids
  <2> QED BY <1>1, <2>3, OwnStep DEF ReadIncome, IInv, Shape, exchange
<1>2. CASE /\ loc' = [loc EXCEPT ![t].rows = (loc[t].cursor + 1)..Now,
                                 ![t].cursor = Larger(loc[t].cursor, Now)]
           /\ Goto(t, "seen")
  <2>1. /\ Fields \subseteq DOMAIN loc'[t] /\ loc'[t].first = loc[t].first
        /\ loc'[t].cursor = Larger(loc[t].cursor, Now)
        /\ loc'[t].rows = (loc[t].cursor + 1)..Now
    BY <1>2 DEF IInv, Shape, Good, Held, Fields
  <2>2. /\ Now \in Nat /\ Now <= MaxIncome /\ loc[t].cursor \in Cursors
        /\ since \in Nat
    BY DEF Now, IInv, Shape, Good, Held
  <2>3. ~loc[t].first /\ loc[t].rows = {}
    BY DEF ReadIncome, IInv, Good, Staged
  <2>4. loc[t].cursor \in Nat
    BY <2>3 DEF ReadIncome, IInv, Good, Staged
  <2>5. (loc[t].cursor + 1)..Now \subseteq Ids
    BY <2>2, <2>4 DEF Ids
  <2>6. Held(loc[t])'
    BY <2>1, <2>2, <2>5 DEF Held, IInv, Good, Cursors, Larger, Ids
  <2>7. (since + 1)..loc'[t].cursor \subseteq Imported \cup loc'[t].rows
    <3>1. (since + 1)..loc[t].cursor \subseteq Imported
      BY <2>3 DEF IInv, Good, Covered
    <3>2. \A i \in (since + 1)..loc'[t].cursor :
             i \in (since + 1)..loc[t].cursor \/ i \in (loc[t].cursor + 1)..Now
      BY <2>1, <2>2, <2>4 DEF Larger
    <3> QED BY <2>1, <3>1, <3>2
  <2>8. pc'[t] = "seen"
    BY <1>2 DEF Goto, IInv, Shape
  <2>9. Staged(pc[t], loc[t])' /\ Covered(loc[t], since, Imported)'
    BY <2>1, <2>3, <2>7, <2>8 DEF Staged, Covered, Imported, ReadIncome
  <2> QED BY <1>2, <2>6, <2>9, OwnStep DEF Good, ReadIncome, IInv, Shape, exchange
<1> QED BY <1>1, <1>2 DEF ReadIncome
LEMMA ReadSeenStep ==
  ASSUME IInv, NEW t \in Tasks, ReadSeen(t) PROVE IInv'
<1>1. /\ Fields \subseteq DOMAIN loc'[t] /\ loc'[t].first = loc[t].first
      /\ loc'[t].cursor = loc[t].cursor /\ loc'[t].rows = loc[t].rows \ Imported
  BY DEF ReadSeen, IInv, Shape, Good, Held, Fields
<1>2. Held(loc[t])'
  BY <1>1 DEF IInv, Good, Held, Ids
<1>3. pc'[t] = (IF loc[t].rows \subseteq Imported THEN "row" ELSE "post")
  BY DEF ReadSeen, Goto, IInv, Shape
<1>4. ~loc[t].first
  BY DEF ReadSeen, IInv, Good, Staged
<1>5. Staged(pc[t], loc[t])' /\ Covered(loc[t], since, Imported)'
  BY <1>1, <1>3, <1>4 DEF Staged, Covered, Imported, IInv, Good, ReadSeen
<1> QED BY <1>2, <1>5, OwnStep DEF Good, ReadSeen, IInv, Shape, exchange

\* The row read, without a lock or under it, changes nothing of what a task holds.
LEMMA ReadRowStep ==
  ASSUME IInv, NEW t \in Tasks, ReadRow(t) \/ PostLock(t) PROVE IInv'
<1>1. /\ Fields \subseteq DOMAIN loc'[t] /\ loc'[t].first = loc[t].first
      /\ loc'[t].cursor = loc[t].cursor /\ loc'[t].rows = loc[t].rows
  BY DEF ReadRow, PostLock, IInv, Shape, Good, Held, Fields
<1>2. Held(loc[t])'
  BY <1>1 DEF IInv, Good, Held, Ids
<1>3. \/ pc[t] = "row" /\ pc'[t] \in {"stamp", "adjust"}
      \/ pc'[t] = "commit"
  BY DEF ReadRow, PostLock, Goto, IInv, Shape
<1>4. UNCHANGED <<since, ledger, income, account>>
  BY DEF ReadRow, PostLock, exchange
<1>5. Staged(pc[t], loc[t])' /\ Covered(loc[t], since, Imported)'
  BY <1>1, <1>3, <1>4 DEF Staged, Covered, Imported, IInv, Good
<1>6. DOMAIN loc' = Tasks /\ \A u \in Tasks \ {t} : loc'[u] = loc[u]
  BY DEF ReadRow, PostLock, IInv, Shape
<1>7. \E l : Goto(t, l)
  BY DEF ReadRow, PostLock
<1> QED BY <1>2, <1>4, <1>5, <1>6, <1>7, OwnStep DEF Good, IInv, Shape

\* The task is over, or its transaction is: nothing is held.
LEMMA OverStep ==
  ASSUME IInv, NEW t \in Tasks, Failed(t) \/ Refused(t) PROVE IInv'
<1>1. /\ loc' = [loc EXCEPT ![t] = Nothing]
      /\ UNCHANGED <<since, ledger, income>>
      /\ account' = account \/ account' = [account EXCEPT !.error = TRUE]
  BY DEF Failed, Refused, Done, exchange
<1>2. PICK l \in {"idle", "enforce"} : Goto(t, l)
  BY DEF Failed, Refused, Done
<1>3. "cursor" \in DOMAIN account' /\ account'.cursor = account.cursor
  BY <1>1 DEF IInv, Shape
<1>4. loc'[t] = Nothing /\ DOMAIN loc' = Tasks /\ \A u \in Tasks \ {t} : loc'[u] = loc[u]
  BY <1>1 DEF IInv, Shape
<1>5. since' \in Nat
  BY <1>1 DEF IInv, Shape
<1>6. pc'[t] = l
  BY <1>2 DEF Goto, IInv, Shape
<1>7. Good(t)'
  BY <1>2, <1>4, <1>5, <1>6, NothingHeld DEF Good
<1> QED BY <1>1, <1>2, <1>3, <1>4, <1>7, OwnStep

\* enforce writes the peak and the status.
LEMMA EnforceStep ==
  ASSUME IInv, Enforce \/ RaisePeak \/ Halt PROVE IInv'
<1>1. /\ UNCHANGED <<since, ledger, income>>
      /\ \/ account' = account
         \/ account' = [account EXCEPT !.peak = loc[Loop].wallet]
         \/ account' = [account EXCEPT !.status = "HALTED"]
      /\ \/ loc' = loc
         \/ loc' = [loc EXCEPT ![Loop].wallet = Equity]
         \/ loc' = [loc EXCEPT ![Loop] = Nothing]
  BY DEF Enforce, RaisePeak, Halt, exchange
<1>2. PICK l \in {"idle", "raise", "halt"} : Goto(Loop, l)
  BY DEF Enforce, Verdict, RaisePeak, Halt
<1>3. "cursor" \in DOMAIN account' /\ account'.cursor = account.cursor
  BY <1>1 DEF IInv, Shape
<1>4. Loop \in Tasks
  BY DEF Tasks
<1>5. DOMAIN loc' = Tasks /\ \A u \in Tasks \ {Loop} : loc'[u] = loc[u]
  BY <1>1 DEF IInv, Shape
<1>6. loc[Loop].rows = {} /\ Good(Loop)
  BY <1>4 DEF Enforce, RaisePeak, Halt, IInv, Good, Staged
<1>7. pc'[Loop] = l
  BY <1>2, <1>4 DEF Goto, IInv, Shape
<1>8. \/ loc'[Loop] = Nothing
      \/ /\ Fields \subseteq DOMAIN loc'[Loop] /\ loc'[Loop].first = loc[Loop].first
         /\ loc'[Loop].cursor = loc[Loop].cursor /\ loc'[Loop].rows = loc[Loop].rows
  BY <1>1, <1>4, <1>6 DEF IInv, Shape, Good, Held, Fields
<1>9. Good(Loop)'
  <2>1. CASE loc'[Loop] = Nothing
    <3>1. since' \in Nat
      BY <1>1 DEF IInv, Shape
    <3> QED BY <1>2, <1>7, <2>1, <3>1, NothingHeld DEF Good
  <2>2. CASE loc'[Loop] # Nothing
    BY <1>1, <1>2, <1>6, <1>7, <1>8, <2>2 DEF Good, Held, Staged, Covered, Imported, Ids
  <2> QED BY <2>1, <2>2
<1> QED BY <1>1, <1>2, <1>3, <1>4, <1>5, <1>9, OwnStep
\* The ledger grows by the rows held, once each, and the cursor follows.
LEMMA CommitStep ==
  ASSUME MaxIncome \in Nat, IInv, NEW t \in Tasks, Commit(t) PROVE IInv'
<1>1. UNCHANGED income /\ loc' = [loc EXCEPT ![t] = Nothing]
  BY DEF Commit, Done, exchange
<1>2. PICK l \in {"idle", "enforce"} : Goto(t, l)
  BY DEF Commit, Done
<1>3. /\ loc[t].cursor \in Cursors /\ loc[t].rows \subseteq Ids /\ since \in Nat
      /\ loc[t].first \in BOOLEAN
  BY DEF IInv, Shape, Good, Held
<1>4. since' = (IF loc[t].first THEN Larger(since, loc[t].cursor) ELSE since)
  BY DEF Commit
<1>5. since' \in Nat /\ since <= since' /\ (loc[t].first => loc[t].cursor <= since')
  BY <1>3, <1>4 DEF Larger, Cursors, Unset
<1>6. \A i \in Ids : ledger'.rows[i] = ledger.rows[i] + IF i \in loc[t].rows THEN 1 ELSE 0
  BY DEF Commit
<1>7. \A i \in loc[t].rows : ledger.rows[i] = 0
  BY <1>3 DEF Commit, Clashes, Imported, IInv, Shape
<1>8. ledger'.rows \in [Ids -> {0, 1}]
  <2>1. \A i \in Ids : ledger'.rows[i] \in {0, 1}
    BY <1>6, <1>7 DEF IInv, Shape
  <2>2. ledger'.rows = [i \in Ids |-> ledger'.rows[i]]
    BY DEF Commit
  <2> QED BY <2>1, <2>2
<1>9. Imported' = Imported \cup loc[t].rows
  BY <1>3, <1>6, <1>7, <1>8 DEF Imported, IInv, Shape
<1>10. "cursor" \in DOMAIN account' /\ account'.cursor \in {loc[t].cursor, account.cursor}
  BY DEF Commit, Stored, Column, IInv, Shape
<1>11. Shape'
  BY <1>1, <1>2, <1>3, <1>5, <1>8, <1>10 DEF Shape, IInv, Goto
<1>12. ((since + 1)..account.cursor \subseteq Imported)'
  <2>1. CASE account'.cursor = account.cursor
    BY <1>3, <1>5, <1>9, <2>1 DEF IInv, Shape, Cursors, Unset
  <2>2. CASE account'.cursor = loc[t].cursor /\ loc[t].first
    BY <1>3, <1>5, <2>2 DEF Cursors, Unset
  <2>3. CASE account'.cursor = loc[t].cursor /\ ~loc[t].first
    BY <1>3, <1>5, <1>9, <2>3 DEF IInv, Good, Covered, Cursors, Unset
  <2> QED BY <1>10, <2>1, <2>2, <2>3
<1>13. ASSUME NEW u \in Tasks PROVE Good(u)'
  <2>1. CASE u = t
    <3>1. loc'[t] = Nothing
      BY <1>1 DEF IInv, Shape
    <3>2. pc'[t] = l
      BY <1>2 DEF Goto, IInv, Shape
    <3> QED BY <1>2, <1>5, <2>1, <3>1, <3>2, NothingHeld DEF Good
  <2>2. CASE u # t
    <3>1. loc'[u] = loc[u] /\ pc'[u] = pc[u] /\ Good(u)
      BY <1>1, <1>2, <2>2 DEF Goto, IInv, Shape
    <3>2. Covered(loc[u], since, Imported)'
      BY <1>3, <1>5, <1>9, <3>1 DEF Good, Held, Covered, Cursors, Unset
    <3> QED BY <3>1, <3>2 DEF Good, Held, Staged
  <2> QED BY <2>1, <2>2
<1> QED BY <1>11, <1>12, <1>13 DEF IInv

\* Without postings the task held no rows, so the cursor may go where it has read to.
LEMMA StampStep ==
  ASSUME IInv, NEW t \in Tasks, Stamp(t) PROVE IInv'
<1>1. UNCHANGED <<income, ledger, since>> /\ loc' = [loc EXCEPT ![t] = Nothing]
  BY DEF Stamp, Done, exchange
<1>2. PICK l \in {"idle", "enforce"} : Goto(t, l)
  BY DEF Stamp, Done
<1>3. "cursor" \in DOMAIN account' /\ account'.cursor \in {loc[t].cursor, account.cursor}
  BY DEF Stamp, Stored, Column, IInv, Shape
<1>4. loc[t].cursor \in Cursors /\ ~loc[t].first /\ loc[t].rows = {}
  BY DEF Stamp, IInv, Good, Held, Staged
<1>5. Shape'
  BY <1>1, <1>2, <1>3, <1>4 DEF Shape, IInv, Goto
<1>6. ((since + 1)..account.cursor \subseteq Imported)'
  BY <1>1, <1>3, <1>4 DEF IInv, Good, Covered, Imported
<1>7. ASSUME NEW u \in Tasks PROVE Good(u)'
  <2>1. CASE u = t
    <3>1. loc'[t] = Nothing
      BY <1>1 DEF IInv, Shape
    <3>2. pc'[t] = l /\ since' \in Nat
      BY <1>1, <1>2 DEF Goto, IInv, Shape
    <3> QED BY <1>2, <2>1, <3>1, <3>2, NothingHeld DEF Good
  <2>2. CASE u # t
    BY <1>1, <1>2, <2>2 DEF Goto, IInv, Shape, Good, Held, Staged, Covered, Imported
  <2> QED BY <2>1, <2>2
<1> QED BY <1>5, <1>6, <1>7 DEF IInv

\* The exchange's side only appends; a restart forgets what was held.
LEMMA OutsideStep ==
  ASSUME MaxIncome \in Nat, IInv, Outside PROVE IInv'
<1>1. CASE Stop
  <2>1. UNCHANGED <<income, account, ledger, since>>
    BY <1>1 DEF Stop, exchange
  <2>2. /\ DOMAIN pc' = Tasks /\ DOMAIN loc' = Tasks
        /\ \A t \in Tasks : pc'[t] = "idle" /\ loc'[t] = Nothing
    BY <1>1 DEF Stop
  <2>3. Shape' /\ ((since + 1)..account.cursor \subseteq Imported)'
    BY <2>1, <2>2 DEF IInv, Shape, Imported
  <2>4. ASSUME NEW t \in Tasks PROVE Good(t)'
    <3>1. since' \in Nat
      BY <2>1 DEF IInv, Shape
    <3> QED BY <2>2, <3>1, NothingHeld DEF Good
  <2> QED BY <2>3, <2>4 DEF IInv
<1>2. ASSUME NEW amount \in Results \cup Transfers, NEW type \in {"RESULT", "TRANSFER"},
             NEW high, Happens(type, amount, high)
      PROVE  IInv'
  <2>1. UNCHANGED <<account, ledger, pc, loc, since>>
    BY <1>2 DEF Happens
  <2>2. [type |-> type, amount |-> amount] \in Entry
    BY DEF Entry
  <2>3. income' \in Seq(Entry) /\ Len(income') <= MaxIncome
    BY <1>2, <2>2 DEF Happens, Now, IInv, Shape
  <2>4. Shape' /\ ((since + 1)..account.cursor \subseteq Imported)'
    BY <2>1, <2>3 DEF IInv, Shape, Imported
  <2>5. \A t \in Tasks : Good(t)'
    BY <2>1 DEF IInv, Good, Held, Staged, Covered, Imported
  <2> QED BY <2>4, <2>5 DEF IInv
<1> QED BY <1>1, <1>2 DEF Outside, Result, Transfer

LEMMA StepKeeps == ASSUME MaxIncome \in Nat PROVE IInv /\ [Next]_vars => IInv'
<1> SUFFICES ASSUME IInv, [Next]_vars PROVE IInv'
  OBVIOUS
<1>1. ASSUME NEW t \in Tasks, Sync(t) PROVE IInv'
  <2>1. CASE ReadClock(t)
    <3>1. loc[t].first
      BY <2>1 DEF ReadClock, IInv, Good, Staged
    <3> QED BY <2>1, <3>1, ReadClockStep
  <2> QED BY <1>1, <2>1, BeginStep, ReadWalletStep, ReadIncomeStep, ReadSeenStep,
             ReadRowStep, OverStep, CommitStep, StampStep DEF Sync
<1>2. CASE UNCHANGED vars
  BY <1>2 DEF vars, exchange, IInv, Shape, Good, Held, Staged, Covered, Imported
<1>3. Loop \in Tasks /\ Requests \subseteq Tasks
  BY DEF Tasks
<1> QED BY <1>1, <1>2, <1>3, EnforceStep, OutsideStep DEF Next, Round

\* However many requests sync beside the loop, whatever fails and whenever the process
\* restarts: income after the first sync is booked at most once, and the cursor passes
\* none that is not booked (sync_exchange).
THEOREM ImportedOnce == ASSUME MaxIncome \in Nat PROVE Spec => []IncomeImported
<1>1. Init => IInv
  BY InitInv
<1>2. IInv /\ [Next]_vars => IInv'
  BY StepKeeps
<1>3. IInv => IncomeImported
  BY DEF IInv, Shape, IncomeImported
<1> QED BY <1>1, <1>2, <1>3, PTL DEF Spec
=============================================================================
