---------------------------- MODULE Schema_proofs ----------------------------
(* NothingLeftNull and BotTradesKept for any bots, rows, time between them, and any
   way up and down the chain of revisions.  Both are statements about single rows,
   and so is the invariant: what a row has to say at a revision, and whose bot it
   can still name.
   LinksRight relates orders to trades.  Its invariant, LInv, says what an order at
   market knows of the trade it was for, and that no two trades share a moment: the
   trade is then the nearest of all that fit the order, LIMIT trades included.  *)
EXTENDS Schema, WellFoundedInduction, TLAPS

\* Once a bot is deleted no row names it; until then every row of the bot does.
Owned(p, bs) ==
  /\ p.bot \in {p.by, Null}
  /\ p.by # Null /\ bs[p.by] # "none" => p.bot = p.by
Filled(p, r) ==
  /\ r >= InitSl => p.init
  /\ r >= Snapshot => p.source # "null"
EntriesNear(p, entries) == {a \in entries : SameMode(a.bot, p.by) /\ Near(a.at, p.at, SourceWindow)}
Told(p, entries) == EntriesNear(p, entries) # {} /\ \A a \in EntriesNear(p, entries) : a.bot = p.by
Attributed(p, r, entries) ==
  r >= Snapshot /\ p.by # Null /\ (p.bot = Null => Told(p, entries))
    => p.source = "BOT" /\ p.ref = p.by
RowOK(p, r, bs, entries) ==
  /\ p \in Position
  /\ Owned(p, bs)
  /\ Filled(p, r)
  /\ Attributed(p, r, entries)

Base ==
  /\ rev \in Nat /\ now \in Nat
  /\ audits \subseteq Audit
  /\ bots \in [Bots -> {"none", "null", "main"}]
  /\ rev >= Ledger => \A b \in Bots \ Testnet : bots[b] # "null"
Rows ==
  /\ positions \in Seq(Position)
  /\ \A i \in 1..Len(positions) : RowOK(positions[i], rev, bots, audits)
IInv == Base /\ Rows

\* No bot is there again once it is deleted.
NoneBack(bs, cs) == \A b \in Bots : cs[b] # "none" => bs[b] # "none"

\* What the assumption on the constants and the ids say to the provers.
LEMMA Constants ==
  /\ SourceWindow \in Nat /\ SizingWindow \in Nat
  /\ Null = -1 /\ Null \notin Nat /\ Bots \subseteq Nat /\ Null \notin Bots
  /\ Owners = Bots \cup {Null}
  /\ InitSl = 10 /\ Snapshot = 11 /\ Ledger = 12
  /\ EntryPrices \subseteq Prices
  BY SchemaConstants DEF SchemaConstants, Null, InitSl, Snapshot, Ledger, Owners

\* A step that rewrites every row keeps Rows when each new row says what it has to.
LEMMA RowByRow ==
  ASSUME Rows, NEW f, positions' = f, f = [i \in 1..Len(positions) |-> f[i]],
         \A i \in 1..Len(positions) : RowOK(f[i], rev', bots', audits')
  PROVE  Rows'
<1>1. Len(positions) \in Nat
  BY DEF Rows
<1>2. \A i \in 1..Len(positions) : f[i] \in Position
  BY DEF RowOK
<1>3. f \in [1..Len(positions) -> Position]
  BY <1>2
<1>4. f \in Seq(Position) /\ Len(f) = Len(positions)
  BY <1>1, <1>3
<1> QED
  BY <1>4 DEF Rows

\* A step that leaves the rows and what they depend on.
LEMMA RowsStay ==
  ASSUME Rows, UNCHANGED <<rev, bots, positions, audits>>
  PROVE  Rows'
  BY DEF Rows

\* An audit entry comes only while its bot is there, and every row of the bot names it:
\* what a row says does not depend on the entry.
LEMMA EntryKeeps ==
  ASSUME IInv, NEW by \in Owners, CanTrade(by), Audited(by), now' = now + 1,
         NEW p, RowOK(p, rev, bots, audits)
  PROVE  RowOK(p, rev, bots, audits')
<1>1. CASE audits' = audits
  BY <1>1
<1>2. CASE audits' # audits
  <2>1. /\ by # Null /\ bots[by] # "none"
        /\ audits' = audits \cup {[bot |-> by, at |-> now']}
    BY <1>2 DEF Audited, CanTrade
  <2>2. p.by = by => p.bot = by
    BY <2>1 DEF RowOK, Owned
  <2>3. ASSUME p.bot = Null, Told(p, audits')
        PROVE Told(p, audits)
    <3>1. p.by # by
      BY <2>1, <2>2, <2>3
    <3>2. ASSUME NEW a \in EntriesNear(p, audits')
          PROVE a \in EntriesNear(p, audits)
      <4>1. a.bot = p.by /\ a \in audits'
        BY <2>3 DEF Told, EntriesNear
      <4>2. a \in audits
        BY <2>1, <3>1, <4>1
      <4> QED BY <4>2 DEF EntriesNear
    <3>3. \A a \in EntriesNear(p, audits) : a \in EntriesNear(p, audits')
      BY <2>1 DEF EntriesNear
    <3> QED BY <2>3, <3>2, <3>3 DEF Told
  <2>4. Attributed(p, rev, audits')
    BY <2>3 DEF RowOK, Attributed
  <2> QED BY <2>4 DEF RowOK
<1> QED BY <1>1, <1>2

\* What Base says of a step that leaves the revision and the bots.
LEMMA BaseKeeps ==
  ASSUME Base, UNCHANGED <<rev, bots>>, now' \in Nat, audits' \subseteq Audit
  PROVE  Base'
  BY DEF Base

\* The entries stay entries.
LEMMA AuditKeeps ==
  ASSUME Base, NEW by \in Owners, Audited(by), Tick
  PROVE  now' \in Nat /\ audits' \subseteq Audit
<1>1. now' \in Nat /\ (by # Null => by \in Bots)
  BY Constants DEF Base, Tick
<1>2. by # Null => [bot |-> by, at |-> now'] \in Audit
  BY <1>1 DEF Audit
<1> QED BY <1>1, <1>2 DEF Audited, Base

\* A row that is written says all there is to say at its revision.
LEMMA NewRowOK ==
  ASSUME IInv, NEW by \in Owners, NEW side \in {"LONG", "SHORT"}, NEW price \in Prices,
         now' \in Nat, NEW entries
  PROVE  /\ NewPosition(by, side, price) \in Position
         /\ RowOK(NewPosition(by, side, price), rev, bots, entries)
<1> DEFINE p == NewPosition(by, side, price)
<1>1. /\ p.bot = by /\ p.by = by /\ p.init = Since(InitSl, TRUE, FALSE)
      /\ p.source = SaysSince(Snapshot, IF by = Null THEN "MANUAL" ELSE "BOT")
      /\ p.ref = Since(Snapshot, by, Null)
  BY DEF NewPosition
<1>2. p \in Position
  BY Constants DEF NewPosition, Position, Since, SaysSince
<1> HIDE DEF p
<1>3. Owned(p, bots)
  BY <1>1 DEF Owned
<1>4. Filled(p, rev)
  BY <1>1, Constants DEF Filled, Since, SaysSince, IInv, Base
<1>5. Attributed(p, rev, entries)
  BY <1>1, Constants DEF Attributed, Since, SaysSince
<1>6. p \in Position /\ RowOK(p, rev, bots, entries)
  BY <1>2, <1>3, <1>4, <1>5 DEF RowOK
<1> QED BY <1>6 DEF p

\* A row at the end.
LEMMA RowAdded ==
  ASSUME IInv, NEW p, RowOK(p, rev, bots, audits'), positions' = Append(positions, p),
         UNCHANGED <<rev, bots>>,
         \A i \in 1..Len(positions) : RowOK(positions[i], rev, bots, audits')
  PROVE  Rows'
<1>1. positions \in Seq(Position) /\ Len(positions) \in Nat /\ p \in Position
  BY DEF IInv, Rows, RowOK
<1>2. /\ positions' \in Seq(Position) /\ Len(positions') = Len(positions) + 1
      /\ positions'[Len(positions) + 1] = p
      /\ \A i \in 1..Len(positions) : positions'[i] = positions[i]
  BY <1>1
<1> QED BY <1>1, <1>2 DEF Rows

LEMMA OpenKeeps ==
  ASSUME IInv, NEW by \in Owners, NEW side \in {"LONG", "SHORT"}, NEW price \in Prices,
         OpenPosition(by, side, price)
  PROVE  IInv'
<1> DEFINE p == NewPosition(by, side, price)
<1>1. /\ positions' = Append(positions, p) /\ Tick /\ now' = now + 1 /\ CanTrade(by)
      /\ Audited(by) /\ UNCHANGED <<rev, bots>>
  BY DEF OpenPosition, Tick
<1>2. now' \in Nat /\ audits' \subseteq Audit
  BY <1>1, AuditKeeps DEF IInv
<1>3. Base'
  BY <1>1, <1>2, BaseKeeps DEF IInv
<1>4. RowOK(p, rev, bots, audits')
  BY <1>2, NewRowOK
<1>5. \A i \in 1..Len(positions) : RowOK(positions[i], rev, bots, audits')
  BY <1>1, EntryKeeps DEF IInv, Rows
<1> HIDE DEF p
<1>6. Rows'
  BY <1>1, <1>4, <1>5, RowAdded
<1> QED BY <1>3, <1>6 DEF IInv

\* An order that waits writes no position.
LEMMA QueueKeeps ==
  ASSUME IInv, NEW by \in Owners, NEW side \in {"BUY", "SELL"}, NEW price \in Prices,
         QueueLimit(by, side, price)
  PROVE  IInv'
<1>1. /\ positions' = positions /\ Tick /\ now' = now + 1 /\ CanTrade(by)
      /\ Audited(by) /\ UNCHANGED <<rev, bots>>
  BY DEF QueueLimit, Tick
<1>2. Base'
  BY <1>1, AuditKeeps, BaseKeeps DEF IInv
<1>3. \A i \in 1..Len(positions) : RowOK(positions[i], rev, bots, audits')
  BY <1>1, EntryKeeps DEF IInv, Rows
<1> QED BY <1>1, <1>2, <1>3 DEF IInv, Rows

LEMMA FillKeeps ==
  ASSUME IInv, orders \in Seq(Order), NEW k \in 1..Len(orders), FillLimit(k)
  PROVE  IInv'
<1> DEFINE o == orders[k]
           side == IF o.side = "BUY" THEN "LONG" ELSE "SHORT"
           p == NewPosition(o.by, side, o.price)
<1>1. /\ positions' = Append(positions, p) /\ Tick /\ UNCHANGED <<rev, bots, audits>>
  BY DEF FillLimit
<1>2. o.by \in Owners /\ o.price \in Prices /\ side \in {"LONG", "SHORT"}
  <2>1. o \in Order
    OBVIOUS
  <2> HIDE DEF o
  <2> QED BY <2>1 DEF Order
<1>3. now' \in Nat
  BY <1>1 DEF Tick, IInv, Base
<1>4. Base'
  BY <1>1, <1>3, BaseKeeps DEF IInv, Base
<1>5. RowOK(p, rev, bots, audits)
  <2> HIDE DEF side, o
  <2> QED BY <1>2, <1>3, NewRowOK
<1> HIDE DEF p
<1>6. Rows'
  BY <1>1, <1>5, RowAdded DEF IInv, Rows
<1> QED BY <1>4, <1>6 DEF IInv

\* What the application and the revisions write into a row leaves it a row.
LEMMA WrittenRow ==
  ASSUME NEW p \in Position
  PROVE  /\ [p EXCEPT !.bot = Null] \in Position
         /\ \A x \in BOOLEAN : [p EXCEPT !.init = x] \in Position
         /\ [p EXCEPT !.source = "MANUAL"] \in Position
         /\ [p EXCEPT !.source = "null", !.ref = Null] \in Position
         /\ \A x \in Owners : [p EXCEPT !.source = "BOT", !.ref = x] \in Position
         /\ \A x \in BOOLEAN : [p EXCEPT !.sized = x] \in Position
<1>1. [p EXCEPT !.bot = Null] \in Position
  BY Constants DEF Position
<1>2. \A x \in BOOLEAN : [p EXCEPT !.init = x] \in Position
  BY DEF Position
<1>3. [p EXCEPT !.source = "MANUAL"] \in Position
  BY DEF Position
<1>4. [p EXCEPT !.source = "null", !.ref = Null] \in Position
  BY Constants DEF Position
<1>5. \A x \in Owners : [p EXCEPT !.source = "BOT", !.ref = x] \in Position
  BY DEF Position
<1>6. \A x \in BOOLEAN : [p EXCEPT !.sized = x] \in Position
  BY DEF Position
<1> QED
  BY <1>1, <1>2, <1>3, <1>4, <1>5, <1>6

\* A closed row is a row.
LEMMA ClosedRow ==
  ASSUME NEW p \in Position, NEW t \in Nat, NEW price \in Prices
  PROVE  [p EXCEPT !.closed = t, !.exit = price] \in Position
  BY DEF Position

\* Nothing that a revision wrote changes in a row that is closed.
LEMMA CloseKeeps ==
  ASSUME IInv, NEW i \in 1..Len(positions), NEW price \in Prices, ClosePosition(i, price)
  PROVE  IInv'
<1> DEFINE q == [positions[i] EXCEPT !.closed = now', !.exit = price]
<1>1. /\ positions' = [positions EXCEPT ![i].closed = now', ![i].exit = price]
      /\ now' = now + 1 /\ now \in Nat /\ UNCHANGED <<rev, bots, audits>>
  BY DEF ClosePosition, Tick, IInv, Base
<1>2. positions \in Seq(Position) /\ positions[i] \in Position /\ Len(positions) \in Nat
  BY DEF IInv, Rows
<1>3. q \in Position
  <2>1. now' \in Nat
    BY <1>1
  <2> QED
    BY <1>2, <2>1, ClosedRow, Zenon
<1>4. positions' = [positions EXCEPT ![i] = q]
  BY <1>1, <1>2 DEF Position
<1>5. /\ q.by = positions[i].by /\ q.bot = positions[i].bot /\ q.at = positions[i].at
      /\ q.init = positions[i].init /\ q.source = positions[i].source /\ q.ref = positions[i].ref
  BY <1>2 DEF Position
<1>6. Base'
  BY <1>1, BaseKeeps DEF IInv, Base
<1> HIDE DEF q
<1>7. /\ positions' \in Seq(Position) /\ Len(positions') = Len(positions)
      /\ \A j \in 1..Len(positions) : positions'[j] = IF j = i THEN q ELSE positions[j]
  BY <1>2, <1>3, <1>4
<1>8. RowOK(q, rev, bots, audits)
  <2>1. RowOK(positions[i], rev, bots, audits)
    BY DEF IInv, Rows
  <2>2. Owned(q, bots) /\ Filled(q, rev)
    BY <1>5, <2>1 DEF RowOK, Owned, Filled
  <2>3. EntriesNear(q, audits) = EntriesNear(positions[i], audits)
    BY <1>5 DEF EntriesNear
  <2>4. Attributed(q, rev, audits)
    BY <1>5, <2>1, <2>3 DEF RowOK, Attributed, Told
  <2> QED BY <1>3, <2>2, <2>4 DEF RowOK
<1>9. \A j \in 1..Len(positions') : RowOK(positions'[j], rev, bots, audits)
  BY <1>7, <1>8 DEF IInv, Rows
<1> QED
  BY <1>1, <1>6, <1>7, <1>9 DEF IInv, Rows

\* The rows of a deleted bot stop naming it, but keep the source and the id they have.
LEMMA DeleteKeeps ==
  ASSUME IInv, NEW b \in Bots, DeleteBot(b)
  PROVE  IInv'
<1> DEFINE f == [i \in 1..Len(positions) |-> Orphaned(positions[i], b)]
<1>1. /\ positions' = f /\ bots' = [bots EXCEPT ![b] = "none"] /\ UNCHANGED <<rev, now, audits>>
  BY DEF DeleteBot
<1>2. bots \in [Bots -> {"none", "null", "main"}] /\ b # Null
  BY Constants DEF IInv, Base
<1>3. bots'[b] = "none" /\ \A c \in Bots \ {b} : bots'[c] = bots[c]
  BY <1>1, <1>2
<1>4. ASSUME NEW i \in 1..Len(positions)
      PROVE RowOK(f[i], rev', bots', audits')
  <2> DEFINE p == positions[i]
             q == Orphaned(p, b)
  <2>1. RowOK(p, rev, bots, audits) /\ p \in Position
    BY DEF IInv, Rows, RowOK
  <2>2. /\ q \in Position /\ q.by = p.by /\ q.at = p.at
        /\ q.bot = (IF p.bot = b THEN Null ELSE p.bot)
        /\ q.init = p.init /\ q.source = p.source /\ q.ref = p.ref
    <3>1. [p EXCEPT !.bot = Null] \in Position
      BY <2>1, WrittenRow
    <3> HIDE DEF p
    <3> QED BY <2>1, <3>1 DEF Orphaned, Position
  <2> HIDE DEF q, p
  <2>3. p.by \in Owners /\ (p.by # Null => p.by \in Bots)
    BY <2>1, Constants DEF Position
  <2>4. Owned(q, bots') /\ Filled(q, rev)
    BY <1>2, <1>3, <2>1, <2>2, <2>3 DEF RowOK, Owned, Filled
  <2>5. EntriesNear(q, audits) = EntriesNear(p, audits)
    BY <2>2 DEF EntriesNear
  <2>6. p.bot = b => p.bot # Null
    BY <1>2
  <2>7. Attributed(q, rev, audits)
    BY <2>1, <2>2, <2>5, <2>6 DEF RowOK, Attributed, Told
  <2>8. RowOK(q, rev', bots', audits')
    BY <1>1, <2>2, <2>4, <2>7 DEF RowOK
  <2> QED
    BY <2>8 DEF q, p
<1>5. Base'
  BY <1>1, <1>2, <1>3 DEF IInv, Base
<1>6. Rows'
  <2>1. Rows /\ f = [i \in 1..Len(positions) |-> f[i]]
    BY DEF IInv
  <2> HIDE DEF f
  <2> QED
    BY <1>1, <1>4, <2>1, RowByRow
<1> QED
  BY <1>5, <1>6 DEF IInv

\* The label of a row: by its bot, else by an entry near its opening.
LEMMA LabelledOK ==
  ASSUME Base, NEW p, RowOK(p, rev, bots, audits), NEW found \in Bots, MayFind(p, found),
         rev' = Snapshot, Owned(p, bots'), audits' = audits, rev = Snapshot - 1
  PROVE  RowOK(Labelled(p, found), rev', bots', audits')
<1> DEFINE q == Labelled(p, found)
<1>1. /\ p \in Position /\ p.bot \in {p.by, Null} /\ p.by \in Owners /\ p.bot \in Owners
      /\ found \in Owners /\ Entries(p) = EntriesNear(p, audits)
  BY Constants DEF RowOK, Owned, Position, Entries, EntriesNear
<1>2. q \in Position
  BY <1>1, WrittenRow DEF Labelled
<1>3. /\ q.by = p.by /\ q.bot = p.bot /\ q.at = p.at /\ q.init = p.init
      /\ q.source \in {"BOT", "MANUAL"}
  BY <1>1 DEF Labelled, Position
<1>4. p.bot # Null => q.source = "BOT" /\ q.ref = p.bot
  BY <1>1 DEF Labelled, Position
<1>5. p.bot = Null /\ Entries(p) # {} => q.source = "BOT" /\ q.ref = found
  BY <1>1 DEF Labelled, Position
<1> HIDE DEF q
<1>6. EntriesNear(q, audits) = EntriesNear(p, audits)
  BY <1>3 DEF EntriesNear
<1>7. p.bot = Null /\ Told(p, audits) => q.source = "BOT" /\ q.ref = p.by
  BY <1>1, <1>5 DEF Told, MayFind
<1>8. Owned(q, bots') /\ Filled(q, rev')
  BY <1>3, Constants DEF RowOK, Owned, Filled
<1>9. Attributed(q, rev', audits')
  BY <1>1, <1>3, <1>4, <1>6, <1>7 DEF Attributed, Told
<1>10. RowOK(q, rev', bots', audits')
  BY <1>2, <1>8, <1>9 DEF RowOK
<1> QED
  BY <1>10 DEF q

\* The four cases of FilledRow exclude each other.
LEMMA FilledCases ==
  ASSUME NEW r, NEW p, NEW f
  PROVE  /\ r = InitSl => FilledRow(r, p, f) = [p EXCEPT !.init = TRUE]
         /\ r = Snapshot => FilledRow(r, p, f) = Labelled(p, f)
         /\ r = Sizing => FilledRow(r, p, f) = SizedFrom(p)
         /\ r \notin {InitSl, Snapshot, Sizing} => FilledRow(r, p, f) = p
<1>1. InitSl # Snapshot /\ InitSl # Sizing /\ Snapshot # Sizing
  BY DEF InitSl, Snapshot, Sizing
<1>2. CASE r = InitSl
  BY <1>1, <1>2, Zenon DEF FilledRow
<1>3. CASE r = Snapshot
  BY <1>1, <1>3, Zenon DEF FilledRow
<1>4. CASE r = Sizing
  BY <1>1, <1>4, Zenon DEF FilledRow
<1>5. CASE r \notin {InitSl, Snapshot, Sizing}
  BY <1>1, <1>5, Zenon DEF FilledRow
<1> QED
  BY <1>2, <1>3, <1>4, <1>5, Zenon

\* What an upgrade fills in is what the new revision asks of a row.
LEMMA FilledRowOK ==
  ASSUME Base, NEW p, RowOK(p, rev, bots, audits), NEW found \in Bots, MayFind(p, found),
         rev' = rev + 1, audits' = audits, Owned(p, bots')
  PROVE  RowOK(FilledRow(rev + 1, p, found), rev', bots', audits')
<1> DEFINE q == FilledRow(rev + 1, p, found)
<1>1. /\ p \in Position /\ rev \in Nat /\ Filled(p, rev) /\ Attributed(p, rev, audits)
  BY DEF RowOK, Base
<1>2. CASE rev + 1 = Snapshot
  <2>1. q = Labelled(p, found)
    BY <1>2, FilledCases
  <2>2. rev' = Snapshot /\ rev = Snapshot - 1
    BY <1>1, <1>2, Constants
  <2>3. RowOK(Labelled(p, found), rev', bots', audits')
    BY <1>1, <2>2, LabelledOK
  <2> QED
    BY <2>1, <2>3
<1>3. CASE rev + 1 = InitSl
  <2>1. q = [p EXCEPT !.init = TRUE]
    BY <1>3, FilledCases
  <2>2. q.by = p.by /\ q.bot = p.bot /\ q.init
    BY <1>1, <2>1, Constants DEF Position
  <2>3. q \in Position
    BY <1>1, <2>1, WrittenRow, Zenon
  <2> HIDE DEF q
  <2>4. Owned(q, bots') /\ Filled(q, rev') /\ Attributed(q, rev', audits')
    BY <1>1, <1>3, <2>2, Constants DEF Owned, Filled, Attributed
  <2>5. RowOK(q, rev', bots', audits')
    BY <2>3, <2>4 DEF RowOK
  <2> QED
    BY <2>5 DEF q
<1>4. ASSUME rev + 1 \notin {InitSl, Snapshot}
      PROVE RowOK(p, rev', bots', audits')
  <2>1. Filled(p, rev') /\ Attributed(p, rev', audits')
    BY <1>1, <1>4, Constants DEF Filled, Attributed
  <2> QED
    BY <1>1, <2>1 DEF RowOK
<1>5. CASE rev + 1 = Sizing
  <2>1. q = SizedFrom(p) /\ rev + 1 \notin {InitSl, Snapshot}
    BY <1>5, FilledCases, Constants DEF Sizing
  <2>2. /\ q.by = p.by /\ q.bot = p.bot /\ q.init = p.init /\ q.at = p.at
        /\ q.source = p.source /\ q.ref = p.ref
    BY <1>1, <2>1 DEF Position, SizedFrom
  <2>3. q \in Position
    <3> DEFINE x == p.sized \/ \E a \in audits :
                 /\ a.bot = Owner(p) /\ SameMode(a.bot, p.by)
                 /\ p.at - SizingWindow <= a.at /\ a.at <= p.at + SourceWindow
    <3>1. p.sized \in BOOLEAN
      BY <1>1 DEF Position
    <3>2. x \in BOOLEAN /\ q = [p EXCEPT !.sized = x]
      BY <2>1, <3>1, Zenon DEF SizedFrom
    <3> HIDE DEF x
    <3> QED
      BY <1>1, <3>2, WrittenRow, Zenon
  <2> HIDE DEF q
  <2>4. RowOK(p, rev', bots', audits')
    BY <1>4, <2>1
  <2>5. RowOK(q, rev', bots', audits')
    BY <2>2, <2>3, <2>4 DEF RowOK, Owned, Filled, Attributed, Told, EntriesNear
  <2> QED
    BY <2>5 DEF q
<1>6. CASE rev + 1 \notin {InitSl, Snapshot, Sizing}
  <2>1. q = p
    BY <1>6, FilledCases
  <2> QED
    BY <1>4, <1>6, <2>1
<1> QED
  BY <1>2, <1>3, <1>5, <1>6

\* A row is as much its bot's as before when no deleted bot comes back.
LEMMA OwnedStays ==
  ASSUME NEW p \in Position, NEW bs, NEW cs, Owned(p, bs), NoneBack(bs, cs)
  PROVE  Owned(p, cs)
<1>1. p.by # Null => p.by \in Bots
  BY Constants DEF Position
<1> QED BY <1>1 DEF Owned, NoneBack

\* An upgrade keeps the invariant.
LEMMA UpgradeKeeps ==
  ASSUME IInv, Upgrade
  PROVE  IInv'
<1>1. PICK found \in [1..Len(positions) -> Bots] :
        /\ \A i \in 1..Len(positions) : MayFind(positions[i], found[i])
        /\ positions' = [i \in 1..Len(positions) |-> FilledRow(rev + 1, positions[i], found[i])]
  BY DEF Upgrade, FillsIn
<1> DEFINE f == [i \in 1..Len(positions) |-> FilledRow(rev + 1, positions[i], found[i])]
<1>2. /\ rev' = rev + 1 /\ rev \in Nat /\ positions' = f /\ UNCHANGED <<now, audits>>
      /\ bots' = [b \in Bots |-> IF rev + 1 = Ledger /\ bots[b] # "none" /\ b \notin Testnet
                                 THEN "main" ELSE bots[b]]
  BY <1>1 DEF Upgrade, FillsIn, IInv, Base
<1>3. Rows /\ Base /\ bots \in [Bots -> {"none", "null", "main"}]
  BY DEF IInv, Base
<1>4. bots' \in [Bots -> {"none", "null", "main"}] /\ NoneBack(bots, bots')
  BY <1>2, <1>3 DEF NoneBack
<1>5. Base'
  BY <1>2, <1>3, <1>4, Constants DEF Base
<1>6. ASSUME NEW i \in 1..Len(positions)
      PROVE RowOK(f[i], rev', bots', audits')
  <2>1. RowOK(positions[i], rev, bots, audits) /\ MayFind(positions[i], found[i]) /\ found[i] \in Bots
    BY <1>1, <1>3 DEF Rows
  <2>2. Owned(positions[i], bots')
    BY <1>4, <2>1, OwnedStays DEF RowOK
  <2>3. RowOK(FilledRow(rev + 1, positions[i], found[i]), rev', bots', audits')
    BY <1>2, <1>3, <2>1, <2>2, FilledRowOK
  <2> QED
    BY <2>3
<1>7. f = [i \in 1..Len(positions) |-> f[i]]
  OBVIOUS
<1> HIDE DEF f
<1>8. Rows'
  BY <1>2, <1>3, <1>6, <1>7, RowByRow
<1> QED
  BY <1>5, <1>8 DEF IInv

\* What a downgrade drops, the old revision does not ask for.
LEMMA LostRowOK ==
  ASSUME Base, NEW p, RowOK(p, rev, bots, audits), rev > 3, rev' = rev - 1, audits' = audits,
         Owned(p, bots')
  PROVE  RowOK(LostRow(rev, p), rev', bots', audits')
<1> DEFINE q == LostRow(rev, p)
<1>1. /\ p \in Position /\ rev \in Nat /\ Filled(p, rev) /\ Attributed(p, rev, audits)
  BY DEF RowOK, Base
<1>2. q \in Position
  <2>1. /\ [p EXCEPT !.init = FALSE] \in Position
        /\ [p EXCEPT !.source = "null", !.ref = Null] \in Position
        /\ [p EXCEPT !.sized = FALSE] \in Position
    BY <1>1, WrittenRow
  <2> QED
    BY <1>1, <2>1 DEF LostRow
<1>3. /\ q.by = p.by /\ q.bot = p.bot /\ q.at = p.at
      /\ rev # InitSl => q.init = p.init
      /\ rev # Snapshot => q.source = p.source /\ q.ref = p.ref
  BY <1>1, Constants DEF LostRow, Position, Sizing
<1> HIDE DEF q
<1>4. Owned(q, bots') /\ Filled(q, rev')
  BY <1>1, <1>3, Constants DEF Owned, Filled
<1>5. Attributed(q, rev', audits')
  BY <1>1, <1>3, Constants DEF Attributed, Told, EntriesNear
<1>6. RowOK(q, rev', bots', audits')
  BY <1>2, <1>4, <1>5 DEF RowOK
<1> QED
  BY <1>6 DEF q

\* A downgrade keeps the invariant.
LEMMA DowngradeKeeps ==
  ASSUME IInv, Downgrade
  PROVE  IInv'
<1> DEFINE f == [i \in 1..Len(positions) |-> LostRow(rev, positions[i])]
<1>1. /\ rev' = rev - 1 /\ rev \in Nat /\ rev > 3 /\ positions' = f /\ UNCHANGED <<now, audits>>
      /\ bots' = [b \in Bots |-> IF rev = Ledger /\ bots[b] # "none" THEN "null" ELSE bots[b]]
  BY DEF Downgrade, Loses, IInv, Base
<1>2. Rows /\ Base /\ bots \in [Bots -> {"none", "null", "main"}]
  BY DEF IInv, Base
<1>3. bots' \in [Bots -> {"none", "null", "main"}] /\ NoneBack(bots, bots')
  BY <1>1, <1>2 DEF NoneBack
<1>4. Base'
  BY <1>1, <1>2, <1>3, Constants DEF Base
<1>5. ASSUME NEW i \in 1..Len(positions)
      PROVE RowOK(f[i], rev', bots', audits')
  <2>1. RowOK(positions[i], rev, bots, audits)
    BY <1>2 DEF Rows
  <2>2. Owned(positions[i], bots')
    BY <1>3, <2>1, OwnedStays DEF RowOK
  <2>3. RowOK(LostRow(rev, positions[i]), rev', bots', audits')
    BY <1>1, <1>2, <2>1, <2>2, LostRowOK
  <2> QED
    BY <2>3
<1>6. f = [i \in 1..Len(positions) |-> f[i]]
  OBVIOUS
<1> HIDE DEF f
<1>7. Rows'
  BY <1>1, <1>2, <1>5, <1>6, RowByRow
<1> QED
  BY <1>4, <1>7 DEF IInv

\* Orders are orders: what a LIMIT order that fills is told about.
OrdersTyped == orders \in Seq(Order)

\* The invariant is inductive.
LEMMA StepKeeps ==
  ASSUME IInv, OrdersTyped, [Next]_vars
  PROVE  IInv'
<1>1. CASE Application
  <2>1. ASSUME NEW by \in Owners, NEW price \in EntryPrices,
               \/ \E side \in {"LONG", "SHORT"} : OpenPosition(by, side, price)
               \/ \E side \in {"BUY", "SELL"} : QueueLimit(by, side, price)
        PROVE IInv'
    BY <2>1, Constants, OpenKeeps, QueueKeeps
  <2>2. ASSUME NEW k \in 1..Len(orders), FillLimit(k)
        PROVE IInv'
    BY <2>2, FillKeeps DEF OrdersTyped
  <2>3. ASSUME NEW i \in 1..Len(positions), NEW price \in Prices, ClosePosition(i, price)
        PROVE IInv'
    BY <2>3, CloseKeeps
  <2>4. ASSUME NEW b \in Bots, DeleteBot(b)
        PROVE IInv'
    BY <2>4, DeleteKeeps
  <2>5. CASE ImportFunding
    <3>1. UNCHANGED <<rev, now, bots, positions, audits>>
      BY <2>5 DEF ImportFunding
    <3> QED BY <3>1, BaseKeeps, RowsStay DEF IInv, Base
  <2> QED BY <1>1, <2>1, <2>2, <2>3, <2>4, <2>5 DEF Application
<1>2. CASE Upgrade
  BY <1>2, UpgradeKeeps
<1>3. CASE Downgrade
  BY <1>3, DowngradeKeeps
<1>4. CASE UNCHANGED vars
  <2>1. UNCHANGED <<rev, now, bots, positions, audits>>
    BY <1>4 DEF vars, rowVars
  <2> QED
    BY <2>1, BaseKeeps, RowsStay DEF IInv, Base
<1> QED
  BY <1>1, <1>2, <1>3, <1>4 DEF Next

\* An empty database at no revision has no row to fill in.
LEMMA Starts ==
  ASSUME Init
  PROVE  IInv
<1>1. Base
  BY Constants DEF Init, Base
<1>2. Rows
  BY DEF Init, Rows
<1> QED
  BY <1>1, <1>2 DEF IInv

-----------------------------------------------------------------------------
(* Links.  Orders and trades are told apart by when they happened: LInv has *)
(* what an order knows of its trade, and that no two trades share a moment. *)

\* What the application never changes of a trade once it is written.
SameTrade(p, q) ==
  /\ q.by = p.by /\ q.at = p.at /\ q.side = p.side /\ q.price = p.price
  /\ p.closed # Null => q.closed = p.closed /\ q.exit = p.exit

\* Matches, of any rows.
Fits(p, o, intent) ==
  /\ SameMode(p.by, o.by)
  /\ Owner(p) = o.bot
  /\ o.side = Side(p, intent)
  /\ When(p, intent) # Null
  /\ Near(o.at, When(p, intent), LinkWindow)
  /\ o.price = Price(p, intent)

\* An order at market has the moment, price and side of what it did to its trade.
Booked(o, ps) ==
  /\ o \in Order /\ o.of \in 1..Len(ps) /\ o.status = "FILLED"
  /\ When(ps[o.of], o.was) # Null /\ o.at = When(ps[o.of], o.was)
  /\ o.price = Price(ps[o.of], o.was) /\ o.side = Side(ps[o.of], o.was)
  /\ o.by = ps[o.of].by /\ o.bot \in {o.by, Null}
Right(o, ps) ==
  /\ o.pos # Null
  /\ Owner(ps[o.of]) = o.bot
  /\ o.was = "OPEN" => \A i \in 1..Len(ps) : ~Fits(ps[i], o, "CLOSE")
  => o.pos = o.of /\ o.intent = o.was
LinkOK(o, ps, r) ==
  /\ o \in Order
  /\ r < Links => o.pos = Null
  /\ o.type = "MARKET" => /\ Booked(o, ps)
                          /\ o.bot = o.by => Right(o, ps)

Moment(p, t) == /\ p.at \in Nat /\ p.at <= t
                /\ p.closed # Null => p.closed \in Nat /\ p.closed <= t
Apart(p, q) == p.at # q.at /\ (p.closed = q.closed => p.closed = Null)
Moments(ps, t) ==
  /\ \A i \in 1..Len(ps) : Moment(ps[i], t)
  /\ \A i, j \in 1..Len(ps) : i # j => Apart(ps[i], ps[j])
LInv ==
  /\ orders \in Seq(Order)
  /\ Moments(positions, now)
  /\ \A k \in 1..Len(orders) : LinkOK(orders[k], positions, rev)

LEMMA MatchesFit ==
  ASSUME NEW o, NEW intent
  PROVE  Matches(o, intent) = {i \in 1..Len(positions) : Fits(positions[i], o, intent)}
BY DEF Matches, Fits

LEMMA Revisions == Links = 15 /\ Newest \in Nat /\ LinkWindow \in Nat /\ Null = -1 /\ Null \notin Nat
                   /\ InitSl = 10 /\ Snapshot = 11 /\ Sizing = 16
BY SchemaConstants DEF Links, Null, Newest, Chain, InitSl, Snapshot, Sizing

\* Rows that say the same of every trade keep what an order knows of it; from the revision
\* of the links on, rows also keep their owner.
LEMMA OrderStays ==
  ASSUME NEW ps, NEW qs, NEW o, NEW r \in Nat, NEW s \in Nat,
         LinkOK(o, ps, r), Len(ps) \in Nat, Len(qs) \in Nat, Len(ps) <= Len(qs),
         \A i \in 1..Len(ps) : SameTrade(ps[i], qs[i]),
         r >= Links => \A i \in 1..Len(ps) : Owner(qs[i]) = Owner(ps[i]),
         s < Links => r < Links
  PROVE  LinkOK(o, qs, s)
<1>a. CASE o.type # "MARKET"
  BY <1>a DEF LinkOK
<1>b. CASE o.type = "MARKET"
  <2>1. Booked(o, ps)
    BY <1>b DEF LinkOK
  <2>2. o.of \in 1..Len(qs) /\ o.of \in 1..Len(ps) /\ o \in Order
    BY <2>1 DEF Booked
  <2>3. SameTrade(ps[o.of], qs[o.of])
    BY <2>2
  <2>4. Booked(o, qs)
    BY <2>1, <2>2, <2>3 DEF Booked, SameTrade, When, Price, Side
  <2>5. CASE r < Links
    BY <2>2, <2>4, <2>5 DEF LinkOK, Right
  <2>6. CASE ~(r < Links)
    <3>1. ~(s < Links) /\ \A i \in 1..Len(ps) : Owner(qs[i]) = Owner(ps[i])
      BY <2>6, Revisions
    <3>2. ASSUME NEW i \in 1..Len(ps), Fits(ps[i], o, "CLOSE")
          PROVE  Fits(qs[i], o, "CLOSE") /\ i \in 1..Len(qs)
      <4>1. SameTrade(ps[i], qs[i]) /\ Owner(qs[i]) = Owner(ps[i])
        BY <3>1
      <4> QED BY <3>2, <4>1 DEF Fits, SameTrade, When, Price, Side
    <3>3. Owner(qs[o.of]) = Owner(ps[o.of])
      BY <2>2, <3>1
    <3>4. Right(o, ps) => Right(o, qs)
      BY <3>2, <3>3 DEF Right
    <3> QED BY <1>b, <2>2, <2>4, <3>1, <3>4 DEF LinkOK
  <2> QED BY <2>5, <2>6
<1> QED BY <1>a, <1>b

\* The nearest match of an order is the trade it was for, which is no distance away.
LEMMA OwnIsNearest ==
  ASSUME NEW ps, NEW o, NEW t, Booked(o, ps), Moments(ps, t), Owner(ps[o.of]) = o.bot,
         NEW M, M = {i \in 1..Len(ps) : Fits(ps[i], o, o.was)}
  PROVE  /\ o.of \in M
         /\ o.of = CHOOSE i \in M : \A j \in M : Distance(o.at, When(ps[i], o.was)) <= Distance(o.at, When(ps[j], o.was))
<1> DEFINE Away(i) == Distance(o.at, When(ps[i], o.was))
<1>1. o.of \in 1..Len(ps) /\ o \in Order /\ o.was \in {"OPEN", "CLOSE"} /\ o.at \in Nat
  BY DEF Booked, Order
<1>2. ASSUME NEW i \in M
      PROVE  When(ps[i], o.was) \in Nat
  <2>1. Moment(ps[i], t) /\ When(ps[i], o.was) # Null
    BY <1>2 DEF Moments, Fits
  <2> QED BY <1>1, <2>1 DEF Moment, When
<1>3. Away(o.of) = 0
  BY <1>1 DEF Booked, Distance
<1>4. o.of \in M
  BY <1>1, <1>3, Revisions DEF Booked, Fits, Near, SameMode
<1>5. \A i \in M : Away(i) \in Nat
  BY <1>1, <1>2 DEF Distance
<1>6. ASSUME NEW i \in M, i # o.of
      PROVE  Away(i) # 0
  <2>1. Apart(ps[i], ps[o.of])
    BY <1>1, <1>6 DEF Moments
  <2>2. When(ps[i], o.was) # When(ps[o.of], o.was)
    BY <1>1, <2>1, <1>6 DEF Apart, When, Booked
  <2>3. When(ps[i], o.was) # o.at /\ When(ps[i], o.was) \in Nat
    BY <1>2, <2>2 DEF Booked
  <2> QED BY <1>1, <2>3 DEF Distance
<1> DEFINE Least(i) == \A j \in M : Away(i) <= Away(j)
<1>7. Least(o.of)
  BY <1>3, <1>5
<1>8. \A i \in M : Least(i) => i = o.of
  BY <1>3, <1>4, <1>5, <1>6
<1>9. o.of = CHOOSE i \in M : Least(i)
  <2> HIDE DEF Least
  <2> QED BY <1>4, <1>7, <1>8
<1> QED BY <1>4, <1>9

\* Of some distances one is the least.
LEMMA LeastDistance ==
  ASSUME NEW M, M # {}, NEW d, \A i \in M : d[i] \in Nat
  PROVE  \E i \in M : \A j \in M : d[i] <= d[j]
<1> DEFINE T == {d[i] : i \in M}
           R == OpToRel(<, Nat)
<1>1. T # {} /\ T \subseteq Nat
  OBVIOUS
<1>2. IsWellFoundedOn(R, Nat)
  BY NatLessThanWellFounded
<1>3. R = {ss \in Nat \X Nat : ss[1] < ss[2]}
  BY DEF OpToRel
<1> HIDE DEF R, T
<1>4. PICK k \in T : \A n \in T : ~(<<n, k>> \in R)
  BY <1>1, <1>2, WFMin
<1>5. k \in Nat
  BY <1>1, <1>4
<1>6. ASSUME NEW n \in T
      PROVE  k <= n
  <2>1. n \in Nat /\ ~(<<n, k>> \in R)
    BY <1>1, <1>4
  <2>2. ~(n < k)
    BY <1>3, <1>5, <2>1
  <2> QED BY <1>5, <2>1, <2>2
<1>7. PICK i \in M : d[i] = k
  BY <1>4 DEF T
<1>8. \A j \in M : d[j] \in T
  BY DEF T
<1> QED BY <1>6, <1>7, <1>8

SameOrder(o, l) ==
  /\ l.bot = o.bot /\ l.at = o.at /\ l.price = o.price /\ l.side = o.side
  /\ l.of = o.of /\ l.was = o.was /\ l.by = o.by /\ l.type = o.type /\ l.status = o.status

Put(o, p, intent) == [o EXCEPT !.pos = p, !.intent = intent]
LEMMA LinkedOrder ==
  ASSUME NEW o \in Order, NEW p \in Nat \cup {Null}, NEW intent \in {"OPEN", "CLOSE", "null"}
  PROVE  /\ Put(o, p, intent) \in Order /\ SameOrder(o, Put(o, p, intent))
         /\ Put(o, p, intent).pos = p /\ Put(o, p, intent).intent = intent
BY DEF Order, SameOrder, Put

\* One pass of the link: the order is left alone, or linked to a match.
LEMMA LinkedTypes ==
  ASSUME Moments(positions, now), Len(positions) \in Nat, NEW o \in Order,
         NEW intent \in {"OPEN", "CLOSE"}
  PROVE  Linked(o, intent) \in Order /\ SameOrder(o, Linked(o, intent))
<1> DEFINE M == Matches(o, intent)
           Least(i) == \A j \in M : Distance(o.at, When(positions[i], intent))
                                      <= Distance(o.at, When(positions[j], intent))
           c == CHOOSE i \in M : Least(i)
<1>1. CASE o.status # "FILLED" \/ o.pos # Null \/ M = {}
  BY <1>1 DEF Linked, SameOrder
<1>2. CASE ~(o.status # "FILLED" \/ o.pos # Null \/ M = {})
  <2>1. M = {i \in 1..Len(positions) : Fits(positions[i], o, intent)}
    BY MatchesFit
  <2> DEFINE d == [i \in M |-> Distance(o.at, When(positions[i], intent))]
  <2>2. ASSUME NEW i \in M
        PROVE  d[i] \in Nat
    <3>1. i \in 1..Len(positions) /\ Moment(positions[i], now) /\ When(positions[i], intent) # Null
      BY <2>1 DEF Moments, Fits
    <3>2. When(positions[i], intent) \in Nat /\ o.at \in Nat
      BY <3>1 DEF Moment, When, Order
    <3>3. Distance(o.at, When(positions[i], intent)) \in Nat
      BY <3>2 DEF Distance
    <3> QED BY <3>3
  <2>3. \E i \in M : \A j \in M : d[i] <= d[j]
    <3> HIDE DEF d, M
    <3> QED BY <1>2, <2>2, LeastDistance
  <2>4. \E i \in M : Least(i)
    BY <2>3
  <2>5. c \in M
    <3> HIDE DEF Least, M
    <3> QED BY <2>4
  <2>6. c \in Nat
    BY <2>1, <2>5
  <2>7. Linked(o, intent) = Put(o, c, intent)
    BY <1>2 DEF Linked, Put
  <2> HIDE DEF c
  <2>8. c \in Nat \cup {Null} /\ intent \in {"OPEN", "CLOSE", "null"}
    BY <2>6
  <2>9. Put(o, c, intent) \in Order /\ SameOrder(o, Put(o, c, intent))
    BY <2>8, LinkedOrder
  <2> QED BY <2>7, <2>9
<1> QED BY <1>1, <1>2

\* An order whose trade is the nearest match of its own intent is linked to it.
LEMMA LinkedOwn ==
  ASSUME Moments(positions, now), NEW o, Booked(o, positions), o.pos = Null,
         Owner(positions[o.of]) = o.bot
  PROVE  /\ Linked(o, o.was).pos = o.of /\ Linked(o, o.was).intent = o.was
         /\ o.of # Null
<1> DEFINE M == Matches(o, o.was)
<1>1. M = {i \in 1..Len(positions) : Fits(positions[i], o, o.was)}
  BY MatchesFit
<1>2. /\ o.of \in M
      /\ o.of = CHOOSE i \in M : \A j \in M : Distance(o.at, When(positions[i], o.was))
                                               <= Distance(o.at, When(positions[j], o.was))
  <2> HIDE DEF M
  <2> QED BY <1>1, OwnIsNearest
<1>3. o \in Order /\ o.of \in Nat /\ o.was \in {"OPEN", "CLOSE"} /\ o.of # Null
  BY Revisions DEF Booked, Order
<1>4. Linked(o, o.was) = Put(o, o.of, o.was)
  BY <1>2 DEF Linked, Put, Booked
<1>5. o.of \in Nat \cup {Null} /\ o.was \in {"OPEN", "CLOSE", "null"}
  BY <1>3
<1>6. Put(o, o.of, o.was).pos = o.of /\ Put(o, o.of, o.was).intent = o.was
  BY <1>3, <1>5, LinkedOrder, ZenonT(40)
<1> QED BY <1>3, <1>4, <1>6

\* a1b2c3d4e5f7, of one order: first as a closing, then as an opening.
LEMMA LinkOrderRight ==
  ASSUME Moments(positions, now), Len(positions) \in Nat, NEW o,
         Booked(o, positions), o.pos = Null
  PROVE  /\ Booked(LinkOrder(o), positions) /\ Right(LinkOrder(o), positions)
<1> DEFINE m == Linked(o, "CLOSE")
           l == LinkOrder(o)
<1>1. o \in Order /\ o.was \in {"OPEN", "CLOSE"}
  BY DEF Booked, Order
<1>2. m \in Order /\ SameOrder(o, m)
  BY <1>1, LinkedTypes
<1>3. l = Linked(m, "OPEN")
  BY DEF LinkOrder
<1> HIDE DEF m, l
<1>4. l \in Order /\ SameOrder(m, l)
  BY <1>2, <1>3, LinkedTypes
<1>5. SameOrder(o, l)
  BY <1>2, <1>4 DEF SameOrder
<1>6. Booked(l, positions)
  BY <1>4, <1>5 DEF Booked, SameOrder
<1>7. \A p, intent : Fits(p, l, intent) <=> Fits(p, o, intent)
  BY <1>5 DEF Fits, SameOrder
<1>8. ASSUME Owner(positions[o.of]) = o.bot,
             o.was = "OPEN" => \A i \in 1..Len(positions) : ~Fits(positions[i], o, "CLOSE")
      PROVE  l.pos = o.of /\ l.intent = o.was
  <2>1. CASE o.was = "CLOSE"
    <3>1. m.pos = o.of /\ m.intent = o.was /\ m.pos # Null
      BY <1>8, <2>1, LinkedOwn DEF m
    <3>2. l = m
      BY <1>3, <3>1 DEF Linked
    <3> QED BY <3>1, <3>2
  <2>2. CASE o.was = "OPEN"
    <3>1. Matches(o, "CLOSE") = {}
      BY <1>8, <2>2, MatchesFit
    <3>2. m = o
      BY <3>1 DEF m, Linked
    <3> QED BY <1>3, <1>8, <2>2, <3>2, LinkedOwn
  <2> QED BY <1>1, <2>1, <2>2
<1>9. Right(l, positions)
  BY <1>5, <1>7, <1>8 DEF Right, SameOrder
<1> QED BY <1>4, <1>6, <1>9 DEF l

\* What a revision fills in, or a downgrade drops, is not about the trade; nor, from the
\* revision of the links on, about whose it was.
SameMoments(p, q) == SameTrade(p, q) /\ q.closed = p.closed
LEMMA FilledTrade ==
  ASSUME NEW p \in Position, NEW r \in Nat, NEW f
  PROVE  /\ SameMoments(p, FilledRow(r, p, f))
         /\ r > Links => Owner(FilledRow(r, p, f)) = Owner(p)
<1>1. CASE r = InitSl
  <2>1. FilledRow(r, p, f) = [p EXCEPT !.init = TRUE]
    BY <1>1, FilledCases
  <2> QED BY <1>1, <2>1, Revisions DEF SameMoments, SameTrade, Position
<1>2. CASE r = Snapshot
  <2>1. FilledRow(r, p, f) = Labelled(p, f)
    BY <1>2, FilledCases
  <2>2. SameMoments(p, Labelled(p, f))
    BY DEF SameMoments, SameTrade, Position, Labelled
  <2> QED BY <1>2, <2>1, <2>2, Revisions
<1>3. CASE r = Sizing
  <2>1. FilledRow(r, p, f) = SizedFrom(p)
    BY <1>3, FilledCases
  <2>2. \E x : SizedFrom(p) = [p EXCEPT !.sized = x]
    BY DEF SizedFrom
  <2>3. PICK x : SizedFrom(p) = [p EXCEPT !.sized = x]
    BY <2>2
  <2>4. SameMoments(p, SizedFrom(p)) /\ Owner(SizedFrom(p)) = Owner(p)
    BY <2>3 DEF SameMoments, SameTrade, Position, Owner
  <2> QED BY <2>1, <2>4
<1>4. CASE r \notin {InitSl, Snapshot, Sizing}
  <2>1. FilledRow(r, p, f) = p
    BY <1>4, FilledCases
  <2> QED BY <2>1 DEF SameMoments, SameTrade
<1> QED BY <1>1, <1>2, <1>3, <1>4

LEMMA LostTrade ==
  ASSUME NEW p \in Position, NEW r \in Nat
  PROVE  /\ SameMoments(p, LostRow(r, p))
         /\ r > Links => Owner(LostRow(r, p)) = Owner(p)
<1>1. /\ SameMoments(p, [p EXCEPT !.init = FALSE])
      /\ SameMoments(p, [p EXCEPT !.source = "null", !.ref = Null])
      /\ SameMoments(p, [p EXCEPT !.sized = FALSE])
      /\ SameMoments(p, p)
  BY DEF SameMoments, SameTrade, Position
<1>2. Owner([p EXCEPT !.sized = FALSE]) = Owner(p)
  BY DEF Owner, Position
<1>3. r > Links => LostRow(r, p) \in {p, [p EXCEPT !.sized = FALSE]}
  BY Revisions DEF LostRow
<1>4. LostRow(r, p) \in {p, [p EXCEPT !.init = FALSE], [p EXCEPT !.source = "null", !.ref = Null],
                         [p EXCEPT !.sized = FALSE]}
  BY DEF LostRow
<1> QED BY <1>1, <1>2, <1>3, <1>4

\* Steps that write no order and begin or end no trade.
LEMMA OrdersStay ==
  ASSUME IInv, LInv, UNCHANGED <<orders, now>>, rev' \in Nat, Len(positions') = Len(positions),
         \A i \in 1..Len(positions) : SameMoments(positions[i], positions'[i]),
         rev >= Links => \A i \in 1..Len(positions) : Owner(positions'[i]) = Owner(positions[i]),
         rev' < Links => rev < Links
  PROVE  LInv'
<1>1. rev \in Nat /\ Len(positions) \in Nat
  BY DEF IInv, Base, Rows
<1>2. Moments(positions', now)
  <2>1. Moments(positions, now)
    BY DEF LInv
  <2>2. \A i \in 1..Len(positions) : positions'[i].at = positions[i].at /\ positions'[i].closed = positions[i].closed
    BY DEF SameMoments, SameTrade
  <2>3. \A i \in 1..Len(positions') : Moment(positions'[i], now)
    BY <2>1, <2>2 DEF Moments, Moment
  <2>4. \A i, j \in 1..Len(positions') : i # j => Apart(positions'[i], positions'[j])
    BY <2>1, <2>2 DEF Moments, Apart
  <2> QED BY <2>3, <2>4 DEF Moments
<1>3. ASSUME NEW k \in 1..Len(orders)
      PROVE  LinkOK(orders[k], positions', rev')
  <2>1. LinkOK(orders[k], positions, rev)
    BY DEF LInv
  <2>2. \A i \in 1..Len(positions) : SameTrade(positions[i], positions'[i])
    BY DEF SameMoments
  <2> QED BY <1>1, <2>1, <2>2, OrderStays
<1> QED BY <1>2, <1>3 DEF LInv

\* A new order at the end, of a trade that begins or ends at this moment, or of none yet.
LEMMA OrderAdded ==
  ASSUME IInv, LInv, NEW o, orders' = Append(orders, o), LinkOK(o, positions', rev),
         UNCHANGED rev, Moments(positions', now'), Len(positions') \in Nat,
         Len(positions) <= Len(positions'),
         \A i \in 1..Len(positions) : SameTrade(positions[i], positions'[i]),
         \A i \in 1..Len(positions) : Owner(positions'[i]) = Owner(positions[i])
  PROVE  LInv'
<1>1. rev \in Nat /\ Len(positions) \in Nat /\ orders \in Seq(Order) /\ o \in Order
      /\ Len(orders) \in Nat
  BY DEF IInv, Base, Rows, LInv, LinkOK
<1>2. /\ orders' \in Seq(Order) /\ Len(orders') = Len(orders) + 1 /\ orders'[Len(orders) + 1] = o
      /\ \A k \in 1..Len(orders) : orders'[k] = orders[k]
  BY <1>1
<1>3. ASSUME NEW k \in 1..Len(orders)
      PROVE  LinkOK(orders[k], positions', rev)
  <2>1. LinkOK(orders[k], positions, rev)
    BY DEF LInv
  <2> QED BY <1>1, <2>1, OrderStays
<1>4. \A k \in 1..Len(orders') : LinkOK(orders'[k], positions', rev')
  BY <1>1, <1>2, <1>3
<1> QED BY <1>2, <1>4 DEF LInv

\* A trade that begins now shares no moment with another.
LEMMA MomentsAdded ==
  ASSUME IInv, LInv, NEW p, positions' = Append(positions, p), now' = now + 1,
         p.at = now', p.closed = Null
  PROVE  /\ Moments(positions', now')
         /\ Len(positions') = Len(positions) + 1 /\ positions'[Len(positions) + 1] = p
         /\ Len(positions) \in Nat
         /\ \A i \in 1..Len(positions) : positions'[i] = positions[i]
<1> DEFINE n == Len(positions) + 1
<1>1. positions \in Seq(Position) /\ Len(positions) \in Nat /\ now \in Nat
  BY DEF IInv, Rows, Base
<1>2. /\ Len(positions') = n /\ positions'[n] = p
      /\ \A i \in 1..Len(positions) : positions'[i] = positions[i]
  BY <1>1
<1>3. Moments(positions, now)
  BY DEF LInv
<1>4. \A i \in 1..Len(positions) : Moment(positions'[i], now')
  BY <1>1, <1>2, <1>3 DEF Moments, Moment
<1>5. Moment(p, now')
  BY <1>1 DEF Moment
<1>6. \A i \in 1..Len(positions) : Apart(positions'[i], p) /\ Apart(p, positions'[i])
  BY <1>1, <1>2, <1>3 DEF Moments, Moment, Apart
<1>7. \A i \in 1..n : i = n \/ i \in 1..Len(positions)
  BY <1>1
<1>8. \A i, j \in 1..Len(positions) : i # j => Apart(positions'[i], positions'[j])
  BY <1>2, <1>3 DEF Moments
<1>9. Moments(positions', now')
  BY <1>2, <1>4, <1>5, <1>6, <1>7, <1>8 DEF Moments
<1> QED BY <1>1, <1>2, <1>9

LEMMA OpenLinks ==
  ASSUME IInv, LInv, NEW by \in Owners, NEW side \in {"LONG", "SHORT"},
         NEW price \in Prices, OpenPosition(by, side, price)
  PROVE  LInv'
<1> DEFINE n == Len(positions) + 1
           p == NewPosition(by, side, price)
           o == MarketOrder(p, n, price, "OPEN")
<1>1. /\ positions' = Append(positions, p) /\ orders' = Append(orders, o)
      /\ now' = now + 1 /\ now \in Nat /\ rev \in Nat /\ UNCHANGED rev
  BY DEF OpenPosition, Tick, IInv, Base
<1>2. /\ p.at = now' /\ p.side = side /\ p.price = price /\ p.closed = Null /\ p.by = by
      /\ p.bot = by
  BY DEF NewPosition
<1>3. /\ o.bot = p.bot /\ o.at = now' /\ o.price = price /\ o.side = Side(p, "OPEN")
      /\ o.status = "FILLED" /\ o.pos = Since(Links, n, Null)
      /\ o.intent = SaysSince(Links, "OPEN") /\ o.by = p.by
      /\ o.of = n /\ o.was = "OPEN"
  BY DEF MarketOrder
<1> HIDE DEF p
<1>4. /\ Moments(positions', now') /\ Len(positions') = n /\ positions'[n] = p
      /\ Len(positions) \in Nat
      /\ \A i \in 1..Len(positions) : positions'[i] = positions[i]
  BY <1>1, <1>2, MomentsAdded
<1>5. o \in Order
  <2>1. Since(Links, n, Null) \in Nat \cup {Null} /\ SaysSince(Links, "OPEN") \in {"OPEN", "CLOSE", "null"}
    BY <1>4 DEF Since, SaysSince
  <2>2. now' \in Nat /\ Side(p, "OPEN") \in {"BUY", "SELL"} /\ n \in Nat
    BY <1>1, <1>4 DEF Side
  <2> QED BY <1>2, <2>1, <2>2 DEF Order, MarketOrder
<1> HIDE DEF o
<1>6. Booked(o, positions')
  <2>1. When(p, "OPEN") = now' /\ Price(p, "OPEN") = price /\ now' # Null
    BY <1>1, <1>2, Revisions DEF When, Price
  <2>2. n \in 1..n
    BY <1>4
  <2> QED BY <1>2, <1>3, <1>4, <1>5, <2>1, <2>2 DEF Booked
<1>7. LinkOK(o, positions', rev)
  <2>1. Right(o, positions') /\ (rev < Links => o.pos = Null)
    BY <1>1, <1>3, Revisions DEF Right, Since, SaysSince
  <2> QED BY <1>5, <1>6, <2>1 DEF LinkOK
<1>8. \A i \in 1..Len(positions) : SameTrade(positions[i], positions'[i])
                                  /\ Owner(positions'[i]) = Owner(positions[i])
  BY <1>4 DEF SameTrade
<1>9. Len(positions) <= Len(positions') /\ Len(positions') \in Nat
  BY <1>4
<1> QED BY <1>1, <1>4, <1>7, <1>8, <1>9, OrderAdded

\* An order that waits is linked to nothing.
LEMMA QueueLinks ==
  ASSUME IInv, LInv, NEW by \in Owners, NEW side \in {"BUY", "SELL"}, NEW price \in Prices,
         QueueLimit(by, side, price)
  PROVE  LInv'
<1> DEFINE o == [bot |-> by, at |-> now', price |-> price, side |-> side, type |-> "LIMIT",
                 status |-> "NEW", pos |-> Null, intent |-> "null", by |-> by, of |-> 0,
                 was |-> "OPEN"]
<1>1. /\ orders' = Append(orders, o) /\ UNCHANGED <<rev, positions>>
      /\ now' = now + 1 /\ now \in Nat /\ Len(positions) \in Nat
  BY DEF QueueLimit, Tick, IInv, Base, Rows
<1>2. o \in Order /\ o.type = "LIMIT" /\ o.pos = Null
  BY <1>1 DEF Order
<1> HIDE DEF o
<1>3. LinkOK(o, positions', rev)
  BY <1>2 DEF LinkOK
<1>4. Moments(positions', now')
  BY <1>1 DEF LInv, Moments, Moment
<1>5. \A i \in 1..Len(positions) : SameTrade(positions[i], positions'[i])
                                  /\ Owner(positions'[i]) = Owner(positions[i])
  BY <1>1 DEF SameTrade
<1> QED BY <1>1, <1>3, <1>4, <1>5, OrderAdded

\* Once it fills it names its position; of an order at market nothing changes.
LEMMA FillLinks ==
  ASSUME IInv, LInv, NEW k \in 1..Len(orders), FillLimit(k)
  PROVE  LInv'
<1> DEFINE o == orders[k]
           n == Len(positions) + 1
           p == NewPosition(o.by, IF o.side = "BUY" THEN "LONG" ELSE "SHORT", o.price)
           l == [o EXCEPT !.status = "FILLED", !.of = n,
                          !.pos = Since(Links, n, Null), !.intent = SaysSince(Links, "OPEN")]
<1>1. /\ positions' = Append(positions, p) /\ orders' = [orders EXCEPT ![k] = l]
      /\ now' = now + 1 /\ rev \in Nat /\ UNCHANGED rev /\ o.status = "NEW"
  BY DEF FillLimit, Tick, IInv, Base
<1>2. p.at = now' /\ p.closed = Null
  BY DEF NewPosition
<1> HIDE DEF p
<1>3. /\ Moments(positions', now') /\ Len(positions') = n /\ Len(positions) \in Nat
      /\ \A i \in 1..Len(positions) : positions'[i] = positions[i]
  BY <1>1, <1>2, MomentsAdded
<1>4. orders \in Seq(Order) /\ Len(orders) \in Nat /\ o \in Order
      /\ LinkOK(o, positions, rev)
  BY DEF LInv
<1>5. o.type # "MARKET"
  BY <1>1, <1>4 DEF LinkOK, Booked
<1>6. l \in Order /\ l.type # "MARKET" /\ (rev < Links => l.pos = Null)
  <2>1. /\ Since(Links, n, Null) \in Nat \cup {Null} /\ n \in Nat
        /\ SaysSince(Links, "OPEN") \in {"OPEN", "CLOSE", "null"}
        /\ rev < Links => Since(Links, n, Null) = Null
    BY <1>1, <1>3, Revisions DEF Since, SaysSince
  <2> HIDE DEF o
  <2> QED BY <1>4, <1>5, <2>1 DEF Order
<1> HIDE DEF l
<1>7. /\ orders' \in Seq(Order) /\ Len(orders') = Len(orders)
      /\ \A j \in 1..Len(orders) : orders'[j] = IF j = k THEN l ELSE orders[j]
  BY <1>1, <1>4, <1>6
<1>8. ASSUME NEW j \in 1..Len(orders)
      PROVE  LinkOK(orders'[j], positions', rev)
  <2>1. CASE j = k
    BY <1>6, <1>7, <2>1 DEF LinkOK
  <2>2. CASE j # k
    <3>1. LinkOK(orders[j], positions, rev)
      BY DEF LInv
    <3>2. \A i \in 1..Len(positions) : SameTrade(positions[i], positions'[i])
                                      /\ Owner(positions'[i]) = Owner(positions[i])
      BY <1>3 DEF SameTrade
    <3>3. Len(positions') \in Nat /\ Len(positions) <= Len(positions')
      BY <1>3
    <3>4. LinkOK(orders[j], positions', rev)
      BY <1>1, <1>3, <3>1, <3>2, <3>3, OrderStays
    <3> QED BY <1>7, <2>2, <3>4
  <2> QED BY <2>1, <2>2
<1> QED BY <1>1, <1>3, <1>7, <1>8 DEF LInv

LEMMA CloseLinks ==
  ASSUME IInv, LInv, NEW i \in 1..Len(positions), NEW price \in Prices, ClosePosition(i, price)
  PROVE  LInv'
<1> DEFINE p == positions[i]
           q == [p EXCEPT !.closed = now', !.exit = price]
           o == MarketOrder(p, i, price, "CLOSE")
<1>1. /\ positions' = [positions EXCEPT ![i].closed = now', ![i].exit = price]
      /\ orders' = Append(orders, o) /\ p.closed = Null
      /\ now' = now + 1 /\ now \in Nat /\ rev \in Nat /\ UNCHANGED rev
  BY DEF ClosePosition, Tick, IInv, Base
<1>2. /\ positions \in Seq(Position) /\ Len(positions) \in Nat /\ p \in Position /\ i \in Nat
      /\ Owned(p, bots)
  BY DEF IInv, Rows, RowOK
<1>3. /\ q.closed = now' /\ q.exit = price /\ q.at = p.at /\ q.by = p.by /\ q.bot = p.bot
      /\ q.side = p.side /\ q.price = p.price /\ Owner(q) = Owner(p)
  BY <1>2 DEF Position, Owner
<1>4. /\ o.bot = p.bot /\ o.at = now' /\ o.price = price /\ o.side = Side(p, "CLOSE")
      /\ o.status = "FILLED" /\ o.pos = Since(Links, i, Null)
      /\ o.intent = SaysSince(Links, "CLOSE") /\ o.by = p.by
      /\ o.of = i /\ o.was = "CLOSE"
  BY DEF MarketOrder
<1>5. o \in Order
  <2>1. Since(Links, i, Null) \in Nat \cup {Null} /\ SaysSince(Links, "CLOSE") \in {"OPEN", "CLOSE", "null"}
    BY <1>2 DEF Since, SaysSince
  <2>2. now' \in Nat /\ Side(p, "CLOSE") \in {"BUY", "SELL"} /\ p.bot \in Owners /\ p.by \in Owners
    BY <1>1, <1>2 DEF Side, Position
  <2> HIDE DEF p
  <2> QED BY <1>2, <2>1, <2>2 DEF Order, MarketOrder
<1>6. positions' = [positions EXCEPT ![i] = q]
  BY <1>1, <1>2 DEF Position
<1> HIDE DEF q, o
<1>7. /\ Len(positions') = Len(positions) /\ positions'[i] = q
      /\ \A j \in 1..Len(positions) : j # i => positions'[j] = positions[j]
  BY <1>2, <1>6
<1>8. Moments(positions', now')
  <2>1. Moments(positions, now)
    BY DEF LInv
  <2>2. \A j \in 1..Len(positions) : j # i => Moment(positions'[j], now')
    BY <1>1, <1>7, <2>1 DEF Moments, Moment
  <2>3. Moment(q, now')
    BY <1>1, <1>3, <2>1 DEF Moments, Moment
  <2>4. ASSUME NEW j \in 1..Len(positions), j # i
        PROVE  Apart(positions'[j], q) /\ Apart(q, positions'[j])
    <3>1. Apart(positions[j], p) /\ Apart(p, positions[j]) /\ Moment(positions[j], now)
      BY <2>1, <2>4 DEF Moments
    <3>2. positions'[j] = positions[j]
      BY <1>7, <2>4
    <3> QED BY <1>1, <1>3, <3>1, <3>2 DEF Moment, Apart
  <2>5. \A j, k \in 1..Len(positions) : j # k /\ j # i /\ k # i => Apart(positions'[j], positions'[k])
    BY <1>7, <2>1 DEF Moments
  <2> QED BY <1>7, <2>2, <2>3, <2>4, <2>5 DEF Moments
<1>9. Booked(o, positions')
  <2>1. /\ When(q, "CLOSE") = now' /\ Price(q, "CLOSE") = price /\ now' # Null
        /\ Side(q, "CLOSE") = Side(p, "CLOSE")
    BY <1>1, <1>3, Revisions DEF When, Price, Side
  <2>2. p.bot \in {p.by, Null}
    BY <1>2 DEF Owned
  <2> QED BY <1>3, <1>4, <1>5, <1>7, <2>1, <2>2 DEF Booked
<1>10. LinkOK(o, positions', rev)
  <2>1. Right(o, positions') /\ (rev < Links => o.pos = Null)
    BY <1>1, <1>4, Revisions DEF Right, Since, SaysSince
  <2> QED BY <1>5, <1>9, <2>1 DEF LinkOK
<1>11. \A j \in 1..Len(positions) : SameTrade(positions[j], positions'[j])
                                   /\ Owner(positions'[j]) = Owner(positions[j])
  <2>1. SameTrade(p, q)
    BY <1>1, <1>3 DEF SameTrade
  <2> QED BY <1>3, <1>7, <2>1 DEF SameTrade
<1>12. Len(positions) <= Len(positions') /\ Len(positions') \in Nat
  BY <1>2, <1>7
<1> QED BY <1>1, <1>8, <1>10, <1>11, <1>12, OrderAdded

\* What the rows that no longer name bot b say of the orders of the others.
LEMMA OrphanedOwner ==
  ASSUME NEW b \in Bots, NEW p \in Position, NEW q, q = Orphaned(p, b)
  PROVE  /\ SameMoments(p, q)
         /\ Owner(q) = Owner(p) \/ (Owner(p) = b /\ Owner(q) = Null /\ p.bot = b)
BY DEF SameMoments, SameTrade, Position, Orphaned, Owner

LEMMA OrphanedOrder ==
  ASSUME NEW b \in Bots, NEW o \in Order, NEW l, l = Orphaned(o, b)
  PROVE  /\ l \in Order
         /\ l.at = o.at /\ l.price = o.price /\ l.side = o.side /\ l.pos = o.pos /\ l.by = o.by
         /\ l.of = o.of /\ l.was = o.was /\ l.type = o.type /\ l.status = o.status
         /\ l.bot = (IF o.bot = b THEN Null ELSE o.bot)
         /\ o.bot # b => l = o
BY Constants DEF Order, Orphaned

\* Of the orders of a deleted bot nothing is claimed but when they were; the others find
\* the trades they did.
LEMMA DeleteLinks ==
  ASSUME IInv, LInv, NEW b \in Bots, DeleteBot(b)
  PROVE  LInv'
<1> DEFINE f == [k \in 1..Len(orders) |-> Orphaned(orders[k], b)]
           g == [i \in 1..Len(positions) |-> Orphaned(positions[i], b)]
<1>1. orders' = f /\ positions' = g /\ UNCHANGED <<rev, now>>
  BY DEF DeleteBot
<1>2. /\ orders \in Seq(Order) /\ Len(orders) \in Nat /\ positions \in Seq(Position)
      /\ Len(positions) \in Nat /\ rev \in Nat /\ b # Null
  BY Constants DEF LInv, IInv, Rows, Base
<1>3. \A i \in 1..Len(positions) :
        /\ positions[i] \in Position /\ g[i] = Orphaned(positions[i], b)
        /\ positions[i].bot \in {positions[i].by, Null}
  BY <1>2 DEF IInv, Rows, RowOK, Owned
<1>4. \A k \in 1..Len(orders) : orders[k] \in Order /\ f[k] = Orphaned(orders[k], b)
  BY <1>2
<1>5. f \in Seq(Order) /\ Len(f) = Len(orders)
  <2>1. \A k \in 1..Len(orders) : Orphaned(orders[k], b) \in Order
    BY <1>4, OrphanedOrder
  <2>2. f \in [1..Len(orders) -> Order]
    BY <2>1
  <2> HIDE DEF f
  <2> QED BY <1>2, <2>2
<1>6. Len(g) = Len(positions)
  BY <1>2
<1> HIDE DEF f, g
<1>7. \A i \in 1..Len(positions) :
        /\ SameMoments(positions[i], g[i])
        /\ \/ Owner(g[i]) = Owner(positions[i])
           \/ Owner(positions[i]) = b /\ Owner(g[i]) = Null /\ positions[i].bot = b
  BY <1>3, OrphanedOwner
<1>8. Moments(g, now)
  <2>1. Moments(positions, now)
    BY DEF LInv
  <2>2. \A i \in 1..Len(positions) : g[i].at = positions[i].at /\ g[i].closed = positions[i].closed
    BY <1>7 DEF SameMoments, SameTrade
  <2> QED BY <1>6, <2>1, <2>2 DEF Moments, Moment, Apart
<1>9. ASSUME NEW k \in 1..Len(orders)
      PROVE  LinkOK(f[k], g, rev)
  <2> DEFINE o == orders[k]
             l == f[k]
  <2>1. LinkOK(o, positions, rev) /\ o \in Order /\ l = Orphaned(o, b)
    BY <1>4 DEF LInv
  <2> HIDE DEF o, l
  <2>2. /\ l \in Order
        /\ l.at = o.at /\ l.price = o.price /\ l.side = o.side /\ l.pos = o.pos /\ l.by = o.by
        /\ l.of = o.of /\ l.was = o.was /\ l.type = o.type /\ l.status = o.status
        /\ l.bot = (IF o.bot = b THEN Null ELSE o.bot)
        /\ o.bot # b => l = o
    BY <2>1, OrphanedOrder
  <2>3. ASSUME o.type # "MARKET"
        PROVE  LinkOK(l, g, rev)
    BY <2>1, <2>2, <2>3 DEF LinkOK
  <2>4. ASSUME o.type = "MARKET"
        PROVE  LinkOK(l, g, rev)
    <3>1. Booked(o, positions) /\ (rev < Links => o.pos = Null)
      BY <2>1, <2>4 DEF LinkOK
    <3>2. o.of \in 1..Len(positions) /\ o.bot \in {o.by, Null} /\ o.by = positions[o.of].by
      BY <3>1 DEF Booked
    <3>3. SameMoments(positions[o.of], g[o.of])
      BY <1>7, <3>2
    <3>4. Booked(l, g)
      BY <1>6, <2>2, <3>1, <3>2, <3>3
      DEF Booked, SameMoments, SameTrade, When, Price, Side
    <3>5. ASSUME l.bot = l.by
          PROVE  Right(l, g)
      <4>1. o.bot # b /\ l = o /\ o.bot = o.by
        BY <1>2, <2>2, <3>2, <3>5
      <4>2. Right(o, positions)
        BY <2>1, <2>4, <4>1 DEF LinkOK
      <4>3. Owner(g[o.of]) = o.bot => Owner(positions[o.of]) = o.bot
        <5>1. positions[o.of].bot \in {o.by, Null}
          BY <1>3, <3>2
        <5> QED BY <1>2, <1>7, <3>2, <4>1, <5>1
      <4>4. ASSUME NEW i \in 1..Len(positions), Fits(positions[i], o, "CLOSE")
            PROVE  Fits(g[i], o, "CLOSE") /\ i \in 1..Len(g)
        <5>1. SameTrade(positions[i], g[i])
          BY <1>7 DEF SameMoments
        <5>2. Owner(g[i]) = Owner(positions[i])
          BY <1>7, <4>1, <4>4 DEF Fits
        <5> QED BY <1>6, <4>4, <5>1, <5>2 DEF Fits, SameTrade, When, Price, Side
      <4> QED BY <4>1, <4>2, <4>3, <4>4 DEF Right
    <3> QED BY <2>2, <3>1, <3>4, <3>5 DEF LinkOK
  <2>5. LinkOK(l, g, rev)
    BY <2>3, <2>4
  <2> QED BY <2>5 DEF l
<1>10. \A k \in 1..Len(orders') : LinkOK(orders'[k], positions', rev')
  BY <1>1, <1>5, <1>9
<1> QED BY <1>1, <1>5, <1>8, <1>10 DEF LInv

\* The orders that a revision or a downgrade rewrites one by one.
LEMMA OrderByOrder ==
  ASSUME LInv, NEW f, orders' = f, f = [k \in 1..Len(orders) |-> f[k]], Moments(positions', now'),
         \A k \in 1..Len(orders) : LinkOK(f[k], positions', rev')
  PROVE  LInv'
<1>1. Len(orders) \in Nat
  BY DEF LInv
<1>2. f \in [1..Len(orders) -> Order]
  BY DEF LinkOK
<1>3. f \in Seq(Order) /\ Len(f) = Len(orders)
  BY <1>1, <1>2
<1> QED BY <1>3 DEF LInv

LEMMA UpgradeLinks ==
  ASSUME IInv, LInv, Upgrade
  PROVE  LInv'
<1>1. PICK found \in [1..Len(positions) -> Bots] :
        positions' = [i \in 1..Len(positions) |-> FilledRow(rev + 1, positions[i], found[i])]
  BY DEF Upgrade, FillsIn
<1> DEFINE f == [i \in 1..Len(positions) |-> FilledRow(rev + 1, positions[i], found[i])]
<1>2. /\ rev' = rev + 1 /\ rev \in Nat /\ positions' = f /\ UNCHANGED now
      /\ orders' = IF rev + 1 = Links THEN [k \in 1..Len(orders) |-> LinkOrder(orders[k])] ELSE orders
  BY <1>1 DEF Upgrade, FillsIn, IInv, Base
<1>3. positions \in Seq(Position) /\ Len(positions) \in Nat
  BY DEF IInv, Rows
<1>4. \A i \in 1..Len(positions) : positions[i] \in Position
  BY <1>3
<1>5. \A i \in 1..Len(positions) : /\ SameMoments(positions[i], f[i])
                                   /\ rev + 1 > Links => Owner(f[i]) = Owner(positions[i])
  BY <1>2, <1>4, FilledTrade
<1>6. Len(f) = Len(positions)
  BY <1>3
<1>7. CASE rev + 1 # Links
  <2> HIDE DEF f
  <2>1. (rev' < Links => rev < Links) /\ (rev >= Links => rev + 1 > Links) /\ rev' \in Nat
    BY <1>2, Revisions
  <2>2. \A i \in 1..Len(positions) : SameMoments(positions[i], positions'[i])
    BY <1>2, <1>5
  <2>3. rev >= Links => \A i \in 1..Len(positions) : Owner(positions'[i]) = Owner(positions[i])
    BY <1>2, <1>5, <2>1
  <2>4. Len(positions') = Len(positions) /\ UNCHANGED <<orders, now>>
    BY <1>2, <1>6, <1>7
  <2> QED BY <1>2, <2>1, <2>2, <2>3, <2>4, OrdersStay
<1>8. CASE rev + 1 = Links
  <2>1. f = positions
    <3>1. \A i \in 1..Len(positions) : FilledRow(rev + 1, positions[i], found[i]) = positions[i]
      BY <1>8, Revisions, FilledCases
    <3>2. f = [i \in 1..Len(positions) |-> positions[i]]
      BY <3>1
    <3> QED BY <1>3, <3>2
  <2> HIDE DEF f
  <2> DEFINE g == [k \in 1..Len(orders) |-> LinkOrder(orders[k])]
  <2>2. ASSUME NEW k \in 1..Len(orders)
        PROVE  LinkOK(g[k], positions', rev')
    <3> DEFINE o == orders[k]
               m == Linked(o, "CLOSE")
               l == LinkOrder(o)
    <3>1. LinkOK(o, positions, rev) /\ Moments(positions, now) /\ o \in Order
      BY DEF LInv
    <3>2. o.pos = Null
      BY <1>2, <1>8, <3>1, Revisions DEF LinkOK
    <3> HIDE DEF o
    <3>3. m \in Order /\ SameOrder(o, m)
      BY <1>3, <3>1, LinkedTypes
    <3>4. l = Linked(m, "OPEN")
      BY DEF LinkOrder
    <3> HIDE DEF m, l
    <3>5. l \in Order /\ SameOrder(m, l)
      BY <1>3, <3>1, <3>3, <3>4, LinkedTypes
    <3>6. l.type = o.type
      BY <3>3, <3>5 DEF SameOrder
    <3>7. o.type = "MARKET" => Booked(l, positions) /\ Right(l, positions)
      BY <1>3, <3>1, <3>2, LinkOrderRight DEF LinkOK, l
    <3>8. ~(rev' < Links) /\ positions' = positions
      BY <1>2, <1>8, <2>1, Revisions
    <3>9. LinkOK(l, positions', rev')
      BY <3>5, <3>6, <3>7, <3>8 DEF LinkOK
    <3> QED BY <3>9 DEF l, o
  <2>3. orders' = g /\ g = [k \in 1..Len(orders) |-> g[k]]
    BY <1>2, <1>8
  <2>4. Moments(positions', now')
    BY <1>2, <2>1 DEF LInv
  <2> HIDE DEF g
  <2> QED BY <2>2, <2>3, <2>4, OrderByOrder
<1> QED BY <1>7, <1>8

LEMMA DowngradeLinks ==
  ASSUME IInv, LInv, Downgrade
  PROVE  LInv'
<1> DEFINE f == [i \in 1..Len(positions) |-> LostRow(rev, positions[i])]
           g == [k \in 1..Len(orders) |-> [orders[k] EXCEPT !.pos = Null, !.intent = "null"]]
<1>1. /\ rev' = rev - 1 /\ rev \in Nat /\ rev > 3 /\ positions' = f /\ UNCHANGED now
      /\ orders' = IF rev # Links THEN orders ELSE g
  BY DEF Downgrade, Loses, IInv, Base
<1>2. positions \in Seq(Position) /\ Len(positions) \in Nat
  BY DEF IInv, Rows
<1>3. \A i \in 1..Len(positions) : positions[i] \in Position
  BY <1>2
<1>4. \A i \in 1..Len(positions) : /\ SameMoments(positions[i], f[i])
                                   /\ rev > Links => Owner(f[i]) = Owner(positions[i])
  BY <1>1, <1>3, LostTrade
<1>5. Len(f) = Len(positions)
  BY <1>2
<1> HIDE DEF f, g
<1>6. CASE rev # Links
  <2>1. (rev' < Links => rev < Links) /\ (rev >= Links => rev > Links) /\ rev' \in Nat
    BY <1>1, <1>6, Revisions
  <2>2. \A i \in 1..Len(positions) : SameMoments(positions[i], positions'[i])
    BY <1>1, <1>4
  <2>3. rev >= Links => \A i \in 1..Len(positions) : Owner(positions'[i]) = Owner(positions[i])
    BY <1>1, <1>4, <2>1
  <2>4. Len(positions') = Len(positions) /\ UNCHANGED <<orders, now>>
    BY <1>1, <1>5, <1>6
  <2> QED BY <1>1, <2>1, <2>2, <2>3, <2>4, OrdersStay
<1>7. CASE rev = Links
  <2>1. Moments(positions', now')
    <3>1. Moments(positions, now)
      BY DEF LInv
    <3>2. \A i \in 1..Len(positions) : f[i].at = positions[i].at /\ f[i].closed = positions[i].closed
      BY <1>4 DEF SameMoments, SameTrade
    <3> QED BY <1>1, <1>5, <3>1, <3>2 DEF Moments, Moment, Apart
  <2>2. ASSUME NEW k \in 1..Len(orders)
        PROVE  LinkOK(g[k], positions', rev')
    <3> DEFINE o == orders[k]
               l == Put(o, Null, "null")
    <3>1. LinkOK(o, positions, rev) /\ o \in Order
      BY DEF LInv
    <3>2. g[k] = l
      BY DEF Put, g
    <3>3. l \in Order /\ SameOrder(o, l) /\ l.pos = Null
      <4>1. Null \in Nat \cup {Null} /\ "null" \in {"OPEN", "CLOSE", "null"}
        OBVIOUS
      <4> HIDE DEF o, l
      <4>2. /\ Put(o, Null, "null") \in Order /\ SameOrder(o, Put(o, Null, "null"))
            /\ Put(o, Null, "null").pos = Null
        BY <3>1, <4>1, LinkedOrder
      <4> QED BY <4>2 DEF l
    <3> HIDE DEF l, o
    <3>4. ASSUME l.type = "MARKET"
          PROVE  Booked(l, f) /\ Right(l, f)
      <4>1. o.type = "MARKET" /\ Booked(o, positions)
        BY <3>1, <3>3, <3>4 DEF LinkOK, SameOrder
      <4>2. o.of \in 1..Len(positions) /\ SameMoments(positions[o.of], f[o.of])
        BY <1>4, <4>1 DEF Booked
      <4>3. Booked(l, f)
        BY <1>5, <3>3, <4>1, <4>2 DEF Booked, SameOrder, SameMoments, SameTrade, When, Price, Side
      <4> QED BY <3>3, <4>3 DEF Right
    <3> QED BY <1>1, <3>2, <3>3, <3>4 DEF LinkOK
  <2>3. orders' = g /\ g = [k \in 1..Len(orders) |-> g[k]]
    BY <1>1, <1>7 DEF g
  <2> QED BY <2>1, <2>2, <2>3, OrderByOrder
<1> QED BY <1>6, <1>7

LEMMA StepLinks ==
  ASSUME IInv, LInv, [Next]_vars
  PROVE  LInv'
<1>1. CASE \/ \E by \in Owners, price \in EntryPrices :
                \/ \E side \in {"LONG", "SHORT"} : OpenPosition(by, side, price)
                \/ \E side \in {"BUY", "SELL"} : QueueLimit(by, side, price)
           \/ \E k \in 1..Len(orders) : FillLimit(k)
           \/ \E i \in 1..Len(positions), price \in Prices : ClosePosition(i, price)
           \/ \E b \in Bots : DeleteBot(b)
  BY <1>1, Constants, OpenLinks, QueueLinks, FillLinks, CloseLinks, DeleteLinks
<1>2. CASE ImportFunding \/ UNCHANGED vars
  <2>1. UNCHANGED <<positions, orders, now, rev>>
    BY <1>2 DEF ImportFunding, vars, rowVars
  <2> QED BY <2>1 DEF LInv
<1> QED
  BY <1>1, <1>2, UpgradeLinks, DowngradeLinks DEF Next, Application

LEMMA StartsLinked ==
  ASSUME Init
  PROVE  LInv
BY DEF Init, LInv, Moments

LEMMA Inductive ==
  /\ Init => IInv /\ LInv
  /\ IInv /\ LInv /\ [Next]_vars => IInv' /\ LInv'
<1>1. LInv => orders \in Seq(Order)
  BY DEF LInv
<1> QED
  BY <1>1, Starts, StartsLinked, StepKeeps, StepLinks DEF OrdersTyped

-----------------------------------------------------------------------------
\* Upgraded rows have what the code of their revision reads: a stop that R is measured
\* against, a source, and an account for every bot that trades on paper.
THEOREM RowsFilledIn == Spec => []NothingLeftNull
<1>1. IInv => NothingLeftNull
  BY DEF IInv, Rows, Base, RowOK, Filled, NothingLeftNull
<1> QED BY <1>1, Inductive, PTL DEF Spec

\* b3d9f0a1c2e4 and what the application writes after it: a bot's trade is shown as that
\* bot's, also when it opened long after its entry, unless the bot was deleted first and
\* the entries near the opening do not tell.
THEOREM BotTradesStay == Spec => []BotTradesKept
<1>1. ASSUME IInv PROVE BotTradesKept
  <2> SUFFICES ASSUME NEW i \in 1..Len(positions), rev >= Snapshot, positions[i].by # Null,
                      positions[i].bot = Null =>
                        Entries(positions[i]) # {}
                        /\ \A a \in Entries(positions[i]) : a.bot = positions[i].by
               PROVE  positions[i].source = "BOT" /\ positions[i].ref = positions[i].by
    BY DEF BotTradesKept
  <2>1. Attributed(positions[i], rev, audits)
    BY <1>1 DEF IInv, Rows, RowOK
  <2>2. Entries(positions[i]) = EntriesNear(positions[i], audits)
    BY DEF Entries, EntriesNear
  <2>3. positions[i].bot = Null => Told(positions[i], audits)
    BY <2>2 DEF Told
  <2> QED BY <2>1, <2>3 DEF Attributed
<1>2. IInv => BotTradesKept
  BY <1>1
<1> QED BY <1>2, Inductive, PTL DEF Spec

\* a1b2c3d4e5f7 and what the application writes after it: until its bot is deleted, an
\* order at market that is linked is linked to its own trade, unless a revision took that
\* trade for another's or a closing at the same price hides an opening.
THEOREM OrdersFindTrades == Spec => []LinksRight
<1>1. ASSUME LInv PROVE LinksRight
  <2> SUFFICES ASSUME NEW k \in 1..Len(orders), orders[k].type = "MARKET", orders[k].pos # Null,
                      orders[k].bot = orders[k].by,
                      Owner(positions[orders[k].of]) = orders[k].bot,
                      orders[k].was = "OPEN" => Matches(orders[k], "CLOSE") = {}
               PROVE  orders[k].pos = orders[k].of /\ orders[k].intent = orders[k].was
    BY DEF LinksRight
  <2>1. Right(orders[k], positions)
    BY <1>1 DEF LInv, LinkOK
  <2>2. Matches(orders[k], "CLOSE") = {} => \A i \in 1..Len(positions) : ~Fits(positions[i], orders[k], "CLOSE")
    BY MatchesFit
  <2> QED BY <2>1, <2>2 DEF Right
<1>2. LInv => LinksRight
  BY <1>1
<1> QED BY <1>2, Inductive, PTL DEF Spec
=============================================================================
