-------------------------- MODULE ExchangeExecutor --------------------------
(***************************************************************************)
(* app/execution/exchange.py: the executor that trades one symbol of one   *)
(* bot on Binance Futures, with the client of app/execution/               *)
(* binance_futures.py.  Three parties share the position:                  *)
(*   - the runner task: on_price on every tick, submit on every signal;    *)
(*   - API tasks: DELETE-style "close" and "edit SL/TP" requests;          *)
(*   - the exchange: fills, SL/TP triggers, and a human using its own app. *)
(* asyncio runs one task at a time and switches only at an await, so an    *)
(* action is the code between two awaits; pc[t] names the call task t is   *)
(* waiting for.  A crash loses everything but the database and exchange.   *)
(***************************************************************************)
EXTENDS Naturals, Sequences, FiniteSets

CONSTANTS
  Apis,       \* API tasks that may be in flight at the same time
  ApiOps,     \* the requests they carry, a subset of {"close", "sltp"}
  LegChoices, \* which of SL and TP a signal or an edit may set
  MaxPos,     \* bound: positions the bot opens
  MaxApi,     \* bound: API requests
  MaxFail,    \* bound: network calls that fail
  MaxCrash,   \* bound: process crashes
  MaxHand     \* bound: actions of the human on the exchange's own app

Legs  == {"sl", "tp"}
Sides == {"LONG", "SHORT"}
Runner == "runner"
Tasks == {Runner} \cup Apis

ASSUME ConstantsOK ==
  /\ Runner \notin Apis
  /\ ApiOps \subseteq {"close", "sltp"}
  /\ LegChoices \subseteq SUBSET Legs
  /\ MaxPos \in Nat /\ MaxApi \in Nat /\ MaxFail \in Nat
  /\ MaxCrash \in Nat /\ MaxHand \in Nat

VARIABLES
  app,      \* "down" | "restoring" (restore_open is awaited) | "up"
  obj,      \* heap of engine Position objects: obj[p] = [side, legs]
  engine,   \* engine.position: an object, or 0 for None
  protect,  \* _protect: the algo order that carries each leg, 0 if none
  posDb,    \* _pos_db_id, 0 for None
  rows,     \* table positions: rows[r] = [side, legs, prot, open]
  xpos,     \* the symbol's position on the exchange
  algos,    \* SL/TP orders (closePosition) resting on the exchange
  nAlgo,    \* algo ids given out so far
  pc,       \* what each task awaits; "idle" when it runs no handler
  ret,      \* where control goes when the awaited coroutine returns
  inExcept, \* tasks whose reconcile runs inside _market_close's except
  held,     \* local variable pos/p: the object a task captured
  ids,      \* local: algo ids that cancel_protection was given
  want,     \* local: legs that protect has still to place
  newp,     \* local: out, the dict protect is building
  row,      \* local: the row id an UPDATE was built with
  draft,    \* local: the values an INSERT or UPDATE was built with
  signal,   \* the runner's current Signal
  request,  \* the API request each API task carries
  used      \* budgets spent: [api, fail, crash, hand]

memory   == <<obj, engine, protect, posDb>>
exchange == <<xpos, algos, nAlgo>>
locals   == <<held, ids, want, newp, row, draft, signal, request>>
control  == <<app, pc, ret, inExcept>>
vars == <<memory, rows, exchange, locals, control, used>>

NoProtect == [l \in Legs |-> 0]
Flat      == [side |-> "FLAT", by |-> "none"]
Objects   == DOMAIN obj
RowIds    == DOMAIN rows

\* The algo ids a protection dict names.
Placed(p) == {p[l] : l \in Legs} \ {0}
OpenRows  == {r \in RowIds : rows[r].open}
Goto(t, label) == pc' = [pc EXCEPT ![t] = label]

\* A network call fails, before or after the exchange has acted on it.
Fail == /\ used.fail < MaxFail
        /\ used' = [used EXCEPT !.fail = @ + 1]
-----------------------------------------------------------------------------
(* Control flow shared by the handlers.                                    *)

\* The coroutine task t awaited returns normally; e and prot are the engine's
\* position and _protect at that point.  After on_price's reconcile the SL/TP
\* fallback runs: only for a leg the exchange does not carry.
Return(t, e, prot) ==
  \/ /\ ret[t] \in {"end", "restore"}
     /\ Goto(t, "idle")
     /\ app' = IF ret[t] = "restore" THEN "up" ELSE app
     /\ UNCHANGED <<ret, held>>
  \/ /\ ret[t] = "open"
     /\ Goto(t, "op_check")
     /\ UNCHANGED <<app, ret, held>>
  \/ /\ ret[t] = "sltp"
     /\ Goto(t, "idle")
     /\ UNCHANGED <<app, ret, held>>
  \/ /\ ret[t] = "sltp" /\ e # 0
     /\ \E l \in obj[e].legs : prot[l] = 0
     /\ Goto(t, "mc_order")
     /\ held' = [held EXCEPT ![t] = e]
     /\ ret' = [ret EXCEPT ![t] = "end"]
     /\ UNCHANGED app

\* Return, or, in the except branch of _market_close with a position still in
\* the engine, re-raise: every caller then gives up.
FinishMutant(t, e, prot) ==  \* the exception is swallowed
  inExcept' = inExcept \ {t} /\ Return(t, e, prot)
Finish(t, e, prot) ==
  /\ inExcept' = inExcept \ {t}
  /\ IF t \in inExcept /\ e # 0
     THEN /\ Goto(t, "idle")
          /\ UNCHANGED <<app, ret, held>>
     ELSE Return(t, e, prot)

\* _market_close up to its first await.
BeginClose(t, then) ==
  /\ Goto(t, "mc_order")
  /\ held' = [held EXCEPT ![t] = engine]
  /\ ret'  = [ret EXCEPT ![t] = then]

\* cancel_protection is back with the orders in gone cancelled: _protect = {},
\* force_close, and _persist_close builds its UPDATE from _pos_db_id.
CancelledThenClose(t, gone) ==
  /\ algos' = {a \in algos : a.id \notin gone}
  /\ protect' = NoProtect
  /\ engine' = 0
  /\ IF engine # 0
     THEN /\ row' = [row EXCEPT ![t] = posDb]
          /\ Goto(t, "persist")
          /\ UNCHANGED <<app, ret, held, inExcept>>
     ELSE /\ Finish(t, 0, NoProtect)
          /\ UNCHANGED row

\* cancel_protection(symbol, _protect): no await when there is no id to cancel.
BeginCancel(t) ==
  IF Placed(protect) = {}
  THEN /\ CancelledThenClose(t, {})
       /\ UNCHANGED ids
  ELSE /\ ids' = [ids EXCEPT ![t] = Placed(protect)]
       /\ Goto(t, "cancel")
       /\ UNCHANGED <<algos, protect, engine, row, app, ret, held, inExcept>>
-----------------------------------------------------------------------------
(* The runner: on_price and submit.                                        *)

Ready(t) == app = "up" /\ pc[t] = "idle"

\* on_price, five seconds after the last poll: reconcile, then the fallback.
TickReconcile ==
  /\ Ready(Runner) /\ engine # 0
  /\ Goto(Runner, "rec_read")
  /\ ret' = [ret EXCEPT ![Runner] = "sltp"]
  /\ UNCHANGED <<memory, rows, exchange, locals, app, inExcept, used>>

\* on_price between two polls: client-side SL/TP for legs not on the exchange.
TickFallback ==
  /\ Ready(Runner) /\ engine # 0
  /\ \E l \in obj[engine].legs : protect[l] = 0
  /\ BeginClose(Runner, "end")
  /\ UNCHANGED <<memory, rows, exchange, ids, want, newp, row, draft, signal,
                 request, app, inExcept, used>>

\* on_price with no position only stores the price.
TickNothing == Ready(Runner) /\ engine = 0 /\ UNCHANGED vars

SubmitClose ==
  /\ Ready(Runner) /\ engine # 0
  /\ BeginClose(Runner, "end")
  /\ UNCHANGED <<memory, rows, exchange, ids, want, newp, row, draft, signal,
                 request, app, inExcept, used>>

\* BUY or SELL: nothing on the same side, close first on the other side.
SubmitOpen(side, legs) ==
  /\ Ready(Runner)
  /\ Len(obj) < MaxPos + used.crash
  /\ signal' = [side |-> side, legs |-> legs]
  /\ \/ /\ engine = 0
        /\ Goto(Runner, "op_check")
        /\ UNCHANGED <<ret, held>>
     \/ /\ engine # 0 /\ obj[engine].side # side
        /\ BeginClose(Runner, "open")
  /\ UNCHANGED <<memory, rows, exchange, ids, want, newp, row, draft,
                 request, app, inExcept, used>>

\* The guard of submit: never trade into a position the app does not own.
OpenCheck ==
  /\ pc[Runner] = "op_check"
  /\ \/ xpos = Flat /\ Goto(Runner, "op_order") /\ UNCHANGED used
     \/ xpos # Flat /\ Goto(Runner, "idle") /\ UNCHANGED used
     \/ Fail /\ Goto(Runner, "idle")
  /\ UNCHANGED <<memory, rows, exchange, locals, app, ret, inExcept>>

\* What the exchange holds once a market order of the app has executed: one-way
\* mode nets it with whatever is there.
Netted == IF xpos = Flat
          THEN {[side |-> signal.side, by |-> "app"]}
          ELSE {Flat, xpos, [side |-> signal.side, by |-> "app"]}

\* market_order without reduceOnly; the answer may be lost.
OpenOrder ==
  /\ pc[Runner] = "op_order"
  /\ \/ /\ xpos' \in Netted
        /\ \/ Goto(Runner, "op_fill") /\ UNCHANGED used
           \/ Fail /\ Goto(Runner, "idle")
     \/ Fail /\ Goto(Runner, "idle") /\ UNCHANGED xpos
  /\ UNCHANGED <<memory, rows, algos, nAlgo, locals, app, ret, inExcept>>
-----------------------------------------------------------------------------
(* Registering the fill, placing SL/TP, and the position row.              *)

\* _persist_position_open up to its INSERT: the row is built from the engine's
\* position and _protect as they are now; no position is an AssertionError.
BeginPersistOpenMutant(t, objects, e, prot) ==  \* ext_protect is not stored
  IF e = 0
  THEN Goto(t, "idle") /\ UNCHANGED draft
  ELSE Goto(t, "po") /\ draft' = [draft EXCEPT ![t] =
         [side |-> objects[e].side, legs |-> objects[e].legs,
          prot |-> NoProtect, open |-> TRUE]]
BeginPersistOpen(t, objects, e, prot) ==
  IF e = 0
  THEN Goto(t, "idle") /\ UNCHANGED draft
  ELSE /\ Goto(t, "po")
       /\ draft' = [draft EXCEPT ![t] =
            [side |-> objects[e].side, legs |-> objects[e].legs, prot |-> prot,
             open |-> TRUE]]

\* modify_sltp after the legs are placed: UPDATE the row, if there is one.
BeginUpdate(t, objects, p, prot) ==
  IF posDb = 0
  THEN Goto(t, "idle") /\ UNCHANGED <<draft, row>>
  ELSE /\ Goto(t, "ms_db")
       /\ row' = [row EXCEPT ![t] = posDb]
       /\ draft' = [draft EXCEPT ![t] =
            [side |-> objects[p].side, legs |-> request[t].legs, prot |-> prot,
             open |-> TRUE]]

\* self._protect = result of _safe_protect, and what the caller does next.
Protected(t, objects, e, prot) ==
  /\ protect' = prot
  /\ IF t = Runner
     THEN BeginPersistOpen(t, objects, e, prot) /\ UNCHANGED row
     ELSE BeginUpdate(t, objects, held[t], prot)

\* _safe_protect(p): no call when the position has neither SL nor TP.
BeginProtect(t, objects, e, p) ==
  IF objects[p].legs = {}
  THEN /\ Protected(t, objects, e, NoProtect)
       /\ UNCHANGED <<want, newp>>
  ELSE /\ want' = [want EXCEPT ![t] = objects[p].legs]
       /\ newp' = [newp EXCEPT ![t] = NoProtect]
       /\ Goto(t, "pr")
       /\ UNCHANGED <<protect, draft, row>>

\* _apply_fill: engine.submit opens the position.  Its branches for a position
\* already there (ignore, or close and reopen) are dead here: they would need
\* engine # 0 at "op_fill", which FillMeetsEmptyEngine excludes.
OpenFill ==
  /\ pc[Runner] = "op_fill"
  /\ engine = 0
  /\ LET p == Len(obj) + 1
         objects == Append(obj, signal)
     IN /\ obj' = objects
        /\ engine' = p
        /\ held' = [held EXCEPT ![Runner] = p]
        /\ BeginProtect(Runner, objects, p, p)
  /\ UNCHANGED <<posDb, rows, exchange, ids, signal, request, app, ret,
                 inExcept, used>>

\* client.protect places SL, then TP; any error makes _safe_protect return {}.
Protect(t) ==
  /\ pc[t] = "pr"
  /\ LET leg == IF "sl" \in want[t] THEN "sl" ELSE "tp"
         placed == algos \cup
           {[id |-> nAlgo + 1, leg |-> leg, side |-> obj[held[t]].side]}
         out == [newp[t] EXCEPT ![leg] = nAlgo + 1]
     IN \/ /\ algos' = placed /\ nAlgo' = nAlgo + 1
           /\ want' = [want EXCEPT ![t] = @ \ {leg}]
           /\ newp' = [newp EXCEPT ![t] = out]
           /\ IF want[t] = {leg}
              THEN Protected(t, obj, engine, out)
              ELSE UNCHANGED <<pc, protect, draft, row>>
           /\ UNCHANGED used
        \/ /\ Fail
           /\ \/ algos' = placed /\ nAlgo' = nAlgo + 1
              \/ UNCHANGED <<algos, nAlgo>>
           /\ Protected(t, obj, engine, NoProtect)
           /\ UNCHANGED <<want, newp>>
  /\ UNCHANGED <<obj, engine, posDb, rows, xpos, held, ids, signal, request,
                 app, ret, inExcept>>

\* The INSERT commits and _pos_db_id is set.
PersistOpen ==
  /\ pc[Runner] = "po"
  /\ rows' = Append(rows, draft[Runner])
  /\ posDb' = Len(rows) + 1
  /\ Goto(Runner, "idle")
  /\ UNCHANGED <<obj, engine, protect, exchange, locals, app, ret, inExcept,
                 used>>
-----------------------------------------------------------------------------
(* _market_close, reconcile and _persist_close, in whatever task runs them. *)

\* The reduceOnly order: it closes a position of the side the task captured,
\* and is rejected when there is none.
CloseOrderMutant(t) ==  \* the error of the close order is ignored
  /\ pc[t] = "mc_order"
  /\ \/ /\ xpos' = IF xpos.side = obj[held[t]].side THEN Flat ELSE xpos
        /\ UNCHANGED used
     \/ Fail /\ UNCHANGED xpos
  /\ Goto(t, "mc_ok")
  /\ UNCHANGED <<memory, rows, algos, nAlgo, locals, app, ret, inExcept>>
CloseOrder(t) ==
  /\ pc[t] = "mc_order"
  /\ \/ /\ xpos.side = obj[held[t]].side
        /\ xpos' = Flat
        /\ \/ Goto(t, "mc_ok") /\ UNCHANGED used
           \/ Fail /\ Goto(t, "mc_err")
     \/ /\ xpos.side # obj[held[t]].side
        /\ Goto(t, "mc_err")
        /\ UNCHANGED <<xpos, used>>
     \/ Fail /\ Goto(t, "mc_err") /\ UNCHANGED xpos
  /\ UNCHANGED <<memory, rows, algos, nAlgo, locals, app, ret, inExcept>>

CloseOk(t) ==
  /\ pc[t] = "mc_ok"
  /\ BeginCancel(t)
  /\ UNCHANGED <<obj, posDb, rows, xpos, nAlgo, want, newp, draft, signal,
                 request, used>>

\* except: await reconcile(), which does nothing without a position.
CloseErrorMutant(t) ==  \* SL/TP are cancelled although the close failed
  /\ pc[t] = "mc_err"
  /\ inExcept' = inExcept \cup {t}
  /\ Goto(t, "rec_read")
  /\ algos' = {a \in algos : a.id \notin Placed(protect)}
  /\ UNCHANGED <<app, ret, held, memory, rows, xpos, nAlgo, ids, want, newp,
                 row, draft, signal, request, used>>
CloseError(t) ==
  /\ pc[t] = "mc_err"
  /\ IF engine = 0
     THEN Return(t, 0, protect) /\ UNCHANGED inExcept
     ELSE /\ inExcept' = inExcept \cup {t}
          /\ Goto(t, "rec_read")
          /\ UNCHANGED <<app, ret, held>>
  /\ UNCHANGED <<memory, rows, exchange, ids, want, newp, row, draft, signal,
                 request, used>>

\* reconcile: is the exchange flat?  Not flat, or no answer: nothing to do.
ReconcileReadMutant(t) ==  \* a flat exchange is taken for no news
  /\ pc[t] = "rec_read"
  /\ Finish(t, engine, protect)
  /\ UNCHANGED <<memory, rows, exchange, ids, want, newp, row, draft, signal,
                 request, used>>
ReconcileRead(t) ==
  /\ pc[t] = "rec_read"
  /\ \/ /\ xpos = Flat
        /\ Goto(t, "rec_fill")
        /\ UNCHANGED <<app, ret, held, inExcept, used>>
     \/ xpos # Flat /\ Finish(t, engine, protect) /\ UNCHANGED used
     \/ Fail /\ Finish(t, engine, protect)
  /\ UNCHANGED <<memory, rows, exchange, ids, want, newp, row, draft, signal,
                 request>>

\* last_close_fill answers: the position is gone, drop its other leg and book it.
ReconcileFill(t) ==
  /\ pc[t] = "rec_fill"
  /\ \/ BeginCancel(t) /\ UNCHANGED used
     \/ /\ Fail /\ Finish(t, engine, protect)
        /\ UNCHANGED <<algos, protect, engine, row, ids>>
  /\ UNCHANGED <<obj, posDb, rows, xpos, nAlgo, want, newp, draft, signal,
                 request>>

\* cancel_protection swallows the error of each cancel it could not make.
Cancel(t) ==
  /\ pc[t] = "cancel"
  /\ \/ CancelledThenClose(t, ids[t]) /\ UNCHANGED used
     \/ Fail /\ \E lost \in SUBSET ids[t] : CancelledThenClose(t, ids[t] \ lost)
  /\ UNCHANGED <<obj, posDb, rows, xpos, nAlgo, ids, want, newp, draft, signal,
                 request>>

\* _persist_close commits; then _pos_db_id = None, whatever it is by now.
PersistClose(t) ==
  /\ pc[t] = "persist"
  /\ rows' = IF row[t] = 0 THEN rows ELSE [rows EXCEPT ![row[t]].open = FALSE]
  /\ posDb' = 0
  /\ Finish(t, engine, protect)
  /\ UNCHANGED <<obj, engine, protect, exchange, ids, want, newp, row, draft,
                 signal, request, used>>
-----------------------------------------------------------------------------
(* The API: the route checks the row, audits, and only then acts.          *)

ApiRequest(t, op, legs) ==
  /\ op \in ApiOps
  /\ Ready(t)
  /\ used.api < MaxApi
  /\ OpenRows # {}
  /\ used' = [used EXCEPT !.api = @ + 1]
  /\ request' = [request EXCEPT ![t] = [op |-> op, legs |-> legs]]
  /\ Goto(t, "audit")
  /\ UNCHANGED <<memory, rows, exchange, held, ids, want, newp, row, draft,
                 signal, app, ret, inExcept>>

\* The audit row is committed: the request acts on the position of this moment.
ApiClose(t) ==
  /\ pc[t] = "audit" /\ request[t].op = "close"
  /\ \/ engine = 0 /\ Goto(t, "idle") /\ UNCHANGED <<ret, held>>
     \/ engine # 0 /\ BeginClose(t, "end")
  /\ UNCHANGED <<memory, rows, exchange, ids, want, newp, row, draft, signal,
                 request, app, inExcept, used>>

ApiModify(t) ==
  /\ pc[t] = "audit" /\ request[t].op = "sltp"
  /\ IF engine = 0
     THEN /\ Goto(t, "idle")
          /\ UNCHANGED <<obj, protect, held, ids, want, newp, row, draft>>
     ELSE LET objects == [obj EXCEPT ![engine].legs = request[t].legs]
          IN /\ obj' = objects
             /\ held' = [held EXCEPT ![t] = engine]
             /\ IF Placed(protect) # {}
                THEN /\ ids' = [ids EXCEPT ![t] = Placed(protect)]
                     /\ Goto(t, "ms_cancel")
                     /\ UNCHANGED <<protect, want, newp, row, draft>>
                ELSE /\ want' = [want EXCEPT ![t] = request[t].legs]
                     /\ newp' = [newp EXCEPT ![t] = NoProtect]
                     /\ IF request[t].legs = {}
                        THEN /\ protect' = NoProtect
                             /\ BeginUpdate(t, objects, engine, NoProtect)
                        ELSE Goto(t, "pr") /\ UNCHANGED <<protect, row, draft>>
                     /\ UNCHANGED ids
  /\ UNCHANGED <<engine, posDb, rows, exchange, signal, request, app, ret,
                 inExcept, used>>

\* The old legs are cancelled; _safe_protect places the captured object's legs.
ModifyCancel(t) ==
  /\ pc[t] = "ms_cancel"
  /\ \/ algos' = {a \in algos : a.id \notin ids[t]} /\ UNCHANGED used
     \/ Fail /\ \E lost \in SUBSET ids[t] :
                  algos' = {a \in algos : a.id \notin ids[t] \ lost}
  /\ BeginProtect(t, obj, engine, held[t])
  /\ UNCHANGED <<obj, engine, posDb, rows, xpos, nAlgo, held, ids, signal,
                 request, app, ret, inExcept>>

ModifyCommit(t) ==
  /\ pc[t] = "ms_db"
  /\ rows' = [rows EXCEPT ![row[t]].legs = draft[t].legs,
                          ![row[t]].prot = draft[t].prot]
  /\ Goto(t, "idle")
  /\ UNCHANGED <<memory, exchange, locals, app, ret, inExcept, used>>
-----------------------------------------------------------------------------
(* The exchange and the process.                                           *)

\* An algo order triggers: it closes a position of its side, or expires.
AlgoFires(a) ==
  /\ algos' = algos \ {a}
  /\ xpos' = IF xpos.side = a.side THEN Flat ELSE xpos
  /\ UNCHANGED <<memory, rows, nAlgo, locals, control, used>>

\* Liquidation, or the human closes the position in the exchange's own app.
ClosedOutside ==
  /\ xpos # Flat
  /\ used.hand < MaxHand
  /\ used' = [used EXCEPT !.hand = @ + 1]
  /\ xpos' = Flat
  /\ UNCHANGED <<memory, rows, algos, nAlgo, locals, control>>

\* The human opens a position there, at any moment: also between the check of
\* submit and its order.
OpenedOutside(side) ==
  /\ xpos = Flat
  /\ used.hand < MaxHand
  /\ used' = [used EXCEPT !.hand = @ + 1]
  /\ xpos' = [side |-> side, by |-> "hand"]
  /\ UNCHANGED <<memory, rows, algos, nAlgo, locals, control>>

\* The process dies: what was in memory and every task are gone.
Crash ==
  /\ app # "down"
  /\ used.crash < MaxCrash
  /\ used' = [used EXCEPT !.crash = @ + 1]
  /\ app' = "down"
  /\ engine' = 0 /\ protect' = NoProtect /\ posDb' = 0
  /\ pc' = [t \in Tasks |-> "idle"]
  /\ inExcept' = {}
  /\ UNCHANGED <<obj, rows, exchange, locals, ret>>

\* restore_open: the newest OPEN row comes back, with the algo ids it stored,
\* and reconcile looks whether it was closed meanwhile.
Restart ==
  /\ app = "down"
  /\ IF OpenRows = {}
     THEN app' = "up" /\ UNCHANGED <<memory, pc, ret>>
     ELSE LET r == CHOOSE x \in OpenRows : \A y \in OpenRows : y <= x
          IN /\ app' = "restoring"
             /\ obj' = Append(obj, [side |-> rows[r].side, legs |-> rows[r].legs])
             /\ engine' = Len(obj) + 1
             /\ posDb' = r
             /\ protect' = rows[r].prot
             /\ Goto(Runner, "rec_read")
             /\ ret' = [ret EXCEPT ![Runner] = "restore"]
  /\ UNCHANGED <<rows, exchange, locals, inExcept, used>>
-----------------------------------------------------------------------------
Blank == [side |-> "LONG", legs |-> {}, prot |-> NoProtect, open |-> FALSE]

Init ==
  /\ app = "up"
  /\ obj = <<>> /\ rows = <<>>
  /\ engine = 0 /\ protect = NoProtect /\ posDb = 0
  /\ xpos = Flat /\ algos = {} /\ nAlgo = 0
  /\ pc = [t \in Tasks |-> "idle"] /\ ret = [t \in Tasks |-> "end"]
  /\ inExcept = {}
  /\ held = [t \in Tasks |-> 0] /\ row = [t \in Tasks |-> 0]
  /\ ids = [t \in Tasks |-> {}] /\ want = [t \in Tasks |-> {}]
  /\ newp = [t \in Tasks |-> NoProtect]
  /\ draft = [t \in Tasks |-> Blank]
  /\ signal = [side |-> "LONG", legs |-> {}]
  /\ request = [t \in Apis |-> [op |-> "close", legs |-> {}]]
  /\ used = [api |-> 0, fail |-> 0, crash |-> 0, hand |-> 0]

\* What brings a handler that has started to its end.
Continue(t) ==
  \/ CloseOrder(t) \/ CloseOk(t) \/ CloseError(t)
  \/ ReconcileRead(t) \/ ReconcileFill(t) \/ Cancel(t) \/ PersistClose(t)
  \/ Protect(t)

RunnerStep ==
  \/ Continue(Runner)
  \/ OpenCheck \/ OpenOrder \/ OpenFill \/ PersistOpen

ApiStep(t) ==
  \/ Continue(t)
  \/ ApiClose(t) \/ ApiModify(t) \/ ModifyCancel(t) \/ ModifyCommit(t)

Next ==
  \/ TickReconcile \/ TickFallback \/ TickNothing \/ SubmitClose
  \/ \E side \in Sides, legs \in LegChoices : SubmitOpen(side, legs)
  \/ RunnerStep
  \/ \E t \in Apis :
       \/ ApiRequest(t, "close", {})
       \/ \E legs \in LegChoices : ApiRequest(t, "sltp", legs)
       \/ ApiStep(t)
  \/ \E a \in algos : AlgoFires(a)
  \/ ClosedOutside
  \/ \E side \in Sides : OpenedOutside(side)
  \/ Crash \/ Restart

\* Started handlers go on; the supervisor restarts the process; ticks keep
\* coming, and every tick polls the exchange first once five seconds are over.
Fairness ==
  /\ WF_vars(RunnerStep)
  /\ \A t \in Apis : WF_vars(ApiStep(t))
  /\ WF_vars(Restart)
  /\ SF_vars(TickReconcile)

Spec == Init /\ [][Next]_vars /\ Fairness
-----------------------------------------------------------------------------
(* Properties.                                                             *)

Position == [side : Sides, legs : SUBSET Legs]
Dict     == [Legs -> Nat]

Row      == [side : Sides, legs : SUBSET Legs, prot : Dict, open : BOOLEAN]

\* A task that closes or protects a position holds one that the engine has had.
HoldsKnown ==
  \A t \in Tasks : pc[t] \in {"mc_order", "pr", "ms_cancel"} => held[t] \in Objects

\* Every variable, the handlers' locals included, holds a value of the kind the
\* code stores in it, and no reference dangles: the engine's position, the row
\* kept for it, and the position a handler captured before an await are there.
TypeOK ==
  /\ app \in {"down", "restoring", "up"}
  /\ obj \in Seq(Position)
  /\ rows \in Seq(Row)
  /\ engine \in Objects \cup {0} /\ posDb \in RowIds \cup {0}
  /\ protect \in Dict
  /\ xpos \in [side : Sides, by : {"app", "hand"}] \cup {Flat}
  /\ algos \subseteq [id : Nat, leg : Legs, side : Sides] /\ nAlgo \in Nat
  /\ pc \in [Tasks -> {"idle", "op_check", "op_order", "op_fill", "pr", "po",
                       "mc_order", "mc_ok", "mc_err", "rec_read", "rec_fill",
                       "cancel", "persist", "audit", "ms_cancel", "ms_db"}]
  /\ ret \in [Tasks -> {"end", "open", "sltp", "restore"}]
  /\ inExcept \subseteq Tasks
  /\ held \in [Tasks -> Nat] /\ ids \in [Tasks -> SUBSET Nat]
  /\ want \in [Tasks -> SUBSET Legs] /\ newp \in [Tasks -> Dict]
  /\ row \in [Tasks -> Nat] /\ draft \in [Tasks -> Row]
  /\ signal \in Position
  /\ request \in [Apis -> [op : {"close", "sltp"}, legs : SUBSET Legs]]
  /\ HoldsKnown

\* "never trade into a position the app doesn't own" (exchange.py:102-103): while an
\* opening order is on its way the symbol is flat on the exchange.  It does not
\* hold: the position can be opened by hand after the check of submit.
NoBlindTrade == pc[Runner] = "op_order" => xpos = Flat

\* _apply_fill (exchange.py:267): a fill never meets a position in the engine,
\* which would swallow it (same side) or book a close nobody sent (other side).
FillMeetsEmptyEngine ==
  pc[Runner] \in {"op_check", "op_order", "op_fill"} => engine = 0

\* "Close FIRST, cancel SL/TP after" (exchange.py:303): the runner touches the
\* protective orders of a close only when the position they guard is gone.
CancelAfterClose ==
  pc[Runner] \in {"mc_ok", "rec_fill", "cancel"} => xpos.by # "app"

\* "close positions by hand — at any time, alongside bots" (README.md:43): a task that
\* has closed a position on the exchange (_market_close) still finds that one in the
\* engine, or none.  With an API task it does not hold.
ClosesWhatItSent ==
  \A t \in Tasks : pc[t] = "mc_ok" => engine \in {0, held[t]}

AtRest == app = "up" /\ \A t \in Tasks : pc[t] = "idle"
\* The engine's position is the one on the exchange.
Owns == engine # 0 /\ xpos.by = "app" /\ xpos.side = obj[engine].side

\* Database and memory agree whenever no handler is running: one OPEN row, the
\* engine's, with the SL/TP and algo ids a restart will need; none otherwise.
RowsMatchEngine ==
  AtRest =>
    /\ OpenRows = IF engine = 0 THEN {} ELSE {posDb}
    /\ engine # 0 => /\ rows[posDb].side = obj[engine].side
                     /\ rows[posDb].legs = obj[engine].legs
                     /\ rows[posDb].prot = protect

\* on_price (exchange.py:144-147) leaves a leg alone once _protect names an order
\* for it, so that order must rest on the exchange as long as the position lives:
\* otherwise neither side watches the stop.
NoPhantomProtection ==
  AtRest /\ Owns =>
    \A l \in Legs : protect[l] # 0 =>
      \E a \in algos : a.id = protect[l] /\ a.leg = l /\ a.side = xpos.side

\* reconcile: a position that ended on the exchange is booked, unless a new one
\* takes its place there first.
ExternalCloseBooked ==
  engine # 0 /\ xpos = Flat ~> engine = 0 \/ xpos # Flat
=============================================================================
