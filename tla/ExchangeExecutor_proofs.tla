----------------------- MODULE ExchangeExecutor_proofs -----------------------
(***************************************************************************)
(* Safety of the exchange executor for any number of positions, failures   *)
(* and crashes.  With any API tasks: OwnsControl says what the runner's    *)
(* program counter implies about the engine, the exchange and the call     *)
(* stack, Types what the variables hold.  For a bot's task alone:          *)
(* Following says how far the rows have followed the engine, Guarded that  *)
(* the orders a position's protection names rest on the exchange.          *)
(***************************************************************************)
EXTENDS ExchangeExecutor, WellFoundedInduction, TLAPS

Labels == {"idle", "op_check", "op_order", "op_fill", "pr", "po", "mc_order",
           "mc_ok", "mc_err", "rec_read", "rec_fill", "cancel", "persist",
           "audit", "ms_cancel", "ms_db"}

ControlType ==
  /\ pc \in [Tasks -> Labels]
  /\ ret \in [Tasks -> {"end", "open", "sltp", "restore"}]
  /\ inExcept \subseteq Tasks

\* Nothing runs while the process is down, and the runner serves no request.
RunnerLabels ==
  /\ app = "down" => pc[Runner] = "idle"
  /\ pc[Runner] \notin {"audit", "ms_cancel", "ms_db"}

\* Between force_close and the end of _persist_close the engine stays empty.
EmptyWhilePersisting == pc[Runner] = "persist" => engine = 0

\* A reversal reaches reconcile only through _market_close's except branch.
ReversalReconciles ==
  pc[Runner] \in {"rec_read", "rec_fill"} /\ ret[Runner] = "open"
    => Runner \in inExcept

OwnsControl ==
  /\ ControlType
  /\ RunnerLabels
  /\ EmptyWhilePersisting
  /\ ReversalReconciles
  /\ FillMeetsEmptyEngine
  /\ CancelAfterClose

USE DEF Runner, Tasks

\* What a coroutine's normal return does to the runner's control state.
LEMMA ReturnLemma ==
  ASSUME ControlType, NEW t \in Tasks, NEW e, NEW prot, Return(t, e, prot)
  PROVE  /\ pc' \in [Tasks -> Labels]
         /\ ret' \in [Tasks -> {"end", "open", "sltp", "restore"}]
         /\ \A u \in Tasks \ {t} : pc'[u] = pc[u] /\ ret'[u] = ret[u]
         /\ pc'[t] \in {"idle", "op_check", "mc_order"}
         /\ pc'[t] = "op_check" => ret[t] = "open"
         /\ app' \in {app, "up"}
<1>1. CASE ret[t] \in {"end", "restore"}
  BY <1>1 DEF Return, Goto, ControlType, Labels
<1>2. CASE ret[t] = "open"
  BY <1>2 DEF Return, Goto, ControlType, Labels
<1>3. CASE ret[t] = "sltp"
  BY <1>3 DEF Return, Goto, ControlType, Labels
<1> QED
  BY <1>1, <1>2, <1>3 DEF ControlType

\* Finish is Return, except that a failed close gives up.
LEMMA FinishLemma ==
  ASSUME ControlType, NEW t \in Tasks, NEW e, NEW prot, Finish(t, e, prot)
  PROVE  /\ ControlType'
         /\ inExcept' = inExcept \ {t}
         /\ \A u \in Tasks \ {t} : pc'[u] = pc[u] /\ ret'[u] = ret[u]
         /\ pc'[t] \in {"idle", "op_check", "mc_order"}
         /\ pc'[t] = "op_check" => ret[t] = "open" /\ (t \in inExcept => e = 0)
         /\ app' \in {app, "up"}
<1>1. CASE t \in inExcept /\ e # 0
  BY <1>1 DEF Finish, Goto, ControlType, Labels
<1>2. CASE ~(t \in inExcept /\ e # 0)
  <2>1. Return(t, e, prot) /\ inExcept' = inExcept \ {t}
    BY <1>2 DEF Finish
  <2> QED
    BY <1>2, <2>1, ReturnLemma DEF ControlType
<1> QED
  BY <1>1, <1>2


\* A step that leaves the runner where it is, and at most empties the engine
\* or the exchange, keeps the invariant.
LEMMA QuietStep ==
  ASSUME OwnsControl, ControlType',
         pc'[Runner] = pc[Runner], ret'[Runner] = ret[Runner],
         Runner \in inExcept => Runner \in inExcept',
         engine' \in {engine, 0}, xpos' \in {xpos, Flat},
         app' = "down" => app = "down"
  PROVE  OwnsControl'
<1>1. RunnerLabels' /\ EmptyWhilePersisting' /\ ReversalReconciles'
  BY DEF OwnsControl, RunnerLabels, EmptyWhilePersisting, ReversalReconciles
<1>3. FillMeetsEmptyEngine'
  BY DEF OwnsControl, FillMeetsEmptyEngine
<1>4. CancelAfterClose'
  BY DEF OwnsControl, CancelAfterClose, Flat
<1> QED
  BY <1>1, <1>3, <1>4 DEF OwnsControl

\* A step of the runner that ends at one of the labels no property watches.
LEMMA PlainStep ==
  ASSUME OwnsControl, ControlType', app # "down",
         app' \in {app, "up"},
         pc'[Runner] \in {"idle", "pr", "po", "mc_order", "mc_err"}
  PROVE  OwnsControl'
BY DEF OwnsControl, RunnerLabels, EmptyWhilePersisting, ReversalReconciles,
       FillMeetsEmptyEngine, CancelAfterClose

\* A coroutine of the runner returns: with an empty engine, or not to submit.
LEMMA ReturnStep ==
  ASSUME OwnsControl, ControlType', app # "down", app' \in {app, "up"},
         pc'[Runner] \in {"idle", "op_check", "mc_order"},
         pc'[Runner] = "op_check" => engine' = 0
  PROVE  OwnsControl'
BY DEF OwnsControl, RunnerLabels, EmptyWhilePersisting, ReversalReconciles,
       FillMeetsEmptyEngine, CancelAfterClose

\* force_close after the protective orders are cancelled.
LEMMA CancelledStep ==
  ASSUME OwnsControl, NEW t \in Tasks, NEW gone, pc[t] # "idle",
         CancelledThenClose(t, gone), xpos' = xpos
  PROVE  OwnsControl'
<1> USE DEF CancelledThenClose
<1>c. ControlType
  BY DEF OwnsControl
<1>1. CASE engine # 0
  <2>1. ControlType' /\ (\A u \in Tasks \ {t} : pc'[u] = pc[u])
        /\ pc'[t] = "persist" /\ UNCHANGED <<app, ret, inExcept>>
    BY <1>1, <1>c DEF ControlType, Labels, Goto
  <2>2. CASE t = Runner
    BY <1>1, <2>1, <2>2
       DEF OwnsControl, RunnerLabels, EmptyWhilePersisting, ReversalReconciles,
           FillMeetsEmptyEngine, CancelAfterClose
  <2>3. CASE t # Runner
    BY <1>1, <2>1, <2>3, QuietStep
  <2> QED
    BY <2>2, <2>3
<1>2. CASE engine = 0
  <2>1. Finish(t, 0, NoProtect) /\ engine' = 0
    BY <1>2
  <2>2. /\ ControlType' /\ inExcept' = inExcept \ {t}
        /\ \A u \in Tasks \ {t} : pc'[u] = pc[u] /\ ret'[u] = ret[u]
        /\ pc'[t] \in {"idle", "op_check", "mc_order"} /\ app' \in {app, "up"}
    BY <1>c, <2>1, FinishLemma
  <2>3. CASE t = Runner
    <3>1. app # "down"
      BY <2>3 DEF OwnsControl, RunnerLabels
    <3> QED
      BY <2>1, <2>2, <2>3, <3>1, ReturnStep
  <2>4. CASE t # Runner
    BY <2>1, <2>2, <2>4, QuietStep
  <2> QED
    BY <2>3, <2>4
<1> QED
  BY <1>1, <1>2

\* _market_close and reconcile turn to cancel_protection, with or without ids.
LEMMA BeginCancelStep ==
  ASSUME OwnsControl, NEW t \in Tasks, pc[t] \in {"mc_ok", "rec_fill"},
         BeginCancel(t), xpos' = xpos
  PROVE  OwnsControl'
<1>1. CASE CancelledThenClose(t, {})
  BY <1>1, CancelledStep
<1>2. CASE Goto(t, "cancel") /\ UNCHANGED <<engine, app, ret, inExcept>>
  <2>1. ControlType' /\ (\A u \in Tasks \ {t} : pc'[u] = pc[u])
        /\ pc'[t] = "cancel"
    BY <1>2 DEF OwnsControl, ControlType, Labels, Goto
  <2>2. CASE t = Runner
    BY <1>2, <2>1, <2>2
       DEF OwnsControl, RunnerLabels, EmptyWhilePersisting, ReversalReconciles,
           FillMeetsEmptyEngine, CancelAfterClose
  <2>3. CASE t # Runner
    BY <1>2, <2>1, <2>3, QuietStep
  <2> QED
    BY <2>2, <2>3
<1> QED
  BY <1>1, <1>2 DEF BeginCancel

\* A normal return that keeps the engine and the exchange as they are.
LEMMA FinishStep ==
  ASSUME OwnsControl, NEW t \in Tasks, pc[t] # "idle",
         Finish(t, engine, protect), UNCHANGED <<engine, xpos>>,
         pc[t] \in {"rec_read", "rec_fill", "persist"}
  PROVE  OwnsControl'
<1>1. /\ ControlType' /\ inExcept' = inExcept \ {t}
      /\ \A u \in Tasks \ {t} : pc'[u] = pc[u] /\ ret'[u] = ret[u]
      /\ pc'[t] \in {"idle", "op_check", "mc_order"} /\ app' \in {app, "up"}
      /\ pc'[t] = "op_check" => ret[t] = "open" /\ (t \in inExcept => engine = 0)
  BY FinishLemma DEF OwnsControl
<1>2. CASE t = Runner
  <2>1. app # "down"
    BY <1>2 DEF OwnsControl, RunnerLabels
  <2>2. pc'[Runner] = "op_check" => engine' = 0
    BY <1>1, <1>2 DEF OwnsControl, EmptyWhilePersisting, ReversalReconciles
  <2> QED
    BY <1>1, <1>2, <2>1, <2>2, ReturnStep
<1>3. CASE t # Runner
  BY <1>1, <1>3, QuietStep
<1> QED
  BY <1>2, <1>3

\* A process that starts with empty tables satisfies the invariant.
LEMMA InitOwns == Init => OwnsControl
BY DEF Init, OwnsControl, ControlType, RunnerLabels, EmptyWhilePersisting,
       ReversalReconciles, FillMeetsEmptyEngine, CancelAfterClose,
       Labels

\* What _persist_position_open and modify_sltp do next.
LEMMA ProtectedLemma ==
  ASSUME ControlType, NEW t \in Tasks, NEW objects, NEW e, NEW prot,
         Protected(t, objects, e, prot)
  PROVE  /\ pc' \in [Tasks -> Labels]
         /\ \A u \in Tasks \ {t} : pc'[u] = pc[u]
         /\ t = Runner => pc'[t] \in {"idle", "po"}
BY DEF Protected, BeginPersistOpen, BeginUpdate, Goto, ControlType, Labels

\* Where _safe_protect leads, with legs to place or with none.
LEMMA BeginProtectLemma ==
  ASSUME ControlType, NEW t \in Tasks, NEW objects, NEW e, NEW p,
         BeginProtect(t, objects, e, p)
  PROVE  /\ pc' \in [Tasks -> Labels]
         /\ \A u \in Tasks \ {t} : pc'[u] = pc[u]
         /\ t = Runner => pc'[t] \in {"idle", "pr", "po"}
<1>1. CASE Protected(t, objects, e, NoProtect)
  BY <1>1, ProtectedLemma
<1>2. CASE Goto(t, "pr")
  BY <1>2 DEF Goto, ControlType, Labels
<1> QED
  BY <1>1, <1>2 DEF BeginProtect

\* The steps of reconcile, _market_close and _persist_close, in any task.
LEMMA ContinueKeeps ==
  ASSUME OwnsControl, NEW t \in Tasks, Continue(t)
  PROVE  OwnsControl'
<1>c. ControlType
  BY DEF OwnsControl
<1>1. CASE CloseOrder(t)
  <2>1. /\ ControlType' /\ (\A u \in Tasks \ {t} : pc'[u] = pc[u])
        /\ pc'[t] = "mc_err" \/ (pc'[t] = "mc_ok" /\ xpos' = Flat)
        /\ xpos' \in {xpos, Flat}
        /\ UNCHANGED <<app, ret, inExcept, engine>>
    BY <1>1, <1>c DEF CloseOrder, memory, ControlType, Labels, Goto, Fail
  <2>2. CASE t = Runner
    BY <1>1, <2>1, <2>2
       DEF CloseOrder, OwnsControl, RunnerLabels, EmptyWhilePersisting,
           ReversalReconciles, FillMeetsEmptyEngine,
           CancelAfterClose, Flat
  <2> QED
    BY <2>1, <2>2, QuietStep
<1>2. CASE CloseOk(t)
  BY <1>2, BeginCancelStep DEF CloseOk
<1>3. CASE CloseError(t)
  <2>1. CASE engine = 0 /\ Return(t, 0, protect) /\ UNCHANGED inExcept
    <3>1. /\ ControlType' /\ UNCHANGED <<engine, xpos>>
          /\ \A u \in Tasks \ {t} : pc'[u] = pc[u] /\ ret'[u] = ret[u]
          /\ pc'[t] \in {"idle", "op_check", "mc_order"}
          /\ app' \in {app, "up"}
      BY <1>3, <1>c, <2>1, ReturnLemma
         DEF CloseError, memory, exchange, ControlType
    <3>2. CASE t = Runner
      <4>1. app # "down"
        BY <1>3, <3>2 DEF CloseError, OwnsControl, RunnerLabels
      <4> QED
        BY <2>1, <3>1, <3>2, <4>1, ReturnStep
    <3> QED
      BY <2>1, <3>1, <3>2, QuietStep
  <2>2. CASE /\ Goto(t, "rec_read") /\ inExcept' = inExcept \cup {t}
             /\ UNCHANGED <<app, ret>>
    <3>1. /\ ControlType' /\ UNCHANGED <<engine, xpos>>
          /\ \A u \in Tasks \ {t} : pc'[u] = pc[u]
          /\ pc'[t] = "rec_read"
      BY <1>3, <1>c, <2>2
         DEF CloseError, memory, exchange, ControlType, Labels, Goto
    <3>2. CASE t = Runner
      BY <1>3, <2>2, <3>1, <3>2
         DEF CloseError, OwnsControl, RunnerLabels, EmptyWhilePersisting,
             ReversalReconciles, FillMeetsEmptyEngine,
             CancelAfterClose
    <3> QED
      BY <2>2, <3>1, <3>2, QuietStep
  <2> QED
    BY <1>3, <2>1, <2>2 DEF CloseError
<1>4. CASE ReconcileRead(t)
  <2>1. CASE xpos = Flat /\ Goto(t, "rec_fill") /\ UNCHANGED <<app, ret, inExcept>>
    <3>1. /\ ControlType' /\ UNCHANGED <<engine, xpos>>
          /\ \A u \in Tasks \ {t} : pc'[u] = pc[u]
          /\ pc'[t] = "rec_fill"
      BY <1>4, <1>c, <2>1
         DEF ReconcileRead, memory, exchange, ControlType, Labels, Goto
    <3>2. CASE t = Runner
      BY <1>4, <2>1, <3>1, <3>2
         DEF ReconcileRead, OwnsControl, RunnerLabels, EmptyWhilePersisting,
             ReversalReconciles, FillMeetsEmptyEngine,
             CancelAfterClose, Flat
    <3> QED
      BY <2>1, <3>1, <3>2, QuietStep
  <2>2. CASE Finish(t, engine, protect)
    BY <1>4, <2>2, FinishStep DEF ReconcileRead, memory, exchange
  <2> QED
    BY <1>4, <2>1, <2>2 DEF ReconcileRead
<1>5. CASE ReconcileFill(t)
  <2>1. CASE BeginCancel(t)
    BY <1>5, <2>1, BeginCancelStep DEF ReconcileFill
  <2>2. CASE Finish(t, engine, protect) /\ UNCHANGED engine
    BY <1>5, <2>2, FinishStep DEF ReconcileFill
  <2> QED
    BY <1>5, <2>1, <2>2 DEF ReconcileFill
<1>6. CASE Cancel(t)
  BY <1>6, CancelledStep DEF Cancel
<1>7. CASE PersistClose(t)
  BY <1>7, FinishStep DEF PersistClose, exchange
<1>8. CASE Protect(t)
  <2>1. /\ pc' \in [Tasks -> Labels] /\ (\A u \in Tasks \ {t} : pc'[u] = pc[u])
        /\ t = Runner => pc'[t] \in {"idle", "pr", "po"}
    <3>1. CASE UNCHANGED pc
      BY <1>8, <1>c, <3>1 DEF Protect, ControlType
    <3>2. CASE \E prot : Protected(t, obj, engine, prot)
      BY <1>c, <3>2, ProtectedLemma
    <3> QED
      BY <1>8, <3>1, <3>2 DEF Protect
  <2>2. ControlType' /\ UNCHANGED <<engine, xpos, app, ret, inExcept>>
    BY <1>8, <1>c, <2>1 DEF Protect, ControlType
  <2>3. CASE t = Runner
    <3>1. app # "down"
      BY <1>8, <2>3 DEF Protect, OwnsControl, RunnerLabels
    <3> QED
      BY <2>1, <2>2, <2>3, <3>1, PlainStep
  <2> QED
    BY <2>1, <2>2, <2>3, QuietStep
<1> QED
  BY <1>1, <1>2, <1>3, <1>4, <1>5, <1>6, <1>7, <1>8 DEF Continue

\* The steps of on_price and submit.
LEMMA RunnerKeeps ==
  ASSUME OwnsControl,
         \/ TickReconcile \/ TickFallback \/ SubmitClose
         \/ \E side \in Sides, legs \in LegChoices : SubmitOpen(side, legs)
         \/ OpenCheck \/ OpenOrder \/ OpenFill \/ PersistOpen
  PROVE  OwnsControl'
<1>c. ControlType
  BY DEF OwnsControl
<1> USE DEF Ready, Goto, memory, exchange
<1>1. CASE TickReconcile
  <2>1. /\ ControlType' /\ UNCHANGED <<app, engine, xpos>>
        /\ pc'[Runner] = "rec_read" /\ ret'[Runner] = "sltp"
    BY <1>1, <1>c DEF TickReconcile, ControlType, Labels
  <2> QED
    BY <1>1, <2>1
       DEF TickReconcile, OwnsControl, RunnerLabels, EmptyWhilePersisting,
           ReversalReconciles, FillMeetsEmptyEngine,
           CancelAfterClose
<1>2. CASE TickFallback \/ SubmitClose
  <2>1. ControlType' /\ pc'[Runner] = "mc_order" /\ UNCHANGED app /\ app # "down"
    BY <1>2, <1>c DEF TickFallback, SubmitClose, BeginClose, ControlType, Labels
  <2> QED
    BY <2>1, PlainStep
<1>3. ASSUME NEW side \in Sides, NEW legs \in LegChoices, SubmitOpen(side, legs)
      PROVE  OwnsControl'
  <2>1. app # "down" /\ UNCHANGED app
    BY <1>3 DEF SubmitOpen
  <2>2. CASE engine = 0 /\ pc' = [pc EXCEPT ![Runner] = "op_check"] /\ UNCHANGED ret
    <3>1. ControlType' /\ pc'[Runner] = "op_check" /\ engine' = 0
      BY <1>3, <1>c, <2>2 DEF SubmitOpen, ControlType, Labels
    <3> QED
      BY <2>1, <3>1, ReturnStep
  <2>3. CASE BeginClose(Runner, "open")
    <3>1. ControlType' /\ pc'[Runner] = "mc_order"
      BY <1>3, <1>c, <2>3 DEF SubmitOpen, BeginClose, ControlType, Labels
    <3> QED
      BY <2>1, <3>1, PlainStep
  <2> QED
    BY <1>3, <2>2, <2>3 DEF SubmitOpen
<1>4. CASE OpenCheck
  <2>1. /\ ControlType' /\ UNCHANGED <<engine, xpos, app, ret, inExcept>>
        /\ app # "down" /\ engine = 0
        /\ pc'[Runner] = "idle" \/ (pc'[Runner] = "op_order" /\ xpos = Flat)
    BY <1>4, <1>c
       DEF OpenCheck, OwnsControl, RunnerLabels, FillMeetsEmptyEngine,
           ControlType, Labels
  <2> QED
    BY <2>1
       DEF OwnsControl, RunnerLabels, EmptyWhilePersisting, ReversalReconciles,
           FillMeetsEmptyEngine, CancelAfterClose
<1>5. CASE OpenOrder
  <2>1. /\ ControlType' /\ UNCHANGED <<engine, app, ret, inExcept>>
        /\ app # "down" /\ engine = 0
        /\ pc'[Runner] \in {"idle", "op_fill"}
    BY <1>5, <1>c
       DEF OpenOrder, OwnsControl, RunnerLabels, FillMeetsEmptyEngine,
           ControlType, Labels
  <2> QED
    BY <2>1
       DEF OwnsControl, RunnerLabels, EmptyWhilePersisting, ReversalReconciles,
           FillMeetsEmptyEngine, CancelAfterClose
<1>6. CASE OpenFill
  <2>1. \E objects, e : BeginProtect(Runner, objects, e, e)
    BY <1>6 DEF OpenFill
  <2>2. pc' \in [Tasks -> Labels] /\ pc'[Runner] \in {"idle", "pr", "po"}
    BY <1>c, <2>1, BeginProtectLemma
  <2>3. ControlType' /\ app # "down" /\ UNCHANGED app
    BY <1>6, <1>c, <2>2 DEF OpenFill, ControlType, OwnsControl, RunnerLabels
  <2> QED
    BY <2>2, <2>3, PlainStep
<1>7. CASE PersistOpen
  <2>1. ControlType' /\ pc'[Runner] = "idle" /\ UNCHANGED app /\ app # "down"
    BY <1>7, <1>c DEF PersistOpen, ControlType, Labels, OwnsControl, RunnerLabels
  <2> QED
    BY <2>1, PlainStep
<1> QED
  BY <1>1, <1>2, <1>3, <1>4, <1>5, <1>6, <1>7

\* A request leaves the runner, the engine and the exchange's position alone.
LEMMA ApiKeeps ==
  ASSUME OwnsControl, NEW t \in Apis,
         \/ \E op, legs : ApiRequest(t, op, legs)
         \/ ApiClose(t) \/ ApiModify(t) \/ ModifyCancel(t) \/ ModifyCommit(t)
  PROVE  OwnsControl'
<1>c. ControlType /\ t \in Tasks /\ t # Runner
  BY ConstantsOK DEF OwnsControl
<1> USE DEF Goto, memory, exchange, locals, ControlType
<1>1. CASE \E op, legs : ApiRequest(t, op, legs)
  <2>1. ControlType' /\ UNCHANGED <<engine, xpos, app, ret, inExcept>>
        /\ pc'[Runner] = pc[Runner]
    BY <1>1, <1>c DEF ApiRequest, Labels
  <2> QED
    BY <2>1, QuietStep
<1>2. CASE ApiClose(t)
  <2>1. ControlType' /\ UNCHANGED <<engine, xpos, app, inExcept>>
        /\ pc'[Runner] = pc[Runner] /\ ret'[Runner] = ret[Runner]
    BY <1>2, <1>c DEF ApiClose, BeginClose, Labels
  <2> QED
    BY <2>1, QuietStep
<1>3. CASE ApiModify(t)
  <2>1. pc' \in [Tasks -> Labels] /\ pc'[Runner] = pc[Runner]
    <3>1. CASE \E label \in {"idle", "ms_cancel", "pr"} : Goto(t, label)
      BY <1>c, <3>1 DEF Labels
    <3>2. CASE \E objects : BeginUpdate(t, objects, engine, NoProtect)
      BY <1>c, <3>2 DEF BeginUpdate, Labels
    <3> QED
      BY <1>3, <3>1, <3>2 DEF ApiModify
  <2>2. UNCHANGED <<engine, xpos, app, ret, inExcept>>
    BY <1>3 DEF ApiModify
  <2> QED
    BY <1>c, <2>1, <2>2, QuietStep
<1>4. CASE ModifyCancel(t)
  <2>1. pc' \in [Tasks -> Labels] /\ pc'[Runner] = pc[Runner]
    BY <1>4, <1>c, BeginProtectLemma DEF ModifyCancel
  <2>2. UNCHANGED <<engine, xpos, app, ret, inExcept>>
    BY <1>4 DEF ModifyCancel
  <2> QED
    BY <1>c, <2>1, <2>2, QuietStep
<1>5. CASE ModifyCommit(t)
  <2>1. ControlType' /\ UNCHANGED <<engine, xpos, app, ret, inExcept>>
        /\ pc'[Runner] = pc[Runner]
    BY <1>5, <1>c DEF ModifyCommit, Labels
  <2> QED
    BY <2>1, QuietStep
<1> QED
  BY <1>1, <1>2, <1>3, <1>4, <1>5

\* Triggers, the human, crashes and restarts.
LEMMA WorldKeeps ==
  ASSUME OwnsControl,
         \/ \E a \in algos : AlgoFires(a)
         \/ ClosedOutside
         \/ \E side \in Sides : OpenedOutside(side)
         \/ Crash \/ Restart
  PROVE  OwnsControl'
<1>c. ControlType
  BY DEF OwnsControl
<1> USE DEF memory, exchange, locals, control
<1>1. CASE (\E a \in algos : AlgoFires(a)) \/ ClosedOutside
  <2>1. UNCHANGED <<app, engine, pc, ret, inExcept>> /\ xpos' \in {xpos, Flat}
    BY <1>1 DEF AlgoFires, ClosedOutside
  <2> QED
    BY <1>c, <2>1, QuietStep DEF ControlType
<1>2. ASSUME NEW side \in Sides, OpenedOutside(side)
      PROVE  OwnsControl'
  <2>1. /\ UNCHANGED <<app, engine, pc, ret, inExcept>>
        /\ xpos'.by = "hand"
    BY <1>2 DEF OpenedOutside
  <2> QED
    BY <2>1
       DEF OwnsControl, ControlType, RunnerLabels, EmptyWhilePersisting,
           ReversalReconciles, FillMeetsEmptyEngine,
           CancelAfterClose
<1>3. CASE Crash
  <2>1. /\ pc' = [t \in Tasks |-> "idle"] /\ ret' = ret /\ inExcept' = {}
        /\ pc'[Runner] = "idle"
    BY <1>3 DEF Crash
  <2>2. ControlType'
    BY <1>c, <2>1 DEF ControlType, Labels
  <2> QED
    BY <2>1, <2>2
       DEF OwnsControl, RunnerLabels, EmptyWhilePersisting, ReversalReconciles,
           FillMeetsEmptyEngine, CancelAfterClose
<1>4. CASE Restart
  <2>1. pc[Runner] = "idle"
    BY <1>4 DEF Restart, OwnsControl, RunnerLabels
  <2>2. CASE app' = "up" /\ UNCHANGED <<memory, pc, ret>>
    BY <1>4, <1>c, <2>1, <2>2, QuietStep DEF Restart, ControlType
  <2>3. CASE /\ app' = "restoring" /\ Goto(Runner, "rec_read")
             /\ ret' = [ret EXCEPT ![Runner] = "restore"]
    <3>1. /\ ControlType'
          /\ pc'[Runner] = "rec_read" /\ ret'[Runner] = "restore"
      BY <1>4, <1>c, <2>3 DEF Restart, ControlType, Labels, Goto
    <3> QED
      BY <2>3, <3>1
         DEF OwnsControl, RunnerLabels, EmptyWhilePersisting,
             ReversalReconciles, FillMeetsEmptyEngine,
             CancelAfterClose
  <2> QED
    BY <1>4, <2>2, <2>3 DEF Restart
<1> QED
  BY <1>1, <1>2, <1>3, <1>4

\* Every step of the specification keeps the invariant.
LEMMA NextKeeps == OwnsControl /\ [Next]_vars => OwnsControl'
<1> SUFFICES ASSUME OwnsControl, [Next]_vars PROVE OwnsControl'
  OBVIOUS
<1>1. CASE UNCHANGED vars
  BY <1>1, QuietStep
     DEF vars, memory, exchange, control, OwnsControl, ControlType
<1>2. CASE TickNothing
  BY <1>1, <1>2 DEF TickNothing
<1>3. CASE \E t \in Apis : \/ ApiRequest(t, "close", {})
                           \/ \E legs \in LegChoices : ApiRequest(t, "sltp", legs)
                           \/ ApiStep(t)
  BY <1>3, ApiKeeps, ContinueKeeps DEF ApiStep
<1> QED
  BY <1>1, <1>2, <1>3, RunnerKeeps, WorldKeeps, ContinueKeeps
     DEF Next, RunnerStep

\* The inductive invariant holds in every reachable state.
LEMMA AlwaysOwns == Spec => []OwnsControl
BY InitOwns, NextKeeps, PTL DEF Spec

\* _apply_fill always meets an empty engine: no fill is swallowed or turned
\* into a close.
THEOREM FillAlwaysOpens == Spec => []FillMeetsEmptyEngine
<1>1. OwnsControl => FillMeetsEmptyEngine
  BY DEF OwnsControl
<1> QED
  BY <1>1, AlwaysOwns, PTL

\* The runner cancels SL/TP only once the position they guard is gone.
THEOREM ClosesFirst == Spec => []CancelAfterClose
<1>1. OwnsControl => CancelAfterClose
  BY DEF OwnsControl
<1> QED
  BY <1>1, AlwaysOwns, PTL
-----------------------------------------------------------------------------
(* Types, for any set of API tasks.                                        *)

Heap == obj \in Seq(Position) /\ engine \in Nat /\ (engine # 0 => engine \in DOMAIN obj)
Table == rows \in Seq(Row) /\ posDb \in Nat /\ (posDb # 0 => posDb \in DOMAIN rows)
Market ==
  /\ xpos \in [side : Sides, by : {"app", "hand"}] \cup {Flat}
  /\ algos \subseteq [id : Nat, leg : Legs, side : Sides] /\ nAlgo \in Nat
Scratch ==
  /\ want \in [Tasks -> SUBSET Legs] /\ newp \in [Tasks -> Dict]
  /\ row \in [Tasks -> Nat] /\ draft \in [Tasks -> Row] /\ signal \in Position
  /\ request \in [Apis -> [op : {"close", "sltp"}, legs : SUBSET Legs]]
\* A task that closes or protects a position holds one that the engine has had.
Holding ==
  /\ held \in [Tasks -> Nat]
  /\ \A t \in Tasks : pc[t] \in {"mc_order", "pr", "ms_cancel"} => held[t] \in DOMAIN obj

Types ==
  /\ Heap /\ Table /\ Market /\ Scratch /\ Holding
  /\ protect \in Dict /\ app \in {"down", "restoring", "up"}

LEMMA NoneIsDict == NoProtect \in Dict /\ \A l \in Legs : NoProtect[l] = 0
<1>1. \A l \in Legs : 0 \in Nat
  OBVIOUS
<1> QED BY <1>1 DEF NoProtect, Dict

\* A row with open set to FALSE, or with other SL/TP.
Shut(R, i) == [R EXCEPT ![i].open = FALSE]
Edited(R, i, d) == [R EXCEPT ![i].legs = d.legs, ![i].prot = d.prot]

LEMMA ShutRow ==
  ASSUME NEW R \in Seq(Row), NEW i
  PROVE  /\ Shut(R, i) \in Seq(Row) /\ DOMAIN Shut(R, i) = DOMAIN R
         /\ \A j \in DOMAIN R : Shut(R, i)[j].open = (R[j].open /\ j # i)
         /\ \A j \in DOMAIN R : j # i => Shut(R, i)[j] = R[j]
<1> DEFINE no == FALSE
           S == [R EXCEPT ![i].open = no]
<1>1. no \in BOOLEAN /\ no = FALSE
  OBVIOUS
<1>2. S = Shut(R, i)
  BY DEF Shut
<1> HIDE DEF no
<1>3. DOMAIN S = DOMAIN R /\ DOMAIN R = 1..Len(R) /\ Len(R) \in Nat
  OBVIOUS
<1>4. \A j \in DOMAIN R : R[j] \in Row
  OBVIOUS
<1>5. \A j \in DOMAIN R : j # i => S[j] = R[j]
  OBVIOUS
<1>6. ASSUME i \in DOMAIN R PROVE S[i] \in Row /\ S[i].open = no
  <2>1. R[i] \in Row
    BY <1>4, <1>6
  <2>2. S[i] = [R[i] EXCEPT !.open = no]
    BY <1>6
  <2> HIDE DEF S
  <2> QED BY <1>1, <2>1, <2>2 DEF Row
<1> HIDE DEF S
<1>7. \A j \in DOMAIN R : S[j] \in Row /\ S[j].open = (R[j].open /\ j # i)
  <2> TAKE j \in DOMAIN R
  <2>1. R[j].open \in BOOLEAN
    BY <1>4 DEF Row
  <2> QED BY <1>1, <1>4, <1>5, <1>6, <2>1
<1>8. S \in Seq(Row)
  <2>1. S = [j \in 1..Len(R) |-> S[j]]
    <3>1. S = [j \in DOMAIN S |-> S[j]]
      BY DEF S
    <3> QED BY <1>3, <3>1
  <2> QED BY <1>3, <1>7, <2>1
<1> QED BY <1>2, <1>3, <1>5, <1>7, <1>8

LEMMA EditedRow ==
  ASSUME NEW R \in Seq(Row), NEW i, NEW d \in Row
  PROVE  Edited(R, i, d) \in Seq(Row) /\ DOMAIN Edited(R, i, d) = DOMAIN R
<1> DEFINE S == Edited(R, i, d)
<1>1. DOMAIN S = DOMAIN R /\ DOMAIN R = 1..Len(R) /\ Len(R) \in Nat
  BY DEF Edited
<1>2. \A j \in DOMAIN R : R[j] \in Row
  OBVIOUS
<1>3. \A j \in DOMAIN R : S[j] \in Row
  <2> TAKE j \in DOMAIN R
  <2>1. CASE j # i
    BY <1>2, <2>1 DEF Edited
  <2>2. CASE j = i
    <3>1. S[i] = [[R[i] EXCEPT !.legs = d.legs] EXCEPT !.prot = d.prot]
      BY <2>2 DEF Edited
    <3>2. R[i] \in Row
      BY <1>2, <2>2
    <3> HIDE DEF S
    <3> QED BY <2>2, <3>1, <3>2 DEF Row
  <2> QED BY <2>1, <2>2
<1>4. S = [j \in 1..Len(R) |-> S[j]]
  <2>1. S = [j \in DOMAIN S |-> S[j]]
    BY DEF Edited
  <2> QED BY <1>1, <2>1
<1> HIDE DEF S
<1>5. S \in Seq(Row)
  BY <1>1, <1>3, <1>4
<1> QED BY <1>1, <1>5 DEF S

LEMMA InitTypes == Init => Types
<1> SUFFICES ASSUME Init PROVE Types
  OBVIOUS
<1>1. Heap /\ Table
  <2>1. <<>> \in Seq(Position) /\ <<>> \in Seq(Row)
    OBVIOUS
  <2> QED BY <2>1 DEF Init, Heap, Table
<1>2. Market
  BY DEF Init, Market
<1>3. Blank \in Row
  BY NoneIsDict DEF Blank, Row, Sides
<1>4. Scratch
  <2>1. [side |-> "LONG", legs |-> {}] \in Position
    BY DEF Position, Sides
  <2>2. [op |-> "close", legs |-> {}] \in [op : {"close", "sltp"}, legs : SUBSET Legs]
    OBVIOUS
  <2>3. request \in [Apis -> [op : {"close", "sltp"}, legs : SUBSET Legs]]
    BY <2>2 DEF Init
  <2>4. draft \in [Tasks -> Row] /\ newp \in [Tasks -> Dict] /\ row \in [Tasks -> Nat]
        /\ want \in [Tasks -> SUBSET Legs]
    BY <1>3, NoneIsDict DEF Init
  <2> QED BY <2>1, <2>3, <2>4 DEF Init, Scratch
<1>5. Holding
  BY DEF Init, Holding
<1> QED BY <1>1, <1>2, <1>4, <1>5, NoneIsDict DEF Types, Init

\* A coroutine returns: what the task holds from then on is the engine's position.
LEMMA ReturnTypes ==
  ASSUME Types, ControlType, NEW t \in Tasks, NEW e, e = 0 \/ e \in DOMAIN obj, NEW prot,
         Return(t, e, prot) \/ Finish(t, e, prot), obj' = obj
  PROVE  Holding' /\ app' \in {"down", "restoring", "up"}
<1> USE DEF Types, Holding, ControlType, Goto, Heap
<1>1. e \in DOMAIN obj => e \in Nat
  OBVIOUS
<1>2. CASE Return(t, e, prot)
  BY <1>1, <1>2, SMTT(20) DEF Return
<1>3. CASE Goto(t, "idle") /\ UNCHANGED <<app, ret, held>>
  BY <1>3
<1> QED BY <1>2, <1>3 DEF Finish

\* The legs are placed, or not; what the caller writes down of it is well typed.
LEMMA ProtectedTypes ==
  ASSUME Types, ControlType, NEW t \in Tasks, NEW objects \in Seq(Position), NEW e \in Nat,
         e = 0 \/ e \in DOMAIN objects, NEW prot \in Dict, Protected(t, objects, e, prot),
         t # Runner => held[t] \in DOMAIN objects
  PROVE  /\ protect' \in Dict /\ draft' \in [Tasks -> Row] /\ row' \in [Tasks -> Nat]
         /\ \A u \in Tasks : pc'[u] \in {"mc_order", "pr", "ms_cancel"} => u # t /\ pc[u] = pc'[u]
<1> USE DEF Types, Scratch, ControlType, Goto
<1>1. \A o \in DOMAIN objects : objects[o].side \in Sides /\ objects[o].legs \in SUBSET Legs
  <2>1. \A o \in DOMAIN objects : objects[o] \in Position
    OBVIOUS
  <2> QED BY <2>1 DEF Position
<1> DEFINE D(p, legs) == [side |-> objects[p].side, legs |-> legs, prot |-> prot, open |-> TRUE]
<1>2. \A p \in DOMAIN objects, legs \in SUBSET Legs : D(p, legs) \in Row
  BY <1>1 DEF Row
<1>3. CASE t = Runner
  <2>1. CASE e = 0
    BY <1>3, <2>1 DEF Protected, BeginPersistOpen
  <2>2. CASE e # 0
    <3>1. D(e, objects[e].legs) \in Row
      BY <1>1, <1>2, <2>2
    <3> QED BY <1>3, <2>2, <3>1, ZenonT(40) DEF Protected, BeginPersistOpen
  <2> QED BY <2>1, <2>2
<1>4. CASE t # Runner
  <2>1. request[t].legs \in SUBSET Legs /\ held[t] \in DOMAIN objects
    BY <1>4
  <2>2. D(held[t], request[t].legs) \in Row
    BY <1>2, <2>1
  <2> QED BY <1>4, <2>2, ZenonT(40) DEF Protected, BeginUpdate, Table
<1> QED BY <1>3, <1>4

LEMMA BeginProtectTypes ==
  ASSUME Types, ControlType, NEW t \in Tasks, NEW objects \in Seq(Position), NEW e \in Nat,
         e = 0 \/ e \in DOMAIN objects, NEW p \in DOMAIN objects, BeginProtect(t, objects, e, p),
         t # Runner => held[t] \in DOMAIN objects
  PROVE  /\ protect' \in Dict /\ draft' \in [Tasks -> Row] /\ row' \in [Tasks -> Nat]
         /\ want' \in [Tasks -> SUBSET Legs] /\ newp' \in [Tasks -> Dict]
         /\ \A u \in Tasks \ {t} : pc'[u] = pc[u]
         /\ pc'[t] \notin {"mc_order", "ms_cancel"}
<1> USE DEF Types, Scratch
<1>1. CASE Protected(t, objects, e, NoProtect) /\ UNCHANGED <<want, newp>>
  <2>1. \A u \in Tasks \ {t} : pc'[u] = pc[u]
    BY <1>1, ProtectedLemma
  <2> QED BY <1>1, <2>1, NoneIsDict, ProtectedTypes
<1>2. CASE /\ want' = [want EXCEPT ![t] = objects[p].legs]
           /\ newp' = [newp EXCEPT ![t] = NoProtect]
           /\ Goto(t, "pr") /\ UNCHANGED <<protect, draft, row>>
  <2>1. objects[p].legs \in SUBSET Legs
    <3>1. objects[p] \in Position
      OBVIOUS
    <3> QED BY <3>1 DEF Position
  <2> QED BY <1>2, <2>1, NoneIsDict DEF Goto, ControlType
<1> QED BY <1>1, <1>2 DEF BeginProtect

LEMMA CancelledTypes ==
  ASSUME Types, ControlType, NEW t \in Tasks, NEW gone, CancelledThenClose(t, gone),
         UNCHANGED <<obj, posDb, rows, xpos, nAlgo, want, newp, draft, signal, request>>
  PROVE  Types'
<1>1. Holding' /\ app' \in {"down", "restoring", "up"}
  <2>1. CASE Finish(t, 0, NoProtect)
    BY <2>1, ReturnTypes
  <2>2. CASE Goto(t, "persist") /\ UNCHANGED <<app, held>>
    BY <2>2 DEF Types, Holding, Goto, ControlType
  <2> QED BY <2>1, <2>2 DEF CancelledThenClose
<1>2. row' \in [Tasks -> Nat]
  BY DEF CancelledThenClose, Types, Scratch, Table
<1>3. /\ algos' \subseteq algos /\ protect' = NoProtect /\ engine' = 0
  BY DEF CancelledThenClose
<1> QED
  BY <1>1, <1>2, <1>3, NoneIsDict DEF Types, Heap, Table, Market, Scratch

LEMMA BeginCancelTypes ==
  ASSUME Types, ControlType, NEW t \in Tasks, BeginCancel(t),
         UNCHANGED <<obj, posDb, rows, xpos, nAlgo, want, newp, draft, signal, request>>
  PROVE  Types'
<1>1. CASE CancelledThenClose(t, {})
  BY <1>1, CancelledTypes
<1>2. CASE Goto(t, "cancel") /\ UNCHANGED <<algos, protect, engine, row, app, held>>
  <2>1. Holding'
    BY <1>2 DEF Types, Holding, Goto, ControlType
  <2> QED BY <1>2, <2>1 DEF Types, Heap, Table, Market, Scratch
<1> QED BY <1>1, <1>2 DEF BeginCancel

\* A handler goes on, and changes nothing but what it holds and where it is.
LEMMA FinishTypes ==
  ASSUME Types, ControlType, NEW t \in Tasks, NEW e, e = 0 \/ e \in DOMAIN obj, NEW prot,
         Return(t, e, prot) \/ Finish(t, e, prot),
         UNCHANGED <<obj, engine, protect, posDb, exchange, want, newp, row, draft, signal, request>>,
         rows' \in Seq(Row), DOMAIN rows' = DOMAIN rows
  PROVE  Types'
<1>1. Holding' /\ app' \in {"down", "restoring", "up"}
  BY ReturnTypes
<1> QED BY <1>1 DEF Types, Heap, Table, Market, Scratch, exchange

LEMMA ContinueTypes ==
  ASSUME Types, ControlType, NEW t \in Tasks, Continue(t)
  PROVE  Types'
<1>e. engine = 0 \/ engine \in DOMAIN obj
  BY DEF Types, Heap
<1>r. rows \in Seq(Row)
  BY DEF Types, Table
<1>1. CASE CloseOrder(t)
  <2>1. xpos' \in {xpos, Flat} /\ UNCHANGED <<memory, rows, algos, nAlgo, locals, app>>
    BY <1>1 DEF CloseOrder
  <2>2. pc'[t] \in {"mc_ok", "mc_err"} /\ \A u \in Tasks \ {t} : pc'[u] = pc[u]
    BY <1>1 DEF CloseOrder, Goto, ControlType
  <2>3. Holding'
    BY <2>1, <2>2 DEF Types, Holding, memory, locals
  <2> QED BY <2>1, <2>3 DEF Types, Heap, Table, Market, Scratch, memory, locals
<1>2. CASE CloseOk(t)
  BY <1>2, BeginCancelTypes DEF CloseOk
<1>3. CASE CloseError(t)
  <2>1. CASE engine = 0 /\ Return(t, 0, protect)
    BY <1>3, <1>r, <2>1, FinishTypes DEF CloseError, memory
  <2>2. CASE Goto(t, "rec_read") /\ UNCHANGED <<app, held>>
    <3>1. UNCHANGED <<memory, rows, exchange, locals, app>>
      BY <1>3, <2>2 DEF CloseError, locals
    <3>2. Holding'
      BY <2>2, <3>1 DEF Types, Holding, Goto, ControlType, memory
    <3> QED BY <3>1, <3>2 DEF Types, Heap, Table, Market, Scratch, memory, locals, exchange
  <2> QED BY <1>3, <2>1, <2>2 DEF CloseError
<1>4. CASE ReconcileRead(t)
  <2>1. CASE Goto(t, "rec_fill") /\ UNCHANGED <<app, held>>
    <3>1. UNCHANGED <<memory, rows, exchange, locals, app>>
      BY <1>4, <2>1 DEF ReconcileRead, locals
    <3>2. Holding'
      BY <2>1, <3>1 DEF Types, Holding, Goto, ControlType, memory
    <3> QED BY <3>1, <3>2 DEF Types, Heap, Table, Market, Scratch, memory, locals, exchange
  <2>2. CASE Finish(t, engine, protect)
    BY <1>4, <1>e, <1>r, <2>2, FinishTypes DEF ReconcileRead, memory
  <2> QED BY <1>4, <2>1, <2>2 DEF ReconcileRead
<1>5. CASE ReconcileFill(t)
  <2>1. CASE BeginCancel(t)
    BY <1>5, <2>1, BeginCancelTypes DEF ReconcileFill
  <2>2. CASE Finish(t, engine, protect) /\ UNCHANGED <<algos, protect, engine, row, ids>>
    BY <1>5, <1>e, <1>r, <2>2, FinishTypes DEF ReconcileFill, exchange
  <2> QED BY <1>5, <2>1, <2>2 DEF ReconcileFill
<1>6. CASE Cancel(t)
  BY <1>6, CancelledTypes DEF Cancel
<1>7. CASE PersistClose(t)
  <2>1. rows' = rows \/ rows' = Shut(rows, row[t])
    BY <1>7 DEF PersistClose, Shut
  <2>2. rows' \in Seq(Row) /\ DOMAIN rows' = DOMAIN rows
    BY <1>r, <2>1, ShutRow
  <2>3. Holding' /\ app' \in {"down", "restoring", "up"}
    BY <1>7, <1>e, ReturnTypes DEF PersistClose
  <2> QED
    BY <1>7, <2>2, <2>3 DEF PersistClose, Types, Heap, Table, Market, Scratch, exchange
<1>8. CASE Protect(t)
  <2> DEFINE leg == IF "sl" \in want[t] THEN "sl" ELSE "tp"
             new == [id |-> nAlgo + 1, leg |-> leg, side |-> obj[held[t]].side]
             out == [newp[t] EXCEPT ![leg] = nAlgo + 1]
  <2>1. /\ pc[t] = "pr" /\ held[t] \in DOMAIN obj /\ leg \in Legs
        /\ obj[held[t]].side \in Sides /\ nAlgo + 1 \in Nat /\ engine \in Nat
    <3>1. pc[t] = "pr"
      BY <1>8 DEF Protect
    <3>2. held[t] \in DOMAIN obj /\ engine \in Nat /\ nAlgo + 1 \in Nat
      BY <3>1 DEF Types, Heap, Holding, Market
    <3>3. obj[held[t]] \in Position
      BY <3>2 DEF Types, Heap
    <3>4. leg \in Legs
      BY DEF Legs
    <3> HIDE DEF leg
    <3> QED BY <3>1, <3>2, <3>3, <3>4 DEF Position
  <2>2. new \in [id : Nat, leg : Legs, side : Sides] /\ out \in Dict
    BY <2>1 DEF Types, Scratch, Dict
  <2>3. /\ UNCHANGED <<obj, engine, posDb, rows, xpos, held, signal, request, app>>
        /\ (algos' = algos \cup {new} /\ nAlgo' = nAlgo + 1) \/ UNCHANGED <<algos, nAlgo>>
    BY <1>8 DEF Protect
  <2>4. want' \in [Tasks -> SUBSET Legs] /\ newp' \in [Tasks -> Dict]
    <3>1. /\ UNCHANGED want \/ want' = [want EXCEPT ![t] = @ \ {leg}]
          /\ UNCHANGED newp \/ newp' = [newp EXCEPT ![t] = out]
      BY <1>8 DEF Protect
    <3> HIDE DEF leg, out
    <3> QED BY <2>2, <3>1 DEF Types, Scratch
  <2>5. \/ UNCHANGED <<pc, protect, draft, row>>
        \/ \E prot \in {out, NoProtect} : Protected(t, obj, engine, prot)
    BY <1>8 DEF Protect
  <2> HIDE DEF out, new
  <2>6. /\ protect' \in Dict /\ draft' \in [Tasks -> Row] /\ row' \in [Tasks -> Nat]
        /\ \A u \in Tasks : pc'[u] \in {"mc_order", "pr", "ms_cancel"} => pc[u] = pc'[u]
    <3>1. CASE UNCHANGED <<pc, protect, draft, row>>
      BY <3>1 DEF Types, Scratch
    <3>2. ASSUME NEW prot \in Dict, Protected(t, obj, engine, prot)
          PROVE  /\ protect' \in Dict /\ draft' \in [Tasks -> Row] /\ row' \in [Tasks -> Nat]
                 /\ \A u \in Tasks : pc'[u] \in {"mc_order", "pr", "ms_cancel"} => pc[u] = pc'[u]
      <4>1. obj \in Seq(Position)
        BY DEF Types, Heap
      <4> QED BY <1>e, <2>1, <3>2, <4>1, ProtectedTypes
    <3> QED BY <2>2, <2>5, <3>1, <3>2, NoneIsDict
  <2>7. Holding'
    BY <2>3, <2>6 DEF Types, Holding
  <2>8. Market'
    BY <2>1, <2>2, <2>3 DEF Types, Market
  <2> QED BY <2>3, <2>4, <2>6, <2>7, <2>8 DEF Types, Heap, Table, Scratch
<1> QED
  BY <1>1, <1>2, <1>3, <1>4, <1>5, <1>6, <1>7, <1>8 DEF Continue

LEMMA RunnerTypes ==
  ASSUME Types, ControlType,
         \/ TickReconcile \/ TickFallback \/ SubmitClose
         \/ \E side \in Sides, legs \in LegChoices : SubmitOpen(side, legs)
         \/ OpenCheck \/ OpenOrder \/ OpenFill \/ PersistOpen
  PROVE  Types'
<1>e. engine = 0 \/ engine \in DOMAIN obj
  BY DEF Types, Heap
<1>1. CASE TickReconcile \/ OpenCheck
  <2>1. UNCHANGED <<memory, rows, exchange, locals, app>>
    BY <1>1 DEF TickReconcile, OpenCheck
  <2>2. Holding'
    BY <1>1, <2>1 DEF TickReconcile, OpenCheck, Types, Holding, Goto, ControlType, memory, locals
  <2> QED BY <2>1, <2>2 DEF Types, Heap, Table, Market, Scratch, memory, locals, exchange
<1>2. CASE TickFallback \/ SubmitClose
  <2>1. UNCHANGED <<memory, rows, exchange, ids, want, newp, row, draft, signal, request, app>>
        /\ BeginClose(Runner, "end") /\ engine # 0
    BY <1>2 DEF TickFallback, SubmitClose
  <2>2. Holding'
    BY <2>1 DEF BeginClose, Types, Holding, Heap, Goto, ControlType, memory
  <2> QED BY <2>1, <2>2 DEF Types, Heap, Table, Market, Scratch, memory, exchange
<1>3. ASSUME NEW side \in Sides, NEW legs \in LegChoices, SubmitOpen(side, legs)
      PROVE  Types'
  <2>1. /\ UNCHANGED <<memory, rows, exchange, ids, want, newp, row, draft, request, app>>
        /\ signal' = [side |-> side, legs |-> legs]
        /\ \/ Goto(Runner, "op_check") /\ UNCHANGED held
           \/ engine # 0 /\ BeginClose(Runner, "open")
    BY <1>3 DEF SubmitOpen
  <2>2. Holding'
    <3>1. CASE Goto(Runner, "op_check") /\ UNCHANGED held
      BY <2>1, <3>1 DEF Types, Holding, Goto, ControlType, memory
    <3>2. CASE engine # 0 /\ BeginClose(Runner, "open")
      BY <2>1, <3>2 DEF BeginClose, Types, Holding, Heap, Goto, ControlType, memory
    <3> QED BY <2>1, <3>1, <3>2
  <2>3. signal' \in Position
    BY <2>1, ConstantsOK DEF Position
  <2> QED BY <2>1, <2>2, <2>3 DEF Types, Heap, Table, Market, Scratch, memory, exchange
<1>4. CASE OpenOrder
  <2>1. /\ UNCHANGED <<memory, rows, algos, nAlgo, locals, app>>
        /\ \A u \in Tasks : pc'[u] \in {"mc_order", "pr", "ms_cancel"} => pc[u] = pc'[u]
        /\ xpos' \in Netted \cup {xpos}
    BY <1>4 DEF OpenOrder, Goto, ControlType
  <2>2. xpos' \in [side : Sides, by : {"app", "hand"}] \cup {Flat}
    BY <2>1 DEF Types, Market, Scratch, Position, Netted
  <2> QED BY <2>1, <2>2 DEF Types, Heap, Table, Market, Scratch, Holding, memory, locals
<1>5. CASE OpenFill
  <2> DEFINE p == Len(obj) + 1
             objects == Append(obj, signal)
  <2>1. /\ obj' = objects /\ engine' = p /\ held' = [held EXCEPT ![Runner] = p]
        /\ BeginProtect(Runner, objects, p, p)
        /\ UNCHANGED <<posDb, rows, exchange, signal, request, app>>
    BY <1>5 DEF OpenFill
  <2>2. obj \in Seq(Position) /\ signal \in Position /\ Len(obj) \in Nat
    BY DEF Types, Heap, Scratch
  <2>3. /\ objects \in Seq(Position) /\ DOMAIN objects = 1..p /\ p \in Nat /\ p # 0
        /\ DOMAIN obj = 1..Len(obj)
    BY <2>2
  <2>4. p \in DOMAIN objects /\ DOMAIN obj \subseteq DOMAIN objects
    BY <2>3
  <2> HIDE DEF objects, p
  <2>5. /\ protect' \in Dict /\ draft' \in [Tasks -> Row] /\ row' \in [Tasks -> Nat]
        /\ want' \in [Tasks -> SUBSET Legs] /\ newp' \in [Tasks -> Dict]
        /\ \A u \in Tasks \ {Runner} : pc'[u] = pc[u]
    BY <2>1, <2>3, <2>4, BeginProtectTypes
  <2>6. Holding'
    BY <2>1, <2>3, <2>4, <2>5 DEF Types, Holding
  <2>7. Heap' /\ Table' /\ Market'
    BY <2>1, <2>3, <2>4 DEF Types, Heap, Table, Market, exchange
  <2> QED BY <2>1, <2>5, <2>6, <2>7 DEF Types, Scratch
<1>6. CASE PersistOpen
  <2>1. /\ rows' = Append(rows, draft[Runner]) /\ posDb' = Len(rows) + 1
        /\ UNCHANGED <<obj, engine, protect, exchange, locals, app>>
        /\ \A u \in Tasks : pc'[u] \in {"mc_order", "pr", "ms_cancel"} => pc[u] = pc'[u]
    BY <1>6 DEF PersistOpen, Goto, ControlType
  <2>2. rows \in Seq(Row) /\ draft[Runner] \in Row /\ Len(rows) \in Nat
    BY DEF Types, Table, Scratch
  <2>3. Table'
    BY <2>1, <2>2 DEF Table
  <2> QED BY <2>1, <2>3 DEF Types, Heap, Market, Scratch, Holding, locals, exchange
<1> QED
  BY <1>1, <1>2, <1>3, <1>4, <1>5, <1>6

LEMMA ApiTypes ==
  ASSUME Types, ControlType, NEW t \in Apis,
         \/ \E op, legs : ApiRequest(t, op, legs) /\ legs \in SUBSET Legs
         \/ ApiClose(t) \/ ApiModify(t) \/ ModifyCancel(t) \/ ModifyCommit(t)
  PROVE  Types'
<1>t. t \in Tasks /\ t # Runner
  BY ConstantsOK
<1>1. ASSUME NEW op, NEW legs \in SUBSET Legs, ApiRequest(t, op, legs) PROVE Types'
  <2>1. /\ request' = [request EXCEPT ![t] = [op |-> op, legs |-> legs]] /\ op \in {"close", "sltp"}
        /\ UNCHANGED <<memory, rows, exchange, held, want, newp, row, draft, signal, app>>
        /\ \A u \in Tasks : pc'[u] \in {"mc_order", "pr", "ms_cancel"} => pc[u] = pc'[u]
    BY <1>1, <1>t, ConstantsOK DEF ApiRequest, Goto, ControlType
  <2>2. [op |-> op, legs |-> legs] \in [op : {"close", "sltp"}, legs : SUBSET Legs]
    BY <2>1
  <2>3. request' \in [Apis -> [op : {"close", "sltp"}, legs : SUBSET Legs]]
    BY <2>1, <2>2 DEF Types, Scratch
  <2> QED
    BY <2>1, <2>3 DEF Types, Heap, Table, Market, Scratch, Holding, memory, exchange
<1>2. CASE ApiClose(t)
  <2>1. /\ UNCHANGED <<memory, rows, exchange, want, newp, row, draft, signal, request, app>>
        /\ (Goto(t, "idle") /\ UNCHANGED held) \/ (engine # 0 /\ BeginClose(t, "end"))
    BY <1>2 DEF ApiClose
  <2>2. Holding'
    BY <1>t, <2>1 DEF BeginClose, Types, Holding, Heap, Goto, ControlType, memory
  <2> QED BY <2>1, <2>2 DEF Types, Heap, Table, Market, Scratch, memory, exchange
<1>3. CASE ApiModify(t)
  <2>1. CASE engine = 0
    <3>1. UNCHANGED <<memory, rows, exchange, held, want, newp, row, draft, signal, request, app>>
      BY <1>3, <2>1 DEF ApiModify, memory
    <3>2. \A u \in Tasks : pc'[u] \in {"mc_order", "pr", "ms_cancel"} => pc[u] = pc'[u]
      BY <1>3, <1>t, <2>1 DEF ApiModify, Goto, ControlType
    <3> QED BY <3>1, <3>2 DEF Types, Heap, Table, Market, Scratch, Holding, memory, exchange
  <2>2. CASE engine # 0
    <3> DEFINE legs == request[t].legs
               objects == [obj EXCEPT ![engine].legs = legs]
    <3>1. engine \in DOMAIN obj /\ obj \in Seq(Position) /\ legs \in SUBSET Legs
      BY <2>2 DEF Types, Heap, Scratch
    <3>2. objects \in Seq(Position) /\ DOMAIN objects = DOMAIN obj
      <4>1. \A j \in DOMAIN obj : obj[j] \in Position
        BY <3>1
      <4>2. \A j \in DOMAIN obj : objects[j] \in Position
        <5> HIDE DEF legs
        <5>1. \A j \in DOMAIN obj : j # engine => objects[j] = obj[j]
          BY <3>1
        <5>2. objects[engine] = [obj[engine] EXCEPT !.legs = legs]
          BY <3>1
        <5>3. obj[engine] \in Position
          BY <3>1, <4>1
        <5> HIDE DEF objects
        <5>4. objects[engine] \in Position
          BY <3>1, <5>2, <5>3 DEF Position
        <5> QED BY <4>1, <5>1, <5>4
      <4>3. DOMAIN objects = DOMAIN obj /\ DOMAIN obj = 1..Len(obj) /\ Len(obj) \in Nat
        BY <3>1
      <4>4. objects = [j \in 1..Len(obj) |-> objects[j]]
        <5>1. objects = [j \in DOMAIN objects |-> objects[j]]
          OBVIOUS
        <5> QED BY <4>3, <5>1
      <4> HIDE DEF objects
      <4> QED BY <4>2, <4>3, <4>4
    <3>3. /\ obj' = objects /\ held' = [held EXCEPT ![t] = engine]
          /\ UNCHANGED <<engine, posDb, rows, exchange, signal, request, app>>
      BY <1>3, <2>2 DEF ApiModify
    <3> HIDE DEF objects, legs
    <3>4. engine \in Nat /\ engine \in DOMAIN objects
      BY <3>1, <3>2 DEF Types, Heap
    <3>5. /\ protect' \in Dict /\ draft' \in [Tasks -> Row] /\ row' \in [Tasks -> Nat]
          /\ want' \in [Tasks -> SUBSET Legs] /\ newp' \in [Tasks -> Dict]
          /\ \A u \in Tasks \ {t} : pc'[u] = pc[u]
      <4>1. CASE Goto(t, "ms_cancel") /\ UNCHANGED <<protect, want, newp, row, draft>>
        BY <4>1 DEF Types, Scratch, Goto, ControlType
      <4>2. CASE Placed(protect) = {}
        <5>1. /\ want' = [want EXCEPT ![t] = legs] /\ newp' = [newp EXCEPT ![t] = NoProtect]
              /\ \/ protect' = NoProtect /\ BeginUpdate(t, objects, engine, NoProtect)
                 \/ Goto(t, "pr") /\ UNCHANGED <<protect, row, draft>>
          BY <1>3, <2>2, <4>2 DEF ApiModify, objects, legs
        <5>2. want' \in [Tasks -> SUBSET Legs] /\ newp' \in [Tasks -> Dict]
          BY <3>1, <5>1, NoneIsDict DEF Types, Scratch
        <5>3. CASE protect' = NoProtect /\ BeginUpdate(t, objects, engine, NoProtect)
          <6> DEFINE d == [side |-> objects[engine].side, legs |-> request[t].legs,
                           prot |-> NoProtect, open |-> TRUE]
          <6>1. d \in Row
            <7>1. objects[engine] \in Position /\ request[t].legs \in SUBSET Legs
              BY <3>1, <3>2, <3>4 DEF legs
            <7> QED BY <7>1, NoneIsDict DEF Row, Position
          <6>2. \/ Goto(t, "idle") /\ UNCHANGED <<draft, row>>
                \/ Goto(t, "ms_db") /\ row' = [row EXCEPT ![t] = posDb] /\ draft' = [draft EXCEPT ![t] = d]
            BY <5>3 DEF BeginUpdate
          <6> HIDE DEF d
          <6>3. draft' \in [Tasks -> Row] /\ row' \in [Tasks -> Nat]
            BY <6>1, <6>2, ZenonT(40) DEF Types, Scratch, Table
          <6>4. \A u \in Tasks \ {t} : pc'[u] = pc[u]
            BY <6>2 DEF Goto, ControlType
          <6> QED BY <5>2, <5>3, <6>3, <6>4, NoneIsDict
        <5> QED BY <5>1, <5>2, <5>3 DEF Types, Scratch, Goto, ControlType
      <4> QED BY <1>3, <2>2, <4>1, <4>2 DEF ApiModify
    <3>6. Holding'
      BY <1>t, <3>1, <3>2, <3>3, <3>5 DEF Types, Holding, Heap
    <3>7. Heap' /\ Table' /\ Market'
      BY <3>2, <3>3, <3>4 DEF Types, Heap, Table, Market, exchange
    <3> QED BY <3>3, <3>5, <3>6, <3>7 DEF Types, Scratch
  <2> QED BY <2>1, <2>2
<1>4. CASE ModifyCancel(t)
  <2>1. /\ pc[t] = "ms_cancel" /\ algos' \subseteq algos
        /\ BeginProtect(t, obj, engine, held[t])
        /\ UNCHANGED <<obj, engine, posDb, rows, xpos, held, nAlgo, signal, request, app>>
    BY <1>4 DEF ModifyCancel
  <2>2. held[t] \in DOMAIN obj /\ obj \in Seq(Position) /\ engine \in Nat
        /\ (engine = 0 \/ engine \in DOMAIN obj)
    BY <1>t, <2>1 DEF Types, Holding, Heap
  <2>3. /\ protect' \in Dict /\ draft' \in [Tasks -> Row] /\ row' \in [Tasks -> Nat]
        /\ want' \in [Tasks -> SUBSET Legs] /\ newp' \in [Tasks -> Dict]
        /\ \A u \in Tasks \ {t} : pc'[u] = pc[u]
    BY <1>t, <2>1, <2>2, BeginProtectTypes
  <2>4. Holding'
    BY <1>t, <2>1, <2>2, <2>3 DEF Types, Holding
  <2> QED BY <2>1, <2>3, <2>4 DEF Types, Heap, Table, Market, Scratch
<1>5. CASE ModifyCommit(t)
  <2>1. /\ rows' = Edited(rows, row[t], draft[t]) /\ UNCHANGED <<memory, exchange, locals, app>>
        /\ \A u \in Tasks : pc'[u] \in {"mc_order", "pr", "ms_cancel"} => pc[u] = pc'[u]
    BY <1>5, <1>t DEF ModifyCommit, Edited, Goto, ControlType
  <2>2. rows \in Seq(Row) /\ draft[t] \in Row
    BY <1>t DEF Types, Table, Scratch
  <2>3. rows' \in Seq(Row) /\ DOMAIN rows' = DOMAIN rows
    BY <2>1, <2>2, EditedRow
  <2> QED
    BY <2>1, <2>3 DEF Types, Heap, Table, Market, Scratch, Holding, memory, locals, exchange
<1> QED
  BY <1>1, <1>2, <1>3, <1>4, <1>5

\* Among the OPEN rows one is the newest.
LEMMA NewestRow ==
  ASSUME Types, OpenRows # {}
  PROVE  \E x \in OpenRows : \A y \in OpenRows : y <= x
<1> DEFINE T == {k \in Nat : \A y \in OpenRows : y <= k}
           R == OpToRel(<, Nat)
<1>1. OpenRows \subseteq 1..Len(rows) /\ Len(rows) \in Nat
  BY DEF Types, Table, OpenRows, RowIds
<1>2. T # {} /\ T \subseteq Nat
  <2>1. \A y \in 1..Len(rows) : y <= Len(rows)
    BY <1>1
  <2>2. Len(rows) \in T
    BY <1>1, <2>1
  <2> QED BY <2>2
<1>3. IsWellFoundedOn(R, Nat)
  BY NatLessThanWellFounded
<1>4. R = {ss \in Nat \X Nat : ss[1] < ss[2]}
  BY DEF OpToRel
<1> HIDE DEF R
<1>5. PICK k \in T : \A j \in T : ~(<<j, k>> \in R)
  BY <1>2, <1>3, WFMin
<1>6. k \in Nat /\ \A y \in OpenRows : y <= k
  BY <1>5
<1>7. k # 0
  <2>1. PICK y \in OpenRows : TRUE
    OBVIOUS
  <2>2. y \in 1..Len(rows) /\ y <= k
    BY <1>1, <1>6
  <2> QED BY <1>6, <2>2
<1>8. k - 1 \in Nat /\ k - 1 < k
  BY <1>6, <1>7
<1>9. <<k - 1, k>> \in R
  BY <1>4, <1>6, <1>8
<1>10. k - 1 \notin T
  BY <1>5, <1>9
<1>11. PICK y \in OpenRows : ~(y <= k - 1)
  BY <1>8, <1>10
<1>12. y = k
  BY <1>1, <1>6, <1>8, <1>11
<1> QED BY <1>6, <1>11, <1>12

\* restore_open takes over the values of an OPEN row.
LEMMA RestartTypes ==
  ASSUME Types, ControlType, Restart
  PROVE  Types'
<1>1. CASE OpenRows = {}
  <2>1. UNCHANGED <<memory, pc, rows, exchange, locals>> /\ app' = "up"
    BY <1>1 DEF Restart
  <2> QED BY <2>1 DEF Types, Heap, Table, Market, Scratch, Holding, memory, locals, exchange
<1>2. ASSUME NEW r \in RowIds,
             /\ app' = "restoring"
             /\ obj' = Append(obj, [side |-> rows[r].side, legs |-> rows[r].legs])
             /\ engine' = Len(obj) + 1 /\ posDb' = r /\ protect' = rows[r].prot
             /\ Goto(Runner, "rec_read")
      PROVE  Types'
  <2>1. UNCHANGED <<rows, exchange, locals>>
    BY DEF Restart
  <2>2. rows[r] \in Row /\ r \in DOMAIN rows /\ r \in Nat /\ obj \in Seq(Position) /\ Len(obj) \in Nat
    BY DEF Types, Table, Heap, RowIds
  <2>3. [side |-> rows[r].side, legs |-> rows[r].legs] \in Position /\ rows[r].prot \in Dict
    BY <2>2 DEF Row, Position
  <2>4. Heap' /\ DOMAIN obj \subseteq DOMAIN obj'
    BY <1>2, <2>2, <2>3 DEF Heap
  <2>5. Holding'
    BY <1>2, <2>1, <2>4 DEF Types, Holding, Goto, ControlType, locals
  <2> QED BY <1>2, <2>1, <2>2, <2>3, <2>4, <2>5 DEF Types, Table, Market, Scratch, locals, exchange
<1>3. CASE OpenRows # {}
  <2> DEFINE r == CHOOSE x \in OpenRows : \A y \in OpenRows : y <= x
  <2>1. r \in RowIds
    BY <1>3, NewestRow DEF OpenRows
  <2>2. /\ app' = "restoring"
        /\ obj' = Append(obj, [side |-> rows[r].side, legs |-> rows[r].legs])
        /\ engine' = Len(obj) + 1 /\ posDb' = r /\ protect' = rows[r].prot
        /\ Goto(Runner, "rec_read")
    BY <1>3 DEF Restart
  <2> HIDE DEF r
  <2> QED BY <1>2, <2>1, <2>2
<1> QED BY <1>1, <1>3

\* Triggers, the human, crashes and restarts.
LEMMA WorldTypes ==
  ASSUME Types, ControlType,
         \/ \E a \in algos : AlgoFires(a)
         \/ ClosedOutside
         \/ \E side \in Sides : OpenedOutside(side)
         \/ Crash \/ Restart
  PROVE  Types'
<1>1. ASSUME \/ \E a \in algos : AlgoFires(a)
             \/ ClosedOutside
             \/ \E side \in Sides : OpenedOutside(side)
      PROVE  Types'
  <2>1. /\ UNCHANGED <<memory, rows, nAlgo, locals, app, pc>> /\ algos' \subseteq algos
        /\ xpos' \in [side : Sides, by : {"app", "hand"}] \cup {Flat}
    BY <1>1 DEF AlgoFires, ClosedOutside, OpenedOutside, Types, Market, control
  <2> QED BY <2>1 DEF Types, Heap, Table, Market, Scratch, Holding, memory, locals
<1>2. CASE Crash
  <2>1. /\ UNCHANGED <<obj, rows, exchange, locals>> /\ app' = "down" /\ engine' = 0
        /\ protect' = NoProtect /\ posDb' = 0 /\ \A t \in Tasks : pc'[t] = "idle"
    BY <1>2 DEF Crash
  <2> QED BY <2>1, NoneIsDict DEF Types, Heap, Table, Market, Scratch, Holding, locals, exchange
<1> QED BY <1>1, <1>2, RestartTypes

LEMMA NextTypes == Types /\ ControlType /\ [Next]_vars => Types'
<1> SUFFICES ASSUME Types, ControlType, [Next]_vars PROVE Types'
  OBVIOUS
<1>1. CASE UNCHANGED vars
  BY <1>1 DEF vars, memory, locals, exchange, control, Types, Heap, Table, Market, Scratch, Holding
<1>2. CASE TickNothing
  BY <1>1, <1>2 DEF TickNothing
<1>3. CASE \E t \in Apis : \/ ApiRequest(t, "close", {})
                           \/ \E legs \in LegChoices : ApiRequest(t, "sltp", legs)
                           \/ ApiStep(t)
  <2>1. PICK t \in Apis : \/ ApiRequest(t, "close", {})
                          \/ \E legs \in LegChoices : ApiRequest(t, "sltp", legs)
                          \/ ApiStep(t)
    BY <1>3
  <2>2. CASE \E op, legs : ApiRequest(t, op, legs) /\ legs \in SUBSET Legs
    BY <2>2, ApiTypes
  <2>3. {} \in SUBSET Legs /\ \A legs \in LegChoices : legs \in SUBSET Legs
    BY ConstantsOK
  <2> QED BY <2>1, <2>2, <2>3, ApiTypes, ContinueTypes DEF ApiStep
<1> QED
  BY <1>1, <1>2, <1>3, RunnerTypes, WorldTypes, ContinueTypes DEF Next, RunnerStep

LEMMA AlwaysTyped == Spec => []Types
<1>1. OwnsControl => ControlType
  BY DEF OwnsControl
<1> QED BY <1>1, InitTypes, NextTypes, AlwaysOwns, PTL DEF Spec

\* The ids a task cancels are those _protect named when it asked.
Asked == ids \in [Tasks -> SUBSET Nat]

LEMMA CancelAsks ==
  ASSUME Types, Asked, NEW t \in Tasks, BeginCancel(t) PROVE Asked'
<1>1. Placed(protect) \subseteq Nat
  BY DEF Types, Placed, Dict
<1>2. ids' = ids \/ ids' = [ids EXCEPT ![t] = Placed(protect)]
  BY DEF BeginCancel
<1> HIDE DEF Placed
<1> QED BY <1>1, <1>2 DEF Asked

LEMMA ContinueAsks ==
  ASSUME Types, Asked, NEW t \in Tasks, Continue(t) PROVE Asked'
<1>1. CASE CloseOk(t)
  BY <1>1, CancelAsks DEF CloseOk
<1>2. CASE ReconcileFill(t)
  BY <1>2, CancelAsks DEF ReconcileFill, Asked
<1>3. CASE CloseOrder(t) \/ CloseError(t) \/ ReconcileRead(t) \/ PersistClose(t)
  BY <1>3 DEF CloseOrder, CloseError, ReconcileRead, PersistClose, Asked, locals
<1>4. CASE Cancel(t) \/ Protect(t)
  BY <1>4 DEF Cancel, Protect, Asked
<1> QED BY <1>1, <1>2, <1>3, <1>4 DEF Continue

LEMMA ModifyAsks ==
  ASSUME Types, Asked, NEW t \in Tasks, ApiModify(t) PROVE Asked'
<1>1. Placed(protect) \subseteq Nat
  BY DEF Types, Placed, Dict
<1>2. ids' = ids \/ ids' = [ids EXCEPT ![t] = Placed(protect)]
  BY DEF ApiModify
<1> HIDE DEF Placed
<1> QED BY <1>1, <1>2 DEF Asked

LEMMA NextAsks == Types /\ Asked /\ [Next]_vars => Asked'
<1> SUFFICES ASSUME Types, Asked, [Next]_vars PROVE Asked'
  OBVIOUS
<1> USE DEF Asked, locals
<1>1. CASE TickReconcile \/ TickFallback \/ TickNothing \/ SubmitClose \/ UNCHANGED vars
  BY <1>1 DEF TickReconcile, TickFallback, TickNothing, SubmitClose, vars
<1>2. CASE \E side \in Sides, legs \in LegChoices : SubmitOpen(side, legs)
  BY <1>2 DEF SubmitOpen
<1>3. CASE RunnerStep
  BY <1>3, ContinueAsks DEF RunnerStep, OpenCheck, OpenOrder, OpenFill, PersistOpen
<1>4. ASSUME NEW t \in Apis,
             \/ ApiRequest(t, "close", {})
             \/ \E legs \in LegChoices : ApiRequest(t, "sltp", legs)
             \/ ApiStep(t)
      PROVE  Asked'
  <2>1. CASE ApiModify(t)
    BY <2>1, ModifyAsks
  <2>2. CASE Continue(t)
    BY <2>2, ContinueAsks
  <2> QED
    BY <1>4, <2>1, <2>2 DEF ApiStep, ApiRequest, ApiClose, ModifyCancel, ModifyCommit
<1>5. CASE \/ \E a \in algos : AlgoFires(a)
           \/ ClosedOutside \/ Crash \/ Restart
           \/ \E side \in Sides : OpenedOutside(side)
  BY <1>5 DEF AlgoFires, ClosedOutside, OpenedOutside, Crash, Restart
<1> QED BY <1>1, <1>2, <1>3, <1>4, <1>5 DEF Next

LEMMA AlwaysAsked == Spec => []Asked
<1>1. Init => Asked
  BY DEF Init, Asked
<1> QED BY <1>1, NextAsks, AlwaysTyped, PTL DEF Spec

\* TypeOK: every variable, the handlers' locals included, holds a value of the kind the
\* code stores in it, whatever runner, requests and the exchange do; the engine's
\* position, the row kept for it, and the position a handler closes or protects after
\* an await are ones that exist.
THEOREM TypesHold == Spec => []TypeOK
<1>1. Types /\ Asked /\ ControlType => TypeOK
  BY DEF Types, Heap, Table, Market, Scratch, Holding, HoldsKnown, Asked, ControlType,
         TypeOK, Labels, Objects, RowIds
<1>2. OwnsControl => ControlType
  BY DEF OwnsControl
<1> QED BY <1>1, <1>2, AlwaysTyped, AlwaysAsked, AlwaysOwns, PTL
-----------------------------------------------------------------------------
(* A bot's own task alone: rows follow the engine, protection follows both. *)
(* With API tasks neither holds: exchange_edit_crash.cfg and               *)
(* exchange_close_race.cfg show it.                                        *)

\* The OPEN rows are the engine's position, as a restart would want it.
Matches ==
  /\ OpenRows = IF engine = 0 THEN {} ELSE {posDb}
  /\ engine # 0 => /\ rows[posDb].side = obj[engine].side
                   /\ rows[posDb].legs = obj[engine].legs
                   /\ rows[posDb].prot = protect

\* What is on its way into the table, or out of it.
Drafted == [side |-> obj[engine].side, legs |-> obj[engine].legs, prot |-> protect,
            open |-> TRUE]
Placing == pc[Runner] = "pr" /\ engine # 0 /\ held[Runner] = engine /\ OpenRows = {}
Storing == pc[Runner] = "po" /\ engine # 0 /\ OpenRows = {} /\ draft[Runner] = Drafted
Closing == pc[Runner] = "persist" /\ engine = 0 /\ OpenRows = {row[Runner]}
Settled == pc[Runner] \notin {"pr", "po", "persist"} /\ Matches

Following ==
  /\ app = "down" => engine = 0 /\ \A x, y \in OpenRows : x = y
  /\ app # "down" => Placing \/ Storing \/ Closing \/ Settled

\* The orders a protection dict names rest in resting, while the app's position at
\* is there for them to guard.
Carries(prot, side, at, resting) ==
  at.by = "app" /\ at.side = side =>
    \A l \in Legs : prot[l] # 0 =>
      \E a \in resting : a.id = prot[l] /\ a.leg = l /\ a.side = side

Guarded ==
  /\ engine = 0 \/ pc[Runner] = "pr" => protect = NoProtect
  /\ pc[Runner] = "persist" => xpos.by # "app"
  /\ engine # 0 => Carries(protect, obj[engine].side, xpos, algos)
  /\ pc[Runner] = "pr" => Carries(newp[Runner], obj[engine].side, xpos, algos)
  /\ \A r \in OpenRows : Carries(rows[r].prot, rows[r].side, xpos, algos)

Sole == OwnsControl /\ Types /\ Following /\ Guarded

LEMMA CarriesNone ==
  ASSUME NEW side, NEW at, NEW resting PROVE Carries(NoProtect, side, at, resting)
BY NoneIsDict DEF Carries

\* Orders are added, or the position is gone: what was carried still is.
LEMMA CarriesOn ==
  ASSUME NEW prot, NEW side, NEW at, NEW resting, Carries(prot, side, at, resting),
         NEW at2, NEW resting2, resting \subseteq resting2, at2 = at \/ at2.by # "app"
  PROVE  Carries(prot, side, at2, resting2)
BY DEF Carries

\* An order that triggers takes the position with it, or was of the other side.
LEMMA CarriesFired ==
  ASSUME NEW prot, NEW side, NEW at, NEW resting, Carries(prot, side, at, resting), NEW a
  PROVE  Carries(prot, side, IF at.side = a.side THEN Flat ELSE at, resting \ {a})
<1>1. CASE at.side = a.side
  BY <1>1 DEF Carries, Flat
<1>2. CASE at.side # a.side
  BY <1>2 DEF Carries
<1> QED BY <1>1, <1>2

LEMMA InitSole == Init => Following /\ Guarded
<1> SUFFICES ASSUME Init PROVE Following /\ Guarded
  OBVIOUS
<1>1. OpenRows = {}
  <2>1. DOMAIN <<>> = {}
    OBVIOUS
  <2> QED BY <2>1 DEF Init, OpenRows, RowIds
<1>2. engine = 0 /\ protect = NoProtect /\ pc[Runner] = "idle" /\ app = "up"
  BY DEF Init
<1> QED BY <1>1, <1>2 DEF Following, Guarded, Settled, Matches

\* A step that touches neither memory nor table, with the runner elsewhere than on its
\* way to or from the table.
LEMMA StillFollows ==
  ASSUME Following, UNCHANGED <<obj, engine, protect, posDb, rows>>, app # "down", app' # "down",
         pc[Runner] \notin {"pr", "po", "persist"}, pc'[Runner] \notin {"pr", "po", "persist"}
  PROVE  Following'
<1>1. Matches
  BY DEF Following, Placing, Storing, Closing, Settled
<1>2. Matches'
  BY <1>1 DEF Matches, OpenRows, RowIds
<1> QED BY <1>2 DEF Following, Settled

LEMMA StillGuarded ==
  ASSUME Guarded, UNCHANGED <<obj, engine, protect, rows, newp>>,
         pc'[Runner] = pc[Runner] \/ pc'[Runner] \notin {"pr", "persist"},
         algos \subseteq algos', xpos' = xpos \/ xpos'.by # "app"
  PROVE  Guarded'
<1>1. OpenRows' = OpenRows
  BY DEF OpenRows, RowIds
<1>2. \A prot, side : Carries(prot, side, xpos, algos) => Carries(prot, side, xpos', algos')
  BY CarriesOn
<1>3. engine # 0 => Carries(protect, obj[engine].side, xpos', algos')
  BY <1>2 DEF Guarded
<1>4. pc[Runner] = "pr" => Carries(newp[Runner], obj[engine].side, xpos', algos')
  BY <1>2 DEF Guarded
<1>5. \A r \in OpenRows : Carries(rows[r].prot, rows[r].side, xpos', algos')
  BY <1>2 DEF Guarded
<1> QED BY <1>1, <1>3, <1>4, <1>5 DEF Guarded

\* Both, for the steps of a handler between two awaits that only move it on.
LEMMA StillSole ==
  ASSUME Following, Guarded, UNCHANGED <<obj, engine, protect, posDb, rows, newp>>,
         app # "down", app' # "down",
         pc[Runner] \notin {"pr", "po", "persist"}, pc'[Runner] \notin {"pr", "po", "persist"},
         algos \subseteq algos', xpos' = xpos \/ xpos'.by # "app"
  PROVE  Following' /\ Guarded'
BY StillFollows, StillGuarded

\* The protective orders are cancelled and the engine is emptied, when the exchange no
\* longer holds the app's position: the row is the last to go.
LEMMA CancelledSole ==
  ASSUME Sole, NEW gone, CancelledThenClose(Runner, gone), pc[Runner] \in {"mc_ok", "rec_fill", "cancel"},
         UNCHANGED <<obj, posDb, rows, xpos, newp>>
  PROVE  Following' /\ Guarded'
<1>1. /\ xpos.by # "app" /\ app # "down" /\ Matches /\ ControlType
      /\ row \in [Tasks -> Nat]
  BY DEF Sole, OwnsControl, CancelAfterClose, RunnerLabels, Following, Placing, Storing, Closing,
         Settled, Types, Scratch
<1>2. protect' = NoProtect /\ engine' = 0 /\ OpenRows' = OpenRows
  BY DEF CancelledThenClose, OpenRows, RowIds
<1>3. \A prot, side : Carries(prot, side, xpos', algos')
  BY <1>1 DEF Carries
<1>4. CASE engine # 0
  <2>1. row'[Runner] = posDb /\ pc'[Runner] = "persist" /\ app' = app
    BY <1>1, <1>4 DEF CancelledThenClose, Goto, ControlType
  <2>2. Closing'
    BY <1>1, <1>2, <1>4, <2>1 DEF Closing, Matches
  <2> QED BY <1>1, <1>2, <1>3, <2>1, <2>2 DEF Following, Guarded
<1>5. CASE engine = 0
  <2>1. Finish(Runner, 0, NoProtect)
    BY <1>5 DEF CancelledThenClose
  <2>2. pc'[Runner] \in {"idle", "op_check", "mc_order"} /\ app' \in {app, "up"}
    BY <1>1, <2>1, FinishLemma
  <2>3. Matches'
    BY <1>1, <1>2, <1>5 DEF Matches
  <2> QED BY <1>1, <1>2, <1>3, <2>2, <2>3 DEF Following, Guarded, Settled
<1> QED BY <1>4, <1>5

LEMMA BeginCancelSole ==
  ASSUME Sole, BeginCancel(Runner), pc[Runner] \in {"mc_ok", "rec_fill"},
         UNCHANGED <<obj, posDb, rows, xpos, newp>>
  PROVE  Following' /\ Guarded'
<1>1. CASE CancelledThenClose(Runner, {})
  BY <1>1, CancelledSole
<1>2. CASE Goto(Runner, "cancel") /\ UNCHANGED <<algos, protect, engine, row, app>>
  <2>1. app # "down" /\ pc'[Runner] = "cancel"
    BY <1>2 DEF Sole, OwnsControl, RunnerLabels, ControlType, Goto
  <2> QED BY <1>2, <2>1, StillSole DEF Sole
<1> QED BY <1>1, <1>2 DEF BeginCancel

\* reconcile has nothing to do, or a caller gives up.
LEMMA FinishSole ==
  ASSUME Sole, NEW prot, Return(Runner, engine, prot) \/ Finish(Runner, engine, prot),
         pc[Runner] \in {"mc_err", "rec_read", "rec_fill"},
         UNCHANGED <<obj, engine, protect, posDb, rows, exchange, newp>>
  PROVE  Following' /\ Guarded'
<1>1. app # "down" /\ ControlType
  BY DEF Sole, OwnsControl, RunnerLabels
<1>2. pc'[Runner] \in {"idle", "op_check", "mc_order"} /\ app' \in {app, "up"}
  BY <1>1, ReturnLemma, FinishLemma
<1> QED BY <1>1, <1>2, StillSole DEF Sole, exchange

\* The steps of _market_close and reconcile.
LEMMA CloseSole ==
  ASSUME Sole, \/ CloseOrder(Runner) \/ CloseOk(Runner) \/ CloseError(Runner)
               \/ ReconcileRead(Runner) \/ ReconcileFill(Runner) \/ Cancel(Runner)
  PROVE  Following' /\ Guarded'
<1>u. app # "down" /\ ControlType
  BY DEF Sole, OwnsControl, RunnerLabels, CloseOrder, CloseOk, CloseError, ReconcileRead,
         ReconcileFill, Cancel
<1>1. CASE CloseOrder(Runner)
  <2>1. /\ UNCHANGED <<memory, rows, algos, locals, app>> /\ xpos' \in {xpos, Flat}
        /\ pc[Runner] = "mc_order" /\ pc'[Runner] \in {"mc_ok", "mc_err"}
    BY <1>1, <1>u DEF CloseOrder, Goto, ControlType
  <2>2. xpos' = xpos \/ xpos'.by # "app"
    BY <2>1 DEF Flat
  <2> QED BY <1>u, <2>1, <2>2, StillSole DEF Sole, memory, locals
<1>2. CASE CloseOk(Runner)
  BY <1>2, BeginCancelSole DEF CloseOk
<1>3. CASE CloseError(Runner)
  <2>1. CASE engine = 0 /\ Return(Runner, 0, protect)
    BY <1>3, <2>1, FinishSole DEF CloseError, memory
  <2>2. CASE Goto(Runner, "rec_read") /\ UNCHANGED app
    <3>1. pc[Runner] = "mc_err" /\ pc'[Runner] = "rec_read" /\ UNCHANGED <<memory, rows, exchange, newp>>
      BY <1>3, <1>u, <2>2 DEF CloseError, Goto, ControlType
    <3> QED BY <1>u, <2>2, <3>1, StillSole DEF Sole, memory, exchange
  <2> QED BY <1>3, <2>1, <2>2 DEF CloseError
<1>4. CASE ReconcileRead(Runner)
  <2>1. CASE Goto(Runner, "rec_fill") /\ UNCHANGED app
    <3>1. pc[Runner] = "rec_read" /\ pc'[Runner] = "rec_fill" /\ UNCHANGED <<memory, rows, exchange, newp>>
      BY <1>4, <1>u, <2>1 DEF ReconcileRead, Goto, ControlType
    <3> QED BY <1>u, <2>1, <3>1, StillSole DEF Sole, memory, exchange
  <2>2. CASE Finish(Runner, engine, protect)
    BY <1>4, <2>2, FinishSole DEF ReconcileRead, memory
  <2> QED BY <1>4, <2>1, <2>2 DEF ReconcileRead
<1>5. CASE ReconcileFill(Runner)
  <2>1. CASE BeginCancel(Runner)
    BY <1>5, <2>1, BeginCancelSole DEF ReconcileFill
  <2>2. CASE Finish(Runner, engine, protect) /\ UNCHANGED <<algos, protect, engine, row, ids>>
    BY <1>5, <2>2, FinishSole DEF ReconcileFill, exchange
  <2> QED BY <1>5, <2>1, <2>2 DEF ReconcileFill
<1>6. CASE Cancel(Runner)
  BY <1>6, CancelledSole DEF Cancel
<1> QED BY <1>1, <1>2, <1>3, <1>4, <1>5, <1>6

\* _persist_close closes the one row that was still OPEN.
LEMMA PersistSole ==
  ASSUME Sole, PersistClose(Runner)
  PROVE  Following' /\ Guarded'
<1>1. /\ pc[Runner] = "persist" /\ app # "down" /\ ControlType
      /\ UNCHANGED <<obj, engine, protect, exchange, newp>> /\ posDb' = 0
      /\ Finish(Runner, engine, protect)
  BY DEF PersistClose, Sole, OwnsControl, RunnerLabels
<1>2. engine = 0 /\ OpenRows = {row[Runner]}
  BY <1>1 DEF Sole, Following, Placing, Storing, Closing, Settled
<1>3. rows \in Seq(Row) /\ row[Runner] \in DOMAIN rows /\ row[Runner] # 0
  <2>1. rows \in Seq(Row)
    BY DEF Sole, Types, Table
  <2>2. row[Runner] \in OpenRows
    BY <1>2
  <2>3. row[Runner] \in DOMAIN rows
    BY <2>2 DEF OpenRows, RowIds
  <2>4. DOMAIN rows = 1..Len(rows)
    BY <2>1
  <2>5. row[Runner] \in 1..Len(rows)
    BY <2>3, <2>4
  <2> QED BY <2>1, <2>3, <2>5
<1>4. rows' = Shut(rows, row[Runner])
  BY <1>3 DEF PersistClose, Shut
<1>5. OpenRows' = {}
  <2>1. /\ DOMAIN rows' = DOMAIN rows
        /\ \A j \in DOMAIN rows : rows'[j].open = (rows[j].open /\ j # row[Runner])
    BY <1>3, <1>4, ShutRow
  <2> QED BY <1>2, <2>1 DEF OpenRows, RowIds
<1>6. pc'[Runner] \in {"idle", "op_check", "mc_order"} /\ app' \in {app, "up"}
  BY <1>1, FinishLemma
<1>7. Matches'
  BY <1>1, <1>2, <1>5 DEF Matches
<1>8. protect' = NoProtect
  BY <1>1, <1>2 DEF Sole, Guarded
<1> QED BY <1>1, <1>2, <1>5, <1>6, <1>7, <1>8 DEF Following, Settled, Guarded

\* _persist_position_open builds the row from what engine and _protect are by then.
LEMMA StoreSole ==
  ASSUME ControlType, app' # "down", NEW objects, NEW e, e # 0, NEW prot,
         Protected(Runner, objects, e, prot), draft \in [Tasks -> Row],
         obj' = objects, engine' = e, OpenRows' = {},
         Carries(prot, objects[e].side, xpos', algos')
  PROVE  Following' /\ Guarded'
<1>1. /\ protect' = prot /\ pc'[Runner] = "po"
      /\ draft'[Runner] = [side |-> objects[e].side, legs |-> objects[e].legs, prot |-> prot, open |-> TRUE]
  BY DEF Protected, BeginPersistOpen, Goto, ControlType
<1>2. Storing'
  BY <1>1 DEF Storing, Drafted
<1>3. Guarded'
  BY <1>1 DEF Guarded
<1> QED BY <1>2, <1>3 DEF Following

\* The fill is in the engine; SL/TP are still to be placed, and the row to be written.
LEMMA FillSole ==
  ASSUME Sole, OpenFill
  PROVE  Following' /\ Guarded'
<1> DEFINE p == Len(obj) + 1
           objects == Append(obj, signal)
<1>1. /\ obj' = objects /\ engine' = p /\ held' = [held EXCEPT ![Runner] = p]
      /\ BeginProtect(Runner, objects, p, p) /\ engine = 0 /\ pc[Runner] = "op_fill"
      /\ UNCHANGED <<posDb, rows, exchange, app>>
  BY DEF OpenFill
<1>2. app # "down" /\ ControlType /\ p # 0 /\ draft \in [Tasks -> Row]
      /\ held \in [Tasks -> Nat] /\ newp \in [Tasks -> Dict]
  BY <1>1 DEF Sole, OwnsControl, RunnerLabels, Types, Heap, Scratch, Holding
<1> HIDE DEF p, objects
<1>3. OpenRows = {} /\ protect = NoProtect
  BY <1>1, <1>2 DEF Sole, Following, Placing, Storing, Closing, Settled, Matches, Guarded
<1>4. OpenRows' = {}
  BY <1>1, <1>3 DEF OpenRows, RowIds
<1>5. CASE Protected(Runner, objects, p, NoProtect)
  <2>1. Carries(NoProtect, objects[p].side, xpos', algos')
    BY CarriesNone
  <2> QED BY <1>1, <1>2, <1>4, <1>5, <2>1, StoreSole
<1>6. CASE newp' = [newp EXCEPT ![Runner] = NoProtect] /\ Goto(Runner, "pr") /\ UNCHANGED protect
  <2>1. pc'[Runner] = "pr" /\ newp'[Runner] = NoProtect /\ held'[Runner] = engine' /\ engine' # 0
    BY <1>1, <1>2, <1>6 DEF Goto, ControlType
  <2>2. Placing'
    BY <1>4, <2>1 DEF Placing
  <2>3. \A side : Carries(NoProtect, side, xpos', algos')
    BY CarriesNone
  <2> QED BY <1>1, <1>2, <1>3, <1>4, <1>6, <2>1, <2>2, <2>3 DEF Following, Guarded
<1> QED BY <1>1, <1>5, <1>6 DEF BeginProtect

\* Each leg that client.protect placed is carried; after an error _protect names none.
LEMMA PlaceSole ==
  ASSUME Sole, Protect(Runner)
  PROVE  Following' /\ Guarded'
<1> DEFINE leg == IF "sl" \in want[Runner] THEN "sl" ELSE "tp"
           id == nAlgo + 1
           new == [id |-> id, leg |-> leg, side |-> obj[held[Runner]].side]
           out == [newp[Runner] EXCEPT ![leg] = id]
<1>1. /\ pc[Runner] = "pr" /\ app # "down" /\ ControlType
      /\ UNCHANGED <<obj, engine, posDb, rows, xpos, held, app>>
  BY DEF Protect, Sole, OwnsControl, RunnerLabels
<1>2. engine # 0 /\ held[Runner] = engine /\ OpenRows = {} /\ protect = NoProtect
      /\ Carries(newp[Runner], obj[engine].side, xpos, algos)
  BY <1>1 DEF Sole, Following, Placing, Storing, Closing, Settled, Guarded
<1>3. draft \in [Tasks -> Row] /\ newp \in [Tasks -> Dict] /\ nAlgo \in Nat
  BY DEF Sole, Types, Scratch, Market
<1>4. OpenRows' = {}
  BY <1>1, <1>2 DEF OpenRows, RowIds
<1>5. CASE algos' = algos \cup {new} /\ newp' = [newp EXCEPT ![Runner] = out]
           /\ (Protected(Runner, obj, engine, out) \/ UNCHANGED <<pc, protect, draft, row>>)
  <2>1. Carries(out, obj[engine].side, xpos, algos \cup {new})
    <3>1. out \in [Legs -> Nat] /\ out[leg] = id /\ leg \in Legs /\ (\A l \in Legs : l # leg => out[l] = newp[Runner][l])
      BY <1>3 DEF Dict, Legs
    <3>2. new.id = id /\ new.leg = leg /\ new.side = obj[engine].side
      BY <1>2
    <3> HIDE DEF new, out, leg
    <3> QED BY <1>2, <3>1, <3>2 DEF Carries
  <2>2. CASE Protected(Runner, obj, engine, out)
    <3> HIDE DEF out, new
    <3> QED BY <1>1, <1>2, <1>3, <1>4, <1>5, <2>1, <2>2, StoreSole
  <2>3. CASE UNCHANGED <<pc, protect, draft, row>>
    <3>1. newp'[Runner] = out
      BY <1>3, <1>5
    <3> HIDE DEF out, new
    <3>2. Placing'
      BY <1>1, <1>2, <1>4, <2>3 DEF Placing
    <3>3. \A side : Carries(NoProtect, side, xpos', algos')
      BY CarriesNone
    <3> QED BY <1>1, <1>2, <1>4, <1>5, <2>1, <2>3, <3>1, <3>2, <3>3 DEF Following, Guarded
  <2> QED BY <1>5, <2>2, <2>3
<1>6. CASE Protected(Runner, obj, engine, NoProtect)
  <2>1. Carries(NoProtect, obj[engine].side, xpos', algos')
    BY CarriesNone
  <2> QED BY <1>1, <1>2, <1>3, <1>4, <1>6, <2>1, StoreSole
<1> QED BY <1>5, <1>6 DEF Protect

\* The INSERT makes the engine's position the OPEN row.
LEMMA InsertSole ==
  ASSUME Sole, PersistOpen
  PROVE  Following' /\ Guarded'
<1>1. /\ pc[Runner] = "po" /\ app # "down" /\ pc'[Runner] = "idle"
      /\ rows' = Append(rows, draft[Runner]) /\ posDb' = Len(rows) + 1
      /\ UNCHANGED <<obj, engine, protect, exchange, app>>
  BY DEF PersistOpen, Sole, OwnsControl, RunnerLabels, ControlType, Goto
<1>2. engine # 0 /\ OpenRows = {} /\ draft[Runner] = Drafted
      /\ Carries(protect, obj[engine].side, xpos, algos)
  BY <1>1 DEF Sole, Following, Placing, Storing, Closing, Settled, Guarded
<1>3. rows \in Seq(Row) /\ Len(rows) \in Nat /\ DOMAIN rows = 1..Len(rows) /\ Drafted \in Row
  BY <1>2 DEF Sole, Types, Table, Scratch
<1>4. /\ DOMAIN rows' = 1..(Len(rows) + 1) /\ rows'[Len(rows) + 1] = Drafted
      /\ \A r \in 1..Len(rows) : rows'[r] = rows[r]
  BY <1>1, <1>2, <1>3
<1>5. Drafted.open /\ Drafted.side = obj[engine].side /\ Drafted.legs = obj[engine].legs
      /\ Drafted.prot = protect
  BY DEF Drafted
<1>6. OpenRows' = {posDb'}
  BY <1>1, <1>2, <1>3, <1>4, <1>5 DEF OpenRows, RowIds
<1>7. Matches'
  BY <1>1, <1>2, <1>4, <1>5, <1>6 DEF Matches
<1>8. Guarded'
  BY <1>1, <1>2, <1>4, <1>5, <1>6 DEF Sole, Guarded, exchange
<1> QED BY <1>1, <1>7, <1>8 DEF Following, Settled

\* The order that opens a position meets no row and no position of the engine.
LEMMA OrderSole ==
  ASSUME Sole, OpenOrder
  PROVE  Following' /\ Guarded'
<1>1. /\ pc[Runner] = "op_order" /\ app # "down" /\ engine = 0 /\ ControlType
      /\ UNCHANGED <<memory, rows, algos, locals, app>>
  BY DEF OpenOrder, Sole, OwnsControl, RunnerLabels, FillMeetsEmptyEngine
<1>2. pc'[Runner] \in {"idle", "op_fill"}
  BY <1>1 DEF OpenOrder, Goto, ControlType
<1>3. Following'
  BY <1>1, <1>2, StillFollows DEF Sole, memory
<1>4. OpenRows = {} /\ protect = NoProtect
  BY <1>1 DEF Sole, Following, Placing, Storing, Closing, Settled, Matches, Guarded
<1>5. OpenRows' = {}
  BY <1>1, <1>4 DEF OpenRows, RowIds
<1> QED BY <1>1, <1>2, <1>3, <1>4, <1>5 DEF Guarded, memory

\* The steps of on_price and submit.
LEMMA RunnerSole ==
  ASSUME Sole,
         \/ TickReconcile \/ TickFallback \/ SubmitClose
         \/ \E side \in Sides, legs \in LegChoices : SubmitOpen(side, legs)
         \/ OpenCheck \/ OpenOrder \/ OpenFill \/ PersistOpen
  PROVE  Following' /\ Guarded'
<1>c. ControlType /\ Following /\ Guarded
  BY DEF Sole, OwnsControl
<1>1. CASE TickReconcile \/ TickFallback \/ SubmitClose
  <2>1. /\ pc[Runner] = "idle" /\ pc'[Runner] \in {"rec_read", "mc_order"} /\ app = "up"
        /\ UNCHANGED <<memory, rows, exchange, newp, app>>
    BY <1>1, <1>c DEF TickReconcile, TickFallback, SubmitClose, BeginClose, Ready, Goto,
                      ControlType, locals
  <2> QED BY <1>c, <2>1, StillSole DEF memory, exchange
<1>2. ASSUME NEW side \in Sides, NEW legs \in LegChoices, SubmitOpen(side, legs)
      PROVE  Following' /\ Guarded'
  <2>1. /\ pc[Runner] = "idle" /\ pc'[Runner] \in {"op_check", "mc_order"} /\ app = "up"
        /\ UNCHANGED <<memory, rows, exchange, newp, app>>
    BY <1>2, <1>c DEF SubmitOpen, BeginClose, Ready, Goto, ControlType
  <2> QED BY <1>c, <2>1, StillSole DEF memory, exchange
<1>3. CASE OpenCheck
  <2>1. /\ pc[Runner] = "op_check" /\ pc'[Runner] \in {"op_order", "idle"} /\ app # "down"
        /\ UNCHANGED <<memory, rows, exchange, newp, app>>
    BY <1>3, <1>c DEF OpenCheck, Goto, ControlType, locals, Sole, OwnsControl, RunnerLabels
  <2> QED BY <1>c, <2>1, StillSole DEF memory, exchange
<1> QED BY <1>1, <1>2, <1>3, OrderSole, FillSole, InsertSole

\* An order that triggers: what guards the app's position stays, or both are gone.
LEMMA FireSole ==
  ASSUME Sole, NEW a \in algos, AlgoFires(a)
  PROVE  Following' /\ Guarded'
<1>1. /\ UNCHANGED <<memory, rows, locals, control>> /\ algos' = algos \ {a}
      /\ xpos' = IF xpos.side = a.side THEN Flat ELSE xpos
  BY DEF AlgoFires
<1>2. OpenRows' = OpenRows
  BY <1>1 DEF OpenRows, RowIds
<1>3. Following'
  BY <1>1, <1>2 DEF Sole, Following, Placing, Storing, Closing, Settled, Matches, Drafted, memory,
                    locals, control
<1>4. \A prot, side : Carries(prot, side, xpos, algos) => Carries(prot, side, xpos', algos')
  BY <1>1, CarriesFired
<1>5. pc[Runner] = "persist" => xpos'.by # "app"
  BY <1>1 DEF Sole, Guarded, Flat
<1>6. engine # 0 => Carries(protect, obj[engine].side, xpos', algos')
  BY <1>4 DEF Sole, Guarded
<1>7. pc[Runner] = "pr" => Carries(newp[Runner], obj[engine].side, xpos', algos')
  BY <1>4 DEF Sole, Guarded
<1>8. \A r \in OpenRows : Carries(rows[r].prot, rows[r].side, xpos', algos')
  BY <1>4 DEF Sole, Guarded
<1>9. engine = 0 \/ pc[Runner] = "pr" => protect = NoProtect
  BY DEF Sole, Guarded
<1>10. Guarded'
  BY <1>1, <1>2, <1>5, <1>6, <1>7, <1>8, <1>9 DEF Guarded, memory, locals, control
<1> QED BY <1>3, <1>10

\* restore_open finds the one row that was left OPEN.
LEMMA RestartSole ==
  ASSUME Sole, Restart
  PROVE  Following' /\ Guarded'
<1>1. /\ app = "down" /\ engine = 0 /\ protect = NoProtect /\ pc[Runner] = "idle" /\ ControlType
      /\ \A x, y \in OpenRows : x = y
      /\ UNCHANGED <<rows, exchange, locals>>
  BY DEF Restart, Sole, OwnsControl, RunnerLabels, Following, Guarded
<1>2. OpenRows' = OpenRows
  BY <1>1 DEF OpenRows, RowIds
<1>3. CASE OpenRows = {}
  <2>1. UNCHANGED <<memory, pc>> /\ app' = "up"
    BY <1>3 DEF Restart
  <2>2. engine' = 0 /\ protect' = NoProtect /\ pc'[Runner] = "idle"
    BY <1>1, <2>1 DEF memory
  <2>3. Matches'
    BY <1>2, <1>3, <2>2 DEF Matches
  <2> QED BY <1>2, <1>3, <2>1, <2>2, <2>3 DEF Following, Settled, Guarded
<1>4. CASE OpenRows # {}
  <2> DEFINE r == CHOOSE x \in OpenRows : \A y \in OpenRows : y <= x
             old == [side |-> rows[r].side, legs |-> rows[r].legs]
  <2>1. r \in OpenRows
    BY <1>4, NewestRow DEF Sole
  <2>2. /\ app' = "restoring" /\ obj' = Append(obj, old) /\ engine' = Len(obj) + 1 /\ posDb' = r
        /\ protect' = rows[r].prot /\ Goto(Runner, "rec_read")
    BY <1>4 DEF Restart
  <2> HIDE DEF r
  <2>3. OpenRows = {r}
    BY <1>1, <2>1
  <2>4. old \in Position
    <3>1. rows \in Seq(Row) /\ r \in DOMAIN rows
      BY <2>1 DEF Sole, Types, Table, OpenRows, RowIds
    <3>2. rows[r] \in Row
      BY <3>1
    <3> QED BY <3>2 DEF Row, Position
  <2>5. old.side = rows[r].side /\ old.legs = rows[r].legs
    OBVIOUS
  <2> HIDE DEF old
  <2>6. engine' # 0 /\ obj'[engine'] = old
    <3>1. obj \in Seq(Position) /\ Len(obj) \in Nat
      BY DEF Sole, Types, Heap
    <3> QED BY <2>2, <2>4, <3>1
  <2>7. pc'[Runner] = "rec_read"
    BY <1>1, <2>2 DEF Goto, ControlType
  <2>8. Matches'
    BY <1>1, <1>2, <2>2, <2>3, <2>5, <2>6 DEF Matches
  <2>9. Carries(rows[r].prot, rows[r].side, xpos, algos)
    BY <2>1 DEF Sole, Guarded
  <2>10. Guarded'
    BY <1>1, <1>2, <2>2, <2>3, <2>5, <2>6, <2>7, <2>9 DEF Guarded, exchange
  <2> QED BY <2>2, <2>7, <2>8, <2>10 DEF Following, Settled
<1> QED BY <1>3, <1>4

\* Triggers, the human, crashes and restarts.
LEMMA WorldSole ==
  ASSUME Sole,
         \/ \E a \in algos : AlgoFires(a)
         \/ ClosedOutside
         \/ \E side \in Sides : OpenedOutside(side)
         \/ Crash \/ Restart
  PROVE  Following' /\ Guarded'
<1>1. ASSUME ClosedOutside \/ \E side \in Sides : OpenedOutside(side)
      PROVE  Following' /\ Guarded'
  <2>1. UNCHANGED <<memory, rows, algos, locals, control>> /\ xpos'.by # "app"
    BY <1>1 DEF ClosedOutside, OpenedOutside, Flat
  <2>2. OpenRows' = OpenRows
    BY <2>1 DEF OpenRows, RowIds
  <2>3. Following'
    BY <2>1, <2>2 DEF Sole, Following, Placing, Storing, Closing, Settled, Matches, Drafted, memory,
                      locals, control
  <2>4. Guarded /\ UNCHANGED <<obj, engine, protect, rows, newp, pc, algos>>
    BY <2>1 DEF Sole, memory, locals, control
  <2> QED BY <2>1, <2>3, <2>4, StillGuarded
<1>2. CASE Crash
  <2>1. /\ UNCHANGED <<rows, exchange>> /\ app' = "down" /\ app # "down" /\ engine' = 0
        /\ protect' = NoProtect /\ pc'[Runner] = "idle"
    BY <1>2 DEF Crash
  <2>2. OpenRows' = OpenRows
    BY <2>1 DEF OpenRows, RowIds
  <2>3. \A x, y \in OpenRows : x = y
    BY <2>1 DEF Sole, Following, Placing, Storing, Closing, Settled, Matches
  <2>4. Guarded'
    BY <2>1, <2>2 DEF Sole, Guarded, exchange
  <2> QED BY <2>1, <2>2, <2>3, <2>4 DEF Following
<1> QED BY <1>1, <1>2, FireSole, RestartSole

LEMMA NextSole == ASSUME Apis = {} PROVE Sole /\ [Next]_vars => Sole'
<1> SUFFICES ASSUME Sole, [Next]_vars PROVE Sole'
  OBVIOUS
<1>1. OwnsControl' /\ Types'
  BY NextKeeps, NextTypes DEF Sole, OwnsControl
<1>2. CASE UNCHANGED vars
  <2>1. OpenRows' = OpenRows
    BY <1>2 DEF vars, OpenRows, RowIds
  <2>2. Following'
    BY <1>2, <2>1 DEF Sole, Following, Placing, Storing, Closing, Settled, Matches, Drafted, vars,
                      memory, locals, control
  <2>3. Guarded'
    BY <1>2, <2>1 DEF Sole, Guarded, vars, memory, exchange, locals, control
  <2> QED BY <1>1, <2>2, <2>3 DEF Sole
<1>3. CASE TickNothing
  BY <1>2, <1>3 DEF TickNothing
<1>4. Following' /\ Guarded' => Sole'
  BY <1>1 DEF Sole
<1>5. CASE Continue(Runner)
  BY <1>4, <1>5, CloseSole, PersistSole, PlaceSole DEF Continue
<1> QED
  BY <1>2, <1>3, <1>4, <1>5, RunnerSole, WorldSole DEF Next, RunnerStep

LEMMA AlwaysSole == ASSUME Apis = {} PROVE Spec => []Sole
<1>1. Init => Sole
  BY InitOwns, InitTypes, InitSole DEF Sole
<1> QED BY <1>1, NextSole, PTL DEF Spec

\* RowsMatchEngine: whenever no handler of a bot that gets no API requests is running,
\* the table has the engine's position OPEN with its SL/TP and the algo ids in force,
\* whatever failed, triggered, was done by hand or crashed before.
THEOREM RowsFollowEngine == ASSUME Apis = {} PROVE Spec => []RowsMatchEngine
<1>1. Sole => RowsMatchEngine
  BY DEF Sole, Following, Placing, Storing, Closing, Settled, Matches, RowsMatchEngine, AtRest
<1> QED BY <1>1, AlwaysSole, PTL

\* NoPhantomProtection: an order that _protect names, and that on_price therefore leaves
\* its leg to, rests on the exchange as long as the bot's position does.
THEOREM ProtectionRests == ASSUME Apis = {} PROVE Spec => []NoPhantomProtection
<1>1. Sole => NoPhantomProtection
  BY DEF Sole, Guarded, Carries, NoPhantomProtection, Owns
<1> QED BY <1>1, AlwaysSole, PTL
=============================================================================
