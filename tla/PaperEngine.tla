---------------------------- MODULE PaperEngine ----------------------------
(***************************************************************************)
(* app/execution/paper_engine.py: the matching engine of paper trading, as *)
(* operators from an engine state and an input to the next state and the   *)
(* list of EngineEvents.  Prices are whole ticks and every order has       *)
(* quantity 1.  Slippage and the distance to the liquidation price, which  *)
(* the code takes as fractions of the price, are fixed numbers of ticks.   *)
(***************************************************************************)
EXTENDS Integers, Sequences, SequencesExt

CONSTANTS
  TakerFee,  \* fee per unit of price: MARKET, SL, TP and every close
  MakerFee,  \* the same for a LIMIT fill
  Slip,      \* slippage of a market order, in ticks
  LiqGap,    \* distance from entry to liquidation; 0 when leverage is 1
  GapFill    \* an SL passed by the tick fills at the tick

ASSUME FeesOK ==
  /\ TakerFee \in Nat /\ MakerFee \in Nat /\ Slip \in Nat /\ LiqGap \in Nat
  /\ GapFill \in BOOLEAN

\* sl, tp and a price of 0 stand for None.
Flat   == [side |-> "FLAT", entry |-> 0, sl |-> 0, tp |-> 0]
Engine0 == [pos |-> Flat, fee |-> 0, pending |-> <<>>, oid |-> 0]

NoClose == [gross |-> 0, entryFee |-> 0, exitFee |-> 0, reason |-> "none"]
\* An EngineEvent with nothing set.
Event == [queued |-> 0, closed |-> NoClose, opened |-> FALSE,
          filledPending |-> 0, cancelled |-> <<>>]

Long(buySell) == IF buySell = "BUY" THEN "LONG" ELSE "SHORT"
Slipped(buySell, price) == IF buySell = "BUY" THEN price + Slip ELSE price - Slip
SlippedExit(eng, price) ==
  Slipped(IF eng.pos.side = "LONG" THEN "SELL" ELSE "BUY", price)

Profit(pos, price) ==
  IF pos.side = "LONG" THEN price - pos.entry ELSE pos.entry - price

\* Every operator below returns the engine it leaves and what it reports.
Result(eng, events) == [eng |-> eng, events |-> events]
Then(first, second) == Result(second.eng, first.events \o second.events)

CloseAt(eng, exit, reason) ==
  Result([eng EXCEPT !.pos = Flat, !.fee = 0],
         <<[Event EXCEPT !.closed =
              [gross |-> Profit(eng.pos, exit), entryFee |-> eng.fee,
               exitFee |-> TakerFee * exit, reason |-> reason]]>>)

OpenAt(eng, side, price, sl, tp, rate) ==
  Result([eng EXCEPT !.pos = [side |-> side, entry |-> price, sl |-> sl, tp |-> tp],
                     !.fee = rate * price],
         <<[Event EXCEPT !.opened = TRUE]>>)

ApplyMarketMutant(eng, order, price, type) ==  \* the other side is not closed first
  IF eng.pos.side = Long(order.side) THEN Result(eng, <<>>)
  ELSE OpenAt(eng, Long(order.side),
              IF type = "LIMIT" THEN price ELSE Slipped(order.side, price),
              order.sl, order.tp, IF type = "LIMIT" THEN MakerFee ELSE TakerFee)
\* _apply_market: nothing on the same side, close first on the other.  A LIMIT
\* order fills at its own price and at the maker's fee.
ApplyMarket(eng, order, price, type) ==
  LET fill == IF type = "LIMIT" THEN price ELSE Slipped(order.side, price)
      rate == IF type = "LIMIT" THEN MakerFee ELSE TakerFee
      ThenOpen(closed) ==
        Then(closed, OpenAt(closed.eng, Long(order.side), fill, order.sl, order.tp, rate))
  IN CASE eng.pos.side = Long(order.side) -> Result(eng, <<>>)
       [] eng.pos = Flat -> ThenOpen(Result(eng, <<>>))
       [] OTHER -> ThenOpen(CloseAt(eng, fill, "SIGNAL"))

\* A PendingOrder is the order under the engine's next order id.
Queue(eng, order) ==
  LET oid == eng.oid + 1
  IN Result([eng EXCEPT !.oid = oid, !.pending = Append(@, [oid |-> oid, order |-> order])],
            <<[Event EXCEPT !.queued = oid]>>)

CancelAll(eng) ==
  IF eng.pending = <<>>
  THEN Result(eng, <<>>)
  ELSE Result([eng EXCEPT !.pending = <<>>],
              <<[Event EXCEPT !.cancelled =
                   [i \in DOMAIN eng.pending |-> eng.pending[i].oid]]>>)

\* engine.submit of a Signal; order.price is the limit price.
Submit(eng, order, price) ==
  CASE order.action = "CANCEL" -> CancelAll(eng)
    [] order.action = "CLOSE"  -> IF eng.pos = Flat THEN Result(eng, <<>>)
                                  ELSE CloseAt(eng, price, "SIGNAL")
    [] order.action = "LIMIT"  -> Queue(eng, order)
    [] order.action = "MARKET" -> ApplyMarket(eng, order, price, "MARKET")

ForceClose(eng, price) ==
  IF eng.pos = Flat THEN Result(eng, <<>>)
  ELSE CloseAt(eng, SlippedExit(eng, price), "MANUAL")

Crosses(order, price) ==
  \/ order.side = "BUY"  /\ price <= order.price
  \/ order.side = "SELL" /\ price >= order.price

\* _fill_pending: each crossing order in turn is tried once and then dropped,
\* whether or not it opened anything.
Marked(result, oid) ==
  Result(result.eng, [i \in DOMAIN result.events |->
           IF result.events[i].opened THEN [result.events[i] EXCEPT !.filledPending = oid]
           ELSE result.events[i]])
Tried(acc, o, price) ==
  IF ~Crosses(o.order, price)
  THEN [acc EXCEPT !.eng.pending = Append(@, o)]
  ELSE Then(acc, Marked(ApplyMarket(acc.eng, o.order, o.order.price, "LIMIT"), o.oid))
FillPending(eng, price) ==
  LET after[i \in 0..Len(eng.pending)] ==
        IF i = 0 THEN Result([eng EXCEPT !.pending = <<>>], <<>>)
        ELSE Tried(after[i - 1], eng.pending[i], price)
  IN after[Len(eng.pending)]

Liquidated(pos, price) ==
  /\ LiqGap > 0
  /\ \/ pos.side = "LONG"  /\ price <= pos.entry - LiqGap
     \/ pos.side = "SHORT" /\ price >= pos.entry + LiqGap

\* sltp_reason: SL is looked at before TP.
SltpReason(pos, price) ==
  CASE pos.side = "LONG"  /\ pos.sl # 0 /\ price <= pos.sl -> "SL"
    [] pos.side = "SHORT" /\ pos.sl # 0 /\ price >= pos.sl -> "SL"
    [] pos.side = "LONG"  /\ ~(pos.sl # 0 /\ price <= pos.sl)
                          /\ pos.tp # 0 /\ price >= pos.tp -> "TP"
    [] pos.side = "SHORT" /\ ~(pos.sl # 0 /\ price >= pos.sl)
                          /\ pos.tp # 0 /\ price <= pos.tp -> "TP"
    [] OTHER -> "none"

\* engine.on_price: LIMIT fills, then liquidation, then SL/TP.
ExitLevel(pos, price, why) ==
  CASE why = "TP" -> pos.tp
    [] why = "SL" -> IF GapFill THEN price ELSE pos.sl
LevelExit(eng, price, why) ==
  IF why = "none" THEN Result(eng, <<>>)
  ELSE CloseAt(eng, SlippedExit(eng, ExitLevel(eng.pos, price, why)), why)
Triggered(eng, price) ==
  IF Liquidated(eng.pos, price) THEN CloseAt(eng, price, "LIQUIDATION")
  ELSE LevelExit(eng, price, SltpReason(eng.pos, price))
OnPrice(eng, price) ==
  LET ThenTriggered(filled) == Then(filled, Triggered(filled.eng, price))
  IN ThenTriggered(FillPending(eng, price))
=============================================================================
