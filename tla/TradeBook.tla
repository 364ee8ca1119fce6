----------------------------- MODULE TradeBook -----------------------------
(***************************************************************************)
(* What an executor promises to whoever reads table positions: it trades   *)
(* one position at a time ("1 engine = 1 bot = 1 symbol, at most 1         *)
(* position", app/execution/paper_engine.py:4).  A trade is opened only    *)
(* when none is open, and a closed trade stays closed.                     *)
(***************************************************************************)
EXTENDS Naturals, Sequences

VARIABLE book  \* the trades in the order they were opened: "OPEN" | "CLOSED"

OpenTrades == {i \in DOMAIN book : book[i] = "OPEN"}

Init == book = <<>>

OpenTrade ==
  /\ OpenTrades = {}
  /\ book' = Append(book, "OPEN")

CloseTrade ==
  \E i \in OpenTrades : book' = [book EXCEPT ![i] = "CLOSED"]

Next == OpenTrade \/ CloseTrade

Spec == Init /\ [][Next]_book
=============================================================================
