-------------------------- MODULE MC_PaperExecutor --------------------------
(* An executor is a bot's, which its strategy's signals reach, or the manual desk's,
   which requests reach: `whose` tells them apart and no step belongs to both.      *)
EXTENDS PaperExecutor

CONSTANT Owners  \* whose executor: "bot", "desk"
NoApis == {}
OneApi == {"api"}
TwoApis == {"api1", "api2"}
NoOps  == {}
BotOps == {"MARKET", "LIMIT", "CLOSE", "CANCEL"}
CloseOnly == {"close"}
MarketOnly == {"MARKET"}
ThreePrices == 4..6
Mid == {5}
Below == {4}
Above == {6}
NoLevels == {}

VARIABLE whose
allVars == <<whose, vars>>
\* Two requests at a time, that order and cancel, and ticks that fill.
Desk == INSTANCE PaperExecutor WITH
  Manual <- TRUE, SignalOps <- {}, ApiOps <- {"order", "cancel", "sltp"}, MaxApi <- 3,
  Slip <- 0, LiqGap <- 0, Prices <- {4, 5}, Lows <- {}, Highs <- {}, MaxCrash <- 0

MCInit == whose \in Owners /\ ((whose = "bot" /\ Init) \/ (whose = "desk" /\ Desk!Init))
BotStep == whose = "bot" /\ Next
DeskStep == whose = "desk" /\ Desk!Next
MCNext == (BotStep \/ DeskStep) /\ UNCHANGED whose
MCSpec == MCInit /\ [][MCNext]_allVars

\* The positions of a bot are a TradeBook (see IsTradeBook).
BotBook == INSTANCE TradeBook WITH
  book <- IF whose # "bot" THEN <<>>
          ELSE [r \in RowIds |-> IF rows[r].open THEN "OPEN" ELSE "CLOSED"]
BotHasTradeBook == BotBook!Spec
=============================================================================
