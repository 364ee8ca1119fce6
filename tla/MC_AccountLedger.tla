-------------------------- MODULE MC_AccountLedger --------------------------
(* One account is a PAPER account, whose balance the app keeps (AccountLedger), or an
   exchange account, whose balance the exchange keeps (ExchangeSync); is_exchange
   tells them apart and no step belongs to both.                                   *)
EXTENDS AccountLedger

OneBot  == {"b1"}
TwoBots == {"b1", "b2"}
Drops  == {-3, 0}
AllOps  == {"deposit", "withdraw", "resume"}
NoOps   == {}
Five    == {5}

VARIABLES
  mode,  \* accounts.mode
  wallet, income, row, ledger, syncLock, syncPc, syncLoc, syncUsed, since, best

Sync == INSTANCE ExchangeSync WITH
  Requests <- {"request"}, Funds <- 10, Results <- {-1}, Transfers <- {6},
  DrawdownPct <- MaxDD, MaxIncome <- 2, MaxTroubles <- 1,
  account <- row, rowLock <- syncLock, pc <- syncPc, loc <- syncLoc, used <- syncUsed

syncVars == <<wallet, income, row, ledger, syncLock, syncPc, syncLoc, syncUsed, since, best>>
isExchange == mode # "PAPER"
PaperOnly == ~isExchange /\ UNCHANGED <<mode, syncVars>>
ExchangeOnly == isExchange /\ UNCHANGED <<mode, vars>>

MCInit == mode \in {"PAPER", "LIVE"} /\ Init /\ Sync!Init
MCNext == (PaperOnly /\ Next) \/ (ExchangeOnly /\ Sync!Next)
allVars == <<mode, vars, syncVars>>
MCFairness ==
  /\ \A t \in Tasks : SF_allVars(PaperOnly /\ Step(t))
  /\ WF_allVars(ExchangeOnly /\ Sync!Round)
  /\ WF_allVars(ExchangeOnly /\ Sync!Sync("request"))
MCSpec == MCInit /\ [][MCNext]_allVars /\ MCFairness

\* Income since the first sync is in the exchange account's ledger once (see ExchangeSync).
IncomeImported == Sync!IncomeImported
\* Again and again the exchange account's balance is the exchange's wallet, with all the
\* income imported (see ExchangeSync).
CatchesUp == isExchange => Sync!CatchesUp
=============================================================================
