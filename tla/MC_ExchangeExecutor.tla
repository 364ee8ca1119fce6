------------------------ MODULE MC_ExchangeExecutor ------------------------
(* Model-checking instances of ExchangeExecutor.                           *)
EXTENDS ExchangeExecutor

NoApis   == {}
OneApi   == {"api"}
NoOps    == {}
AllOps   == {"close", "sltp"}
EditOps  == {"sltp"}
BothOrOne == {{"sl"}, {"sl", "tp"}}
BothLegs == {{"sl", "tp"}}
=============================================================================
