-------------------------- MODULE MC_BotLifecycle --------------------------
(* Model-checking instances of BotLifecycle.                               *)
EXTENDS BotLifecycle

OneBot      == {"b1"}
TwoBots     == {"b1", "b2"}
OneApi      == {"api"}
TwoApis     == {"api1", "api2"}
OneAccount  == {"a1"}
TwoAccounts == {"a1", "a2"}
=============================================================================
