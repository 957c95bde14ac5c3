------------------------------ MODULE MCEngine ------------------------------
(***************************************************************************)
(* Small instances of Engine: one account, or two that share a provider.   *)
(***************************************************************************)
EXTENDS EngineProperties

OneAccount == {1}
TwoAccounts == {1, 2}
SameProvider == [a \in Accounts |-> "claude"]

Live == [enabled |-> TRUE, dryRun |-> FALSE, managed |-> {"claude"},
         sentinel |-> 0, floor |-> 1, step |-> 1]
DryRun == [Live EXCEPT !.dryRun = TRUE]
Disabled == [Live EXCEPT !.enabled = FALSE]
OptedOutConfig == [Live EXCEPT !.managed = {}]

OnlyLive == {Live}
LiveOrDisabled == {Live, Disabled}
EveryConfig == {Live, DryRun, Disabled, OptedOutConfig}

NoEvents ==
  [config |-> 0, stop |-> 0, refresh |-> 0, fault |-> 0, health |-> 0, edit |-> 0]
OneRefresh == [NoEvents EXCEPT !.refresh = 1]
OneStop == [NoEvents EXCEPT !.stop = 1]
HealthAndFaults == [NoEvents EXCEPT !.health = 2, !.refresh = 1, !.fault = 3]
TwoConfigsOneFailure == [NoEvents EXCEPT !.config = 2, !.health = 1]
TwoHealthOneFault == [NoEvents EXCEPT !.health = 2, !.fault = 1]
TwoEditsTwoRefreshes == [NoEvents EXCEPT !.edit = 2, !.refresh = 2]
Mishaps == [NoEvents EXCEPT !.config = 2, !.fault = 1, !.edit = 1, !.refresh = 1]

\* As a constraint: the operator reconfigures and the clock hardly moves, or the world
\* goes wrong under one configuration.  Both at once is more than TLC can visit.
ReconfiguresOrSuffers ==
  \/ budget.config = Mishaps.config
  \/ now <= 1 /\ [budget EXCEPT !.config = Mishaps.config] = Mishaps
=============================================================================
