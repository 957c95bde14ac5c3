SPECIFICATION Spec
CONSTANTS
  Accounts <- OneAccount
  ProviderOf <- SameProvider
  NumWorkers = 1
  Configs <- OnlyLive
  InitialConfig <- Live
  MaxFetches = 4
  RetryDelays = {1, 9}
  PollInterval = 1
  ReconcileInterval = 9
  Answers = {2}
  Horizon = 2
  Budget <- HealthAndFaults
INVARIANTS PollArmedUnlessOvertaken SaveFitsHealth SentinelStands Uncontested
PROPERTIES PromotedBehindSentinel NoSelfRecoveryUndisturbed SentinelSavedOnce LivesByTheRules
