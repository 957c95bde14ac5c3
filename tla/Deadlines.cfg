SPECIFICATION Spec
CONSTANTS
  Accounts <- TwoAccounts
  ProviderOf <- SameProvider
  NumWorkers = 1
  Configs <- OnlyLive
  InitialConfig <- Live
  MaxFetches = 1
  RetryDelays = {1, 9}
  PollInterval = 1
  ReconcileInterval = 9
  Answers = {1, 3}
  Horizon = 1
  Budget <- OneRefresh
INVARIANTS DeadlineArmed NoLostRetry RanksCurrent
PROPERTIES ConfirmedByNewRequest SingleOwner
