SPECIFICATION Spec
CONSTANTS
  Accounts <- OneAccount
  ProviderOf <- SameProvider
  NumWorkers = 1
  Configs <- OnlyLive
  InitialConfig <- Live
  MaxFetches = 4
  RetryDelays = {1, 9}
  PollInterval = 1
  ReconcileInterval = 9
  Answers = {1, 3}
  Horizon = 2
  Budget <- TwoHealthOneFault
PROPERTIES NoSelfRecovery
