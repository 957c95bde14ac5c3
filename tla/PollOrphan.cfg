SPECIFICATION Spec
CONSTANTS
  Accounts <- OneAccount
  ProviderOf <- SameProvider
  NumWorkers = 1
  Configs <- LiveOrDisabled
  InitialConfig <- Live
  MaxFetches = 4
  RetryDelays = {9}
  PollInterval = 1
  ReconcileInterval = 9
  Answers = {3}
  Horizon = 1
  Budget <- TwoConfigsOneFailure
INVARIANTS PollArmed
