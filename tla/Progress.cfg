SPECIFICATION FairSpec
CONSTANTS
  Accounts <- OneAccount
  ProviderOf <- SameProvider
  NumWorkers = 2
  Configs <- OnlyLive
  InitialConfig <- Live
  MaxFetches = 2
  RetryDelays = {1, 9}
  PollInterval = 1
  ReconcileInterval = 2
  Answers = {1, 3}
  Horizon = 2
  Budget <- OneStop
INVARIANTS SaveAuthorized
PROPERTIES ExpiredLeaves PassesEnd NewestAnswerStands
