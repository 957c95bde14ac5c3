SPECIFICATION LoadingSpec
CONSTANTS
  Callers <- TwoCallsOneTask
  Calls <- TwoCalls
  Workers <- TwoWorkers
  Closers <- TwoClosers
  Loaders <- OneLoader
  Capacity = 2
INVARIANTS TypeOK NoCallAfterClear NothingRunsAfterClear CountsAgree
PROPERTIES KeepsPromise NoneAfterShut
