SPECIFICATION FairSpec
CONSTANTS
  Callers <- OneCallTwoTasks
  Calls <- OneCall
  Workers <- OneWorker
  Closers <- OneCloser
  Capacity = 2
PROPERTIES ShutdownReturns
