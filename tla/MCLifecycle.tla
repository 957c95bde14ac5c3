---------------------------- MODULE MCLifecycle ----------------------------
(***************************************************************************)
(* Small instances of Lifecycle: strings stand for the host's threads      *)
(* ("call..."), the engine's goroutines ("task...") and HTTPDo's workers.  *)
(***************************************************************************)
EXTENDS Lifecycle

OneCall == {"call1"}
OneCallTwoTasks == {"call1", "task1", "task2"}
OneWorker == {"http1"}
OneCloser == {"close1"}
=============================================================================
