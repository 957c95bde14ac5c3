----------------------------- MODULE MCLoading -----------------------------
(***************************************************************************)
(* A small instance of Loading, named as in MCLifecycle.                   *)
(***************************************************************************)
EXTENDS Loading

TwoCalls == {"call1", "call2"}
TwoCallsOneTask == {"call1", "call2", "task1"}
TwoWorkers == {"http1", "http2"}
TwoClosers == {"close1", "close2"}
OneLoader == {"load1"}
=============================================================================
