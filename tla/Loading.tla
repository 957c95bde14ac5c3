------------------------------ MODULE Loading ------------------------------
(***************************************************************************)
(* cliproxy_plugin_init (abi.go) beside everything Lifecycle does: the     *)
(* host may load the same path again, and the resident image must not come *)
(* back to life.  Lifecycle begins after the first initialization; a       *)
(* loader is a further one.  Its check takes nativeCallMu, its store of    *)
(* the callback table does not, so a shutdown may run in between.          *)
(***************************************************************************)
EXTENDS Lifecycle

CONSTANT Loaders   \* the host's threads that initialize the plugin again

VARIABLE loader    \* "out", "checked", "accepted" or "refused"

LoadingInit == Init /\ loader = [l \in Loaders |-> "out"]

InitAllowedAlways == TRUE

\* nativeInitAllowed.
InitAllowed == ~nativeClosed

CheckInit(l) ==
  /\ loader[l] = "out"
  /\ loader' = [loader EXCEPT ![l] = IF InitAllowed THEN "checked" ELSE "refused"]
  /\ UNCHANGED vars

\* reset_priority_store_host: the functions are handed out, calls may follow.
StoreHost(l) ==
  /\ loader[l] = "checked"
  /\ loader' = [loader EXCEPT ![l] = "accepted"]
  /\ table' = TRUE
  /\ UNCHANGED <<bridge, engine, nativeClosed, dispatchClosed, once, closer>>

LoadingNext ==
  \/ Next /\ UNCHANGED loader
  \/ \E l \in Loaders : CheckInit(l) \/ StoreHost(l)

LoadingSpec == LoadingInit /\ [][LoadingNext]_<<vars, loader>>

----------------------------------------------------------------------------
\* KeepsPromise holds of LoadingSpec too: a late initialization may put a callback
\* table back after the shutdown took it (NoCallAfterClear and NothingRunsAfterClear
\* then say nothing), and it is harmless, because nobody is there to use it and no
\* call is let in.

\* Once a shutdown has returned at most the initializations that were checked before
\* it began are accepted; all others are refused, so the image dies for good.
NoneAfterShut ==
  [][\A l \in Loaders :
       Shut /\ loader[l] = "out" => loader'[l] \in {"out", "refused"}]_<<vars, loader>>
=============================================================================
