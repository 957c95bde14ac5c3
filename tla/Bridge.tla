------------------------------- MODULE Bridge -------------------------------
(***************************************************************************)
(* The host-callback gate (internal/hostapi/bridge.go and                  *)
(* callback_limit.go).  A goroutine of the plugin enters the host through  *)
(* a synchronous callback, on its own stack, or through HTTPDo, whose      *)
(* worker goroutine stays in the host when the request's context ends.     *)
(* A callback that has entered the host cannot be cancelled.               *)
(***************************************************************************)
EXTENDS Integers, FiniteSets

CONSTANTS
  Callers,      \* the goroutines that use the bridge
  Workers,      \* the goroutines HTTPDo starts (a bound on those alive)
  Capacity      \* MaxInFlightHostCallbacks

ASSUME CallersAreFinite == IsFiniteSet(Callers) /\ IsFiniteSet(Workers)
ASSUME GoroutinesDiffer == Callers \cap Workers = {}
ASSUME CapacityIsPositive == Capacity \in Nat \ {0}

\* The caller of a worker whose caller has given up.
Abandoned == "abandoned"

ASSUME AbandonedIsNoCaller == Abandoned \notin Callers

VARIABLES
  accepting,    \* Bridge.accepting
  inFlight,     \* Bridge.inFlight, what Drain waits on
  held,         \* callbackLimiter.held
  caller,       \* where each caller is: "away", "inside" the host, "waiting"
  worker,       \* where each worker is
  for,          \* the caller each worker answers to
  expired       \* the waiting callers whose context is done

bridge == <<accepting, inFlight, held, caller, worker, for, expired>>

\* The goroutines between acquireCaller and releaseCaller.
Holders ==
  {c \in Callers : caller[c] = "inside"} \cup {w \in Workers : worker[w] # "none"}

\* Those on the host's stack, or past every check on their way to it.
InHost ==
  {c \in Callers : caller[c] = "inside"}
    \cup {w \in Workers : worker[w] \in {"entering", "inside"}}

BridgeInit ==
  /\ accepting = TRUE
  /\ inFlight = 0
  /\ held = 0
  /\ caller = [c \in Callers |-> "away"]
  /\ worker = [w \in Workers |-> "none"]
  /\ for = [w \in Workers |-> Abandoned]
  /\ expired = {}

----------------------------------------------------------------------------
\* The process-wide limit (callbackLimiter).

TakeAdmission == held < Capacity /\ held' = held + 1

GiveAdmission == held' = IF held > 0 THEN held - 1 ELSE held

----------------------------------------------------------------------------
\* acquireCaller and releaseCaller.

\* A call that is not admitted returns an error at once and changes nothing.
Acquire == accepting /\ TakeAdmission /\ inFlight' = inFlight + 1

ReleaseKeepingLimit == inFlight' = inFlight - 1 /\ held' = held

Release == inFlight' = inFlight - 1 /\ GiveAdmission

----------------------------------------------------------------------------
\* host.auth.* and host.log: the caller's own goroutine enters the host.

SyncBegin(c) ==
  /\ caller[c] = "away"
  /\ Acquire
  /\ caller' = [caller EXCEPT ![c] = "inside"]
  /\ UNCHANGED <<accepting, worker, for, expired>>

SyncEnd(c) ==
  /\ caller[c] = "inside"
  /\ Release
  /\ caller' = [caller EXCEPT ![c] = "away"]
  /\ UNCHANGED <<accepting, worker, for, expired>>

----------------------------------------------------------------------------
\* HTTPDo.

HTTPBegin(c) ==
  /\ caller[c] = "away"
  /\ Acquire
  /\ \E w \in Workers :
       /\ worker[w] = "none"
       /\ worker' = [worker EXCEPT ![w] = "spawned"]
       /\ for' = [for EXCEPT ![w] = c]
  /\ caller' = [caller EXCEPT ![c] = "waiting"]
  /\ UNCHANGED <<accepting, expired>>

\* The request's timeout passes, or the management request goes away.
ContextEnds(c) ==
  /\ caller[c] = "waiting"
  /\ expired' = expired \cup {c}
  /\ UNCHANGED <<accepting, inFlight, held, caller, worker, for>>

Orphaned(c) == [w \in Workers |-> IF for[w] = c THEN Abandoned ELSE for[w]]

HTTPGivesUpReleasing(c) ==
  /\ caller[c] = "waiting"
  /\ c \in expired
  /\ Release
  /\ caller' = [caller EXCEPT ![c] = "away"]
  /\ for' = Orphaned(c)
  /\ expired' = expired \ {c}
  /\ UNCHANGED <<accepting, worker>>

\* HTTPDo returns; its worker keeps the admission.
HTTPGivesUp(c) ==
  /\ caller[c] = "waiting"
  /\ c \in expired
  /\ caller' = [caller EXCEPT ![c] = "away"]
  /\ for' = Orphaned(c)
  /\ expired' = expired \ {c}
  /\ UNCHANGED <<accepting, inFlight, held, worker>>

ContextDone(w) == for[w] = Abandoned \/ for[w] \in expired

\* The worker delivers its result to the caller that still waits for it.
Answered(w) ==
  /\ worker' = [worker EXCEPT ![w] = "none"]
  /\ for' = [for EXCEPT ![w] = Abandoned]
  /\ caller' = [c \in Callers |-> IF for[w] = c THEN "away" ELSE caller[c]]
  /\ expired' = expired \ {for[w]}

\* Cancellation won before the worker was scheduled.
WorkerSkips(w) ==
  /\ worker[w] = "spawned"
  /\ ContextDone(w)
  /\ Release
  /\ Answered(w)
  /\ UNCHANGED accepting

\* The last look at the context; the worker enters the host some time later.
WorkerProceeds(w) ==
  /\ worker[w] = "spawned"
  /\ ~ContextDone(w)
  /\ worker' = [worker EXCEPT ![w] = "entering"]
  /\ UNCHANGED <<accepting, inFlight, held, caller, for, expired>>

WorkerEnters(w) ==
  /\ worker[w] = "entering"
  /\ worker' = [worker EXCEPT ![w] = "inside"]
  /\ UNCHANGED <<accepting, inFlight, held, caller, for, expired>>

WorkerReturns(w) ==
  /\ worker[w] = "inside"
  /\ Release
  /\ Answered(w)
  /\ UNCHANGED accepting

WorkerStep(w) ==
  WorkerSkips(w) \/ WorkerProceeds(w) \/ WorkerEnters(w) \/ WorkerReturns(w)

----------------------------------------------------------------------------
\* Bridge.Quiesce, and the condition Drain waits for.

CloseGate ==
  /\ accepting' = FALSE
  /\ UNCHANGED <<inFlight, held, caller, worker, for, expired>>

Drained == inFlight = 0

----------------------------------------------------------------------------
\* Properties.

BridgeTypeOK ==
  /\ accepting \in BOOLEAN
  /\ inFlight \in Nat
  /\ held \in Nat
  /\ caller \in [Callers -> {"away", "inside", "waiting"}]
  /\ worker \in [Workers -> {"none", "spawned", "entering", "inside"}]
  /\ for \in [Workers -> Callers \cup {Abandoned}]
  /\ expired \subseteq Callers

\* The drain count and the process-wide limit count the same callbacks, those
\* that really are admitted, and never more than the capacity.
CountsAgree ==
  /\ inFlight = Cardinality(Holders)
  /\ held = inFlight
  /\ held <= Capacity
=============================================================================
