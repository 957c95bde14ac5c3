-------------------------- MODULE LifecycleProofs --------------------------
(***************************************************************************)
(* The native shutdown is safe for any number of calls, tasks, workers and *)
(* closers.  The argument follows the shutdown: whoever has passed one of  *)
(* its waits knows that what it waited for cannot begin again, because the *)
(* gate in front of it was closed before the wait.                         *)
(***************************************************************************)
EXTENDS Loading, FiniteSetTheorems, TLAPS

----------------------------------------------------------------------------
\* The bridge: what each of its steps preserves, and that its two counters count the
\* callbacks that are admitted.

\* A worker that answers to a caller is the only one that does, and its caller
\* is waiting for it.
OwnersWait ==
  /\ \A w \in Workers : for[w] # Abandoned => caller[for[w]] = "waiting"
  /\ \A v, w \in Workers : for[v] = for[w] /\ for[v] # Abandoned => v = w
  /\ \A w \in Workers : worker[w] = "none" => for[w] = Abandoned

BridgeInv == BridgeTypeOK /\ OwnersWait /\ CountsAgree

BridgeStep ==
  \/ \E c \in Callers :
       SyncBegin(c) \/ SyncEnd(c) \/ HTTPBegin(c) \/ ContextEnds(c) \/ HTTPGivesUp(c)
  \/ \E w \in Workers : WorkerStep(w)

----------------------------------------------------------------------------
\* Counting the holders.

\* Only finitely many goroutines can be admitted at a time.
LEMMA HoldersAreFinite == IsFiniteSet(Holders)
<1>1. Holders \subseteq Callers \cup Workers
  BY DEF Holders
<1>2. IsFiniteSet(Callers \cup Workers)
  BY CallersAreFinite, FS_Union
<1> QED
  BY <1>1, <1>2, FS_Subset

\* One more holder, one more admission.
LEMMA AcquireCounts ==
  ASSUME BridgeTypeOK, CountsAgree, Acquire,
         NEW g, g \notin Holders, Holders' = Holders \cup {g}
  PROVE  CountsAgree' /\ inFlight' \in Nat /\ held' \in Nat
<1>1. Cardinality(Holders \cup {g}) = Cardinality(Holders) + 1
  BY HoldersAreFinite, FS_AddElement
<1> QED
  BY <1>1, CapacityIsPositive DEF Acquire, TakeAdmission, CountsAgree, BridgeTypeOK

\* One holder less, one admission less.
LEMMA ReleaseCounts ==
  ASSUME BridgeTypeOK, CountsAgree, Release,
         NEW g \in Holders, Holders' = Holders \ {g}
  PROVE  CountsAgree' /\ inFlight' \in Nat /\ held' \in Nat
<1>1. Cardinality(Holders \ {g}) = Cardinality(Holders) - 1
  BY HoldersAreFinite, FS_RemoveElement
<1>2. Cardinality(Holders \ {g}) \in Nat
  BY HoldersAreFinite, FS_RemoveElement, FS_CardinalityType
<1> QED
  BY <1>1, <1>2, CapacityIsPositive DEF Release, GiveAdmission, CountsAgree, BridgeTypeOK

\* Nobody enters or leaves, and no counter moves.
LEMMA SameHoldersCount ==
  ASSUME CountsAgree, UNCHANGED <<inFlight, held>>, Holders' = Holders
  PROVE  CountsAgree'
  BY DEF CountsAgree

----------------------------------------------------------------------------
\* One lemma per operation.

\* A new bridge satisfies the invariant.
LEMMA InitiallyBridgeInv == BridgeInit => BridgeInv
<1> SUFFICES ASSUME BridgeInit PROVE BridgeInv
  OBVIOUS
<1>1. BridgeTypeOK
  BY DEF BridgeInit, BridgeTypeOK
<1>2. OwnersWait
  BY DEF BridgeInit, OwnersWait
<1>3. Holders = {}
  BY DEF BridgeInit, Holders
<1>4. Cardinality(Holders) = 0
  BY <1>3, FS_EmptySet
<1>5. CountsAgree
  BY <1>4, CapacityIsPositive DEF BridgeInit, CountsAgree
<1> QED
  BY <1>1, <1>2, <1>5 DEF BridgeInv

\* A synchronous callback enters the host.
LEMMA SyncBeginKeeps ==
  ASSUME BridgeInv, NEW c \in Callers, SyncBegin(c)
  PROVE  BridgeInv'
<1>1. c \notin Holders /\ Holders' = Holders \cup {c}
  BY GoroutinesDiffer DEF BridgeInv, BridgeTypeOK, SyncBegin, Holders
<1>2. CountsAgree' /\ inFlight' \in Nat /\ held' \in Nat
  BY <1>1, AcquireCounts DEF BridgeInv, SyncBegin
<1>3. BridgeTypeOK'
  BY <1>2 DEF BridgeInv, BridgeTypeOK, SyncBegin
<1>4. OwnersWait'
  BY DEF BridgeInv, BridgeTypeOK, OwnersWait, SyncBegin
<1> QED
  BY <1>2, <1>3, <1>4 DEF BridgeInv

\* A synchronous callback returns.
LEMMA SyncEndKeeps ==
  ASSUME BridgeInv, NEW c \in Callers, SyncEnd(c)
  PROVE  BridgeInv'
<1>1. c \in Holders /\ Holders' = Holders \ {c}
  BY GoroutinesDiffer DEF BridgeInv, BridgeTypeOK, SyncEnd, Holders
<1>2. CountsAgree' /\ inFlight' \in Nat /\ held' \in Nat
  BY <1>1, ReleaseCounts DEF BridgeInv, SyncEnd
<1>3. BridgeTypeOK'
  BY <1>2 DEF BridgeInv, BridgeTypeOK, SyncEnd
<1>4. OwnersWait'
  BY DEF BridgeInv, BridgeTypeOK, OwnersWait, SyncEnd
<1> QED
  BY <1>2, <1>3, <1>4 DEF BridgeInv

\* HTTPDo is admitted and starts its worker.
LEMMA HTTPBeginKeeps ==
  ASSUME BridgeInv, NEW c \in Callers, HTTPBegin(c)
  PROVE  BridgeInv'
<1>1. PICK w \in Workers :
        /\ worker[w] = "none"
        /\ worker' = [worker EXCEPT ![w] = "spawned"]
        /\ for' = [for EXCEPT ![w] = c]
  BY DEF HTTPBegin
<1>2. w \notin Holders /\ Holders' = Holders \cup {w}
  BY <1>1, GoroutinesDiffer DEF BridgeInv, BridgeTypeOK, HTTPBegin, Holders
<1>3. CountsAgree' /\ inFlight' \in Nat /\ held' \in Nat
  BY <1>2, AcquireCounts DEF BridgeInv, HTTPBegin
<1>4. BridgeTypeOK'
  BY <1>1, <1>3 DEF BridgeInv, BridgeTypeOK, HTTPBegin
<1>5. OwnersWait'
  BY <1>1 DEF BridgeInv, BridgeTypeOK, OwnersWait, HTTPBegin
<1> QED
  BY <1>3, <1>4, <1>5 DEF BridgeInv

\* A waiting caller's context ends.
LEMMA ContextEndsKeeps ==
  ASSUME BridgeInv, NEW c \in Callers, ContextEnds(c)
  PROVE  BridgeInv'
<1>1. Holders' = Holders
  BY DEF ContextEnds, Holders
<1> QED
  BY <1>1, SameHoldersCount DEF BridgeInv, BridgeTypeOK, OwnersWait, ContextEnds

\* HTTPDo returns without its worker, which keeps the admission.
LEMMA HTTPGivesUpKeeps ==
  ASSUME BridgeInv, NEW c \in Callers, HTTPGivesUp(c)
  PROVE  BridgeInv'
<1>1. Holders' = Holders
  BY DEF BridgeInv, BridgeTypeOK, HTTPGivesUp, Holders
<1>2. CountsAgree'
  BY <1>1, SameHoldersCount DEF BridgeInv, HTTPGivesUp
<1>3. BridgeTypeOK'
  BY DEF BridgeInv, BridgeTypeOK, HTTPGivesUp, Orphaned
<1>4. OwnersWait'
  BY DEF BridgeInv, BridgeTypeOK, OwnersWait, HTTPGivesUp, Orphaned
<1> QED
  BY <1>2, <1>3, <1>4 DEF BridgeInv

\* The end of a worker, whether it reached the host or not.
LEMMA AnsweredKeeps ==
  ASSUME BridgeInv, NEW w \in Workers, worker[w] # "none",
         Release, Answered(w), UNCHANGED accepting
  PROVE  BridgeInv'
<1>1. \A c \in Callers : for[w] = c => caller[c] = "waiting"
  BY AbandonedIsNoCaller DEF BridgeInv, OwnersWait
<1>2. w \in Holders /\ Holders' = Holders \ {w}
  BY <1>1, GoroutinesDiffer DEF BridgeInv, BridgeTypeOK, Answered, Holders
<1>3. CountsAgree' /\ inFlight' \in Nat /\ held' \in Nat
  BY <1>2, ReleaseCounts DEF BridgeInv
<1>4. BridgeTypeOK'
  BY <1>3 DEF BridgeInv, BridgeTypeOK, Answered
<1>5. OwnersWait'
  BY AbandonedIsNoCaller DEF BridgeInv, BridgeTypeOK, OwnersWait, Answered
<1> QED
  BY <1>3, <1>4, <1>5 DEF BridgeInv

\* Every step of a worker.
LEMMA WorkerStepKeeps ==
  ASSUME BridgeInv, NEW w \in Workers, WorkerStep(w)
  PROVE  BridgeInv'
<1>1. CASE WorkerSkips(w)
  BY <1>1, AnsweredKeeps DEF WorkerSkips
<1>2. CASE WorkerReturns(w)
  BY <1>2, AnsweredKeeps DEF WorkerReturns
<1>3. CASE WorkerProceeds(w) \/ WorkerEnters(w)
  <2>1. Holders' = Holders
    BY <1>3 DEF BridgeInv, BridgeTypeOK, WorkerProceeds, WorkerEnters, Holders
  <2>2. CountsAgree'
    BY <1>3, <2>1, SameHoldersCount DEF BridgeInv, WorkerProceeds, WorkerEnters
  <2>3. BridgeTypeOK' /\ OwnersWait'
    BY <1>3 DEF BridgeInv, BridgeTypeOK, OwnersWait, WorkerProceeds, WorkerEnters
  <2> QED
    BY <2>2, <2>3 DEF BridgeInv
<1> QED
  BY <1>1, <1>2, <1>3 DEF WorkerStep

\* Every step of the bridge preserves its invariant.
LEMMA BridgeStepKeeps == BridgeInv /\ BridgeStep => BridgeInv'
  BY SyncBeginKeeps, SyncEndKeeps, HTTPBeginKeeps, ContextEndsKeeps,
     HTTPGivesUpKeeps, WorkerStepKeeps
  DEF BridgeStep

\* Behind a closed gate a bridge that is drained stays so.
LEMMA DrainedStays ==
  ASSUME BridgeInv, BridgeStep, ~accepting
  PROVE  ~accepting' /\ (Drained => Drained')
<1>1. ~accepting' /\ (inFlight' = inFlight \/ inFlight' = inFlight - 1)
  BY DEF BridgeStep, SyncBegin, SyncEnd, HTTPBegin, ContextEnds, HTTPGivesUp,
         WorkerStep, WorkerSkips, WorkerProceeds, WorkerEnters, WorkerReturns,
         Acquire, Release
<1>2. inFlight' \in Nat
  BY BridgeStepKeeps DEF BridgeInv, BridgeTypeOK
<1> QED
  BY <1>1, <1>2 DEF BridgeInv, BridgeTypeOK, Drained

\* A drained bridge has admitted nobody.
LEMMA HoldersEmpty == BridgeInv /\ Drained => Holders = {}
  BY HoldersAreFinite, FS_EmptySet DEF BridgeInv, CountsAgree, Drained

\* Nobody is in the host once the bridge is drained.
LEMMA DrainedMeansEmpty == BridgeInv /\ Drained => InHost = {}
<1> SUFFICES ASSUME BridgeInv, Drained PROVE InHost = {}
  OBVIOUS
<1>1. InHost \subseteq Holders
  BY DEF InHost, Holders
<1> QED
  BY <1>1, HoldersEmpty

----------------------------------------------------------------------------
\* The shutdown.

\* The shutdown's steps between the beginning and the end of shutdownOnce.
Section ==
  {"bridge", "quiesce", "dispatches", "terminal", "stop", "work", "drain"}

\* One closer runs the section, and the others pass it when it is over.
OnceRuns ==
  /\ \A s \in Closers : closer[s] \in Section => once = "running"
  /\ \A r, s \in Closers : closer[r] \in Section /\ closer[s] \in Section => r = s
  /\ \A s \in Closers : closer[s] \in {"natives", "done"} => once = "done"

\* The bridge's gate is closed behind the first step, and drained at the end.
BridgeShut ==
  /\ \A s \in Closers : closer[s] \in Section \ {"bridge"} => ~accepting
  /\ once = "done" => ~accepting /\ Drained

NoDispatch == \A c \in Calls : ~InDispatch(c)

\* Dispatch is closed, and empty once it has been waited for.
DispatchShut ==
  /\ once # "fresh" => dispatchClosed
  /\ \A s \in Closers :
       closer[s] \in {"terminal", "stop", "work", "drain"} => NoDispatch
  /\ once = "done" => NoDispatch

\* The engine reserves no work, and has none once it has been waited for.
WorkShut ==
  /\ ~built => NoWork
  /\ \A s \in Closers : closer[s] \in {"stop", "work"} => terminal
  /\ \A s \in Closers : closer[s] = "drain" => NoWork /\ (built => terminal)
  /\ once = "done" => NoWork /\ (built => terminal)

\* No native call begins behind the first gate.
NativeShut == \A s \in Closers : closer[s] # "out" => nativeClosed

\* No call is left when a shutdown returns, and only that takes the table away.
Departed ==
  /\ Shut => \A c \in Calls : call[c] = "out"
  /\ ~table => Shut

IInv ==
  /\ BridgeInv
  /\ PluginTypeOK
  /\ OnceRuns
  /\ BridgeShut
  /\ DispatchShut
  /\ WorkShut
  /\ NativeShut
  /\ Departed

----------------------------------------------------------------------------
\* The steps of Next, by what they leave alone.

BridgeOnly == BridgeStep /\ UNCHANGED plugin

\* A step of the engine's work, or of a call.
PluginStep ==
  \/ \E c \in Callers :
       \/ Schedule(c, "timer") \/ Schedule(c, "running") \/ WriteBegin(c) \/ WriteEnd(c)
  \/ TaskStep
  \/ \E c \in Calls : CallStep(c)

\* Every step of the system is of one of these kinds.
LEMMA StepsByKind ==
  Next => BridgeOnly \/ PluginStep \/ (\E s \in Closers : CloserStep(s)) \/ UNCHANGED vars
  BY CallsAreCallers
  DEF Next, WorkStep, TaskStep, HTTPWorker, Callback, Returns, BridgeOnly, BridgeStep,
      PluginStep, Unloaded

\* Neither work nor a call touches the bridge or the shutdown.
LEMMA PluginStepsKeepGates ==
  PluginStep => UNCHANGED <<bridge, gates>>
  BY DEF PluginStep, TaskStep, CallStep, Schedule, WriteBegin, WriteEnd, TimerFires,
         TaskEnds, NativeCall, Dispatch, Configure, QuiesceCall, StopCall, Refresh,
         RefreshEnds, OtherCall, NativeReturn

\* A bridge whose variables do not change keeps its invariant.
LEMMA BridgeUnchanged ==
  ASSUME BridgeInv, UNCHANGED bridge
  PROVE  BridgeInv'
  BY DEF BridgeInv, BridgeTypeOK, OwnersWait, CountsAgree, Holders, bridge

----------------------------------------------------------------------------
\* What the steps of the work and of the calls do to the plugin.

\* Spawning work keeps the type of the reservations.
LEMMA SpawnTypes ==
  ASSUME PluginTypeOK, NEW kind \in {"timer", "running"}, MaySpawn(kind)
  PROVE  task' \in [Tasks -> {"none", "timer", "running"}]
  BY DEF MaySpawn, PluginTypeOK

\* Work and calls keep the types.
LEMMA PluginStepTypes ==
  ASSUME PluginTypeOK, PluginStep
  PROVE  PluginTypeOK'
<1>1. ASSUME NEW c \in Callers, NEW kind \in {"timer", "running"}, Schedule(c, kind)
      PROVE  PluginTypeOK'
  BY <1>1, SpawnTypes DEF Schedule, PluginTypeOK, gates
<1>2. ASSUME NEW c \in Callers, WriteBegin(c) \/ WriteEnd(c)
      PROVE  PluginTypeOK'
  BY <1>2 DEF WriteBegin, WriteEnd, PluginTypeOK, gates
<1>3. ASSUME NEW t \in Tasks, TimerFires(t) \/ TaskEnds(t)
      PROVE  PluginTypeOK'
  BY <1>3 DEF TimerFires, TaskEnds, PluginTypeOK, gates
<1>4. ASSUME NEW c \in Calls, CallStep(c)
      PROVE  PluginTypeOK'
  <2>1. CASE Configure(c)
    <3>1. task' \in [Tasks -> {"none", "timer", "running"}]
      BY <2>1, SpawnTypes DEF Configure, PluginTypeOK
    <3> QED
      BY <2>1, <3>1 DEF Configure, Step, PluginTypeOK, gates
  <2>2. CASE StopCall(c)
    BY <2>2 DEF StopCall, StopEngine, Step, PluginTypeOK, gates
  <2>3. CASE \/ NativeCall(c) \/ Dispatch(c) \/ QuiesceCall(c) \/ Refresh(c)
             \/ RefreshEnds(c) \/ OtherCall(c) \/ NativeReturn(c)
    BY <2>3 DEF NativeCall, Dispatch, BeginDispatch, QuiesceCall, Refresh, RefreshEnds,
                OtherCall, NativeReturn, Step, PluginTypeOK, gates
  <2> QED
    BY <1>4, <2>1, <2>2, <2>3 DEF CallStep
<1> QED
  BY <1>1, <1>2, <1>3, <1>4 DEF PluginStep, TaskStep

\* Behind a closed dispatch, no call enters it.
LEMMA NoDispatchStays ==
  ASSUME PluginTypeOK, PluginStep, dispatchClosed, NoDispatch
  PROVE  NoDispatch'
<1>1. CASE \E c \in Calls : CallStep(c)
  BY <1>1 DEF CallStep, NativeCall, Dispatch, BeginDispatch, Configure, QuiesceCall,
              StopCall, Refresh, RefreshEnds, OtherCall, NativeReturn, Step, NoDispatch,
              InDispatch, PluginTypeOK
<1>2. CASE UNCHANGED call
  BY <1>2 DEF NoDispatch, InDispatch
<1> QED
  BY <1>1, <1>2 DEF PluginStep, TaskStep, Schedule, WriteBegin, WriteEnd, TimerFires,
                    TaskEnds

\* With no work and no dispatch, nothing starts work.
LEMMA NoWorkStays ==
  ASSUME PluginTypeOK, PluginStep, NoWork,
         ~built \/ (dispatchClosed /\ NoDispatch)
  PROVE  (built \/ ~built') => NoWork'
<1>1. ASSUME NEW c \in Callers, Working(c)
      PROVE  FALSE
  BY <1>1 DEF Working, NoWork, Tasks, PluginTypeOK
<1>2. ASSUME NEW c \in Calls, CallStep(c)
      PROVE  (built \/ ~built') => NoWork'
  <2>1. CASE Configure(c)
    BY <2>1 DEF Configure, Step, NoDispatch, InDispatch, PluginTypeOK
  <2>2. CASE StopCall(c)
    BY <2>2 DEF StopCall, StopEngine, Step, NoWork, PluginTypeOK
  <2>3. CASE \/ NativeCall(c) \/ Dispatch(c) \/ QuiesceCall(c) \/ Refresh(c)
             \/ RefreshEnds(c) \/ OtherCall(c) \/ NativeReturn(c)
    BY <2>3 DEF NativeCall, Dispatch, BeginDispatch, QuiesceCall, Refresh, RefreshEnds,
                OtherCall, NativeReturn, Step, NoWork, NoDispatch, InDispatch, PluginTypeOK
  <2> QED
    BY <1>2, <2>1, <2>2, <2>3 DEF CallStep
<1>3. CASE \E c \in Callers : WriteBegin(c) \/ WriteEnd(c)
  BY <1>3 DEF WriteBegin, WriteEnd, NoWork
<1>4. CASE TaskStep
  BY <1>4 DEF TaskStep, TimerFires, TaskEnds, NoWork, PluginTypeOK
<1> QED
  BY <1>1, <1>2, <1>3, <1>4 DEF PluginStep, Schedule

\* The engine, once built, stays; its terminal gate, once closed, stays closed.
LEMMA PluginStepsKeepTerminal ==
  ASSUME PluginTypeOK, PluginStep
  PROVE  terminal' = terminal /\ (built => built')
  BY DEF PluginStep, TaskStep, CallStep, Schedule, WriteBegin, WriteEnd, TimerFires,
         TaskEnds, NativeCall, Dispatch, Configure, QuiesceCall, StopCall, Refresh,
         RefreshEnds, OtherCall, NativeReturn

\* A built engine appears only from inside dispatch.
LEMMA BuiltInDispatch ==
  ASSUME PluginTypeOK, PluginStep, NoDispatch
  PROVE  built' = built
  BY DEF PluginStep, TaskStep, CallStep, Schedule, WriteBegin, WriteEnd, TimerFires,
         TaskEnds, NativeCall, Dispatch, Configure, QuiesceCall, StopCall, Refresh,
         RefreshEnds, OtherCall, NativeReturn, Step, NoDispatch, InDispatch, PluginTypeOK

\* Behind closed native calls those that are out stay out.
LEMMA CallsStayOut ==
  ASSUME PluginTypeOK, PluginStep, nativeClosed, \A c \in Calls : call[c] = "out"
  PROVE  \A c \in Calls : call'[c] = "out"
  BY DEF PluginStep, TaskStep, CallStep, Schedule, WriteBegin, WriteEnd, TimerFires,
         TaskEnds, NativeCall, Dispatch, BeginDispatch, Configure, QuiesceCall, StopCall,
         Refresh, RefreshEnds, OtherCall, NativeReturn, Step, PluginTypeOK

\* Work and calls keep the invariant.
LEMMA PluginStepKeeps ==
  ASSUME IInv, PluginStep
  PROVE  IInv'
<1>1. UNCHANGED <<bridge, gates>>
  BY PluginStepsKeepGates
<1>2. BridgeInv'
  BY <1>1, BridgeUnchanged DEF IInv
<1>3. PluginTypeOK'
  BY PluginStepTypes DEF IInv
<1>4. OnceRuns'
  BY <1>1 DEF IInv, OnceRuns, gates
<1>5. BridgeShut'
  BY <1>1 DEF IInv, BridgeShut, Drained, gates, bridge
<1>6. DispatchShut'
  <2>1. dispatchClosed /\ NoDispatch => NoDispatch'
    BY NoDispatchStays DEF IInv
  <2>2. \A s \in Closers : closer[s] \in Section => dispatchClosed
    BY DEF IInv, OnceRuns, DispatchShut, PluginTypeOK
  <2> QED
    BY <1>1, <2>1, <2>2 DEF IInv, DispatchShut, Section, gates
<1>7. WorkShut'
  <2>1. terminal' = terminal /\ (built => built')
    BY PluginStepsKeepTerminal DEF IInv
  <2>2. ~built' => NoWork'
    BY <2>1, NoWorkStays DEF IInv, WorkShut, PluginTypeOK
  <2>3. ASSUME dispatchClosed, NoDispatch, NoWork, built => terminal
        PROVE  NoWork' /\ (built' => terminal')
    BY <2>1, <2>3, NoWorkStays, BuiltInDispatch DEF IInv
  <2>4. \A s \in Closers : closer[s] = "drain" => dispatchClosed /\ NoDispatch
    BY DEF IInv, OnceRuns, DispatchShut, Section, PluginTypeOK
  <2>5. once = "done" => dispatchClosed /\ NoDispatch
    BY DEF IInv, DispatchShut
  <2> QED
    BY <1>1, <2>1, <2>2, <2>3, <2>4, <2>5 DEF IInv, WorkShut, gates
<1>8. NativeShut'
  BY <1>1 DEF IInv, NativeShut, gates
<1>9. Departed'
  <2>1. (Shut' <=> Shut) /\ table' = table /\ (Shut => nativeClosed)
    BY <1>1 DEF IInv, NativeShut, Shut, gates
  <2> QED
    BY <2>1, CallsStayOut DEF IInv, Departed
<1> QED
  BY <1>2, <1>3, <1>4, <1>5, <1>6, <1>7, <1>8, <1>9 DEF IInv

----------------------------------------------------------------------------
\* The bridge's steps.

\* The steps of the bridge keep it.
LEMMA BridgeOnlyKeeps ==
  ASSUME IInv, BridgeOnly
  PROVE  IInv'
<1>1. BridgeInv'
  BY BridgeStepKeeps DEF IInv, BridgeOnly
<1>2. BridgeShut'
  BY DrainedStays DEF IInv, BridgeOnly, BridgeShut, plugin
<1>3. /\ PluginTypeOK' /\ OnceRuns' /\ NativeShut' /\ Departed'
  BY DEF IInv, BridgeOnly, PluginTypeOK, OnceRuns, NativeShut, Departed, Shut, plugin
<1>4. DispatchShut' /\ WorkShut'
  BY DEF IInv, BridgeOnly, DispatchShut, WorkShut, NoDispatch, InDispatch, NoWork, plugin
<1> QED
  BY <1>1, <1>2, <1>3, <1>4 DEF IInv

----------------------------------------------------------------------------
\* The steps of the shutdown.

\* Only the last step of a shutdown counts as its return, or takes the table.
LEMMA OnlyClearHostShuts ==
  ASSUME PluginTypeOK, NEW s \in Closers, CloserStep(s), ~ClearHost(s)
  PROVE  (Shut' <=> Shut) /\ table' = table /\ call' = call
<1>1. table' = table /\ call' = call
  BY DEF CloserStep, CloseNative, DoOnce, CloseDispatch, OnceWaited, CloseBridge,
     QuiesceFirst, DispatchesDone, CloseWork, QuiesceLast, WorkDone, BridgeDrained, engine
<1>2. closer[s] # "done" /\ \E to : to # "done" /\ closer' = [closer EXCEPT ![s] = to]
  BY DEF CloserStep, CloseNative, DoOnce, CloseDispatch, OnceWaited, CloseBridge,
     QuiesceFirst, DispatchesDone, CloseWork, QuiesceLast, StopAgain, WorkDone,
     BridgeDrained, Goto
<1>3. Shut' <=> Shut
  BY <1>2 DEF PluginTypeOK, Shut
<1> QED
  BY <1>1, <1>3

\* The steps of a native shutdown keep it.
LEMMA CloserStepKeeps ==
  ASSUME IInv, NEW s \in Closers, CloserStep(s)
  PROVE  IInv'
<1>0. Departed'
  <2>1. CASE ClearHost(s)
    BY <2>1 DEF IInv, PluginTypeOK, ClearHost, Clears, Goto, engine, Departed, Shut
  <2>2. CASE ~ClearHost(s)
    BY <2>2, OnlyClearHostShuts DEF IInv, Departed
  <2> QED
    BY <2>1, <2>2
<1> USE DEF IInv, OnceRuns, BridgeShut, DispatchShut, WorkShut, NativeShut, Section,
            PluginTypeOK, Goto, engine, Drained
<1>1. BridgeInv'
  <2>1. CASE UNCHANGED bridge
    BY <2>1, BridgeUnchanged
  <2>2. CASE CloseBridge(s)
    BY <2>2 DEF CloseBridge, CloseGate, BridgeInv, BridgeTypeOK, OwnersWait,
                CountsAgree, Holders
  <2> QED
    BY <2>1, <2>2 DEF CloserStep, CloseNative, DoOnce, CloseDispatch, OnceWaited, QuiesceFirst,
       DispatchesDone, CloseWork, QuiesceLast, WorkDone, BridgeDrained, ClearHost
<1>2. CASE CloseNative(s)
  BY <1>0, <1>1, <1>2 DEF CloseNative, bridge, NoDispatch, InDispatch, NoWork
<1>3. CASE CloseDispatch(s)
  BY <1>0, <1>1, <1>3 DEF CloseDispatch, bridge, NoDispatch, InDispatch, NoWork
<1>4. CASE OnceWaited(s)
  BY <1>0, <1>1, <1>4 DEF OnceWaited, bridge, NoDispatch, InDispatch, NoWork
<1>5. CASE CloseBridge(s)
  BY <1>0, <1>1, <1>5 DEF CloseBridge, CloseGate, NoDispatch, InDispatch, NoWork
<1>6. CASE QuiesceFirst(s)
  <2>1. stopped' \in BOOLEAN /\ task' \in [Tasks -> {"none", "timer", "running"}]
    <3>1. CASE built
      BY <1>6, <3>1 DEF QuiesceFirst, StopEngine
    <3>2. CASE ~built
      BY <1>6, <3>2 DEF QuiesceFirst
    <3> QED
      BY <3>1, <3>2
  <2>2. closer' = [closer EXCEPT ![s] = "dispatches"]
    BY <1>6 DEF QuiesceFirst
  <2>3. UNCHANGED <<nativeClosed, dispatchClosed, once, table, built, enabled, terminal,
                    call, writeMu>>
    BY <1>6 DEF QuiesceFirst
  <2>4. PluginTypeOK'
    BY <2>1, <2>2, <2>3
  <2>5. OnceRuns'
    BY <1>6 DEF QuiesceFirst
  <2>6. BridgeShut'
    BY <1>6 DEF QuiesceFirst, bridge
  <2>7. DispatchShut' /\ WorkShut' /\ NativeShut'
    BY <1>6 DEF QuiesceFirst, StopEngine, bridge, NoDispatch, InDispatch, NoWork
  <2> QED
    BY <1>0, <1>1, <2>4, <2>5, <2>6, <2>7
<1>7. CASE DispatchesDone(s)
  BY <1>0, <1>1, <1>7 DEF DispatchesDone, bridge, NoDispatch, InDispatch, NoWork
<1>8. CASE CloseWork(s)
  BY <1>0, <1>1, <1>8 DEF CloseWork, bridge, NoDispatch, InDispatch, NoWork
<1>9. CASE QuiesceLast(s)
  BY <1>0, <1>1, <1>9 DEF QuiesceLast, StopAgain, StopEngine, bridge, NoDispatch, InDispatch,
                    NoWork
<1>10. CASE WorkDone(s)
  BY <1>0, <1>1, <1>10 DEF WorkDone, bridge, NoDispatch, InDispatch, NoWork
<1>11. CASE BridgeDrained(s)
  BY <1>0, <1>1, <1>11 DEF BridgeDrained, bridge, NoDispatch, InDispatch, NoWork
<1>12. CASE ClearHost(s)
  BY <1>0, <1>1, <1>12 DEF ClearHost, Clears, bridge, NoDispatch, InDispatch, NoWork
<1> QED
  BY <1>2, <1>3, <1>4, <1>5, <1>6, <1>7, <1>8, <1>9, <1>10, <1>11, <1>12 DEF CloserStep, DoOnce

----------------------------------------------------------------------------
\* It holds at the start.
LEMMA InitiallyIInv ==
  Init => IInv
  BY InitiallyBridgeInv
  DEF Init, IInv, PluginTypeOK, OnceRuns, BridgeShut, DispatchShut, WorkShut, NativeShut,
      Departed, Shut, NoWork, NoDispatch, InDispatch, Section

\* Every step of Lifecycle keeps it.
LEMMA StepsKeep ==
  IInv /\ [Next]_vars => IInv'
<1>1. IInv /\ UNCHANGED vars => IInv'
  BY BridgeUnchanged
  DEF IInv, PluginTypeOK, OnceRuns, BridgeShut, DispatchShut, WorkShut, NativeShut,
      Departed, Shut, NoWork, NoDispatch, InDispatch, Drained, vars, plugin, bridge
<1> QED
  BY <1>1, StepsByKind, BridgeOnlyKeeps, PluginStepKeeps, CloserStepKeeps

\* The invariant is inductive.
THEOREM Invariance == Spec => []IInv
  BY InitiallyIInv, StepsKeep, PTL DEF Spec

\* Every variable keeps to its type.
THEOREM TypesHold == Spec => []TypeOK
<1>1. IInv => TypeOK
  BY DEF IInv, BridgeInv, PluginTypeOK, TypeOK
<1> QED
  BY <1>1, Invariance, PTL

\* Once a native shutdown has given the table back, no goroutine is in the host
\* or on its way there.
THEOREM NoCallAfterClearHolds == Spec => []NoCallAfterClear
<1>1. IInv => NoCallAfterClear
  BY DrainedMeansEmpty DEF IInv, OnceRuns, BridgeShut, Departed, Shut, NoCallAfterClear
<1> QED
  BY <1>1, Invariance, PTL

\* Nor is there a native call, or any work of the engine.
THEOREM NothingRunsAfterClearHolds == Spec => []NothingRunsAfterClear
<1>1. IInv => NothingRunsAfterClear
  BY DEF IInv, OnceRuns, WorkShut, Departed, Shut, NothingRunsAfterClear
<1> QED
  BY <1>1, Invariance, PTL

\* The two counters always count the callbacks that are admitted.
THEOREM CountsAgreeHolds == Spec => []CountsAgree
<1>1. IInv => CountsAgree
  BY DEF IInv, BridgeInv
<1> QED
  BY <1>1, Invariance, PTL
----------------------------------------------------------------------------
\* The refinement: every step is one of Residence's, or none.

\* A step of the engine's work or of a call is a visitor coming or going, or work.
LEMMA PluginStepPromised ==
  ASSUME IInv, PluginStep
  PROVE  [Promise!Next]_Promise!vars
<1> USE DEF IInv, PluginTypeOK
<1>1. /\ UNCHANGED <<bridge, gates>>
      /\ Phase' = Phase
  BY PluginStepsKeepGates DEF gates, Phase, Shut
<1>2. CrewAtWork' \subseteq Tasks \cup Workers
  BY DEF CrewAtWork
<1>3. ASSUME NEW c \in Callers, Working(c), UNCHANGED call
      PROVE  Promise!Work
  <2>1. CallsInside \cup CrewAtWork # {} /\ CallsInside' = CallsInside
    BY <1>3 DEF Working, CallsInside, CrewAtWork, Tasks
  <2> QED
    BY <1>1, <1>2, <2>1 DEF Promise!Work
<1>4. ASSUME UNCHANGED <<call, task>>
      PROVE  UNCHANGED Promise!vars
  BY <1>1, <1>4 DEF Promise!vars, CallsInside, CrewAtWork, bridge
<1>5. CASE TaskStep
  <2>1. CrewAtWork' \subseteq CrewAtWork /\ CallsInside' = CallsInside
    BY <1>1, <1>5 DEF TaskStep, TimerFires, TaskEnds, CrewAtWork, CallsInside, bridge
  <2> QED
    BY <1>1, <1>2, <2>1 DEF Promise!Next, Promise!Work
<1>6. ASSUME NEW c \in Calls, NativeCall(c)
      PROVE  Promise!Enter(c)
  BY <1>1, <1>6 DEF NativeCall, Step, Promise!Enter, Phase, Shut, NativeShut, CallsInside,
                    CrewAtWork, bridge
<1>7. ASSUME NEW c \in Calls, NativeReturn(c)
      PROVE  Promise!Leave(c)
  BY <1>1, <1>7 DEF NativeReturn, Step, Promise!Leave, CallsInside, CrewAtWork, bridge
<1>8. ASSUME NEW c \in Calls,
             \/ Dispatch(c) \/ Configure(c) \/ QuiesceCall(c) \/ StopCall(c)
             \/ Refresh(c) \/ RefreshEnds(c) \/ OtherCall(c)
      PROVE  Promise!Work
  <2>1. c \in CallsInside /\ CallsInside' = CallsInside
    BY <1>8 DEF Dispatch, BeginDispatch, Configure, QuiesceCall, StopCall, Refresh,
                RefreshEnds, OtherCall, Step, CallsInside
  <2> QED
    BY <1>1, <1>2, <2>1 DEF Promise!Work
<1>9. ASSUME NEW c \in Calls, CallStep(c)
      PROVE  Promise!Next
  BY <1>6, <1>7, <1>8, <1>9 DEF CallStep, Promise!Next
<1>10. CASE \E c \in Callers : Schedule(c, "timer") \/ Schedule(c, "running")
  BY <1>3, <1>10 DEF Schedule, Promise!Next
<1>11. CASE \E c \in Callers : WriteBegin(c) \/ WriteEnd(c)
  BY <1>4, <1>11 DEF WriteBegin, WriteEnd
<1> QED
  BY <1>5, <1>9, <1>10, <1>11 DEF PluginStep

\* HTTPDo starts a worker for whoever works; every other step of the bridge only
\* lets workers go.
LEMMA BridgeStepPromised ==
  ASSUME IInv, UNCHANGED plugin,
         \/ \E c \in Callers : Callback(c) \/ Returns(c)
         \/ \E w \in Workers : HTTPWorker(w)
  PROVE  [Promise!Next]_Promise!vars
<1> USE DEF IInv, PluginTypeOK, BridgeInv, BridgeTypeOK
<1>1. /\ Phase' = Phase /\ CallsInside' = CallsInside
      /\ UNCHANGED task
  BY DEF Phase, Shut, CallsInside, plugin
<1>2. CrewAtWork' \subseteq Tasks \cup Workers
  BY DEF CrewAtWork
<1>3. ASSUME NEW c \in Callers, Working(c)
      PROVE  CallsInside \cup CrewAtWork # {}
  BY <1>3 DEF Working, CallsInside, CrewAtWork, Tasks
<1>4. ASSUME \/ \E c \in Callers : Returns(c)
             \/ \E w \in Workers : HTTPWorker(w)
      PROVE  CrewAtWork' \subseteq CrewAtWork
  BY <1>1, <1>4 DEF Returns, SyncEnd, ContextEnds, HTTPGivesUp, HTTPWorker, WorkerStep,
     WorkerSkips, WorkerProceeds, WorkerEnters, WorkerReturns, Answered, CrewAtWork
<1> QED
  BY <1>1, <1>2, <1>3, <1>4 DEF Callback, Promise!Next, Promise!Work

\* With the table gone there is nobody to leave; and it goes when nobody is left.
LEMMA CloserStepPromised ==
  ASSUME IInv, NEW s \in Closers, CloserStep(s)
  PROVE  [Promise!Next]_Promise!vars
<1>0. ~ClearHost(s) => (Shut' <=> Shut)
  BY OnlyClearHostShuts DEF IInv
<1> USE DEF IInv, PluginTypeOK, BridgeInv, BridgeTypeOK, Goto
<1>1. call' = call /\ worker' = worker
  BY DEF CloserStep, CloseNative, DoOnce, CloseDispatch, OnceWaited, CloseBridge, CloseGate,
     QuiesceFirst, DispatchesDone, CloseWork, QuiesceLast, WorkDone, BridgeDrained,
     ClearHost, engine, bridge
<1>2. CallsInside' = CallsInside
  BY <1>1 DEF CallsInside
<1>3. CrewAtWork' \subseteq CrewAtWork /\ CrewAtWork' \subseteq Tasks \cup Workers
  BY <1>1 DEF CloserStep, CloseNative, DoOnce, CloseDispatch, OnceWaited, CloseBridge, CloseGate,
     QuiesceFirst, DispatchesDone, CloseWork, QuiesceLast, StopAgain, StopEngine, WorkDone,
     BridgeDrained, ClearHost, engine, CrewAtWork
<1>4. CASE CloseNative(s)
  <2>1. task' = task /\ nativeClosed' = TRUE /\ ~ClearHost(s)
    BY <1>4 DEF CloseNative, ClearHost, engine
  <2>2. CrewAtWork' = CrewAtWork
    BY <1>1, <2>1 DEF CrewAtWork
  <2>3. Phase' = Phase \/ (Phase = "open" /\ Phase' = "closing")
    BY <1>0, <2>1 DEF Phase
  <2> QED
    BY <1>2, <2>2, <2>3 DEF Promise!Next, Promise!Close, Promise!vars
<1>5. CASE ClearHost(s)
  <2>1. once = "done" /\ nativeClosed
    BY <1>5 DEF ClearHost, OnceRuns, NativeShut
  <2>2. NoWork /\ InHost = {} /\ Holders = {}
    BY <2>1, HoldersEmpty, DrainedMeansEmpty DEF WorkShut, BridgeShut
  <2>3. CallsInside = {} /\ CrewAtWork = {}
    BY <1>5, <2>2 DEF ClearHost, Clears, CallsInside, CrewAtWork, NoWork, Holders
  <2>4. Phase' = "released" /\ Phase \in {"closing", "released"}
    BY <1>5, <2>1 DEF ClearHost, Phase, Shut, OnceRuns
  <2>5. CrewAtWork' = {}
    BY <1>3, <2>3
  <2> QED
    BY <1>2, <2>3, <2>4, <2>5 DEF Promise!Next, Promise!Release, Promise!vars
<1>6. CASE ~CloseNative(s) /\ ~ClearHost(s)
  <2>1. nativeClosed' = nativeClosed
    BY <1>6 DEF CloserStep, DoOnce, CloseDispatch, OnceWaited, CloseBridge, QuiesceFirst,
       DispatchesDone, CloseWork, QuiesceLast, WorkDone, BridgeDrained
  <2>2. Phase' = Phase
    BY <1>0, <1>6, <2>1 DEF Phase
  <2> QED
    BY <1>2, <1>3, <2>2 DEF Promise!Next, Promise!Work
<1> QED
  BY <1>4, <1>5, <1>6

\* At the start nobody is in residence.
LEMMA InitiallyPromised ==
  Init => Promise!Init
  BY DEF Init, BridgeInit, Promise!Init, Phase, Shut, CallsInside, CrewAtWork

\* Every step of Lifecycle is one of Residence, or none.
LEMMA StepsPromised ==
  IInv /\ [Next]_vars => [Promise!Next]_Promise!vars
<1>1. ASSUME UNCHANGED vars
      PROVE  UNCHANGED Promise!vars
  BY <1>1 DEF vars, plugin, bridge, Promise!vars, Phase, Shut, CallsInside, CrewAtWork
<1>2. ASSUME IInv, Next
      PROVE  [Promise!Next]_Promise!vars
  <2>1. CASE PluginStep
    BY <1>2, <2>1, PluginStepPromised
  <2>2. CASE \E s \in Closers : CloserStep(s)
    BY <1>2, <2>2, CloserStepPromised
  <2>3. CASE UNCHANGED plugin /\ ( \/ \E c \in Callers : Callback(c) \/ Returns(c)
                                  \/ \E w \in Workers : HTTPWorker(w) )
    BY <1>2, <2>3, BridgeStepPromised
  <2> QED
    BY <1>1, <1>2, <2>1, <2>2, <2>3
    DEF Next, WorkStep, PluginStep, Callback, Returns, HTTPWorker, Unloaded
<1> QED
  BY <1>1, <1>2

\* The plugin implements Residence: seen from the host it is open, closing or
\* released, and when it is released nothing of it is left or comes back.
THEOREM KeepsPromiseHolds == Spec => KeepsPromise
  BY InitiallyPromised, StepsPromised, Invariance, PTL DEF Spec, KeepsPromise, Promise!Spec

----------------------------------------------------------------------------
\* Further initializations.  They touch nothing but the table, and IInv does not
\* say that it stays away.

\* A step of Loading is one of Lifecycle, or an initialization's.
LEMMA LoadingSteps ==
  [LoadingNext]_<<vars, loader>> =>
    [Next]_vars \/ (table' = TRUE
                      /\ UNCHANGED <<bridge, engine, nativeClosed, dispatchClosed, once, closer>>)
  BY DEF LoadingNext, CheckInit, StoreHost

\* Initializations keep the invariant.
LEMMA LoadingKeeps ==
  IInv /\ [LoadingNext]_<<vars, loader>> => IInv'
<1>1. ASSUME IInv, table' = TRUE,
             UNCHANGED <<bridge, engine, nativeClosed, dispatchClosed, once, closer>>
      PROVE  IInv'
  <2>1. BridgeInv'
    BY <1>1, BridgeUnchanged DEF IInv
  <2> QED
    BY <1>1, <2>1
    DEF IInv, PluginTypeOK, OnceRuns, BridgeShut, DispatchShut, WorkShut, NativeShut,
        Departed, Shut, NoWork, NoDispatch, InDispatch, Drained, engine, bridge
<1> QED
  BY <1>1, LoadingSteps, StepsKeep

\* So the invariant holds whatever is loaded again, and with it what follows from it.
THEOREM LoadingInvariance == LoadingSpec => []IInv
  BY InitiallyIInv, LoadingKeeps, PTL DEF LoadingSpec, LoadingInit

\* An initialization that was checked in time and stores the table after the shutdown
\* took it brings nothing back to life: Residence holds of all of Loading.
THEOREM LoadingKeepsPromise == LoadingSpec => KeepsPromise
<1>1. ASSUME table' = TRUE,
             UNCHANGED <<bridge, engine, nativeClosed, dispatchClosed, once, closer>>
      PROVE  UNCHANGED Promise!vars
  BY <1>1 DEF engine, bridge, Promise!vars, Phase, Shut, CallsInside, CrewAtWork
<1>2. IInv /\ [LoadingNext]_<<vars, loader>> => [Promise!Next]_Promise!vars
  BY <1>1, LoadingSteps, StepsPromised
<1> QED
  BY <1>2, InitiallyPromised, LoadingInvariance, PTL
  DEF LoadingSpec, LoadingInit, KeepsPromise, Promise!Spec

\* Once a shutdown has returned no initialization begins and is accepted.
THEOREM NoneAfterShutHolds == LoadingSpec => NoneAfterShut
<1>1. ASSUME IInv, Shut, LoadingNext, NEW l \in Loaders, loader[l] = "out",
             loader \in [Loaders -> {"out", "checked", "accepted", "refused"}]
      PROVE  loader'[l] \in {"out", "refused"}
  <2>1. nativeClosed
    BY <1>1 DEF IInv, Shut, NativeShut
  <2> QED
    BY <1>1, <2>1 DEF LoadingNext, CheckInit, InitAllowed, StoreHost
<1> DEFINE LoaderTypes == loader \in [Loaders -> {"out", "checked", "accepted", "refused"}]
<1>2. LoadingInit => LoaderTypes
  BY DEF LoadingInit
<1>3. LoaderTypes /\ [LoadingNext]_<<vars, loader>> => LoaderTypes'
  BY DEF LoadingNext, CheckInit, StoreHost
<1>4. IInv /\ LoaderTypes /\ [LoadingNext]_<<vars, loader>> =>
        [\A l \in Loaders :
           Shut /\ loader[l] = "out" => loader'[l] \in {"out", "refused"}]_<<vars, loader>>
  BY <1>1
<1> QED
  BY <1>2, <1>3, <1>4, LoadingInvariance, PTL DEF LoadingSpec, NoneAfterShut
=============================================================================
