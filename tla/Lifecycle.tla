----------------------------- MODULE Lifecycle -----------------------------
(***************************************************************************)
(* The plugin's life in the host process: native calls (abi.go), dispatch  *)
(* (internal/plugin/runtime.go), the goroutines the engine owns (its work  *)
(* reservations, internal/engine/engine.go), the bridge, and the terminal  *)
(* shutdown after which the host releases the table of callbacks and       *)
(* unloads the library.                                                    *)
(*                                                                         *)
(* A call is "out", "native" (counted in nativeCallWG), "dispatch"         *)
(* (counted in dispatchWG too), "stopping" or "disabling" (about to stop   *)
(* the engine), "refreshing" (inside Reconcile, with a reservation), or    *)
(* "copy" (out of Dispatch, copying the response).  A task is a            *)
(* reservation of the engine's: "none", a "timer", or "running".           *)
(***************************************************************************)
EXTENDS Bridge

CONSTANTS
  Calls,        \* the host's threads that call the plugin
  Closers       \* the host's threads that run the native shutdown

ASSUME CallsAreCallers == Calls \subseteq Callers

Tasks == Callers \ Calls

Nobody == "nobody"

ASSUME NobodyIsNoCaller == Nobody \notin Callers

VARIABLES
  nativeClosed,  \* nativeShuttingDown
  dispatchClosed,\* Runtime.shuttingDown
  built,         \* Runtime.engine # nil
  enabled,       \* the configuration in force is enabled
  stopped,       \* Engine.stopped
  terminal,      \* Engine.terminal
  call,          \* where each native call is
  task,          \* what each of the engine's reservations is for
  writeMu,       \* the holder of Engine.writeMu
  once,          \* shutdownOnce: "fresh", "running" or "done"
  closer,        \* where each native shutdown is
  table          \* the host's callback table is there

plugin == <<nativeClosed, dispatchClosed, built, enabled, stopped, terminal,
            call, task, writeMu, once, closer, table>>
vars == <<bridge, plugin>>

gates == <<nativeClosed, dispatchClosed, once, closer, table>>

Init ==
  /\ BridgeInit
  /\ nativeClosed = FALSE
  /\ dispatchClosed = FALSE
  /\ built = FALSE
  /\ enabled = FALSE
  /\ stopped = TRUE
  /\ terminal = FALSE
  /\ call = [c \in Calls |-> "out"]
  /\ task = [t \in Tasks |-> "none"]
  /\ writeMu = Nobody
  /\ once = "fresh"
  /\ closer = [s \in Closers |-> "out"]
  /\ table = TRUE

----------------------------------------------------------------------------
\* Work.

\* runAsync: a new goroutine, when a reservation can be had.
MaySpawn(kind) ==
  IF terminal \/ \A t \in Tasks : task[t] # "none" THEN task' = task
  ELSE \E t \in Tasks : task[t] = "none" /\ task' = [task EXCEPT ![t] = kind]

\* stopLocked: a timer that is stopped in time releases its reservation.
StopEngine ==
  /\ stopped' = TRUE
  /\ task' = [t \in Tasks |-> IF task[t] = "timer" THEN "none" ELSE task[t]]

Working(c) ==
  IF c \in Calls THEN call[c] = "refreshing" ELSE task[c] = "running"

\* Nothing keeps workWG from zero.
NoWork ==
  /\ \A t \in Tasks : task[t] = "none"
  /\ \A c \in Calls : call[c] # "refreshing"

Resting(c) == caller[c] = "away" /\ writeMu # c

TimerFires(t) ==
  /\ task[t] = "timer"
  /\ task' = [task EXCEPT ![t] = "running"]
  /\ UNCHANGED <<bridge, gates, built, enabled, stopped, terminal, call, writeMu>>

\* Under Engine.mu, and only while the engine runs.
Schedule(c, kind) ==
  /\ Working(c)
  /\ Resting(c)
  /\ ~stopped
  /\ MaySpawn(kind)
  /\ UNCHANGED <<bridge, gates, built, enabled, stopped, terminal, call, writeMu>>

WriteBegin(c) ==
  /\ Working(c)
  /\ Resting(c)
  /\ writeMu = Nobody
  /\ writeMu' = c
  /\ UNCHANGED <<bridge, gates, built, enabled, stopped, terminal, call, task>>

WriteEnd(c) ==
  /\ writeMu = c
  /\ caller[c] = "away"
  /\ writeMu' = Nobody
  /\ UNCHANGED <<bridge, gates, built, enabled, stopped, terminal, call, task>>

TaskEnds(t) ==
  /\ task[t] = "running"
  /\ Resting(t)
  /\ task' = [task EXCEPT ![t] = "none"]
  /\ UNCHANGED <<bridge, gates, built, enabled, stopped, terminal, call, writeMu>>

\* The callbacks of whoever works.
Callback(c) ==
  /\ Working(c) /\ (SyncBegin(c) \/ HTTPBegin(c))
  /\ UNCHANGED plugin

Returns(c) ==
  /\ SyncEnd(c) \/ ContextEnds(c) \/ HTTPGivesUp(c)
  /\ UNCHANGED plugin

HTTPWorker(w) == WorkerStep(w) /\ UNCHANGED plugin

----------------------------------------------------------------------------
\* Native calls and dispatch.

Step(c, from, to) == call[c] = from /\ call' = [call EXCEPT ![c] = to]

NativeCallUngated(c) ==
  /\ Step(c, "out", "native")
  /\ UNCHANGED <<bridge, gates, built, enabled, stopped, terminal, task, writeMu>>

\* beginNativeCall; a refused call returns at once.
NativeCall(c) ==
  /\ ~nativeClosed
  /\ Step(c, "out", "native")
  /\ UNCHANGED <<bridge, gates, built, enabled, stopped, terminal, task, writeMu>>

\* beginDispatch.
BeginDispatch(c) ==
  IF dispatchClosed THEN Step(c, "native", "copy") ELSE Step(c, "native", "dispatch")

Dispatch(c) ==
  /\ BeginDispatch(c)
  /\ UNCHANGED <<bridge, gates, built, enabled, stopped, terminal, task, writeMu>>

\* plugin.register and plugin.reconfigure: build the engine or reconfigure it.
Configure(c) ==
  /\ built' = TRUE
  /\ enabled' \in BOOLEAN
  /\ stopped' = ~enabled'
  /\ IF enabled' THEN Step(c, "dispatch", "copy") /\ MaySpawn("running")
     ELSE /\ Step(c, "dispatch", IF built THEN "disabling" ELSE "copy")
          /\ UNCHANGED task
  /\ UNCHANGED <<bridge, gates, terminal, writeMu>>

\* plugin.quiesce and plugin.shutdown only quiesce.
QuiesceCall(c) ==
  /\ Step(c, "dispatch", IF built THEN "stopping" ELSE "copy")
  /\ UNCHANGED <<bridge, gates, built, enabled, stopped, terminal, task, writeMu>>

\* Engine.Stop and stopDisabledGeneration: behind writeMu.
StopCall(c) ==
  /\ writeMu = Nobody
  /\ \/ Step(c, "stopping", "copy") /\ StopEngine
     \/ Step(c, "disabling", "copy") /\ ~enabled /\ StopEngine
     \/ Step(c, "disabling", "copy") /\ enabled /\ UNCHANGED <<stopped, task>>
  /\ UNCHANGED <<bridge, gates, built, enabled, terminal, writeMu>>

\* The management refresh runs a full pass on the host's thread.
Refresh(c) ==
  /\ built /\ ~terminal
  /\ Step(c, "dispatch", "refreshing")
  /\ UNCHANGED <<bridge, gates, built, enabled, stopped, terminal, task, writeMu>>

RefreshEnds(c) ==
  /\ Resting(c)
  /\ Step(c, "refreshing", "copy")
  /\ UNCHANGED <<bridge, gates, built, enabled, stopped, terminal, task, writeMu>>

\* Everything else, and a refresh the engine or its absence refuses.
OtherCall(c) ==
  /\ Step(c, "dispatch", "copy")
  /\ UNCHANGED <<bridge, gates, built, enabled, stopped, terminal, task, writeMu>>

NativeReturn(c) ==
  /\ Step(c, "copy", "out")
  /\ UNCHANGED <<bridge, gates, built, enabled, stopped, terminal, task, writeMu>>

CallStep(c) ==
  \/ NativeCall(c) \/ Dispatch(c) \/ Configure(c) \/ QuiesceCall(c) \/ StopCall(c)
  \/ Refresh(c) \/ RefreshEnds(c) \/ OtherCall(c) \/ NativeReturn(c)

----------------------------------------------------------------------------
\* The native shutdown, one wait or one gate at a time.

Goto(s, from, to) == closer[s] = from /\ closer' = [closer EXCEPT ![s] = to]

engine == <<built, enabled, stopped, terminal, call, task, writeMu>>

CloseNative(s) ==
  /\ Goto(s, "out", "once")
  /\ nativeClosed' = TRUE
  /\ UNCHANGED <<bridge, dispatchClosed, once, table, engine>>

\* The first runs shutdownOnce's function, whose first step this is.
CloseDispatch(s) ==
  /\ once = "fresh"
  /\ Goto(s, "once", "bridge")
  /\ once' = "running"
  /\ dispatchClosed' = TRUE
  /\ UNCHANGED <<bridge, nativeClosed, table, engine>>

\* The others wait until it has returned.
OnceWaited(s) ==
  /\ once = "done"
  /\ Goto(s, "once", "natives")
  /\ UNCHANGED <<bridge, nativeClosed, dispatchClosed, once, table, engine>>

\* shutdownOnce.Do.
DoOnce(s) == IF once = "fresh" THEN CloseDispatch(s) ELSE OnceWaited(s)

CloseBridge(s) ==
  /\ Goto(s, "bridge", "quiesce")
  /\ CloseGate
  /\ UNCHANGED <<nativeClosed, dispatchClosed, once, table, engine>>

\* Runtime.Quiesce.
QuiesceFirst(s) ==
  /\ Goto(s, "quiesce", "dispatches")
  /\ IF built THEN writeMu = Nobody /\ StopEngine ELSE UNCHANGED <<stopped, task>>
  /\ UNCHANGED <<bridge, nativeClosed, dispatchClosed, once, table, built, enabled,
                 terminal, call, writeMu>>

InDispatch(c) == call[c] \in {"dispatch", "stopping", "disabling", "refreshing"}

DispatchesDone(s) ==
  /\ \A c \in Calls : ~InDispatch(c)
  /\ Goto(s, "dispatches", IF built THEN "terminal" ELSE "drain")
  /\ UNCHANGED <<bridge, nativeClosed, dispatchClosed, once, table, engine>>

\* Engine.Shutdown.
CloseWork(s) ==
  /\ Goto(s, "terminal", "stop")
  /\ terminal' = TRUE
  /\ UNCHANGED <<bridge, nativeClosed, dispatchClosed, once, table, built, enabled,
                 stopped, call, task, writeMu>>

StopAgainSkipped(s) == Goto(s, "stop", "work") /\ UNCHANGED <<stopped, task>>

\* An engine a late reconfiguration restarted is stopped once more.
StopAgain(s) == Goto(s, "stop", "work") /\ writeMu = Nobody /\ StopEngine

QuiesceLast(s) ==
  /\ StopAgain(s)
  /\ UNCHANGED <<bridge, nativeClosed, dispatchClosed, once, table, built, enabled,
                 terminal, call, writeMu>>

WorkDone(s) ==
  /\ NoWork
  /\ Goto(s, "work", "drain")
  /\ UNCHANGED <<bridge, nativeClosed, dispatchClosed, once, table, engine>>

BridgeDrained(s) ==
  /\ Drained
  /\ Goto(s, "drain", "natives")
  /\ once' = "done"
  /\ UNCHANGED <<bridge, nativeClosed, dispatchClosed, table, engine>>

ClearsEarly == TRUE

\* nativeCallWG.Wait.
Clears == \A c \in Calls : call[c] = "out"

\* The table of callbacks is given back.
ClearHost(s) ==
  /\ Clears
  /\ Goto(s, "natives", "done")
  /\ table' = FALSE
  /\ UNCHANGED <<bridge, nativeClosed, dispatchClosed, once, engine>>

CloserStep(s) ==
  \/ CloseNative(s) \/ DoOnce(s) \/ CloseBridge(s)
  \/ QuiesceFirst(s) \/ DispatchesDone(s) \/ CloseWork(s) \/ QuiesceLast(s)
  \/ WorkDone(s) \/ BridgeDrained(s) \/ ClearHost(s)

----------------------------------------------------------------------------
\* Every shutdown has returned: nothing is left to do.
Unloaded ==
  /\ \A s \in Closers : closer[s] = "done"
  /\ \A c \in Calls : call[c] = "out"
  /\ UNCHANGED vars

WorkStep ==
  \E c \in Callers :
    \/ Schedule(c, "timer") \/ Schedule(c, "running") \/ WriteBegin(c) \/ WriteEnd(c)
    \/ Callback(c) \/ Returns(c)

TaskStep == \E t \in Tasks : TimerFires(t) \/ TaskEnds(t)

Next ==
  \/ WorkStep \/ TaskStep
  \/ \E w \in Workers : HTTPWorker(w)
  \/ \E c \in Calls : CallStep(c)
  \/ \E s \in Closers : CloserStep(s)
  \/ Unloaded

Spec == Init /\ [][Next]_vars

----------------------------------------------------------------------------
\* Fairness: goroutines are scheduled, mutexes are granted, the host's
\* callbacks return.  A task ends however often it calls the host (SF: its
\* loops are finite); nothing makes a timer fire.

FairSpec ==
  /\ Spec
  /\ \A c \in Callers : SF_vars(WriteEnd(c)) /\ WF_vars(Returns(c))
  /\ \A t \in Tasks : SF_vars(TaskEnds(t))
  /\ \A w \in Workers : WF_vars(HTTPWorker(w))
  /\ \A c \in Calls :
       /\ WF_vars(Dispatch(c) \/ OtherCall(c) \/ NativeReturn(c))
       /\ SF_vars(StopCall(c) \/ RefreshEnds(c))
  /\ \A s \in Closers : SF_vars(CloserStep(s))

----------------------------------------------------------------------------
\* Properties.

PluginTypeOK ==
  /\ nativeClosed \in BOOLEAN /\ dispatchClosed \in BOOLEAN
  /\ built \in BOOLEAN /\ enabled \in BOOLEAN /\ stopped \in BOOLEAN
  /\ terminal \in BOOLEAN
  /\ call \in [Calls -> {"out", "native", "dispatch", "stopping", "disabling",
                         "refreshing", "copy"}]
  /\ task \in [Tasks -> {"none", "timer", "running"}]
  /\ writeMu \in Callers \cup {Nobody}
  /\ once \in {"fresh", "running", "done"}
  /\ closer \in [Closers -> {"out", "once", "bridge", "quiesce", "dispatches",
                             "terminal", "stop", "work", "drain", "natives", "done"}]
  /\ table \in BOOLEAN

\* Every variable of the two modules holds a value of its kind.
TypeOK == BridgeTypeOK /\ PluginTypeOK

\* No goroutine is inside the host, or past its last check on the way in, once
\* a native shutdown has given the callback table back: neither a synchronous
\* callback, nor an HTTPDo worker whose request timed out long ago.
NoCallAfterClear == ~table => InHost = {}

\* Nor is a native call still copying its response, nor engine work left.
NothingRunsAfterClear ==
  ~table => NoWork /\ \A c \in Calls : call[c] = "out"

\* Seen from the host: the native calls visit, the engine's reservations and HTTPDo's
\* workers are the crew, and a shutdown that has returned releases the plugin.
Shut == \E s \in Closers : closer[s] = "done"

Phase == IF Shut THEN "released" ELSE IF nativeClosed THEN "closing" ELSE "open"

CallsInside == {c \in Calls : call[c] # "out"}

CrewAtWork == {t \in Tasks : task[t] # "none"} \cup {w \in Workers : worker[w] # "none"}

Promise == INSTANCE Residence WITH
  Visitors <- Calls, Crew <- Tasks \cup Workers,
  phase <- Phase, visiting <- CallsInside, working <- CrewAtWork

\* The gates, counters and waits of four layers add up to Residence: after the
\* shutdown has begun no call enters, work comes only from work, and the table
\* goes only when everybody has left, for good.
KeepsPromise == Promise!Spec

\* A native shutdown that has begun returns, though reconfigurations, refreshes
\* and tasks were under way and hour-long timers were armed.
ShutdownReturns == \A s \in Closers : (closer[s] # "out") ~> (closer[s] = "done")
=============================================================================
