# The reset-priority plugin in TLA+

This directory models the reset-priority plugin for CPA: a Go shared library
that watches the weekly quota resets of Claude and Codex credentials and writes a
priority into each credential's auth file, so that the credential whose window
resets first is used first. The modules are translated from the source; paths
below are relative to `src/`.

## 1. The system

### 1.1 Components

| component | source | state | operations |
|---|---|---|---|
| ranking | `internal/engine/ranker.go` | none | `Rank` |
| account state | `internal/engine/state.go` | one record per credential: health, weekly reset, epoch, retry ladder, priorities | the parts of the engine's critical sections that touch one record |
| engine | `internal/engine/engine.go`, `writeback.go` | configuration and its sequence, accounts, three timers, the retry ladders, `reconcileMu`, `writeMu`, `saveMu`, `providerCallMu`, `fetchSem` | `Reconcile`, `fetchOneInternal`, `flushInternal`, `performWrites`, the callbacks of the timers, `Reconfigure`, `Stop`, `Shutdown` |
| status snapshot | `internal/engine/status.go` | a copy of the engine's state | publish |
| host bridge | `internal/hostapi/bridge.go`, `callback_limit.go` | `accepting`, `inFlight`, the process-wide `held` | `call`, `HTTPDo`, `Quiesce`, `Drain` |
| plugin runtime | `internal/plugin/runtime.go` | the engine, `shuttingDown`, `dispatchWG`, `shutdownOnce` | `Dispatch` (register, reconfigure, quiesce, management), `Shutdown` |
| native ABI | `abi.go` | `nativeShuttingDown`, `nativeCallWG`, the host's callback table | init, call, shutdown |
| configuration | `internal/config` | none | `Parse`, `Manages` |
| providers | `internal/providers` | none | `FetchWeeklyReset` |
| clock, sanitizer, pages, packaging, tools, scripts | the rest | none of interest | |

### 1.2 How they interact

The host calls the library on its own threads. `abi.go` counts the call and hands
it to the runtime, which counts the dispatch and builds, reconfigures or stops
the engine, or runs a full pass on the caller's thread (the refresh route). The
engine runs goroutines of its own: full passes at start, every interval and
after a health transition; up to four provider requests at a time; one callback
for each timer that fires. Every one of them re-enters the host through the
bridge, to list credentials, read or save an auth file, read a runtime
record, send an HTTP request or log. The engine never holds `Engine.mu` across
such a callback, so between any two of its critical sections another goroutine,
a new configuration, a stop or the passage of a deadline may come in.

### 1.3 What is hard

- **State read before a callback and used after it.** A write item is planned,
  revalidated, read, admitted and saved in five steps; a fetch checks the
  account, reads the credential, is admitted, calls, and applies. Epochs,
  sequences and the locks `writeMu`, `saveMu` and `providerCallMu` guard them.
- **Deadlines inside other work.** A reset may pass while its account is being
  fetched, written, reserved by a pass, or held by a deadline callback that has
  fired but not run.
- **Ownership of retries.** Passes, ladders and immediate retries compete for the
  one immediate attempt an account is owed.
- **The host's side effects.** Saving an auth file rebuilds its runtime record as
  active, so the plugin's own write looks like a repair.
- **Failure halfway.** A list, a read or a save may fail at any step, and a save
  that failed may have taken effect.
- **Unload.** Synchronous callbacks cannot be cancelled, HTTP workers outlive
  their requests, and a reconfiguration may restart an engine that is being shut down.

`PROJECT.json` lists each hazard at its line, with the properties that cover it
or the reason why none does.

### 1.4 What makes each component correct

- ranking: the loop computes `floor + step * (N - 1 - rank)` even at the int
  ceiling, priorities are distinct, and one account's later reset costs only itself;
- engine: no save or provider call escapes the configuration in force; no rank on
  an answer older than the window; no recovery on the plugin's own evidence; no
  lost deadline, poll, retry or rank when everything is quiet; every pass ends;
- account state: a credential's life follows a fixed set of moves (`Credential`):
  it is never ranked by a reset that has passed and leaves quarantine only through
  recovery;
- roster: two entries that share an identity are both kept out, and an account
  leaves management only for a conclusive reason;
- providers: only the weekly window's reset reaches the ranking, wherever it is and
  however its fields are spelled;
- configuration: what is accepted is what the engine is made for;
- bridge and shutdown: the two counters agree, nothing is in the host when the
  callback table is given back, and the shutdown returns;
- native ABI: after a terminal shutdown the resident image stays dead.

## 2. The modules

| module | models | extends |
|---|---|---|
| `Ranking` | the comparator, and a rank's closed form | |
| `RankLoop` | the sort and the saturating loop of `Rank` | `Ranking` |
| `RankGroups` | the groups `Rank` is called with, one change at a time | `RankLoop` |
| `Account` | the account record and each change of it, as pure operators | |
| `EngineState` | variables and vocabulary of the engine and its host | `Account`, `Ranking` |
| `Writeback` | `flushInternal`, `performWrites`, `writeOne` | `EngineState` |
| `Fetch` | `fetchOneInternal`, failures and observations | `Writeback` |
| `Reconcile` | the full pass | `Fetch` |
| `Engine` | callbacks, time, `Reconfigure`, `Stop`, the host; `Init`, `Next`, `Spec` | `Reconcile` |
| `EngineProperties` | what must hold of it, and its fairness | `Engine` |
| `Bridge` | admission, synchronous callbacks, `HTTPDo` | |
| `Credential` | abstract: the life of a credential; `EngineProperties` instantiates it | |
| `Lifecycle` | ABI, dispatch, the engine's work, terminal shutdown | `Bridge` |
| `Residence` | abstract: what a resident library promises its host; `Lifecycle` instantiates it | |
| `Loading` | further initializations beside all of `Lifecycle` | `Lifecycle` |
| `Roster` | `validateRoster` read by read, and the roster that results | |
| `WeeklyWindow` | `findWeeklyReset`: the weekly window of a Codex answer | |
| `Settings` | `config.Parse` and `validate`, and `handleLifecycle`'s use of them | |
| `MCEngine`, `MCLifecycle`, `MCLoading`, `MCInputs` | the instances TLC checks; `MCInputs` puts `RankGroups`, `Roster`, `WeeklyWindow` and `Settings` side by side | |
| `InputProofs`, `LifecycleProofs`; `EngineTypes`, `SaveProofs`, `CredentialProofs`, `QuietProofs`, `AttemptProofs`, `FileProofs` | proofs; of the engine's, `EngineTypes` comes first, `QuietProofs` extends `CredentialProofs`, `AttemptProofs` extends `QuietProofs`, and `FileProofs` extends `SaveProofs` and `QuietProofs` | TLAPS |

Operators whose name adds a mistake to another's (`PublishMayEnterDuringSave`,
`RearmedKeepingTimer`, ...) are not used by the specifications. Each is a
plausible bug in the definition it stands before, and substituting it must break
a property: that is how we know each property can fail.

### 2.1 The engine's model and the code

*Steps.* One action is one critical section of `Engine.mu`, with the acquisition
of an outer lock before it and its release after it. Host callbacks and provider
requests are the gaps between two actions of a thread. `pc[t]` says in which gap a
thread is; the header of each module lists its places.

*Threads.* `Pass` is whoever is inside `Reconcile` (`reconcileMu` admits one; the
rest are counted in `passes`); `Fetcher(a)` is the goroutine `fetchAll` starts for
account `a`; `Worker(i)` runs a callback. `pending` holds the callbacks that have
started but have not had `Engine.mu` yet: this is where a stale callback lives.
Identical pending retries of one account and sequence collapse into one.

*Locks.* `writeMu` is a variable with its holder. `saveMu` is held exactly while a
thread is at `"saving"`, `providerCallMu` (for reading) exactly at `"calling"`, and
`CallsBarred` is a `Reconfigure` waiting for it. `slots` is `fetchSem`.

*Account records.* `current` merges `currentKnown` and `currentPriority`; `started`
merges `nextFetchSeq` and `latestStartedFetchSeq`, which are always equal; `ladder`
is the set of instants at which retry timers are still due. An account that is not
in `roster` has the record `NewAccount`, so that forgetting one and meeting it again
is what the code does: deleting a map entry and building a new record.

*Time.* `now` counts to `Horizon`. `Tick` fires every timer due at the new instant,
that is, puts its callback into `pending`; a callback runs at any later moment, also
after any number of further ticks. Real delays become small numbers that keep the
order of events: a poll interval of 1, ladder offsets 1 and 9, an interval of 9,
resets at 1 and 3.

*Host.* `disk`, `host` and `listed` are the auth files, the runtime records and the
list. A save stores the priority and makes the record active. Outside events are
bounded by `Budget`: configurations, stops, refreshes, failed callbacks, changes of
health, edits of a file or of the list.

*History.* `unwritten`, `lapsedAt`, `host.by`, `frame.demoted`, `admin.overtaken` and
`forgotten` exist for properties only: a demotion not yet followed by a finished write
pass, the reset an account had when it was last demoted, whether an active runtime record
is the plugin's own doing, which demotions a flush has planned for, whether a
configuration was ever enabled while an older one was still being disabled, and the
accounts whose record was ever deleted. No guard reads them.

*Over-approximations.* A plan is written in any order (the code iterates a
map); a provider answers anything in `Answers`, nothing,
or an error, at any time; a new account whose validation fails is skipped one at a time.

*Left out of the engine's model.* Contexts at the fetch slot (every caller passes one
that is never done), logging, error texts, labels, the display time zone, and the
other fields of the auth document. `validateRoster` is one step with three outcomes
here, and has a module of its own.

### 2.2 The lifecycle's model and the code

`call[c]` follows a native call from `beginNativeCall` to the end of the copying of
its response; `task[t]` is one of the engine's work reservations (`none`, an armed
`timer`, or a goroutine that is `running`); `closer[s]` follows
`cliproxy_plugin_shutdown`, one gate or one wait at a time. `Bridge` is shared
state: calls that refresh and tasks that run are its `Callers`. The number of
tasks is a bound, so spawning with no free slot does nothing. `Drain` closes the
gate a second time, which changes nothing after `Quiesce`. What a task does
between callbacks is the subject of `Engine`; here it may spawn, take `writeMu`,
call the host, and end, in any order.

`Loading` adds threads that call `cliproxy_plugin_init` again. The check of
`nativeShuttingDown` takes `nativeCallMu` and the store of the host's table does not,
so the two are two actions. A shutdown that runs between them gives the table back and
the initialization then stores it again; `NoCallAfterClear` and `NothingRunsAfterClear`,
which speak of the time without a table, say nothing of that. `KeepsPromise` does: it
counts from the return of a shutdown (`Shut`), table or no table, so the late table is
harmless.

### 2.3 The abstract specifications

`Residence` is the promise of any library that lives in its host's process: visitors
(native calls) enter only while it is open; the crew (reservations and HTTP workers)
starts only from someone inside; it is released only when everybody has left, and then
stays empty. Its phase is `nativeClosed` and `Shut`; its visitors and crew are
`CallsInside` and `CrewAtWork`. None of the four layers' own gates, counts and locks
appear in it: that they are closed and waited for in an order that adds up to this is
the content of `KeepsPromise`.

`Credential` is the life of one account: absent, unknown, ranked, expired, quarantined,
recovering, with the reset it is or was ranked by, against the clock. `Life` and
`Until` compute them from a record. Passes, callbacks, epochs, sequences, retries, locks
and late answers do not appear in it: that whatever they do in whatever order is a legal
life for every account is the content of `LivesByTheRules`.

### 2.4 The parts that feed the engine

*Roster.* An entry has an index, a name, a path and whether it is a candidate (its provider
managed, physical, complete). `answers` grows by one place per candidate: `SkipAmbiguous`
or `Read` with what the host answered (`other` stands for a mismatched index or name,
`bare` for a document without credentials). `Defer` keeps the roster, `Apply` replaces it.

*WeeklyWindow.* `root` has the fields of the window at each place; a place is an envelope
and a key, in the code's order. A value is a number or `Unusable`. `FirstParsed` is
`firstParsed` with each of its parsers' accepted values. `Declare`, `Retract` and
`Exchange` are what may differ between one answer of the provider and the next, so that
`DeadlineStands` can say which differences must not matter.

*Settings.* `subtree` has the keys that are written. A duration is a number with its unit,
converted in two's complement as Go does, between `-MaxDuration - 1` and `MaxDuration`; a
value the YAML decoder refuses is `Bad`. `Reconfigure` is `handleLifecycle`: what is
accepted goes to the engine (whose `Reconfigure` is in `Engine`), what is refused changes
nothing.

## 3. The runs

| run | instance | checks |
|---|---|---|
| `Inputs` | 3 keys, resets 1..3, int ceiling 7; lists of up to 3 of 6 entries that share identities; 2 windows, up to 4 fields in all, 3 lengths, 3 instants; 11 keys, 2 written at once, durations up to 127 (8 bits) | `RankIsPriority`, `LaterLowersOnlyItself`; `LeavesForCause`, `NewNeverDefers`, `NoSharedFile`; `OnlyOfAWeek`, `WeekIsFound`, `DeadlineStands`; `EngineMayRunIt`, `LastsAsWritten` |
| `Lifecycle` | `Loading` with 2 calls, 1 task, 2 HTTP workers, 2 closers, 1 loader, limit 2 | `TypeOK`, `NoCallAfterClear`, `NothingRunsAfterClear`, `CountsAgree`, `KeepsPromise`, `NoneAfterShut` |
| `Shutdown` | 1 call, 2 tasks, 1 HTTP worker, 1 closer, fair | `ShutdownReturns` |
| `Deadlines` | 2 accounts, 1 slot, 1 worker, 1 refresh, to instant 1 | `DeadlineArmed`, `NoLostRetry`, `RanksCurrent`, `ConfirmedByNewRequest`, `SingleOwner` |
| `Health` | 1 account, 2 health changes, 3 faults, 1 refresh, to the reset at 2 | `PollArmedUnlessOvertaken`, `SaveFitsHealth`, `SentinelStands`, `Uncontested`, `PromotedBehindSentinel`, `NoSelfRecoveryUndisturbed`, `SentinelSavedOnce`, `LivesByTheRules` |
| `Mishaps` | 1 account; 2 reconfigurations among four, to 1, or 1 fault, 1 edit, 1 refresh, to 2 | `TypeOK`, `SaveAuthorized`, `CallAuthorized`, `EnabledRuns`, `DeadlineArmed`, `NoLostRetry` |
| `Progress` | 1 account, 2 workers, 2 slots, an interval of 2, 1 stop, to 2, fair | `SaveAuthorized`, `ExpiredLeaves`, `PassesEnd`, `NewestAnswerStands` |
| `DemotionRace`, `SaveRace`, `PollOrphan`, `UnknownSave`, `RelistRevival` | see section 4 | one statement each, violated |

`Inputs` is a sum: its behaviors are those of each of the four parts alone, chosen by
`part`; the parts share no state and no properties. `Mishaps` has a constraint,
`ReconfiguresOrSuffers`: states in which the operator has reconfigured are explored only
while nothing else went wrong and up to instant 1. The combinations it cuts are not covered
by that run, but all it checks is proved without the constraint (section 5).

**Why the bounds are enough.** Each hazard needs one or two of each actor: one pass, one
callback and one deadline for the deadline races; a second account for a rank that depends
on another's record; two callbacks and two slots for requests of one account that overlap
(`Progress`, where the interval of 2 brings a full pass in between); a second closer for
`shutdownOnce`; two HTTP workers and a limit of two for saturation. The int ceiling of 7
with steps and floors up to 7 makes the sums overflow at the second account. Instant 1 is
the deadline of the first window, instant 2 the one after it at which a re-armed poll or
retry fires (in `Health` the window ends at 2, so that recovery races its end); the last
rung of the ladder (9) and, but for `Progress`, the interval (9) lie beyond the horizon, so
"a retry lies ahead" is not true merely because time ended. A list of three lets one entry
share with each of two others what these do not share; a contradiction takes two
declarations and a reset in one window, and a fourth field to mislead from the other; 12
seconds fit into eight bits of ticks, 13 do not, and 26 wrap round to a short positive
duration; and a pair of keys is enough for a sentinel over a floor. The three lengths, each possible
in either unit, are a week in seconds, a week in minutes and five hours in minutes, so that
the week in the wrong unit is among the answers. Every property is broken by a mutation of
the code's model in the same instance.

**What the bounds do not reach.** `Health` has no reconfiguration, so no configuration is
ever overtaken there: that `PollArmedUnlessOvertaken` holds beside reconfigurations rests
on its theorem, and `PollOrphan` shows the case it excepts. In the runs with one account a
write plan has one item: that a refused item does not keep the rest of its plan from being
written rests on the theorems about the files (`ItemFate` in section 5), which cover plans
of any length as long as nothing fails. `Progress` has a slot to spare, and no fetch there
goes round, so `PassesEnd` says nothing of a fetch that flushes with its slot in hand: if it
took a slot afresh when it comes back, the deadlock check of `Deadlines`, with one slot,
would find it.

**Deadlock** is checked in every run. The engine stutters (`Asleep`) only when time
has reached the horizon and nothing runs or is about to; the plugin (`Unloaded`) only
when every shutdown has returned. Any other state without a successor is an error.

**Fairness.** `FairSpec` of the engine: weakly fair threads, callbacks, ticks and barriers,
that is, goroutines are scheduled, Go's mutexes do not starve, the host's callbacks return,
and provider requests have timeouts. Nothing is assumed of reconfigurations, stops,
refreshes or the host. `FairSpec` of the lifecycle: weak fairness for callbacks' returns,
HTTP workers and calls; strong fairness where a step waits for a mutex that others keep
taking (`WriteEnd`, `StopCall`, `CloserStep`) or where a goroutine's finite loop is
abstracted to one that may repeat (`TaskEnds`, `RefreshEnds`). Nothing makes a timer fire.
That callbacks return is a real assumption: the repository's README.md:192 names the unload
that never ends as a known limit.

## 4. Where the code and its documentation disagree

Each of these is a run that TLC must find violated; `PROJECT.json` quotes the lines.

1. `DemotionRace`. README.md:57-62 promises that a demotion is written before provider
   traffic for it. This holds within one goroutine. A pass's fetcher that finds an
   account already demoted by a deadline callback is admitted while the callback
   is still writing.
2. `SaveRace`. writeback.go:88-90 says that a change landing during a save converges
   through the newer pass's own write. The newer plan compares the cached priority,
   which is behind while the save is in flight; it may plan nothing, and the older
   priority then stays in the file until the next full pass.
3. `PollOrphan`. engine.go:51-60 says that the health poll runs while an account is
   quarantined or recovering, so that CPA's own recovery is noticed within a minute. A
   poll that fires while a disabled configuration is published, but its
   `stopDisabledGeneration` still waits for `writeMu`, returns at engine.go:1391 without
   clearing `healthPollTimer`. If an enabled configuration comes before `writeMu` is free,
   nobody clears the field, and `scheduleHealthPollLocked` takes the fired timer for an
   armed one: the account waits for the next full pass.
4. `UnknownSave`. README.md:49 says that the active record rebuilt by the plugin's own
   save is not taken for recovery. After a save that took effect but answered an error
   it is.
5. `RelistRevival`. engine.go:788-790 says that obsolete work in flight fails closed. What
   it is checked against is in the record: a pass that finds the credential gone
   deletes it, a later pass makes it again from zero, and an attempt of the first record
   still out is accepted by the second, whose health and reset it may set.

The passing runs check the strongest form that holds:

- `PollArmedUnlessOvertaken`: unless a configuration was enabled over the disabling of an
  older one;
- `SingleOwner`, `ConfirmedByNewRequest`, `NewestAnswerStands`: of accounts whose record
  was never deleted (`forgotten`), because a record made again counts from zero;
- `Uncontested` and `SentinelStands`, in place of `Converged`: until a callback fails or an
  operator edits a file (`Undisturbed`), of the accounts that are demoted or alone with
  their provider. Two healthy accounts of one provider exchange ranks, which is all that
  `SaveRace` needs; a list read before such an exchange and applied after it has the same
  effect. `SentinelStands` leaves out the time between finding an account unhealthy and the
  end of that pass's writes (`Applying`), and a published configuration that no pass has
  taken up (`Unapplied`);
- `NoSelfRecoveryUndisturbed`: the same, and under the first configuration while it may
  write. A dry run or a stop between a quarantine and its sentinel's save leaves the account
  without the time of a save, and the record that an older save rebuilt then counts;
- `PromotedBehindSentinel` and `SentinelSavedOnce`: of an operator's edits only that they
  may have taken the sentinel away;
- `PromotedBehindSentinel`: with one sentinel for all configurations. With two, an account
  remains ready by the old one until the next pass compares.

`LivesByTheRules` holds of all of it: even a revived attempt cannot rank a
credential by a reset that has passed or skip its recovery.

## 5. The proofs

Everything listed under "theorems" holds for every value of the constants that
the modules' ASSUMEs allow. Those say: finite sets of goroutines with distinct
names, a positive capacity, accounts numbered and finite, valid configurations
(sentinel below floor, positive step, as `config.validate` enforces), bounds
that are numbers, inputs of their kinds (integers to rank, YAML values of each key's type,
numbers in a window's fields), and places of an answer each listed once. TLC evaluates
each of them in the runs. Some theorems have a hypothesis of their own, `LongRung`,
`OneSentinel` or `ZeroSentinel`, given where they are explained; the runs' instances
satisfy them.

**The shutdown** (`LifecycleProofs`). No safety property of
section 3 is inductive. The invariant `IInv` says of each closer what its place
implies: behind `CloseBridge` the gate is closed; behind `DispatchesDone` dispatch
is closed and empty; behind `CloseWork` the engine reserves nothing more; behind
`WorkDone` it has no work; at the end the bridge is drained. Each wait's result stays
true because the gate in front of it was closed before the wait, and no operation
passes a closed gate. `OnceRuns` carries this to a second closer, and `Departed` ties the
callback table to the return of a shutdown. `BridgeInv` adds
that both counters equal the number of admitted goroutines, which needs that
a worker answers to one waiting caller at most (`OwnersWait`). Proved: `TypeOK`,
`NoCallAfterClear`, `NothingRunsAfterClear`, `CountsAgree`.

**The barriers** (the first part of `SaveProofs`). `SaveAuthorized` needs `Locked`: from the read of a
document to the end of its save a thread holds `writeMu`. Then the one item in hand is the
saver's own; `Publish` waits until nobody saves, and `Stop` and `DisableGeneration`, which
need `writeMu`, cannot run in between. `CallAuthorized` holds because an admission checks
the settings in force and `Publish` waits for calls; a stop may come in during a call, which
is why the property does not mention it.

**Ranking** (`InputProofs`). The comparator is a strict total order on entries with
distinct keys, so an earlier entry has strictly more followers, hence a higher
priority; priorities are distinct and within bounds.

**The loop of `Rank`** (`InputProofs`). Standings (how many sort behind) are injective on a
group, so they fill `0 .. N - 1`: there is exactly one sorted sequence, and an entry's place
in it is given by its standing. `LoopIsClosed` says that the loop's value at place `i` of `n` is
`floor + step * (n - i)` held at `MaxInt`; instead of an induction over places it
looks at a place where the two differ and no later one does, and finds that the loop's step
to it cannot have been taken. `RankIsPriorityHolds` therefore lets the engine's model use
the closed form. For `LaterLowersOnlyItself`, who sorts before whom changes only against the
account that moved: its followers become no more, and nobody else's fewer.

**Roster** (`InputProofs`). `RosterInv` says what the answers so far mean: they are those of
the first candidates in their order, the ambiguous ones and only those were skipped, and
while the pass goes on no answer about a managed account was doubtful. At the end every
candidate has its answer, and `LeavesForCause`, `NoSharedFile` and `NewNeverDefers` follow,
for lists of any length.

**Weekly window** (`InputProofs`). `WindowInv` gives every field a value of its kind.
`LengthsAreRead` and `ResetsAreRead` say what the fallbacks between spellings and units come
to: a length, or a reset, is read exactly when one that can be is declared, and then it is
one of those declared. The first candidate in the code's order exists because the places are
numbered. From these, `OnlyOfAWeek`; `WeekIsFound`; and `DeadlineStands`, because a window
that does not say a week (`MayBeAWeek`: in seconds if it has a readable length in seconds,
else in minutes) is chosen neither before nor after the change.

**Settings** (`InputProofs`). `SettingsInv` says that what is written has its key's type and
that the configuration in force is one the engine may run. Truncated division finds
every product of seconds that does not fit, so a duration that decodes comes out of the
conversion as it was written (`TicksAreWritten`), whatever the width. `EngineMayRunIt`
is what the engine's model assumes of a configuration (`ConfigsAreValid`).

**Types** (`EngineTypes`). Each operator of `Account` maps records
to records, and from there `TypeOK` is inductive. Two facts are not local to a
variable: a standing is a number because the roster is a subset of a finite set, and
`EarliestReset` denotes an instant because a finite set of numbers that is not empty
has a least one (its members' sets of smaller members are well-founded by inclusion).

**What is saved** (`SaveProofs`, over `EngineTypes`). `SaveFitsHealth`
needs the whole life of an item: what `FlushPlan` puts in a plan fits the health it was
ranked for (`DesiredFits`), and stays so unless a later configuration is published, which
makes the item stale (`PlansSound`); the item in hand came from a plan (`ItemSound`); the
last admission compares its health with the account's (`SavesKnown`); and during a save no
step changes a health or removes an account, because the three that may, `ApplyAnswer`,
`PassPrune` and `PassRoster`, wait for `writeMu` (`HealthStep`). `SaveAuthorized` says that
the item being saved is not stale.

**Behind the sentinel** (`SaveProofs`). `BInv` says that whenever a recovering record
has its sentinel confirmed (`sentinelReady`), the sentinel stands in the file, or nothing
does and the operator has been at the files; and that what an item found at its read still
stands there when its save is admitted, because `writeMu` keeps everybody else out. A save
that lands while an account recovers is the sentinel's, by the invariant of
`SaveFitsHealth`; a listing confirms nothing, it can only withdraw. Only `ApplyAnswer`
promotes, and only past `MayConfirm`. `PromotedBehindSentinel` follows under `OneSentinel`:
all configurations have the same sentinel. `Behind` holds of a quarantined record with
the time of a sentinel's save, too, so a further item for it finds the sentinel at its read
and is not saved (`SentinelSavedOnce`): otherwise the time would move on with every flush,
and with it the evidence that a repair must show.

**Quiet states** (`QuietProofs`). `DeadlineArmed`, `RanksCurrent`, `NoLostRetry`,
`PollArmedUnlessOvertaken` and `EnabledRuns` speak of an engine at rest; at any other
moment what they promise is somebody's debt. The invariants name the debtors.

- `Posts` says where each goroutine may be and what its flush returns to.
- `Owed`: the ranks are those of the records, or a flush lies ahead (`FlushAhead`: a pass is
  requested, or a goroutine is at a flush or has one to come), or an account has expired;
  and the timer stands at the earliest reset with nobody expired, or somebody is between
  his flush and setting it, or its callback has started, or a flush lies ahead.
- `Watch`: while an account is unhealthy the poll is armed, or a pass is requested or under
  way, or a probe is; a poll that is armed lies ahead or its callback has started; the
  next pass is armed, requested or under way; and what stopped an enabled
  engine is a `Stop`. `admin.overtaken` is what separates the second of these from
  `PollOrphan`.
- `Mend` and `AwaitingOwed`: a claim is of the pass's reservations, and the pass will flush;
  a wish for retries left by a demotion has a flush ahead, one left by a recovery a pass's
  tail; and every account that needs an answer has a rung ahead, such a wish, or its retry
  in the hands of a flush that has collected it, or is about to leave. The ladder is
  finite, so `NoLostRetryHolds` assumes `LongRung`: some rung is longer than `Horizon`.

**The files** (`FileProofs`). A cached priority is not what the file holds: a list is applied
long after it was read, and a save is noted after it has taken effect. `ZeroSentinel` says
that every configuration has the default sentinel, 0 (`config.go`), which a list does not
tell from a missing priority, so that a list never makes the cache say 0. With another
sentinel it does, and a rank saved between the list and its application is then left in the
file of a quarantined account until the next pass: `SentinelStands` is false there. The
invariants (`Files`) say how far the cache may be trusted and who is about to write what
it cannot be trusted about, while nothing meddles:

- `FoundStands`: from its read to the end of its save a file holds what was read;
- `ZeroKnown`: where the cache says 0 the file has 0;
- `SentinelComes`: an account that is not healthy has the sentinel in its file, or the pass is
  going to write it (`Coming`): it is still to flush, or has the item in its plan, which it
  keeps until the item is saved or found written (`ItemFate`). An answer may overtake
  the item only by making the account healthy;
- `EntriesStand`, `FloorKnown`: what a list shows of an account alone with its provider still
  holds when it is applied, if it is the floor: only the sentinel could replace it, and
  nobody is found unhealthy between the list and its roster;
- `FloorComes`: such an account has the floor in its file, or a flush lies ahead
  (`FlushAhead`, of the quiet states), or somebody has the item in his plan.

They are stated while no configuration waits to be taken up (`Told`); a pass that takes one
up owes everything again (`Unread`). `SentinelStandsHolds` follows, and `UncontestedHolds`
together with `RanksCurrentHolds`, because at rest nobody has a debt.

**No self-recovery** (`FileProofs`). A list that shows a good record of the plugin's making,
newer than the sentinel's save that is known, would let an account out of quarantine.
`ListShowsNoRepair` excludes it from the list to the roster, and rests on a chain. At the
list the file of a quarantined account has the sentinel (`SentinelComes`). But a record that
was rebuilt at an unknown time was rebuilt by the save of a rank (`RebuiltByRank`), because
the sentinel's save is noted with its time in the critical section that takes
its answer. That in turn needs that an account is never quarantined, on a list
that is out of date, after a sentinel has been saved over it: such a sentinel belongs to a recovering account, whose
file has the sentinel already (`RecoversBehind`), and what is found written is not saved
(`FailureStands`).

**Attempts** (`AttemptProofs`). `Ordered` says that callbacks and attempts carry numbers the
record had when they began, and that the record's only grow. A claim cancels the ladder, so
a rung that fired before it cannot match (`SingleOwner`). A demotion begins an epoch, so an
answer of this epoch is to a request begun after the window's end
(`ConfirmedByNewRequest`). A start takes a new number and a weekly answer remembers its own,
so an older attempt that ends later is refused (`NewestAnswerStands`). All three are about
accounts whose record was never deleted: `RelistRevival` shows why.

**The two refinements.** `KeepsPromiseHolds` (`LifecycleProofs`) maps the initial states and
then each step: the steps of the plugin, of the bridge and of a closer are a step of
`Residence` or a stutter. The invariant of the shutdown is what makes them so: a
reservation is made, or a worker started, only by someone who is inside, and `ClearHost`
finds everybody gone because all the gates were closed before the waits.
The invariant never says that the table stays away, so it survives `StoreHost`:
`LoadingInvariance`, `LoadingKeepsPromise` and `NoneAfterShutHolds` are about `LoadingSpec`.
`LivesByTheRulesHolds` (`CredentialProofs`) needs little beyond `TypeOK`, because
the code revalidates in the critical section that writes: only that an account outside the
roster has the record of one never met (`Forgotten`). Two records are `Alike` when
they tell the same life, and `Moves` lists the pairs a step may take one to; each operator
of `Account` is shown to stay alike or to move, a record forgotten to look like a
credential never met, and a step that touches several accounts (`PassPrune`,
`PassRoster`, `FlushPlan`) or the clock to be a legal step for all at once.

**Only model-checked.** Liveness under fairness (`ShutdownReturns`, `ExpiredLeaves`,
`PassesEnd`) is out of the prover's reach. Every other property of a passing run is a
theorem.

## 6. What is not modelled

- Parsing that keeps no state and decides nothing above: the text of timestamps and of
  YAML, Claude's single field, where a credential's token and account id are found, the
  auth document's other fields, and the C buffers.
- `quarantineReasonFor`'s wording rules: one bit of the host's record.
- The runtime's routing, schema negotiation and the checks of the refresh request.
- The status snapshot and the pages: copies for a reader that feed nothing back.
- Sanitizer, clock wrapper, packaging, tools and scripts.

## 7. The plan

Done, in this order: ranking; account records; writeback; fetch; pass; callbacks and
reconfiguration; bridge; lifecycle; the abstract specifications and their refinements;
loading; roster; weekly window; settings; and the proofs of section 5: the shutdown, the
barriers, types, what is saved, the two refinements, the roster, the quiet states,
attempts, the sentinel, the loop of `Rank`, the weekly window and settings, the files and
recovery.

What would add most next:

1. What `SentinelStands` and `PromotedBehindSentinel` become with a sentinel that is not
   zero or that changes, and `NoSelfRecoveryUndisturbed` across configurations that
   may all write.
2. How long the file of a contested account may be behind: to the end of the next
   undisturbed pass, as a property with its proof.
3. Instances with two providers.
4. The precedence of quarantine wordings.
