---------------------------- MODULE QuietProofs ----------------------------
(***************************************************************************)
(* What holds whenever the engine is asleep, for any accounts,             *)
(* configurations, bounds and schedules: the ranks, the deadline timer,    *)
(* the retries, the health poll and the next pass are as the records need  *)
(* them.  None of it holds while something runs, so the invariant says     *)
(* what whoever runs still owes: a flush is ahead, one is under way, a     *)
(* timer's callback has started, a full pass is requested.                 *)
(***************************************************************************)
EXTENDS CredentialProofs

Requesting == {"fetch", "reading", "calling", "apply"}

----------------------------------------------------------------------------
\* Where the goroutines may be.

\* What a thread's flush may return to, and the places it has outside flushes.
ReturnsOf(t) ==
  IF t = Pass THEN {"list", "fetching", "tail"}
  ELSE IF t \in Fetchers THEN {"fetch"}
  ELSE {"idle", "recheck", "fetch"}

PlacesOf(t) ==
  IF t = Pass
  THEN {"idle", "prune", "list", "roster", "defer", "fetching", "waiting", "tail"}
  ELSE IF t \in Fetchers THEN {"idle"} \cup Requesting
  ELSE {"idle", "recheck", "probe"} \cup Requesting

\* A flush that collects no retries is one that its thread follows with another,
\* and what a flush has collected it hands over before it returns.
Placed(t, at, f) ==
  IF at \in Flushing
  THEN /\ f.ret \in ReturnsOf(t)
       /\ f.mode = "none" <=> f.ret \in {"list", "fetching", "fetch"}
  ELSE at \in PlacesOf(t) /\ f.retries = {}

\* A fetcher works only while the pass waits for it.
Posts ==
  /\ \A t \in Threads : Placed(t, pc[t], frame[t])
  /\ \A t \in Fetchers : pc[t] # "idle" => pc[Pass] = "waiting"

----------------------------------------------------------------------------
\* What is owed.

\* A thread has a flush ahead of the one it is in; a fetcher's is the pass's.
Follows(t) ==
  \/ pc[t] \in {"prune", "list", "roster", "defer", "fetching", "waiting"}
  \/ t \notin Fetchers /\ pc[t] \in Requesting
  \/ t \notin Fetchers /\ pc[t] \in Flushing /\ frame[t].ret \in {"list", "fetching", "fetch"}

Ahead(t) == pc[t] = "flush" \/ Follows(t)

\* Somebody is going to rank, collect and write.
FlushAhead == passes > 0 \/ \E t \in Threads : Ahead(t)

Writing == \E t \in Threads : pc[t] \in Flushing \ {"flush"}

DeadlineDue == DeadlineJob(deadline.seq) \in pending

SomeExpired == \E a \in roster : Expired(acct[a], now)

\* The ranks are those of the records, or somebody is going to rank.
RanksOwed ==
  ~stopped =>
    \/ \A a \in roster : acct[a].desired = DesiredPriority(acct, a)
    \/ SomeExpired
    \/ FlushAhead

\* The timer stands at the earliest reset, or somebody is going to set it.
DeadlineOwed ==
  ~stopped =>
    \/ deadline.at = EarliestReset(acct) /\ ~SomeExpired
    \/ Writing
    \/ DeadlineDue
    \/ FlushAhead

\* A retry that is wanted after a demotion will be collected.
AwaitingOwed ==
  ~stopped => FlushAhead \/ \A a \in roster : ~acct[a].wantAwaiting

\* What a pass has claimed it gives back.
Claims ==
  /\ \A a \in Accounts : acct[a].fetchPending => a \in pass.reserved
  /\ pass.reserved = {} \/ Follows(Pass)

\* A retry that is wanted after a recovery will be armed by a pass's tail.
RecoveryOwed ==
  ~stopped =>
    passes > 0 \/ pc[Pass] # "idle" \/ \A a \in roster : ~acct[a].wantRetry

\* An account a pass owns keeps its wish to be retried.
KeepsIntent(r) == r.fetchPending /\ r.reset = "awaiting" => r.wantAwaiting

\* A ladder that is armed at all has a rung beyond the last instant.
Reaches(r) == r.ladder = {} \/ \E d \in r.ladder : d > Horizon

RecordsSane == \A a \in Accounts : KeepsIntent(acct[a]) /\ Reaches(acct[a])

\* An account opted out goes before anything else is done.
OptOutsLeave ==
  ~stopped => \A a \in roster : Manages(cfg, a) \/ passes > 0 \/ pc[Pass] = "prune"

\* The record says itself how its retries come about.
Provided(r) ==
  IF r.reset = "awaiting" THEN r.wantAwaiting \/ r.ladder # {}
  ELSE r.health = "recovering" => r.wantRetry \/ r.ladder # {}

\* A flush has collected the retry that the record still wants.
Held(a) ==
  \E t \in Threads : \E r \in frame[t].retries :
    r.acct = a /\ r.epoch = acct[a].epoch /\ r.retrySeq = acct[a].retrySeq

Cared(a) ==
  \/ acct[a].health = "quarantined"
  \/ Provided(acct[a])
  \/ acct[a].reset = "awaiting" /\ Held(a)

RetriesOwed ==
  ~stopped => \A a \in roster :
    \/ Cared(a)
    \/ passes > 0
    \/ pc[Pass] = "prune" /\ ~Manages(cfg, a)

----------------------------------------------------------------------------
\* The health poll and the next pass.

\* While something is unhealthy the poll is armed, under way or about to be armed.
PollOwed ==
  ~stopped /\ Unhealthy(acct) =>
    \/ poll.at # NoTime
    \/ passes > 0
    \/ pc[Pass] # "idle"
    \/ \E w \in Workers : pc[w] = "probe" /\ job[w].seq = poll.seq

\* A poll that is armed lies ahead, or its callback has started.
PollStanding ==
  ~stopped /\ ~admin.overtaken =>
    poll.at = NoTime \/ poll.at > now \/ PollJob(poll.seq) \in pending

\* The engine is stopped and its timers are, or will be by the Reconfigure that
\* published the configuration in force.
StopsOwed ==
  /\ \A g \in admin.disabling : g <= configSeq
  /\ configSeq \in admin.disabling => ~cfg.enabled
  /\ stopped /\ ~admin.overtaken => poll.at = NoTime \/ configSeq \in admin.disabling

NextPassOwed ==
  ~stopped => passes > 0 \/ pc[Pass] # "idle" \/ nextPass > now

StopsForCause ==
  /\ budget.stop <= Budget.stop
  /\ stopped /\ cfg.enabled => budget.stop < Budget.stop
----------------------------------------------------------------------------
\* Goroutines keep to their places.

\* The threads are distinct.
LEMMA ThreadKinds ==
  /\ Pass \in Threads /\ Pass \notin Fetchers /\ Pass \notin Workers
  /\ Fetchers \subseteq Threads /\ Workers \subseteq Threads
  /\ \A t \in Fetchers : t \notin Workers
  BY DEF Threads, Pass, Fetchers, Fetcher, Workers, Worker

\* One thread goes to another of its places.
LEMMA OneMoves ==
  ASSUME TypeOK, Posts, NEW t \in Threads,
         \A u \in Threads \ {t} : pc'[u] = pc[u] /\ frame'[u] = frame[u],
         Placed(t, pc'[t], frame'[t]),
         t \in Fetchers => pc[t] # "idle",
         t = Pass => pc[Pass] # "waiting" \/ \A u \in Fetchers : pc[u] = "idle"
  PROVE  Posts'
<1>1. \A u \in Threads : Placed(u, pc'[u], frame'[u])
  BY DEF Posts
<1>2. ASSUME NEW u \in Fetchers, pc'[u] # "idle"
      PROVE  pc'[Pass] = "waiting"
  BY <1>2, ThreadKinds DEF Posts
<1> QED
  BY <1>1, <1>2 DEF Posts, Placed

\* Threads that stay are where they were.
LEMMA NoneMoves ==
  ASSUME Posts, UNCHANGED <<pc, frame>>
  PROVE  Posts'
  BY DEF Posts, Placed

\* A flush that is called is in its place if its mode fits where it returns.
LEMMA CalledPlaced ==
  ASSUME TypeOK, NEW t \in Threads, NEW mode, NEW ret \in ReturnsOf(t),
         mode = "none" <=> ret \in {"list", "fetching", "fetch"},
         CallFlush(t, mode, ret)
  PROVE  /\ \A u \in Threads \ {t} : pc'[u] = pc[u] /\ frame'[u] = frame[u]
         /\ pc'[t] = "flush" /\ Placed(t, pc'[t], frame'[t])
         /\ frame'[t].ret = ret /\ frame'[t].mode = mode /\ frame'[t].retries = {}
  BY DEF CallFlush, NoFrame, Placed, Flushing, TypeOK

\* So is a flush that returns.
LEMMA ReturnPlaced ==
  ASSUME TypeOK, Posts, NEW t \in Threads, pc[t] \in Flushing, Return(t)
  PROVE  /\ \A u \in Threads \ {t} : pc'[u] = pc[u] /\ frame'[u] = frame[u]
         /\ pc'[t] = frame[t].ret /\ Placed(t, pc'[t], frame'[t])
<1>1. pc'[t] = frame[t].ret /\ frame'[t] = NoFrame
  BY DEF Return, TypeOK
<1>2. frame[t].ret \in ReturnsOf(t)
  BY DEF Posts, Placed
<1>3. frame[t].ret \in PlacesOf(t) \ Flushing
  BY <1>2 DEF ReturnsOf, PlacesOf, Flushing, Requesting
<1> QED
  BY <1>1, <1>3 DEF Return, TypeOK, NoFrame, Placed

\* And one that goes on, with the same frame but for its plan.
LEMMA NextItemPlaced ==
  ASSUME TypeOK, Posts, NEW t \in Threads, NEW i, pc[t] \in Flushing, NextItem(t, i)
  PROVE  /\ \A u \in Threads \ {t} : pc'[u] = pc[u] /\ frame'[u] = frame[u]
         /\ pc'[t] \in {"write", "arm"} /\ Placed(t, pc'[t], frame'[t])
         /\ frame'[t].ret = frame[t].ret /\ frame'[t].retries = frame[t].retries
<1>1. /\ frame'[t].ret = frame[t].ret /\ frame'[t].retries = frame[t].retries
      /\ frame'[t].mode = frame[t].mode
  BY DEF NextItem, TypeOK, Frames
<1>2. pc'[t] \in {"write", "arm"}
  BY DEF NextItem, TypeOK
<1> QED
  BY <1>1, <1>2 DEF NextItem, TypeOK, Posts, Placed, Flushing

\* Every step of a flush.
LEMMA FlushStepPosts ==
  ASSUME TypeOK, Posts, NEW t \in Threads, FlushStep(t)
  PROVE  Posts'
<1>1. pc[t] \in Flushing
  BY DEF FlushStep, FlushStopped, FlushPlan, FlushAgain, FlushArm, WriteSkip, WriteRead,
         WriteReadFails, WriteNoOp, WriteRefused, WriteAdmit, WriteSaved, WriteSaveFails,
         Flushing
<1>2. pc[t] # "idle" /\ (t = Pass => pc[Pass] # "waiting")
  BY <1>1 DEF Flushing
<1>3. CASE FlushStopped(t) \/ FlushArm(t)
  BY <1>1, <1>2, <1>3, ReturnPlaced, OneMoves DEF FlushStopped, FlushArm
<1>4. CASE FlushPlan(t)
  <2>1. frame'[t].ret = frame[t].ret /\ frame'[t].mode = frame[t].mode
    <3>1. PICK p, r, d : frame' = [frame EXCEPT ![t].plan = p, ![t].retries = r, ![t].demoted = d]
      BY <1>4 DEF FlushPlan
    <3> QED
      BY <3>1 DEF TypeOK, Frames
  <2>2. pc'[t] \in {"write", "arm"}
    BY <1>4 DEF FlushPlan, TypeOK
  <2>3. Placed(t, pc'[t], frame'[t])
    BY <1>1, <2>1, <2>2 DEF Posts, Placed, Flushing
  <2>4. \A u \in Threads \ {t} : pc'[u] = pc[u] /\ frame'[u] = frame[u]
    BY <1>4 DEF FlushPlan, TypeOK
  <2> QED
    BY <1>2, <2>3, <2>4, OneMoves
<1>5. CASE FlushAgain(t) \/ WriteRead(t) \/ WriteAdmit(t)
  <2>1. pc'[t] \in Flushing /\ frame'[t] = frame[t]
    BY <1>5 DEF FlushAgain, WriteRead, WriteAdmit, TypeOK, Flushing
  <2>2. \A u \in Threads \ {t} : pc'[u] = pc[u] /\ frame'[u] = frame[u]
    BY <1>5 DEF FlushAgain, WriteRead, WriteAdmit, TypeOK
  <2> QED
    BY <1>1, <1>2, <2>1, <2>2, OneMoves DEF Posts, Placed
<1>6. CASE \/ WriteSkip(t) \/ WriteReadFails(t) \/ WriteNoOp(t) \/ WriteRefused(t)
           \/ WriteSaved(t) \/ WriteSaveFails(t)
  <2>1. \E i : NextItem(t, i)
    BY <1>6 DEF WriteSkip, WriteReadFails, WriteNoOp, WriteRefused, WriteSaved, WriteSaveFails
  <2> QED
    BY <1>1, <1>2, <2>1, NextItemPlaced, OneMoves
<1> QED
  BY <1>3, <1>4, <1>5, <1>6 DEF FlushStep

\* A fetch ends, or flushes on its way back to the loop's top.
LEMMA FetchPlaced ==
  ASSUME TypeOK, Posts, NEW t \in Threads, t # Pass, pc[t] \notin Flushing,
         EndFetch(t) \/ FlushAndRetry(t)
  PROVE  /\ \A u \in Threads \ {t} : pc'[u] = pc[u] /\ frame'[u] = frame[u]
         /\ Placed(t, pc'[t], frame'[t]) /\ frame'[t].retries = {}
         /\ t \notin Fetchers => pc'[t] = "flush"
<1>1. CASE t \in Fetchers /\ EndFetch(t)
  BY <1>1 DEF EndFetch, OwnedByPass, Posts, Placed, PlacesOf, Flushing, TypeOK
<1>2. CASE t \notin Fetchers /\ EndFetch(t)
  <2>1. CallFlush(t, "delayed", "idle") /\ "idle" \in ReturnsOf(t)
    BY <1>2 DEF EndFetch, OwnedByPass, ReturnsOf
  <2> QED
    BY <2>1, CalledPlaced
<1>3. CASE FlushAndRetry(t)
  <2>1. CallFlush(t, "none", "fetch") /\ "fetch" \in ReturnsOf(t)
    BY <1>3 DEF FlushAndRetry, ReturnsOf
  <2> QED
    BY <2>1, CalledPlaced
<1> QED
  BY <1>1, <1>2, <1>3

\* Who fetches, and from where.
LEMMA FetchFrom ==
  ASSUME TypeOK, Posts, NEW t \in Threads, FetchStep(t)
  PROVE  t # Pass /\ pc[t] \in Requesting
<1>1. pc[t] \in Requesting
  BY DEF FetchStep, FetchQuit, FetchExpired, FetchStart, AdmitRestart, AdmitRefused,
         AdmitExpired, AdmitCall, CallReturns, ReadFails, ApplyError, ApplyAnswer, Requesting
<1> QED
  BY <1>1 DEF Posts, Placed, PlacesOf, Requesting, Flushing

\* A fetch ends, flushes, or goes on to a place of its own.
LEMMA FetchGoes ==
  ASSUME NEW t \in Threads, FetchStep(t), TypeOK
  PROVE  \/ EndFetch(t) \/ FlushAndRetry(t)
         \/ /\ pc'[t] \in Requesting /\ UNCHANGED frame
            /\ \A u \in Threads \ {t} : pc'[u] = pc[u]
<1>1. CASE FetchStart(t) \/ AdmitCall(t) \/ CallReturns(t)
  BY <1>1 DEF FetchStart, AdmitCall, CallReturns, Requesting, TypeOK
<1>2. CASE ~(FetchStart(t) \/ AdmitCall(t) \/ CallReturns(t))
  BY <1>2 DEF FetchStep, FetchQuit, FetchExpired, AdmitRestart, AdmitRefused,
              AdmitExpired, ReadFails, ApplyError, ApplyAnswer
<1> QED
  BY <1>1, <1>2

\* Every step of a fetch.
LEMMA FetchStepPosts ==
  ASSUME TypeOK, Posts, NEW t \in Threads, FetchStep(t)
  PROVE  Posts'
<1>1. t # Pass /\ pc[t] \in Requesting
  BY FetchFrom
<1>2. pc[t] \notin Flushing /\ pc[t] # "idle"
  BY <1>1 DEF Requesting, Flushing
<1>3. CASE EndFetch(t) \/ FlushAndRetry(t)
  BY <1>1, <1>2, <1>3, FetchPlaced, OneMoves
<1>4. CASE /\ pc'[t] \in Requesting /\ UNCHANGED frame
           /\ \A u \in Threads \ {t} : pc'[u] = pc[u]
  <2>1. Placed(t, pc'[t], frame'[t])
    BY <1>1, <1>2, <1>4 DEF Posts, Placed, PlacesOf, Requesting, Flushing
  <2> QED
    BY <1>1, <1>2, <1>4, <2>1, OneMoves
<1> QED
  BY <1>3, <1>4, FetchGoes

\* Every step of a pass.
LEMMA PassStepPosts ==
  ASSUME TypeOK, Posts, PassStep
  PROVE  Posts'
<1>1. CASE PassPrune \/ PassDefer \/ PassJoin \/ (PassRoster /\ pc'[Pass] = "flush")
  <2>1. \E mode \in Modes, ret \in ReturnsOf(Pass) :
          /\ CallFlush(Pass, mode, ret)
          /\ mode = "none" <=> ret \in {"list", "fetching", "fetch"}
    BY <1>1, ThreadKinds
    DEF PassPrune, PassDefer, PassJoin, PassRoster, ReturnsOf, Modes, TypeOK
  <2>2. pc[Pass] # "waiting" \/ \A u \in Fetchers : pc[u] = "idle"
    BY <1>1 DEF PassPrune, PassDefer, PassJoin, PassRoster
  <2> QED
    BY <2>1, <2>2, ThreadKinds, CalledPlaced, OneMoves
<1>2. CASE PassFetchAll
  <2>1. \A t \in Threads : Placed(t, pc'[t], frame'[t])
    <3> SUFFICES ASSUME NEW t \in Threads
                 PROVE  Placed(t, pc'[t], frame'[t])
      OBVIOUS
    <3>1. frame'[t] = frame[t]
      BY <1>2 DEF PassFetchAll
    <3>2. CASE t = Pass
      <4>1. pc'[t] = "waiting" /\ pc[t] \notin Flushing
        BY <1>2, <3>2 DEF PassFetchAll, Flushing
      <4> QED
        BY <3>1, <3>2, <4>1 DEF Posts, Placed, PlacesOf, Flushing
    <3>3. CASE t \in Fetchers
      <4>1. pc[t] = "idle"
        BY <1>2, <3>3, ThreadKinds DEF PassFetchAll, Posts
      <4>2. pc'[t] \in {"idle", "fetch"}
        BY <1>2, <3>3, <4>1, ThreadKinds DEF PassFetchAll
      <4> QED
        BY <3>1, <3>3, <4>1, <4>2, ThreadKinds
        DEF Posts, Placed, PlacesOf, Requesting, Flushing
    <3>4. CASE t # Pass /\ t \notin Fetchers
      BY <1>2, <3>1, <3>4 DEF PassFetchAll, Posts
    <3> QED
      BY <3>2, <3>3, <3>4
  <2>2. pc'[Pass] = "waiting"
    BY <1>2, ThreadKinds DEF PassFetchAll
  <2> QED
    BY <2>1, <2>2 DEF Posts
<1>3. CASE \/ PassBegin \/ PassList \/ PassListSkips \/ PassListFails \/ PassAbandon
           \/ PassTail \/ (PassRoster /\ pc'[Pass] # "flush")
  <2>1. /\ pc[Pass] \in PlacesOf(Pass) \ {"waiting"} /\ pc'[Pass] \in PlacesOf(Pass)
        /\ UNCHANGED frame /\ \A u \in Threads \ {Pass} : pc'[u] = pc[u]
    BY <1>3, ThreadKinds
    DEF PassBegin, PassList, PassListSkips, PassListFails, PassAbandon, PassTail,
        PassRoster, CallFlush, PlacesOf, TypeOK
  <2>2. Placed(Pass, pc'[Pass], frame'[Pass])
    BY <2>1, ThreadKinds DEF Posts, Placed, PlacesOf, Flushing
  <2> QED
    BY <2>1, <2>2, ThreadKinds, OneMoves
<1>4. CASE PassRefused
  BY <1>4, NoneMoves DEF PassRefused
<1> QED
  BY <1>1, <1>2, <1>3, <1>4 DEF PassStep

\* What the steps of a callback before it flushes or fetches do to its place.
LEMMA WorkerMoves ==
  ASSUME TypeOK, Posts, NEW w \in Workers, WorkerStep(w)
  PROVE  \/ UNCHANGED <<pc, frame>>
         \/ /\ RetryBegin(w) \/ DeadlineBegin(w)
            /\ pc[w] = "idle"
            /\ \E ret \in {"recheck", "idle"} : CallFlush(w, "immediate", ret)
         \/ /\ RetryRecheck(w) \/ PollBegin(w) \/ ProbeChanged(w) \/ PollEnd(w)
            /\ pc[w] \in {"recheck", "idle", "probe"}
            /\ pc'[w] \in {"fetch", "idle", "probe"}
            /\ \A u \in Threads \ {w} : pc'[u] = pc[u]
            /\ UNCHANGED frame
<1>1. CASE RetryBegin(w) \/ DeadlineBegin(w)
  BY <1>1 DEF RetryBegin, DeadlineBegin, Take
<1>2. CASE RetryRecheck(w)
  BY <1>2, ThreadKinds DEF RetryRecheck, TypeOK
<1>3. CASE PollBegin(w) \/ ProbeChanged(w) \/ PollEnd(w)
  BY <1>3, ThreadKinds DEF PollBegin, ProbeChanged, PollEnd, Take, TypeOK
<1>4. CASE RetryDropped(w) \/ DeadlineDropped(w) \/ PollDropped(w) \/ ProbeSame(w) \/ ProbeFails(w)
  BY <1>4 DEF RetryDropped, DeadlineDropped, PollDropped, ProbeSame, ProbeFails
<1> QED
  BY <1>1, <1>2, <1>3, <1>4 DEF WorkerStep

\* Every step of a callback.
LEMMA WorkerStepPosts ==
  ASSUME TypeOK, Posts, NEW w \in Workers, WorkerStep(w)
  PROVE  Posts'
<1>1. w \in Threads /\ w # Pass /\ w \notin Fetchers
  BY ThreadKinds
<1>2. CASE \E ret \in {"recheck", "idle"} : CallFlush(w, "immediate", ret)
  <2>1. {"recheck", "idle"} \subseteq ReturnsOf(w)
    BY <1>1 DEF ReturnsOf
  <2> QED
    BY <1>1, <1>2, <2>1, CalledPlaced, OneMoves
<1>3. CASE /\ pc[w] \in {"recheck", "idle", "probe"} /\ pc'[w] \in {"fetch", "idle", "probe"}
           /\ \A u \in Threads \ {w} : pc'[u] = pc[u]
           /\ UNCHANGED frame
  <2>1. Placed(w, pc'[w], frame'[w])
    BY <1>1, <1>3 DEF Posts, Placed, PlacesOf, Requesting, Flushing
  <2> QED
    BY <1>1, <1>3, <2>1, OneMoves
<1> QED
  BY <1>2, <1>3, WorkerMoves, NoneMoves

\* Nobody else moves a thread.
LEMMA OthersStay ==
  ASSUME Tick \/ AdminStep \/ HostStep \/ Asleep
  PROVE  UNCHANGED <<pc, frame>>
  BY DEF Tick, AdminStep, Reconfigure, Publish, DisableGeneration, Stop, Refresh,
         HostStep, Asleep, vars

\* Every step.
LEMMA NextPosts ==
  ASSUME TypeOK, Posts, [Next]_vars
  PROVE  Posts'
<1>1. CASE UNCHANGED vars
  BY <1>1, NoneMoves DEF vars
<1> QED
  BY <1>1, PassStepPosts, FlushStepPosts, FetchStepPosts, WorkerStepPosts, OthersStay,
     NoneMoves DEF Next, ThreadStep, CallbackStep

----------------------------------------------------------------------------
\* A flush that is ahead stays ahead until a thread enters it.

\* The records say the same of what the engine ranks by.
Still ==
  /\ UNCHANGED <<cfg, roster, now>>
  /\ \A a \in Accounts :
       /\ Alike(acct[a], acct'[a])
       /\ acct'[a].desired = acct[a].desired
       /\ acct'[a].wantAwaiting => acct[a].wantAwaiting

\* Nothing is done about the deadline.
TimerStill ==
  /\ UNCHANGED deadline
  /\ Writing => Writing'
  /\ DeadlineDue => DeadlineDue'

\* A step that leaves to be flushed what was, and leaves alone what is flushed.
Ordinary ==
  /\ FlushAhead => FlushAhead'
  /\ FlushAhead' \/ (Still /\ TimerStill)

\* The records are not touched.
LEMMA SameStill ==
  ASSUME UNCHANGED <<cfg, roster, now, acct>>
  PROVE  Still
  BY DEF Still, Alike

\* One thread goes on, and leaves a flush ahead if it had one.
LEMMA OneAhead ==
  ASSUME NEW t \in Threads, passes' >= passes, passes \in Nat, passes' \in Nat,
         \A u \in Threads \ {t} : pc'[u] = pc[u] /\ frame'[u] = frame[u],
         Ahead(t) => FlushAhead'
  PROVE  FlushAhead => FlushAhead'
  BY DEF FlushAhead, Ahead, Follows

\* So it does when nobody moves.
LEMMA NoneAhead ==
  ASSUME UNCHANGED <<pc, frame>>, passes' >= passes, passes \in Nat, passes' \in Nat
  PROVE  FlushAhead => FlushAhead'
  BY DEF FlushAhead, Ahead, Follows

\* What a flush does to the priority it knows changes nothing it ranks by.
LEMMA NotedStill ==
  ASSUME TypeOK, UNCHANGED <<cfg, roster, now>>, NEW i, NEW saved \in BOOLEAN,
         acct' = Noted(i, saved) \/ UNCHANGED acct
  PROVE  Still
<1>1. CASE acct' = Noted(i, saved) /\ i.acct \in roster
  <2> DEFINE r == acct[i.acct]
             s == AfterWrite(r, i.desired, saved, cfg.sentinel, now)
  <2>1. r \in Record /\ i.acct \in Accounts
    BY <1>1 DEF TypeOK
  <2>2. Alike(r, s)
    BY <2>1, BookkeepingAlike
  <2>3. s.desired = r.desired /\ s.wantAwaiting = r.wantAwaiting
    BY <2>1 DEF AfterWrite, Record
  <2>4. acct' = [acct EXCEPT ![i.acct] = s]
    BY <1>1 DEF Noted
  <2> HIDE DEF s
  <2>5. \A a \in Accounts : acct'[a] = IF a = i.acct THEN s ELSE acct[a]
    BY <2>4 DEF TypeOK
  <2> QED
    BY <2>2, <2>3, <2>5 DEF Still, Alike
<1>2. CASE UNCHANGED acct \/ (acct' = Noted(i, saved) /\ i.acct \notin roster)
  BY <1>2, SameStill DEF Noted
<1> QED
  BY <1>1, <1>2

\* The writes of a flush.
LEMMA WriteOrdinary ==
  ASSUME TypeOK, Posts, NEW t \in Threads,
         \/ WriteSkip(t) \/ WriteRead(t) \/ WriteReadFails(t) \/ WriteNoOp(t)
         \/ WriteRefused(t) \/ WriteAdmit(t) \/ WriteSaved(t) \/ WriteSaveFails(t)
  PROVE  Ordinary
<1>1. pc[t] \in Flushing \ {"flush"}
  BY DEF WriteSkip, WriteRead, WriteReadFails, WriteNoOp, WriteRefused, WriteAdmit,
         WriteSaved, WriteSaveFails, Flushing
<1>2. /\ \A u \in Threads \ {t} : pc'[u] = pc[u] /\ frame'[u] = frame[u]
      /\ pc'[t] \in Flushing \ {"flush"} /\ frame'[t].ret = frame[t].ret
  <2>1. CASE WriteRead(t) \/ WriteAdmit(t)
    BY <2>1 DEF WriteRead, WriteAdmit, TypeOK, Flushing
  <2>2. CASE ~(WriteRead(t) \/ WriteAdmit(t))
    <3>1. \E i : NextItem(t, i)
      BY <2>2 DEF WriteSkip, WriteReadFails, WriteNoOp, WriteRefused, WriteSaved, WriteSaveFails
    <3> QED
      BY <1>1, <3>1, NextItemPlaced DEF Flushing
  <2> QED
    BY <2>1, <2>2
<1>3. UNCHANGED <<cfg, roster, now, deadline, pending, passes>>
  BY DEF WriteSkip, WriteRead, WriteReadFails, WriteNoOp, WriteRefused, WriteAdmit,
         WriteSaved, WriteSaveFails, settings, world
<1>4. UNCHANGED acct \/ \E saved \in BOOLEAN : acct' = Noted(item, saved)
  BY DEF WriteSkip, WriteRead, WriteReadFails, WriteNoOp, WriteRefused, WriteAdmit,
         WriteSaved, WriteSaveFails
<1>5. Still
  BY <1>3, <1>4, NotedStill
<1>6. TimerStill
  BY <1>2, <1>3 DEF TimerStill, Writing, DeadlineDue
<1>7. Ahead(t) => Ahead(t)'
  BY <1>1, <1>2 DEF Ahead, Follows, Flushing, Requesting
<1>8. FlushAhead => FlushAhead'
  BY <1>2, <1>3, <1>7, OneAhead DEF TypeOK, FlushAhead
<1> QED
  BY <1>5, <1>6, <1>8 DEF Ordinary

\* While something fetches a flush is ahead.
LEMMA FetchOrdinary ==
  ASSUME TypeOK, Posts, NEW t \in Threads, FetchStep(t)
  PROVE  FlushAhead'
<1>1. t # Pass /\ pc[t] \in Requesting
  BY FetchFrom
<1>2. pc[t] \notin Flushing /\ pc[t] # "idle"
  BY <1>1 DEF Requesting, Flushing
<1>3. CASE t \in Fetchers
  <2>1. pc[Pass] = "waiting"
    BY <1>2, <1>3 DEF Posts
  <2>2. pc'[Pass] = "waiting"
    BY <1>1, <1>2, <2>1, FetchGoes, FetchPlaced, ThreadKinds
  <2> QED
    BY <2>2, ThreadKinds DEF FlushAhead, Ahead, Follows
<1>4. CASE t \notin Fetchers
  <2>1. pc'[t] \in Requesting \/ pc'[t] = "flush"
    BY <1>1, <1>2, <1>4, FetchGoes, FetchPlaced
  <2> QED
    BY <1>4, <2>1 DEF FlushAhead, Ahead, Follows
<1> QED
  BY <1>3, <1>4

\* A pass has a flush ahead until its tail.
LEMMA PassOrdinary ==
  ASSUME TypeOK, Posts, PassStep, ~stopped
  PROVE  Ordinary
<1>1. CASE PassBegin \/ PassList \/ PassListSkips \/ PassListFails \/ PassFetchAll
  <2>1. pc'[Pass] \in {"prune", "roster", "defer", "waiting"}
    BY <1>1, ThreadKinds
    DEF PassBegin, PassList, PassListSkips, PassListFails, PassFetchAll, TypeOK
  <2> QED
    BY <2>1, ThreadKinds DEF Ordinary, FlushAhead, Ahead, Follows
<1>2. CASE PassPrune \/ PassDefer \/ PassRoster \/ PassJoin
  <2>1. pc'[Pass] \in {"flush", "fetching"}
    BY <1>2, ThreadKinds DEF PassPrune, PassDefer, PassRoster, PassJoin, CallFlush, TypeOK
  <2> QED
    BY <2>1, ThreadKinds DEF Ordinary, FlushAhead, Ahead, Follows
<1>3. CASE PassTail
  <2>1. /\ pc[Pass] = "tail" /\ pc'[Pass] = "idle"
        /\ \A u \in Threads \ {Pass} : pc'[u] = pc[u]
    BY <1>3, ThreadKinds DEF PassTail, TypeOK
  <2>2. UNCHANGED <<cfg, roster, now, deadline, pending, passes, frame>>
    BY <1>3 DEF PassTail, settings, world
  <2>3. \A a \in Accounts : LET r == acct[a] s == WithRecoveryRetries(r) IN
          Alike(r, s) /\ s.desired = r.desired /\ s.wantAwaiting = r.wantAwaiting
    <3> SUFFICES ASSUME NEW a \in Accounts, NEW r, r = acct[a],
                        NEW s, s = WithRecoveryRetries(r)
                 PROVE  Alike(r, s) /\ s.desired = r.desired /\ s.wantAwaiting = r.wantAwaiting
      OBVIOUS
    <3>1. r \in Record /\ now \in Nat
      BY DEF TypeOK
    <3> QED
      BY <3>1 DEF WithRecoveryRetries, StartRetries, CancelRetries, Record, Alike
  <2>4. Still
    BY <1>3, <2>2, <2>3 DEF PassTail, Still
  <2>5. TimerStill
    BY <2>1, <2>2 DEF TimerStill, Writing, DeadlineDue, Flushing
  <2>6. FlushAhead => FlushAhead'
    BY <2>1, <2>2, OneAhead, ThreadKinds DEF TypeOK, Ahead, Follows, Flushing, Requesting
  <2> QED
    BY <2>4, <2>5, <2>6 DEF Ordinary
<1>4. ~(PassRefused \/ PassAbandon)
  BY DEF PassRefused, PassAbandon
<1> QED
  BY <1>1, <1>2, <1>3, <1>4 DEF PassStep

\* Callbacks are dropped that no longer count, and the others flush.
LEMMA WorkerOrdinary ==
  ASSUME TypeOK, Posts, NEW w \in Workers, WorkerStep(w), ~stopped
  PROVE  Ordinary
<1>1. w \in Threads /\ w # Pass /\ w \notin Fetchers
  BY ThreadKinds
<1>2. CASE \E ret \in {"recheck", "idle"} : CallFlush(w, "immediate", ret)
  BY <1>1, <1>2 DEF CallFlush, TypeOK, Ordinary, FlushAhead, Ahead
<1>3. CASE ~\E ret \in {"recheck", "idle"} : CallFlush(w, "immediate", ret)
  <2>1. ~(RetryBegin(w) \/ DeadlineBegin(w))
    BY <1>3 DEF RetryBegin, DeadlineBegin
  <2>2. UNCHANGED <<cfg, roster, now, acct, deadline, frame>>
    BY <2>1
    DEF WorkerStep, RetryDropped, RetryRecheck, DeadlineDropped, PollDropped, PollBegin,
        ProbeChanged, ProbeSame, ProbeFails, PollEnd, settings, world
  <2>3. passes' >= passes /\ passes \in Nat /\ passes' \in Nat
    BY <2>1
    DEF WorkerStep, RetryDropped, RetryRecheck, DeadlineDropped, PollDropped, PollBegin,
        ProbeChanged, ProbeSame, ProbeFails, PollEnd, TypeOK
  <2>4. DeadlineDue => DeadlineDue'
    <3>1. \/ UNCHANGED pending
          \/ \E j \in pending : pending' = pending \ {j} /\ j # DeadlineJob(deadline.seq)
      <4>1. CASE DeadlineDropped(w)
        BY <4>1 DEF DeadlineDropped, Take, DeadlineCurrent, DeadlineJob
      <4>2. CASE RetryDropped(w) \/ PollDropped(w) \/ PollBegin(w)
        BY <4>2 DEF RetryDropped, PollDropped, PollBegin, Take, DeadlineJob
      <4>3. CASE RetryRecheck(w) \/ ProbeChanged(w) \/ ProbeSame(w) \/ ProbeFails(w) \/ PollEnd(w)
        BY <4>3 DEF RetryRecheck, ProbeChanged, ProbeSame, ProbeFails, PollEnd
      <4> QED
        BY <2>1, <4>1, <4>2, <4>3 DEF WorkerStep
    <3> QED
      BY <2>2, <3>1 DEF DeadlineDue
  <2>5. CASE UNCHANGED pc
    BY <2>2, <2>3, <2>4, <2>5, NoneAhead, SameStill DEF Ordinary, TimerStill, Writing
  <2>6. CASE /\ pc[w] \in {"recheck", "idle", "probe"} /\ pc'[w] \in {"fetch", "idle", "probe"}
             /\ \A u \in Threads \ {w} : pc'[u] = pc[u]
    <3>1. ~Ahead(w) /\ pc[w] \notin Flushing
      BY <2>6 DEF Ahead, Follows, Flushing, Requesting
    <3>2. FlushAhead => FlushAhead'
      BY <1>1, <2>2, <2>3, <2>6, <3>1, OneAhead
    <3> QED
      BY <2>2, <2>4, <2>6, <3>1, <3>2, SameStill DEF Ordinary, TimerStill, Writing
  <2> QED
    BY <1>3, <2>5, <2>6, WorkerMoves
<1> QED
  BY <1>2, <1>3

\* Outside the engine's goroutines, what does not stop it leaves all alone.
LEMMA OutsideOrdinary ==
  ASSUME TypeOK, TypeOK', AdminStep \/ HostStep \/ UNCHANGED vars, ~stopped'
  PROVE  Ordinary
<1>1. CASE Publish \/ Refresh
  <2>1. passes' > 0
    BY <1>1 DEF Publish, Refresh, TypeOK
  <2> QED
    BY <2>1 DEF Ordinary, FlushAhead
<1>2. CASE Reconfigure \/ DisableGeneration \/ HostStep \/ UNCHANGED vars
  <2>1. UNCHANGED <<cfg, roster, now, acct, deadline, frame, pc, pending, passes>>
    BY <1>2 DEF Reconfigure, DisableGeneration, Quieted, HostStep, vars, settings, world
  <2> QED
    BY <2>1, NoneAhead, SameStill DEF Ordinary, TimerStill, Writing, DeadlineDue, TypeOK
<1>3. ~Stop
  BY DEF Stop, Quieted
<1> QED
  BY <1>1, <1>2, <1>3 DEF AdminStep

----------------------------------------------------------------------------
\* Ranks and the deadline.

\* Records that agree on health, on the reset and on whether it is to come are
\* ranked alike, now or a step later.
LEMMA SameRanks ==
  ASSUME TypeOK, UNCHANGED <<cfg, roster>>, NEW records,
         \A a \in roster :
           /\ acct'[a].health = records[a].health
           /\ acct'[a].resetAt = records[a].resetAt
           /\ records[a].health = "healthy" =>
                HasFutureReset(acct'[a], now') = HasFutureReset(records[a], now)
  PROVE  \A a \in roster : DesiredPriority(acct, a)' = DesiredPriority(records, a)
<1> SUFFICES ASSUME NEW a \in roster
             PROVE  DesiredPriority(acct, a)' = DesiredPriority(records, a)
  OBVIOUS
<1>1. GroupOf(acct, a)' = GroupOf(records, a)
  BY DEF GroupOf
<1>2. \A b \in roster : records[b].health = "healthy" =>
        EntryOf(acct, b)' = EntryOf(records, b)
  BY DEF EntryOf
<1>3. {EntryOf(acct, b)' : b \in GroupOf(acct, a)'} = {EntryOf(records, b) : b \in GroupOf(records, a)}
  BY <1>1, <1>2 DEF GroupOf
<1> QED
  BY <1>2, <1>3 DEF DesiredPriority

\* Whether a reset is to come is yes or no, and alike for records alike.
LEMMA SameFuture ==
  ASSUME NEW r, NEW s, Alike(r, s), NEW t
  PROVE  /\ HasFutureReset(s, t) = HasFutureReset(r, t)
         /\ Expired(s, t) = Expired(r, t)
  BY DEF Alike, HasFutureReset, HasKnownReset, Expired

\* Records that agree on health and resets have the same earliest one.
LEMMA SameEarliest ==
  ASSUME TypeOK, UNCHANGED roster, NEW records,
         \A a \in roster :
           /\ acct'[a].health = records[a].health
           /\ acct'[a].resetAt = records[a].resetAt
           /\ records[a].health = "healthy" =>
                HasFutureReset(acct'[a], now') = HasFutureReset(records[a], now)
  PROVE  EarliestReset(acct)' = EarliestReset(records)
<1>1. {b \in roster : acct'[b].health = "healthy" /\ HasFutureReset(acct'[b], now')}
        = {b \in roster : records[b].health = "healthy" /\ HasFutureReset(records[b], now)}
  OBVIOUS
<1>2. DueResets(acct)' = DueResets(records)
  BY <1>1 DEF DueResets
<1>3. EarliestReset(acct)' = IF DueResets(acct)' = {} THEN NoTime
                             ELSE CHOOSE m \in DueResets(acct)' : \A d \in DueResets(acct)' : m <= d
  BY DEF EarliestReset, DueResets
<1>4. EarliestReset(records) = IF DueResets(records) = {} THEN NoTime
                               ELSE CHOOSE m \in DueResets(records) : \A d \in DueResets(records) : m <= d
  BY DEF EarliestReset, DueResets
<1> QED
  BY <1>2, <1>3, <1>4

\* What stays still keeps ranks, resets and expiries.
LEMMA StillKeeps ==
  ASSUME TypeOK, Still
  PROVE  /\ \A a \in roster : /\ DesiredPriority(acct, a)' = DesiredPriority(acct, a)
                              /\ acct'[a].desired = acct[a].desired
         /\ EarliestReset(acct)' = EarliestReset(acct)
         /\ SomeExpired' = SomeExpired
<1>1. UNCHANGED <<cfg, roster, now>> /\ roster \subseteq Accounts
  BY DEF Still, TypeOK
<1>2. \A a \in roster :
        /\ acct'[a].health = acct[a].health /\ acct'[a].resetAt = acct[a].resetAt
        /\ acct'[a].desired = acct[a].desired
        /\ HasFutureReset(acct'[a], now') = HasFutureReset(acct[a], now)
        /\ Expired(acct'[a], now') = Expired(acct[a], now)
  BY <1>1, SameFuture DEF Still, Alike
<1>3. SomeExpired' = SomeExpired
  BY <1>1, <1>2 DEF SomeExpired
<1> QED
  BY <1>1, <1>2, <1>3, SameRanks, SameEarliest

\* The first critical section of a flush leaves every rank as the records have it.
LEMMA FlushPlanRanks ==
  ASSUME TypeOK, NEW t \in Threads, FlushPlan(t)
  PROVE  /\ \A a \in roster' : acct'[a].desired = DesiredPriority(acct, a)'
         /\ Writing'
<1> DEFINE demoted == AllDemoted(acct)
           ranked == Ranked(demoted)
           collected == IF frame[t].mode = "none" THEN {}
                        ELSE {a \in roster : Collects(ranked[a])}
<1>1. demoted \in Records
  BY AllDemotedType DEF Records, TypeOK
<1>2. ranked \in Records
  BY <1>1, RankedType
<1>3. UNCHANGED <<cfg, roster, now>> /\ roster \subseteq Accounts
  BY DEF FlushPlan, settings, world, TypeOK
<1>4. acct' = [a \in Accounts |-> IF a \in collected THEN Collected(ranked[a]) ELSE ranked[a]]
  BY DEF FlushPlan
<1>5. \A a \in roster : Alike(demoted[a], ranked[a]) /\ ranked[a].desired = DesiredPriority(demoted, a)
  <2> HIDE DEF demoted
  <2>1. \A a \in roster : demoted[a] \in Record
    BY <1>1, <1>3 DEF Records
  <2>2. \A a \in roster : ranked[a] = [demoted[a] EXCEPT !.desired = DesiredPriority(demoted, a)]
    BY <1>3 DEF Ranked
  <2> QED
    BY <2>1, <2>2 DEF Alike, Record
<1> HIDE DEF demoted, ranked, collected
<1>6. \A a \in roster : Alike(ranked[a], acct'[a]) /\ acct'[a].desired = ranked[a].desired
  <2>1. \A a \in roster : ranked[a] \in Record
    BY <1>2, <1>3 DEF Records
  <2> QED
    BY <1>3, <1>4, <2>1 DEF Collected, Alike, Record
<1>7. \A a \in roster : Alike(demoted[a], acct'[a])
  BY <1>5, <1>6 DEF Alike
<1>8. \A a \in roster : /\ acct'[a].health = demoted[a].health
                        /\ acct'[a].resetAt = demoted[a].resetAt
                        /\ HasFutureReset(acct'[a], now') = HasFutureReset(demoted[a], now)
  BY <1>3, <1>7, SameFuture DEF Alike
<1>9. \A a \in roster : DesiredPriority(acct, a)' = DesiredPriority(demoted, a)
  BY <1>3, <1>8, SameRanks
<1>10. Writing'
  BY DEF FlushPlan, TypeOK, Writing, Flushing
<1> QED
  BY <1>3, <1>5, <1>6, <1>9, <1>10

\* The last one, and the step back from it, as far as ranks go.
LEMMA FlushArmStill ==
  ASSUME TypeOK, Posts, NEW t \in Threads, FlushArm(t)
  PROVE  /\ Still
         /\ FlushAhead => FlushAhead'
         /\ deadline'.at = EarliestReset(acct)' /\ ~SomeExpired'
<1> DEFINE settled == Settled(acct, t)
           armed == {a \in Accounts : ValidRetries(t, a) # {}}
           after == [a \in Accounts |->
                       IF a \in armed
                       THEN [StartRetries(settled[a], now) EXCEPT !.wantRetry = FALSE]
                       ELSE settled[a]]
<1>1. UNCHANGED <<cfg, roster, now, passes>> /\ roster \subseteq Accounts /\ now \in Nat
  BY DEF FlushArm, settings, world, TypeOK
<1>2. acct' = after /\ deadline' = Rearmed(EarliestReset(after))
  BY DEF FlushArm
<1>3. \A a \in Accounts : acct[a] \in Record /\ settled[a] \in Record
  BY SettledType DEF Records, TypeOK
<1>4. \A a \in Accounts : /\ Alike(acct[a], settled[a])
                          /\ settled[a].desired = acct[a].desired
                          /\ settled[a].wantAwaiting = acct[a].wantAwaiting
  BY <1>3 DEF Settled, Alike, Record
<1> HIDE DEF settled
<1>5. \A a \in Accounts : LET s == [StartRetries(settled[a], now) EXCEPT !.wantRetry = FALSE] IN
        /\ Alike(settled[a], s)
        /\ s.desired = settled[a].desired
        /\ s.wantAwaiting = settled[a].wantAwaiting
  BY <1>3 DEF StartRetries, CancelRetries, Alike, Record
<1> HIDE DEF armed
<1>6. \A a \in Accounts : /\ Alike(settled[a], after[a])
                          /\ after[a].desired = settled[a].desired
                          /\ after[a].wantAwaiting = settled[a].wantAwaiting
  BY <1>5 DEF Alike
<1> HIDE DEF after
<1>7. \A a \in Accounts : Alike(acct[a], after[a])
  BY <1>4, <1>6 DEF Alike
<1>8. Still
  BY <1>1, <1>2, <1>4, <1>6, <1>7 DEF Still
<1>9. ~SomeExpired'
  <2>1. ~SomeExpired
    BY DEF FlushArm, SomeExpired
  <2> QED
    BY <1>8, <2>1, StillKeeps
<1>10. EarliestReset(after) = EarliestReset(acct)'
  <2>1. \A a \in roster : Alike(after[a], acct'[a])
    BY <1>1, <1>2 DEF Alike
  <2> QED
    BY <1>1, <1>2, <2>1, SameFuture, SameEarliest DEF Alike
<1>11. deadline'.at = EarliestReset(after)
  BY <1>2 DEF Rearmed
<1>12. FlushAhead => FlushAhead'
  <2>1. pc[t] = "arm" /\ Return(t)
    BY DEF FlushArm
  <2>2. pc[t] \in Flushing
    BY <2>1 DEF Flushing
  <2>3. /\ \A u \in Threads \ {t} : pc'[u] = pc[u] /\ frame'[u] = frame[u]
        /\ pc'[t] = frame[t].ret
    BY <2>1, <2>2, ReturnPlaced
  <2>4. Ahead(t) => Ahead(t)'
    BY <2>1, <2>3 DEF Ahead, Follows, Flushing, Requesting
  <2> QED
    BY <1>1, <2>3, <2>4, OneAhead DEF FlushAhead, TypeOK
<1> QED
  BY <1>8, <1>9, <1>10, <1>11, <1>12

----------------------------------------------------------------------------
\* What the ranks and the deadline are owed outlives every step.

Owed == RanksOwed /\ DeadlineOwed

\* A step that leaves alone what is flushed leaves ranks and deadline as owed.
LEMMA OrdinaryKeepsOwed ==
  ASSUME TypeOK, Owed, Ordinary, ~stopped
  PROVE  Owed'
<1>1. CASE FlushAhead'
  BY <1>1 DEF Owed, RanksOwed, DeadlineOwed
<1>2. CASE ~FlushAhead'
  <2>1. ~FlushAhead /\ Still /\ TimerStill
    BY <1>2 DEF Ordinary
  <2>2. /\ \A a \in roster : /\ DesiredPriority(acct, a)' = DesiredPriority(acct, a)
                             /\ acct'[a].desired = acct[a].desired
        /\ EarliestReset(acct)' = EarliestReset(acct)
        /\ SomeExpired' = SomeExpired
        /\ UNCHANGED roster
    BY <2>1, StillKeeps DEF Still
  <2>3. RanksOwed'
    BY <2>1, <2>2 DEF Owed, RanksOwed
  <2>4. DeadlineOwed'
    BY <2>1, <2>2 DEF Owed, DeadlineOwed, TimerStill
  <2> QED
    BY <2>3, <2>4 DEF Owed
<1> QED
  BY <1>1, <1>2

\* What the clock does to a record it does to its ladder only.
LEMMA TickAlike ==
  ASSUME TypeOK, Tick
  PROVE  \A a \in Accounts : /\ Alike(acct[a], acct'[a])
                             /\ acct'[a].desired = acct[a].desired
                             /\ acct'[a].wantAwaiting = acct[a].wantAwaiting
                             /\ acct'[a].wantRetry = acct[a].wantRetry
<1> SUFFICES ASSUME NEW a \in Accounts
             PROVE  /\ Alike(acct[a], acct'[a])
                    /\ acct'[a].desired = acct[a].desired
                    /\ acct'[a].wantAwaiting = acct[a].wantAwaiting
                    /\ acct'[a].wantRetry = acct[a].wantRetry
  OBVIOUS
<1>1. acct[a] \in Record /\ acct'[a] = [acct[a] EXCEPT !.ladder = @ \ {now + 1}]
  BY DEF Tick, TypeOK
<1> QED
  BY <1>1 DEF Alike, Record

\* Time passes: what expires now has its timer due now.
LEMMA TickOwed ==
  ASSUME TypeOK, Owed, Tick, ~stopped
  PROVE  Owed'
<1>1. /\ UNCHANGED <<cfg, roster, deadline, stopped, pc, frame>>
      /\ passes \in Nat /\ passes' \in Nat /\ passes' >= passes
      /\ now' = now + 1 /\ now \in Nat /\ roster \subseteq Accounts
  BY DEF Tick, settings, TypeOK
<1>2. FlushAhead => FlushAhead'
  BY <1>1, NoneAhead
<1>3. \A a \in roster : /\ acct[a] \in Record
                        /\ acct'[a].health = acct[a].health
                        /\ acct'[a].reset = acct[a].reset
                        /\ acct'[a].resetAt = acct[a].resetAt
                        /\ acct'[a].desired = acct[a].desired
  BY <1>1, TickAlike DEF Alike, TypeOK
<1>4. \A a \in roster : acct[a].resetAt \in Int
  BY <1>3 DEF Record
<1>5. SomeExpired => SomeExpired'
  BY <1>1, <1>3, <1>4 DEF SomeExpired, Expired, HasKnownReset
<1>6. ~SomeExpired' =>
        \A a \in roster : acct[a].health = "healthy" =>
          HasFutureReset(acct'[a], now') = HasFutureReset(acct[a], now)
  BY <1>1, <1>3, <1>4 DEF SomeExpired, Expired, HasKnownReset, HasFutureReset
<1>7. RanksOwed'
  <2> SUFFICES ASSUME ~FlushAhead', ~SomeExpired'
               PROVE  \A a \in roster' : acct'[a].desired = DesiredPriority(acct, a)'
    BY DEF RanksOwed
  <2>1. \A a \in roster : acct[a].desired = DesiredPriority(acct, a)
    BY <1>2, <1>5 DEF Owed, RanksOwed
  <2>2. \A a \in roster : DesiredPriority(acct, a)' = DesiredPriority(acct, a)
    BY <1>1, <1>3, <1>6, SameRanks
  <2> QED
    BY <1>1, <1>3, <2>1, <2>2
<1>8. DeadlineOwed'
  <2> SUFFICES ASSUME ~FlushAhead', ~Writing', ~DeadlineDue'
               PROVE  deadline'.at = EarliestReset(acct)' /\ ~SomeExpired'
    BY DEF DeadlineOwed
  <2>1. ~Writing /\ ~DeadlineDue
    BY <1>1 DEF Writing, DeadlineDue, Tick
  <2>2. deadline.at = EarliestReset(acct) /\ ~SomeExpired
    BY <1>2, <2>1 DEF Owed, DeadlineOwed
  <2>3. ~SomeExpired'
    <3> SUFFICES ASSUME SomeExpired'
                 PROVE  FALSE
      OBVIOUS
    <3>1. PICK a \in roster : Expired(acct'[a], now')
      BY <1>1 DEF SomeExpired
    <3>2. /\ acct[a].health = "healthy" /\ HasFutureReset(acct[a], now)
          /\ acct[a].resetAt = now + 1
      BY <1>1, <1>3, <1>4, <2>2, <3>1 DEF SomeExpired, Expired, HasKnownReset, HasFutureReset
    <3>3. now + 1 \in DueResets(acct)
      BY <3>2 DEF DueResets
    <3>4. \A d \in DueResets(acct) : d \in Int /\ d > now
      BY <1>4 DEF DueResets, HasFutureReset
    <3>5. acct \in [Accounts -> Record]
      BY DEF TypeOK
    <3>6. EarliestReset(acct) = now + 1
      <4>1. EarliestReset(acct) \in DueResets(acct) /\ EarliestReset(acct) <= now + 1
        BY <3>3, <3>5, EarliestResetIsLeast
      <4> QED
        BY <1>1, <3>4, <4>1
    <3>7. DeadlineJob(deadline.seq) \in pending'
      BY <2>2, <3>6 DEF Tick
    <3> QED
      BY <1>1, <3>7 DEF DeadlineDue
  <2>4. EarliestReset(acct)' = EarliestReset(acct)
    BY <1>1, <1>3, <1>6, <2>3, SameEarliest
  <2> QED
    BY <1>1, <2>2, <2>3, <2>4
<1> QED
  BY <1>7, <1>8 DEF Owed

\* A flush.
LEMMA FlushOwed ==
  ASSUME TypeOK, Posts, Owed, NEW t \in Threads, FlushStep(t), ~stopped
  PROVE  Owed'
<1>1. CASE FlushPlan(t)
  BY <1>1, FlushPlanRanks DEF Owed, RanksOwed, DeadlineOwed
<1>2. CASE FlushAgain(t)
  <2>1. pc'[t] = "flush"
    BY <1>2 DEF FlushAgain, TypeOK
  <2> QED
    BY <2>1 DEF Owed, RanksOwed, DeadlineOwed, FlushAhead, Ahead
<1>3. CASE FlushArm(t)
  <2>1. /\ Still
        /\ FlushAhead => FlushAhead'
        /\ deadline'.at = EarliestReset(acct)' /\ ~SomeExpired'
    BY <1>3, FlushArmStill
  <2>2. /\ \A a \in roster : /\ DesiredPriority(acct, a)' = DesiredPriority(acct, a)
                             /\ acct'[a].desired = acct[a].desired
        /\ SomeExpired' = SomeExpired
        /\ UNCHANGED roster
    BY <2>1, StillKeeps DEF Still
  <2>3. RanksOwed'
    BY <2>1, <2>2 DEF Owed, RanksOwed
  <2>4. DeadlineOwed'
    BY <2>1 DEF DeadlineOwed
  <2> QED
    BY <2>3, <2>4 DEF Owed
<1>4. CASE \/ WriteSkip(t) \/ WriteRead(t) \/ WriteReadFails(t) \/ WriteNoOp(t)
           \/ WriteRefused(t) \/ WriteAdmit(t) \/ WriteSaved(t) \/ WriteSaveFails(t)
  BY <1>4, WriteOrdinary, OrdinaryKeepsOwed
<1>5. ~FlushStopped(t)
  BY DEF FlushStopped
<1> QED
  BY <1>1, <1>2, <1>3, <1>4, <1>5 DEF FlushStep

\* Only an enabling publication starts a stopped engine, and it asks for a pass.
LEMMA StartsWithPass ==
  ASSUME TypeOK, [Next]_vars, stopped, ~stopped'
  PROVE  Publish /\ passes' > 0
<1>1. Publish
  BY DEF Next, PassStep, PassRefused, PassBegin, PassPrune, PassList, PassListSkips,
         PassListFails, PassAbandon, PassDefer, PassRoster, PassFetchAll, PassJoin,
         PassTail, ThreadStep, FlushStep, FlushStopped, FlushPlan, FlushAgain, FlushArm,
         WriteSkip, WriteRead, WriteReadFails, WriteNoOp, WriteRefused, WriteAdmit,
         WriteSaved, WriteSaveFails, FetchStep, FetchQuit, FetchExpired, FetchStart,
         AdmitRestart, AdmitRefused, AdmitExpired, AdmitCall, CallReturns, ReadFails,
         ApplyError, ApplyAnswer, CallbackStep, WorkerStep, RetryDropped, RetryBegin,
         RetryRecheck, DeadlineDropped, DeadlineBegin, PollDropped, PollBegin,
         ProbeChanged, ProbeSame, ProbeFails, PollEnd, Tick, AdminStep, Reconfigure,
         DisableGeneration, Stop, Refresh, Quieted, HostStep, Asleep, settings, vars
<1>2. PICK c \in Configs : stopped' = ~c.enabled /\ (c.enabled => passes' = passes + 1)
  BY <1>1 DEF Publish
<1>3. c.enabled
  BY <1>2, Zenon
<1> QED
  BY <1>1, <1>2, <1>3 DEF TypeOK

\* Every step.
LEMMA NextOwed ==
  ASSUME TypeOK, TypeOK', Posts, Owed, [Next]_vars
  PROVE  Owed'
<1>1. CASE stopped'
  BY <1>1 DEF Owed, RanksOwed, DeadlineOwed
<1>2. CASE stopped /\ ~stopped'
  BY <1>2, StartsWithPass DEF Owed, RanksOwed, DeadlineOwed, FlushAhead
<1>3. CASE ~stopped /\ ~stopped'
  <2>1. CASE PassStep
    BY <1>3, <2>1, PassOrdinary, OrdinaryKeepsOwed
  <2>2. CASE ThreadStep
    <3>1. ASSUME NEW t \in Threads, FetchStep(t)
          PROVE  Owed'
      BY <3>1, FetchOrdinary DEF Owed, RanksOwed, DeadlineOwed
    <3> QED
      BY <1>3, <2>2, <3>1, FlushOwed DEF ThreadStep
  <2>3. CASE CallbackStep
    BY <1>3, <2>3, WorkerOrdinary, OrdinaryKeepsOwed DEF CallbackStep
  <2>4. CASE Tick
    BY <1>3, <2>4, TickOwed
  <2>5. CASE AdminStep \/ HostStep \/ Asleep \/ UNCHANGED vars
    BY <1>3, <2>5, OutsideOrdinary, OrdinaryKeepsOwed DEF Asleep
  <2> QED
    BY <2>1, <2>2, <2>3, <2>4, <2>5 DEF Next
<1> QED
  BY <1>1, <1>2, <1>3

\* When the engine sleeps nobody has a flush ahead or a write to make.
LEMMA SleepOwesNothing ==
  ASSUME Quiet
  PROVE  ~FlushAhead /\ ~Writing /\ ~DeadlineDue
  BY DEF Quiet, Idle, FlushAhead, Ahead, Follows, Writing, DeadlineDue, Flushing, Requesting

\* Goroutines keep to their places, and what is owed stays owed, for ever.
LEMMA OwedHolds == Spec => [](Posts /\ Owed)
<1>1. Init => Posts /\ Owed
  <2> SUFFICES ASSUME Init
               PROVE  Posts /\ Owed
    OBVIOUS
  <2>1. \A t \in Threads : pc[t] = "idle" /\ frame[t].retries = {}
    BY DEF Init, NoFrame
  <2>2. Posts
    BY <2>1, ThreadKinds DEF Posts, Placed, PlacesOf, Flushing
  <2>3. ~stopped => passes > 0
    <3>1. InitialConfig.enabled \in BOOLEAN
      BY ConfigsAreValid DEF Config
    <3>2. /\ stopped = ~InitialConfig.enabled
          /\ passes = IF InitialConfig.enabled THEN 1 ELSE 0
      BY DEF Init
    <3>3. CASE InitialConfig.enabled
      BY <3>2, <3>3
    <3>4. CASE ~InitialConfig.enabled
      BY <3>2, <3>4, Zenon
    <3> QED
      BY <3>3, <3>4
  <2> QED
    BY <2>2, <2>3 DEF Owed, RanksOwed, DeadlineOwed, FlushAhead
<1>2. TypeOK /\ TypeOK' /\ Posts /\ Owed /\ [Next]_vars => (Posts /\ Owed)'
  BY NextPosts, NextOwed
<1> QED
  BY <1>1, <1>2, TypesHold, PTL DEF Spec

\* Whenever the engine sleeps the exact-deadline timer stands at the earliest usable
\* reset and no expired reset is ranked (rescheduleDeadlineLocked, onDeadline): no
\* interleaving of passes, callbacks, writes, reconfigurations and time loses a
\* deadline.
THEOREM DeadlineArmedHolds == Spec => []DeadlineArmed
<1>1. Posts /\ Owed => DeadlineArmed
  BY SleepOwesNothing DEF DeadlineArmed, Owed, DeadlineOwed, Quiet, SomeExpired
<1> QED
  BY <1>1, OwedHolds, PTL

\* Whenever the engine sleeps the priority it wants of each account is the one that
\* the records, as they are now, give it: every change of a record that a rank
\* depends on was followed by a flush that saw it.
THEOREM RanksCurrentHolds == Spec => []RanksCurrent
<1>1. Posts /\ Owed => RanksCurrent
  <2> SUFFICES ASSUME Owed, Quiet
               PROVE  \A a \in roster : acct[a].desired = DesiredPriority(acct, a)
    BY DEF RanksCurrent
  <2>1. ~FlushAhead /\ ~Writing /\ ~DeadlineDue
    BY SleepOwesNothing
  <2>2. ~SomeExpired
    BY <2>1 DEF Owed, DeadlineOwed, Quiet
  <2> QED
    BY <2>1, <2>2 DEF Owed, RanksOwed, Quiet
<1> QED
  BY <1>1, OwedHolds, PTL

----------------------------------------------------------------------------
\* The health poll and the next pass.

Watch == PollOwed /\ PollStanding /\ StopsOwed /\ NextPassOwed /\ StopsForCause

\* A step that leaves the timers, and those who are to set them, to their business.
Unwatched ==
  /\ UNCHANGED <<cfg, configSeq, stopped, poll, nextPass, now>>
  /\ admin'.disabling = admin.disabling /\ admin'.overtaken = admin.overtaken
  /\ budget'.stop = budget.stop
  /\ ~stopped /\ PollJob(poll.seq) \in pending => PollJob(poll.seq) \in pending'
  /\ \/ stopped
     \/ pc'[Pass] # "idle"
     \/ /\ pc[Pass] # "idle" => pc'[Pass] # "idle"
        /\ passes > 0 => passes' > 0
        /\ Unhealthy(acct)' => Unhealthy(acct)
        /\ \A w \in Workers : pc[w] = "probe" => pc'[w] = "probe" /\ job'[w].seq = job[w].seq

\* What it leaves is as it was.
LEMMA UnwatchedKeeps ==
  ASSUME Watch, Unwatched
  PROVE  Watch'
<1>1. PollOwed'
  BY DEF Watch, PollOwed, Unwatched
<1>2. PollStanding'
  BY DEF Watch, PollStanding, Unwatched
<1>3. StopsOwed'
  BY DEF Watch, StopsOwed, Unwatched
<1>4. NextPassOwed'
  BY DEF Watch, NextPassOwed, Unwatched
<1>5. StopsForCause'
  BY DEF Watch, StopsForCause, Unwatched
<1> QED
  BY <1>1, <1>2, <1>3, <1>4, <1>5 DEF Watch

\* Spending on one thing leaves the others.
LEMMA SpendStop ==
  ASSUME TypeOK, NEW what \in {"config", "refresh", "fault", "health", "edit"}, Spend(what)
  PROVE  budget'.stop = budget.stop
  BY DEF Spend, TypeOK, Budgets

\* Where a flush goes from where it is.
LEMMA FlushGoes ==
  ASSUME TypeOK, Posts, NEW t \in Threads, FlushStep(t)
  PROVE  /\ pc[t] \in Flushing
         /\ pc'[t] \in Flushing \cup ReturnsOf(t)
         /\ \A u \in Threads \ {t} : pc'[u] = pc[u]
<1>1. pc[t] \in Flushing
  BY DEF FlushStep, FlushStopped, FlushPlan, FlushAgain, FlushArm, WriteSkip, WriteRead,
         WriteReadFails, WriteNoOp, WriteRefused, WriteAdmit, WriteSaved, WriteSaveFails,
         Flushing
<1>2. CASE FlushStopped(t) \/ FlushArm(t)
  <2>1. frame[t].ret \in ReturnsOf(t)
    BY <1>1 DEF Posts, Placed
  <2> QED
    BY <1>1, <1>2, <2>1, ReturnPlaced DEF FlushStopped, FlushArm
<1>3. CASE FlushPlan(t) \/ FlushAgain(t) \/ WriteRead(t) \/ WriteAdmit(t)
  BY <1>1, <1>3 DEF FlushPlan, FlushAgain, WriteRead, WriteAdmit, TypeOK, Flushing
<1>4. CASE \/ WriteSkip(t) \/ WriteReadFails(t) \/ WriteNoOp(t) \/ WriteRefused(t)
           \/ WriteSaved(t) \/ WriteSaveFails(t)
  <2>1. \E i : NextItem(t, i)
    BY <1>4 DEF WriteSkip, WriteReadFails, WriteNoOp, WriteRefused, WriteSaved, WriteSaveFails
  <2> QED
    BY <1>1, <2>1, NextItemPlaced DEF Flushing
<1> QED
  BY <1>1, <1>2, <1>3, <1>4 DEF FlushStep

\* Flushes and fetches set no poll and no pass.
LEMMA ThreadUnwatched ==
  ASSUME TypeOK, Posts, Forgotten, NEW t \in Threads, FlushStep(t) \/ FetchStep(t)
  PROVE  Unwatched
<1>1. Unhealthy(acct)' => Unhealthy(acct)
  <2>1. Lawful
    BY FlushStepLawful, FetchStepLawful
  <2> QED
    BY <2>1 DEF Lawful, Moves, Alike, Unhealthy, TypeOK
<1>2. /\ \A u \in Threads \ {t} : pc'[u] = pc[u]
      /\ pc[t] # "probe" /\ (t = Pass => pc'[t] # "idle")
  <2>1. CASE FlushStep(t)
    BY <2>1, FlushGoes DEF Flushing, ReturnsOf
  <2>2. CASE FetchStep(t)
    <3>1. t # Pass /\ pc[t] \in Requesting
      BY <2>2, FetchFrom
    <3>2. pc[t] \notin Flushing /\ pc[t] # "probe"
      BY <3>1 DEF Requesting, Flushing
    <3> QED
      BY <2>2, <3>1, <3>2, FetchGoes, FetchPlaced
  <2> QED
    BY <2>1, <2>2
<1>3. /\ UNCHANGED <<cfg, configSeq, stopped, poll, nextPass, now, admin, passes>>
      /\ pending \subseteq pending'
  BY DEF FlushStep, FlushStopped, FlushPlan, FlushAgain, FlushArm, WriteSkip, WriteRead,
         WriteReadFails, WriteNoOp, WriteRefused, WriteAdmit, WriteSaved, WriteSaveFails,
         FetchStep, FetchQuit, FetchExpired, FetchStart, AdmitRestart, AdmitRefused,
         AdmitExpired, AdmitCall, CallReturns, ReadFails, ApplyError, ApplyAnswer,
         settings, timers, world
<1>4. budget'.stop = budget.stop
  <2>1. UNCHANGED budget \/ Spend("fault")
    BY DEF FlushStep, FlushStopped, FlushPlan, FlushAgain, FlushArm, WriteSkip, WriteRead,
         WriteReadFails, WriteNoOp, WriteRefused, WriteAdmit, WriteSaved, WriteSaveFails,
         FetchStep, FetchQuit, FetchExpired, FetchStart, AdmitRestart, AdmitRefused,
         AdmitExpired, AdmitCall, CallReturns, ReadFails, ApplyError, ApplyAnswer, world
  <2> QED
    BY <2>1, SpendStop
<1>5. \A u \in Threads \ {t} : job'[u] = job[u]
  BY DEF FlushStep, FlushStopped, FlushPlan, FlushAgain, FlushArm, WriteSkip, WriteRead,
         WriteReadFails, WriteNoOp, WriteRefused, WriteAdmit, WriteSaved, WriteSaveFails,
         FetchStep, FetchQuit, FetchExpired, FetchStart, AdmitRestart, AdmitRefused,
         AdmitExpired, AdmitCall, CallReturns, ReadFails, ApplyError, ApplyAnswer,
         Return, TypeOK
<1>6. \A w \in Workers : pc[w] = "probe" => pc'[w] = "probe" /\ job'[w].seq = job[w].seq
  BY <1>2, <1>5, ThreadKinds
<1>7. pc[Pass] # "idle" => pc'[Pass] # "idle"
  BY <1>2, ThreadKinds
<1> QED
  BY <1>1, <1>3, <1>4, <1>6, <1>7 DEF Unwatched

\* A pass owes them until it ends, and at its end it sets them.
LEMMA PassWatch ==
  ASSUME TypeOK, Posts, Forgotten, Watch, PassStep
  PROVE  Watch'
<1>1. CASE PassTail
  <2>1. /\ UNCHANGED <<cfg, configSeq, stopped, now, admin, budget, pending>> /\ ~stopped
        /\ nextPass' = now + ReconcileInterval /\ poll' = PollRestarted(acct)
    BY <1>1 DEF PassTail, settings, world
  <2>2. ~PassPrune /\ ~PassRoster
    BY <1>1 DEF PassTail, PassPrune, PassRoster
  <2>3. Unhealthy(acct)' => Unhealthy(acct)
    BY <2>2, PassStepLawful DEF Lawful, Moves, Alike, Unhealthy, TypeOK
  <2>4. now \in Nat /\ ReconcileInterval \in Nat \ {0} /\ PollInterval \in Nat \ {0}
    BY BoundsAreNumbers DEF TypeOK
  <2>5. PollOwed'
    BY <2>1, <2>3, <2>4 DEF PollOwed, PollRestarted, NoTime
  <2>6. PollStanding'
    BY <2>1, <2>4 DEF Watch, PollStanding, PollRestarted
  <2>7. StopsOwed' /\ StopsForCause' /\ NextPassOwed'
    BY <2>1, <2>4 DEF Watch, StopsOwed, StopsForCause, NextPassOwed
  <2> QED
    BY <2>5, <2>6, <2>7 DEF Watch
<1>2. CASE ~PassTail
  <2>1. /\ UNCHANGED <<cfg, configSeq, stopped, poll, nextPass, now, admin, pending>>
        /\ UNCHANGED budget \/ Spend("fault")
    BY <1>2
    DEF PassStep, PassRefused, PassBegin, PassPrune, PassList, PassListSkips,
        PassListFails, PassAbandon, PassDefer, PassRoster, PassFetchAll, PassJoin,
        settings, timers, world
  <2>2. budget'.stop = budget.stop
    BY <2>1, SpendStop
  <2>3. stopped \/ pc'[Pass] # "idle"
    BY <1>2, ThreadKinds
    DEF PassStep, PassRefused, PassBegin, PassPrune, PassList, PassListSkips,
        PassListFails, PassAbandon, PassDefer, PassRoster, PassFetchAll, PassJoin,
        CallFlush, TypeOK
  <2>4. Unwatched
    BY <2>1, <2>2, <2>3 DEF Unwatched
  <2> QED
    BY <2>4, UnwatchedKeeps
<1> QED
  BY <1>1, <1>2

\* The poll's callback clears it, and sets it again or asks for a pass.
LEMMA WorkerWatch ==
  ASSUME TypeOK, Posts, Watch, NEW w \in Workers, WorkerStep(w)
  PROVE  Watch'
<1>1. /\ w \in Threads /\ w # Pass
      /\ UNCHANGED <<cfg, configSeq, stopped, nextPass, now, admin, roster, acct>>
  BY ThreadKinds
  DEF WorkerStep, RetryDropped, RetryBegin, RetryRecheck, DeadlineDropped, DeadlineBegin,
      PollDropped, PollBegin, ProbeChanged, ProbeSame, ProbeFails, PollEnd, settings,
      timers, world
<1>2. budget'.stop = budget.stop
  <2>1. UNCHANGED budget \/ Spend("fault")
    BY DEF WorkerStep, RetryDropped, RetryBegin, RetryRecheck, DeadlineDropped,
           DeadlineBegin, PollDropped, PollBegin, ProbeChanged, ProbeSame, ProbeFails,
           PollEnd, world
  <2> QED
    BY <2>1, SpendStop
<1>3. /\ \A u \in Threads \ {w} : pc'[u] = pc[u] /\ job'[u] = job[u]
      /\ passes' >= passes /\ passes \in Nat /\ passes' \in Nat
  BY <1>1
  DEF WorkerStep, RetryDropped, RetryBegin, RetryRecheck, DeadlineDropped, DeadlineBegin,
      PollDropped, PollBegin, ProbeChanged, ProbeSame, ProbeFails, PollEnd, CallFlush, TypeOK
<1>4. pc'[Pass] = pc[Pass]
  BY <1>1, <1>3, ThreadKinds
<1>5. Unhealthy(acct)' = Unhealthy(acct)
  BY <1>1 DEF Unhealthy
<1>6. CASE PollBegin(w)
  <2>1. PICK j \in pending : /\ PollCurrent(j) /\ pending' = pending \ {j}
                             /\ job'[w].seq = j.seq
    BY <1>1, <1>6 DEF PollBegin, Take, TypeOK, Jobs
  <2>2. poll'.at = NoTime /\ poll'.seq = poll.seq /\ pc'[w] = "probe"
    BY <1>1, <1>6 DEF PollBegin, TypeOK
  <2>3. stopped \/ job'[w].seq = poll'.seq
    BY <2>1, <2>2 DEF PollCurrent
  <2>4. PollOwed' /\ PollStanding' /\ StopsOwed' /\ NextPassOwed' /\ StopsForCause'
    BY <1>1, <1>2, <1>3, <1>4, <2>2, <2>3
    DEF Watch, PollOwed, PollStanding, StopsOwed, NextPassOwed, StopsForCause
  <2> QED
    BY <2>4 DEF Watch
<1>7. CASE ProbeChanged(w)
  <2>1. passes' > 0 /\ UNCHANGED <<poll, pending>>
    BY <1>7 DEF ProbeChanged, timers, TypeOK
  <2> QED
    BY <1>1, <1>2, <2>1
    DEF Watch, PollOwed, PollStanding, StopsOwed, NextPassOwed, StopsForCause
<1>8. CASE PollEnd(w)
  <2>1. /\ poll' = IF ~stopped /\ job[w].seq = poll.seq THEN PollRestarted(acct) ELSE poll
        /\ UNCHANGED pending
    BY <1>8 DEF PollEnd
  <2>2. now \in Nat /\ PollInterval \in Nat \ {0}
    BY BoundsAreNumbers DEF TypeOK
  <2>3. PollOwed'
    BY <1>1, <1>3, <1>4, <1>5, <2>1, <2>2, ThreadKinds
    DEF Watch, PollOwed, PollRestarted, NoTime
  <2>4. PollStanding'
    BY <1>1, <2>1, <2>2 DEF Watch, PollStanding, PollRestarted
  <2>5. StopsOwed' /\ NextPassOwed' /\ StopsForCause'
    BY <1>1, <1>2, <1>3, <1>4, <2>1 DEF Watch, StopsOwed, NextPassOwed, StopsForCause
  <2> QED
    BY <2>3, <2>4, <2>5 DEF Watch
<1>9. CASE ~(PollBegin(w) \/ ProbeChanged(w) \/ PollEnd(w))
  <2>1. UNCHANGED poll
    BY <1>9
    DEF WorkerStep, RetryDropped, RetryBegin, RetryRecheck, DeadlineDropped, DeadlineBegin,
        PollDropped, ProbeSame, ProbeFails, timers
  <2>2. pc[w] = "probe" => pc'[w] = "probe" /\ job'[w].seq = job[w].seq
    BY <1>1, <1>9
    DEF WorkerStep, RetryDropped, RetryBegin, RetryRecheck, DeadlineDropped, DeadlineBegin,
        PollDropped, ProbeSame, ProbeFails, Take, TypeOK, Jobs
  <2>3. ~stopped /\ PollJob(poll.seq) \in pending => PollJob(poll.seq) \in pending'
    <3>1. CASE UNCHANGED pending
      BY <3>1
    <3>2. CASE \E j \in pending : /\ pending' = pending \ {j}
                                  /\ j.kind \in {"retry", "deadline"} \/ ~PollCurrent(j)
      BY <3>2 DEF PollCurrent, PollJob
    <3> QED
      BY <1>9, <3>1, <3>2
      DEF WorkerStep, RetryDropped, RetryBegin, RetryRecheck, DeadlineDropped,
          DeadlineBegin, PollDropped, ProbeSame, ProbeFails, Take
  <2>4. \A u \in Workers : pc[u] = "probe" => pc'[u] = "probe" /\ job'[u].seq = job[u].seq
    BY <1>3, <2>2, ThreadKinds
  <2>5. Unwatched
    BY <1>1, <1>2, <1>3, <1>4, <1>5, <2>1, <2>3, <2>4 DEF Unwatched
  <2> QED
    BY <2>5, UnwatchedKeeps
<1> QED
  BY <1>6, <1>7, <1>8, <1>9

\* Timers fire, and their callbacks start.
LEMMA TickWatch ==
  ASSUME TypeOK, Watch, Tick
  PROVE  Watch'
<1>1. /\ UNCHANGED <<cfg, configSeq, stopped, admin, roster, poll, pc, job, budget>>
      /\ now' = now + 1 /\ now \in Nat /\ poll.at \in Int /\ nextPass \in Int
      /\ IF nextPass = now + 1 THEN passes' = passes + 1 /\ nextPass' = NoTime
         ELSE UNCHANGED <<passes, nextPass>>
      /\ passes \in Nat
  BY DEF Tick, settings, TypeOK
<1>2. Unhealthy(acct)' => Unhealthy(acct)
  <2>1. \A a \in roster : acct'[a].health = acct[a].health
    BY TickAlike DEF Alike, TypeOK
  <2> QED
    BY <1>1, <2>1 DEF Unhealthy
<1>3. PollOwed'
  BY <1>1, <1>2 DEF Watch, PollOwed
<1>4. PollStanding'
  <2>1. poll.at = now + 1 => PollJob(poll.seq) \in pending'
    BY DEF Tick
  <2>2. pending \subseteq pending'
    BY DEF Tick
  <2> QED
    BY <1>1, <2>1, <2>2 DEF Watch, PollStanding
<1>5. StopsOwed' /\ StopsForCause'
  BY <1>1 DEF Watch, StopsOwed, StopsForCause
<1>6. NextPassOwed'
  BY <1>1 DEF Watch, NextPassOwed
<1> QED
  BY <1>3, <1>4, <1>5, <1>6 DEF Watch

\* A publication.
LEMMA PublishWatch ==
  ASSUME TypeOK, TypeOK', Watch, Publish
  PROVE  Watch'
<1>1. PICK c \in Configs :
        /\ cfg' = c /\ stopped' = ~c.enabled
        /\ IF c.enabled
           THEN /\ passes' = passes + 1
                /\ admin' = [admin EXCEPT !.at = "idle",
                               !.overtaken = @ \/ configSeq \in admin.disabling]
           ELSE /\ UNCHANGED passes
                /\ admin' = [admin EXCEPT !.at = "idle",
                               !.disabling = @ \cup {configSeq + 1}]
  BY DEF Publish
<1>2. /\ UNCHANGED <<poll, nextPass, now, budget, pending>>
      /\ configSeq' = configSeq + 1 /\ configSeq \in Nat /\ passes \in Nat
  BY DEF Publish, timers, world, TypeOK
<1>3. CASE c.enabled
  <2>1. /\ passes' > 0
        /\ admin'.disabling = admin.disabling
        /\ admin.overtaken => admin'.overtaken
        /\ configSeq \in admin.disabling => admin'.overtaken
    <3> DEFINE overtaken == admin.overtaken \/ configSeq \in admin.disabling
    <3>1. admin' = [admin EXCEPT !.at = "idle", !.overtaken = overtaken]
      BY <1>1, <1>3
    <3>2. overtaken = TRUE \/ overtaken = FALSE
      OBVIOUS
    <3>3. admin'.disabling = admin.disabling /\ admin'.overtaken = overtaken
      <4> HIDE DEF overtaken
      <4> QED
        BY <3>1 DEF TypeOK
    <3>4. passes' > 0
      BY <1>1, <1>2, <1>3
    <3> QED
      BY <3>3, <3>4, Zenon
  <2>2. ~stopped'
    BY <1>1, <1>3, Zenon
  <2>3. \A g \in admin.disabling : g \in Nat /\ g <= configSeq
    BY DEF Watch, StopsOwed, TypeOK
  <2>4. PollOwed' /\ NextPassOwed'
    BY <2>1 DEF PollOwed, NextPassOwed
  <2>5. PollStanding'
    BY <1>2, <2>1 DEF Watch, PollStanding, StopsOwed
  <2>6. StopsOwed'
    BY <1>2, <2>1, <2>2, <2>3 DEF StopsOwed
  <2>7. StopsForCause'
    BY <1>2, <2>2 DEF Watch, StopsForCause
  <2> QED
    BY <2>4, <2>5, <2>6, <2>7 DEF Watch
<1>4. CASE ~c.enabled
  <2>1. /\ admin'.disabling = admin.disabling \cup {configSeq + 1}
        /\ admin'.overtaken = admin.overtaken
    BY <1>1, <1>4 DEF TypeOK
  <2>2. stopped' /\ ~cfg'.enabled
    BY <1>1, <1>4, Zenon
  <2>3. \A g \in admin.disabling : g \in Nat /\ g <= configSeq
    BY DEF Watch, StopsOwed, TypeOK
  <2>4. PollOwed' /\ NextPassOwed' /\ PollStanding'
    BY <2>2 DEF PollOwed, NextPassOwed, PollStanding
  <2>5. StopsOwed'
    BY <1>2, <2>1, <2>2, <2>3 DEF StopsOwed
  <2>6. StopsForCause'
    BY <1>2, <2>2 DEF Watch, StopsForCause
  <2> QED
    BY <2>4, <2>5, <2>6 DEF Watch
<1> QED
  BY <1>3, <1>4

\* A stop clears every timer, and so does a generation that is disabled for good.
LEMMA QuietedWatch ==
  ASSUME TypeOK', Watch, Quieted, UNCHANGED <<cfg, configSeq>>,
         admin'.overtaken = admin.overtaken, admin'.disabling \subseteq admin.disabling,
         \/ ~cfg.enabled /\ UNCHANGED budget
         \/ budget'.stop < Budget.stop
  PROVE  Watch'
<1>1. stopped' /\ poll'.at = NoTime
  BY DEF Quieted
<1>2. PollOwed' /\ PollStanding' /\ NextPassOwed'
  BY <1>1 DEF PollOwed, PollStanding, NextPassOwed
<1>3. StopsOwed'
  BY <1>1 DEF Watch, StopsOwed
<1>4. StopsForCause'
  BY <1>1, BoundsAreNumbers DEF Watch, StopsForCause, TypeOK, Budgets
<1> QED
  BY <1>2, <1>3, <1>4 DEF Watch

\* The plugin outside its goroutines, and the host.
LEMMA OutsideWatch ==
  ASSUME TypeOK, TypeOK', Watch, AdminStep \/ HostStep \/ UNCHANGED vars
  PROVE  Watch'
<1>1. CASE Reconfigure \/ Refresh \/ HostStep \/ UNCHANGED vars
  <2>1. /\ UNCHANGED <<cfg, configSeq, stopped, poll, nextPass, now, pending, pc, job,
                       acct, roster>>
        /\ admin'.disabling = admin.disabling /\ admin'.overtaken = admin.overtaken
        /\ passes' >= passes /\ passes \in Nat /\ passes' \in Nat
    BY <1>1 DEF Reconfigure, Refresh, HostStep, vars, settings, timers, TypeOK
  <2>2. budget'.stop = budget.stop
    <3>1. \/ UNCHANGED budget
          \/ \E what \in {"config", "refresh", "fault", "health", "edit"} : Spend(what)
      BY <1>1 DEF Reconfigure, Refresh, HostStep, vars
    <3> QED
      BY <3>1, SpendStop
  <2>3. Unwatched
    BY <2>1, <2>2 DEF Unwatched, Unhealthy
  <2> QED
    BY <2>3, UnwatchedKeeps
<1>2. CASE Publish
  BY <1>2, PublishWatch
<1>3. CASE DisableGeneration
  <2>1. PICK g \in admin.disabling :
          /\ admin' = [admin EXCEPT !.disabling = @ \ {g}]
          /\ IF StillDisabled(g) THEN Quieted
             ELSE UNCHANGED <<stopped, timers, deadline, acct>>
    BY <1>3 DEF DisableGeneration
  <2>2. /\ admin'.disabling = admin.disabling \ {g} /\ admin'.overtaken = admin.overtaken
        /\ UNCHANGED <<cfg, configSeq, now, budget, roster, passes, pending, pc, job>>
    BY <1>3, <2>1 DEF DisableGeneration, world, TypeOK
  <2>3. CASE StillDisabled(g)
    BY <2>1, <2>2, <2>3, QuietedWatch DEF StillDisabled
  <2>4. CASE ~StillDisabled(g)
    <3>1. UNCHANGED <<stopped, poll, nextPass, acct>>
      BY <2>1, <2>4 DEF timers
    <3>2. configSeq \in admin.disabling => configSeq \in admin'.disabling
      BY <2>2, <2>4 DEF StillDisabled, Watch, StopsOwed
    <3>3. PollOwed' /\ PollStanding' /\ NextPassOwed' /\ StopsForCause'
      BY <2>2, <3>1
      DEF Watch, PollOwed, PollStanding, NextPassOwed, StopsForCause, Unhealthy
    <3>4. StopsOwed'
      BY <2>2, <3>1, <3>2 DEF Watch, StopsOwed
    <3> QED
      BY <3>3, <3>4 DEF Watch
  <2> QED
    BY <2>3, <2>4
<1>4. CASE Stop
  <2>1. budget'.stop < Budget.stop
    <3>1. budget \in Budgets /\ Budget \in Budgets /\ budget.stop <= Budget.stop
      BY BoundsAreNumbers DEF TypeOK, Watch, StopsForCause
    <3> QED
      BY <1>4, <3>1 DEF Stop, Spend, Budgets
  <2> QED
    BY <1>4, <2>1, QuietedWatch DEF Stop
<1> QED
  BY <1>1, <1>2, <1>3, <1>4 DEF AdminStep

\* Every step.
LEMMA NextWatch ==
  ASSUME TypeOK, TypeOK', Posts, Forgotten, Watch, [Next]_vars
  PROVE  Watch'
<1>1. CASE ThreadStep
  BY <1>1, ThreadUnwatched, UnwatchedKeeps DEF ThreadStep
<1>2. CASE PassStep
  BY <1>2, PassWatch
<1>3. CASE CallbackStep
  BY <1>3, WorkerWatch DEF CallbackStep
<1>4. CASE Tick
  BY <1>4, TickWatch
<1>5. CASE AdminStep \/ HostStep \/ Asleep \/ UNCHANGED vars
  BY <1>5, OutsideWatch DEF Asleep
<1> QED
  BY <1>1, <1>2, <1>3, <1>4, <1>5 DEF Next

\* Somebody watches, for ever.
LEMMA WatchHolds == Spec => []Watch
<1>1. Init => Watch
  <2> SUFFICES ASSUME Init
               PROVE  Watch
    OBVIOUS
  <2>1. /\ roster = {} /\ poll.at = NoTime /\ budget = Budget
        /\ admin.disabling = {} /\ cfg = InitialConfig
        /\ stopped = ~InitialConfig.enabled
        /\ passes = IF InitialConfig.enabled THEN 1 ELSE 0
    BY DEF Init
  <2>2. Budget \in Budgets
    BY BoundsAreNumbers
  <2>3. CASE InitialConfig.enabled
    <3>1. ~stopped
      BY <2>1, <2>3, Zenon
    <3> QED
      BY <2>1, <2>2, <2>3, <3>1
      DEF Watch, PollOwed, PollStanding, StopsOwed, NextPassOwed, StopsForCause, Budgets
  <2>4. CASE ~InitialConfig.enabled
    <3>1. stopped
      BY <2>1, <2>4, Zenon
    <3> QED
      BY <2>1, <2>2, <2>4, <3>1
      DEF Watch, PollOwed, PollStanding, StopsOwed, NextPassOwed, StopsForCause, Budgets
  <2> QED
    BY <2>3, <2>4
<1>2. TypeOK /\ TypeOK' /\ Posts /\ Forgotten /\ Watch /\ [Next]_vars => Watch'
  BY NextWatch
<1> QED
  BY <1>1, <1>2, TypesHold, ForgottenHolds, OwedHolds, PTL DEF Spec

\* Whenever the engine sleeps with an account quarantined or recovering, its health
\* poll is armed for an instant to come (scheduleHealthPollLocked, onHealthPoll), unless
\* a configuration was enabled while an older one was still being disabled.
THEOREM PollArmedUnlessOvertakenHolds == Spec => []PollArmedUnlessOvertaken
<1>1. Watch => PollArmedUnlessOvertaken
  BY DEF Watch, PollOwed, PollStanding, PollArmedUnlessOvertaken, PollArmed, Quiet, Idle,
         Workers, Threads
<1> QED
  BY <1>1, WatchHolds, PTL

\* Whenever the engine sleeps under a configuration that enables it, and nobody has
\* called Stop, it runs and its next full pass is armed: disabling an older generation,
\* however late, does not silence a newer one (stopDisabledGeneration).
THEOREM EnabledRunsHolds == Spec => []EnabledRuns
<1>1. TypeOK /\ Watch => EnabledRuns
  BY BoundsAreNumbers
  DEF TypeOK, Budgets, Watch, NextPassOwed, StopsForCause, EnabledRuns, Idle, Threads
<1> QED
  BY <1>1, WatchHolds, TypesHold, PTL

----------------------------------------------------------------------------
\* Retries.  From here on some rung of the ladder lies beyond the last instant.

LongRung == \E d \in RetryDelays : d > Horizon

\* An account that was provided for, or whose retry somebody holds, still is.
Retried(r, s) ==
  \/ s.health = "quarantined"
  \/ Provided(s)
  \/ /\ s.health = r.health /\ (s.reset = "awaiting" <=> r.reset = "awaiting")
     /\ s.epoch = r.epoch /\ s.retrySeq = r.retrySeq
     /\ Provided(r) => Provided(s)

\* Nothing is claimed or wished for anew.
Kept(r, s) ==
  /\ s.fetchPending => r.fetchPending
  /\ s.wantRetry => r.wantRetry
  /\ KeepsIntent(r) => KeepsIntent(s)
  /\ Reaches(r) => Reaches(s)

\* What anybody but a pass may do to a record.
Later(r, s) == Kept(r, s) /\ Retried(r, s)

\* It may do so time and again.
LEMMA LaterLater ==
  ASSUME NEW r, NEW s, NEW u, Later(r, s), Later(s, u)
  PROVE  Later(r, u)
<1>1. Retried(r, s) /\ Retried(s, u)
  BY DEF Later
<1>2. Retried(r, u)
  <2>1. CASE Provided(s)
    BY <1>1, <2>1 DEF Retried
  <2>2. CASE ~Provided(s)
    BY <1>1, <2>2 DEF Retried
  <2> QED
    BY <2>1, <2>2
<1>3. Kept(r, u)
  BY DEF Later, Kept
<1> QED
  BY <1>2, <1>3 DEF Later

\* Records that differ in nothing that retries depend on.
SameRetries(r, s) ==
  /\ s.health = r.health /\ s.reset = r.reset /\ s.epoch = r.epoch
  /\ s.retrySeq = r.retrySeq /\ s.ladder = r.ladder /\ s.wantRetry = r.wantRetry
  /\ s.wantAwaiting = r.wantAwaiting /\ s.fetchPending = r.fetchPending

\* They are later versions of each other.
LEMMA SameRetriesLater ==
  ASSUME NEW r, NEW s, SameRetries(r, s)
  PROVE  Later(r, s)
  BY DEF Later, Kept, Retried, SameRetries, KeepsIntent, Reaches, Provided

\* Bookkeeping.
LEMMA BookkeepingLater ==
  ASSUME NEW r \in Record
  PROVE  /\ Later(r, r)
         /\ Later(r, [r EXCEPT !.started = @ + 1])
         /\ Later(r, [r EXCEPT !.unwritten = FALSE])
         /\ \A d : Later(r, [r EXCEPT !.desired = d])
         /\ \A n : Later(r, [r EXCEPT !.needsImmediate = n])
         /\ \A q : Later(r, [r EXCEPT !.weekly = q])
         /\ \A at : Later(r, [r EXCEPT !.resetAt = at])
         /\ \A p, saved, sentinel, t : Later(r, AfterWrite(r, p, saved, sentinel, t))
<1>1. SameRetries(r, r) /\ SameRetries(r, [r EXCEPT !.started = @ + 1])
      /\ SameRetries(r, [r EXCEPT !.unwritten = FALSE])
  BY DEF SameRetries, Record
<1>2. \A d : /\ SameRetries(r, [r EXCEPT !.desired = d])
             /\ SameRetries(r, [r EXCEPT !.needsImmediate = d])
             /\ SameRetries(r, [r EXCEPT !.weekly = d])
             /\ SameRetries(r, [r EXCEPT !.resetAt = d])
  BY DEF SameRetries, Record
<1>3. \A p, saved, sentinel, t : SameRetries(r, AfterWrite(r, p, saved, sentinel, t))
  BY DEF SameRetries, AfterWrite, Record
<1> QED
  BY <1>1, <1>2, <1>3, SameRetriesLater

\* A claim given back.
LEMMA ReleasedLater ==
  ASSUME NEW r \in Record
  PROVE  Later(r, Released(r)) /\ ~Released(r).fetchPending
  BY DEF Later, Kept, Retried, KeepsIntent, Reaches, Provided, Released, Record

\* A demotion.
LEMMA EnterAwaitingLater ==
  ASSUME NEW r \in Record
  PROVE  Later(r, EnterAwaiting(r)) /\ Later(r, CrossedDeadline(r))
<1>1. Later(r, EnterAwaiting(r))
  <2>1. CASE r.reset = "awaiting"
    BY <2>1, BookkeepingLater DEF EnterAwaiting
  <2>2. CASE r.reset # "awaiting"
    <3> DEFINE s == EnterAwaiting(r)
    <3>1. /\ s.reset = "awaiting" /\ s.wantAwaiting /\ ~s.wantRetry
          /\ s.fetchPending => r.fetchPending
          /\ s.ladder = r.ladder
      BY <2>2 DEF EnterAwaiting, Record
    <3> HIDE DEF s
    <3>2. Later(r, s)
      BY <3>1 DEF Later, Kept, Retried, KeepsIntent, Reaches, Provided
    <3> QED
      BY <3>2 DEF s
  <2> QED
    BY <2>1, <2>2
<1>2. Later(EnterAwaiting(r), CrossedDeadline(r))
  BY EnterAwaitingType, BookkeepingLater DEF CrossedDeadline
<1> QED
  BY <1>1, <1>2, LaterLater

\* A demotion at the deadline.
LEMMA DemotedLater ==
  ASSUME NEW r \in Record, NEW t
  PROVE  Later(r, Demoted(r, t))
  BY EnterAwaitingLater, BookkeepingLater DEF Demoted

\* A failed attempt.
LEMMA AfterFailureLater ==
  ASSUME NEW r \in Record, NEW s, NEW t
  PROVE  Later(r, AfterFailure(r, s, t))
<1>1. HasKnownReset(r) => Later(r, [r EXCEPT !.reset = "stale"])
  BY DEF Later, Kept, Retried, KeepsIntent, Reaches, Provided, Record, HasKnownReset
<1> QED
  BY <1>1, EnterAwaitingLater, BookkeepingLater DEF AfterFailure, Degraded

\* A weekly answer.
LEMMA AfterWeeklyLater ==
  ASSUME NEW r \in Record, NEW seq \in Nat, NEW s, NEW at \in Int, NEW dry, NEW t
  PROVE  Later(r, AfterWeekly(r, seq, s, at, dry, t))
<1> DEFINE b == [r EXCEPT !.weekly = seq]
           c == [b EXCEPT !.resetAt = at]
<1>1. b \in Record /\ Later(r, b)
  BY Zenon, BookkeepingLater DEF Record
<1>2. AfterWeekly(r, seq, s, at, dry, t) \in
        {CrossedDeadline(b), EnterAwaiting(c), Confirmed(b, at), b}
  BY DEF AfterWeekly
<1> HIDE DEF b
<1>3. c \in Record /\ Later(b, c)
  BY Zenon, <1>1, BookkeepingLater DEF Record
<1> HIDE DEF c
<1>4. Later(b, Confirmed(b, at))
  <2> DEFINE confirmed == Confirmed(b, at)
  <2>1. /\ confirmed.health = "healthy" /\ confirmed.reset = "confirmed" /\ confirmed.ladder = {}
        /\ ~confirmed.wantRetry
        /\ confirmed.fetchPending => b.fetchPending
    BY <1>1 DEF Confirmed, CancelRetries, Record
  <2> HIDE DEF confirmed
  <2>2. Later(b, confirmed)
    BY <2>1 DEF Later, Kept, Retried, KeepsIntent, Reaches, Provided
  <2> QED
    BY <2>2 DEF confirmed
<1> QED
  BY <1>1, <1>2, <1>3, <1>4, EnterAwaitingLater, LaterLater

\* A ladder that is started.
LEMMA StartedLater ==
  ASSUME LongRung, NEW r \in Record, NEW t \in Nat
  PROVE  LET s == [StartRetries(r, t) EXCEPT !.wantRetry = FALSE]
         IN  Later(r, s) /\ Provided(s) /\ ~s.wantRetry
<1> DEFINE s == [StartRetries(r, t) EXCEPT !.wantRetry = FALSE]
<1>1. /\ s.ladder = {t + d : d \in RetryDelays} /\ ~s.wantRetry /\ s.reset = r.reset
      /\ s.fetchPending => r.fetchPending
      /\ r.wantAwaiting => s.wantAwaiting
  BY DEF StartRetries, CancelRetries, Record
<1>2. \E n \in s.ladder : n > Horizon
  <2>1. PICK d \in RetryDelays : d > Horizon
    BY DEF LongRung
  <2>2. d \in Nat /\ Horizon \in Nat
    BY RetryDelaysAreDelays, BoundsAreNumbers
  <2>3. t + d > Horizon
    BY <2>1, <2>2
  <2> QED
    BY <1>1, <2>3
<1> HIDE DEF s
<1>3. Later(r, s) /\ Provided(s) /\ ~s.wantRetry
  BY <1>1, <1>2 DEF Later, Kept, Retried, KeepsIntent, Reaches, Provided
<1> QED
  BY <1>3 DEF s

\* What a pass's tail does to a record.
LEMMA RecoveryLater ==
  ASSUME LongRung, TypeOK, NEW r \in Record
  PROVE  Later(r, WithRecoveryRetries(r)) /\ ~WithRecoveryRetries(r).wantRetry
<1>1. CASE ~r.wantRetry
  BY <1>1, BookkeepingLater DEF WithRecoveryRetries
<1>2. CASE r.wantRetry /\ r.health # "recovering"
  <2>1. WithRecoveryRetries(r) = [r EXCEPT !.wantRetry = FALSE]
    BY <1>2 DEF WithRecoveryRetries
  <2> QED
    BY <1>2, <2>1 DEF Later, Kept, Retried, KeepsIntent, Reaches, Provided, Record
<1>3. CASE r.wantRetry /\ r.health = "recovering"
  <2>1. now \in Nat
    BY DEF TypeOK
  <2> QED
    BY <1>3, <2>1, StartedLater DEF WithRecoveryRetries
<1> QED
  BY <1>1, <1>2, <1>3

\* What a pass's claim does to a record it finds unclaimed.
LEMMA ReservedProvides ==
  ASSUME NEW r \in Record, r.health # "quarantined", ~r.fetchPending
  PROVE  /\ Provided(Reserved(r)) /\ KeepsIntent(Reserved(r)) /\ Reaches(Reserved(r))
<1> DEFINE s == Reserved(r)
<1>1. s.reset = r.reset /\ s.health = r.health /\ s.ladder = {}
  BY DEF Reserved, CancelRetries, Record
<1>2. r.reset = "awaiting" => s.wantAwaiting
  BY DEF Reserved, CancelRetries, Record
<1>3. r.health = "recovering" => s.wantRetry
  BY DEF Reserved, CancelRetries, Record
<1> HIDE DEF s
<1>4. Provided(s) /\ KeepsIntent(s) /\ Reaches(s)
  BY <1>1, <1>2, <1>3 DEF KeepsIntent, Reaches, Provided
<1> QED
  BY <1>4 DEF s

----------------------------------------------------------------------------
\* Retries: flushes and fetches.

Mend == Claims /\ RecoveryOwed /\ RecordsSane /\ OptOutsLeave /\ RetriesOwed

AllLater == \A a \in Accounts : Later(acct[a], acct'[a])

\* A step that takes nobody's retry away.
Mending ==
  /\ UNCHANGED <<cfg, roster, stopped>>
  /\ pass'.reserved = pass.reserved
  /\ passes > 0 => passes' > 0
  /\ pc[Pass] # "idle" => pc'[Pass] # "idle"
  /\ pc[Pass] = "prune" => pc'[Pass] = "prune"
  /\ Follows(Pass) => Follows(Pass)'
  /\ \A a \in Accounts : Kept(acct[a], acct'[a])
  /\ ~stopped => \A a \in roster : Manages(cfg, a) /\ Cared(a) => Cared(a)'

\* What is owed stays owed.
LEMMA MendingKeeps ==
  ASSUME TypeOK, Mend, Mending
  PROVE  Mend'
<1>1. roster \subseteq Accounts
  BY DEF TypeOK
<1>2. Claims'
  BY DEF Mend, Mending, Claims, Kept
<1>3. RecoveryOwed'
  BY <1>1 DEF Mend, Mending, RecoveryOwed, Kept
<1>4. RecordsSane'
  BY DEF Mend, Mending, RecordsSane, Kept
<1>5. OptOutsLeave'
  BY DEF Mend, Mending, OptOutsLeave, Manages
<1>6. RetriesOwed'
  BY DEF Mend, Mending, OptOutsLeave, RetriesOwed, Manages
<1> QED
  BY <1>2, <1>3, <1>4, <1>5, <1>6 DEF Mend

\* Later records and frames that hold as much care as much.
LEMMA LaterCared ==
  ASSUME NEW a, Later(acct[a], acct'[a]), Cared(a),
         \A t \in Threads : frame[t].retries \subseteq frame'[t].retries
  PROVE  Cared(a)'
  BY DEF Later, Retried, Cared, Held

\* One record of the accounts changes.
LEMMA OneLater ==
  ASSUME TypeOK, NEW x, NEW r, acct' = [acct EXCEPT ![x] = r],
         x \in Accounts => Later(acct[x], r)
  PROVE  AllLater
<1>1. \A a \in Accounts : acct'[a] = IF a = x THEN r ELSE acct[a]
  BY DEF TypeOK
<1>2. \A a \in Accounts : Later(acct[a], acct[a])
  BY BookkeepingLater DEF TypeOK
<1> QED
  BY <1>1, <1>2 DEF AllLater

\* None does.
LEMMA SameLater ==
  ASSUME TypeOK, UNCHANGED acct
  PROVE  AllLater
  BY BookkeepingLater DEF AllLater, TypeOK

\* Every step of a fetch.
LEMMA FetchLater ==
  ASSUME TypeOK, NEW t \in Threads, FetchStep(t)
  PROVE  AllLater
<1> DEFINE a == Target(t)
<1>1. a \in Accounts => acct[a] \in Record
  BY DEF TypeOK
<1>2. try[t].seq \in Nat /\ try[t].at \in Int
  BY DEF TypeOK, Tries
<1>3. CASE FetchQuit(t) \/ AdmitRestart(t) \/ AdmitRefused(t) \/ CallReturns(t)
  BY <1>3, SameLater DEF FetchQuit, AdmitRestart, AdmitRefused, CallReturns
<1>4. CASE FetchExpired(t) \/ AdmitExpired(t)
  <2>1. acct' = [acct EXCEPT ![a] = EnterAwaiting(acct[a])]
    BY <1>4 DEF FetchExpired, AdmitExpired
  <2> QED
    BY <1>1, <2>1, EnterAwaitingLater, OneLater
<1>5. CASE FetchStart(t)
  <2>1. a \in Accounts
    BY <1>5 DEF FetchStart, Fetchable, TypeOK
  <2>2. acct' = [acct EXCEPT ![a] = [acct[a] EXCEPT !.started = @ + 1]]
    BY <1>5, <2>1 DEF FetchStart, TypeOK
  <2> QED
    BY <1>1, <2>2, BookkeepingLater, OneLater
<1>6. CASE AdmitCall(t)
  <2> DEFINE owed == acct[a].needsImmediate /\ acct[a].reset # "awaiting"
  <2>1. a \in Accounts
    BY <1>6 DEF AdmitCall, Current, TypeOK
  <2>2. acct' = [acct EXCEPT ![a] = [acct[a] EXCEPT !.needsImmediate = owed]]
    BY <1>6, <2>1 DEF AdmitCall, TypeOK
  <2>3. Later(acct[a], [acct[a] EXCEPT !.needsImmediate = owed])
    BY <1>1, <2>1, BookkeepingLater
  <2> QED
    BY <2>2, <2>3, OneLater
<1>7. CASE ReadFails(t) \/ ApplyError(t)
  <2>1. acct' = AfterFailedTry(t, a)
    BY <1>7 DEF ReadFails, ApplyError
  <2>2. acct' = acct \/ acct' = [acct EXCEPT ![a] = AfterFailure(acct[a], try[t].startedAt, now)]
    BY <2>1 DEF AfterFailedTry
  <2> QED
    BY <1>1, <2>2, AfterFailureLater, OneLater, SameLater
<1>8. CASE ApplyAnswer(t)
  <2>1. acct' = [acct EXCEPT ![a] = AfterAnswer(t, a)]
    BY <1>8 DEF ApplyAnswer
  <2>2. AfterAnswer(t, a) \in
          {acct[a], AfterFailure(acct[a], try[t].startedAt, now),
           AfterWeekly(acct[a], try[t].seq, try[t].startedAt, try[t].at, cfg.dryRun, now)}
    BY DEF AfterAnswer
  <2>3. ASSUME a \in Accounts
        PROVE  Later(acct[a], AfterAnswer(t, a))
    <3> HIDE DEF a
    <3>1. acct[a] \in Record
      BY <1>1, <2>3
    <3>2. Later(acct[a], acct[a])
      BY <3>1, BookkeepingLater
    <3>3. Later(acct[a], AfterFailure(acct[a], try[t].startedAt, now))
      BY <3>1, AfterFailureLater
    <3>4. Later(acct[a], AfterWeekly(acct[a], try[t].seq, try[t].startedAt, try[t].at,
                                     cfg.dryRun, now))
      BY <1>2, <3>1, AfterWeeklyLater
    <3> QED
      BY <2>2, <3>2, <3>3, <3>4
  <2> QED
    BY <2>1, <2>3, OneLater
<1> QED
  BY <1>3, <1>4, <1>5, <1>6, <1>7, <1>8 DEF FetchStep

\* Noting a priority.
LEMMA NotedLater ==
  ASSUME TypeOK, NEW i, NEW saved, acct' = Noted(i, saved)
  PROVE  AllLater
<1>1. CASE i.acct \in roster
  <2> DEFINE r == AfterWrite(acct[i.acct], i.desired, saved, cfg.sentinel, now)
  <2>1. acct[i.acct] \in Record
    BY <1>1 DEF TypeOK
  <2>2. Later(acct[i.acct], r)
    BY <2>1, BookkeepingLater
  <2>3. acct' = [acct EXCEPT ![i.acct] = r]
    BY <1>1 DEF Noted
  <2> HIDE DEF r
  <2> QED
    BY <2>2, <2>3, OneLater
<1>2. CASE i.acct \notin roster
  BY <1>2, SameLater DEF Noted
<1> QED
  BY <1>1, <1>2

\* A flush that goes round again.
LEMMA AgainLater ==
  ASSUME TypeOK, NEW t \in Threads, FlushAgain(t)
  PROVE  AllLater
<1> DEFINE settled == Settled(acct, t)
<1>1. \A a \in Accounts : acct[a] \in Record /\ settled[a] \in Record
  BY SettledType DEF Records, TypeOK
<1>2. \A a \in Accounts : Later(acct[a], settled[a])
  BY <1>1, BookkeepingLater DEF Settled
<1> HIDE DEF settled
<1>3. \A a \in Accounts : acct'[a] = Demoted(settled[a], now)
  BY DEF FlushAgain, AllDemoted, settled
<1>4. \A a \in Accounts : Later(settled[a], acct'[a])
  BY <1>1, <1>3, DemotedLater
<1> QED
  BY <1>2, <1>4, LaterLater DEF AllLater

\* A flush keeps its frame but for what it adds, or returns.
LEMMA FlushFrames ==
  ASSUME TypeOK, Posts, NEW t \in Threads, FlushStep(t)
  PROVE  /\ pc[t] \in Flushing
         /\ \A u \in Threads \ {t} : pc'[u] = pc[u] /\ frame'[u] = frame[u]
         /\ \/ /\ FlushStopped(t) \/ FlushArm(t)
               /\ pc'[t] = frame[t].ret /\ frame[t].ret \in ReturnsOf(t)
            \/ /\ ~FlushStopped(t) /\ ~FlushArm(t)
               /\ pc'[t] \in Flushing
               /\ frame'[t].ret = frame[t].ret
               /\ frame[t].retries \subseteq frame'[t].retries
<1>1. pc[t] \in Flushing
  BY FlushGoes
<1>2. CASE FlushStopped(t) \/ FlushArm(t)
  <2>1. frame[t].ret \in ReturnsOf(t)
    BY <1>1 DEF Posts, Placed
  <2> QED
    BY <1>1, <1>2, <2>1, ReturnPlaced DEF FlushStopped, FlushArm
<1>3. CASE FlushPlan(t)
  <2>1. PICK p, x, d : frame' = [frame EXCEPT ![t].plan = p, ![t].retries = @ \cup x,
                                              ![t].demoted = d]
    BY <1>3 DEF FlushPlan
  <2>2. /\ frame'[t].ret = frame[t].ret /\ frame[t].retries \subseteq frame'[t].retries
        /\ \A u \in Threads \ {t} : frame'[u] = frame[u]
    BY <2>1 DEF TypeOK, Frames
  <2>3. pc[t] = "flush" /\ ~stopped
    BY <1>3 DEF FlushPlan
  <2>4. ~FlushStopped(t) /\ ~FlushArm(t)
    BY <2>3 DEF FlushStopped, FlushArm
  <2>5. pc'[t] \in {"write", "arm"} /\ \A u \in Threads \ {t} : pc'[u] = pc[u]
    BY <1>3 DEF FlushPlan, TypeOK
  <2>6. pc'[t] \in Flushing
    BY <2>5 DEF Flushing
  <2> QED
    BY <1>1, <2>2, <2>4, <2>5, <2>6
<1>4. CASE ~FlushStopped(t) /\ ~FlushArm(t) /\ (FlushAgain(t) \/ WriteRead(t) \/ WriteAdmit(t))
  BY <1>1, <1>4 DEF FlushAgain, WriteRead, WriteAdmit, TypeOK, Flushing
<1>5. CASE /\ ~FlushStopped(t) /\ ~FlushArm(t)
           /\ \/ WriteSkip(t) \/ WriteReadFails(t) \/ WriteNoOp(t) \/ WriteRefused(t)
              \/ WriteSaved(t) \/ WriteSaveFails(t)
  <2>1. PICK i : NextItem(t, i)
    BY <1>5 DEF WriteSkip, WriteReadFails, WriteNoOp, WriteRefused, WriteSaved, WriteSaveFails
  <2>2. pc'[t] \in Flushing
    BY <1>1, <2>1, NextItemPlaced DEF Flushing
  <2> QED
    BY <1>1, <1>5, <2>1, <2>2, NextItemPlaced
<1> QED
  BY <1>2, <1>3, <1>4, <1>5 DEF FlushStep

\* What is ahead of a pass stays ahead while any thread flushes, and a pass goes on.
LEMMA FlushLeavesPass ==
  ASSUME TypeOK, Posts, NEW t \in Threads, FlushStep(t)
  PROVE  /\ pc[Pass] # "idle" => pc'[Pass] # "idle"
         /\ pc[Pass] = "prune" => pc'[Pass] = "prune"
         /\ \A u \in Threads : Follows(u) => Follows(u)'
         /\ UNCHANGED <<cfg, roster, stopped, pass, passes, now>>
<1>1. UNCHANGED <<cfg, roster, stopped, pass, passes, now>>
  BY DEF FlushStep, FlushStopped, FlushPlan, FlushAgain, FlushArm, WriteSkip, WriteRead,
         WriteReadFails, WriteNoOp, WriteRefused, WriteAdmit, WriteSaved, WriteSaveFails,
         settings, world
<1>2. Follows(t) => Follows(t)'
  BY FlushFrames DEF Follows, Flushing, Requesting
<1>3. \A u \in Threads \ {t} : Follows(u) => Follows(u)'
  BY FlushFrames DEF Follows
<1>4. pc[t] \notin {"idle", "prune"} /\ (t = Pass => pc'[t] # "idle")
  BY FlushFrames DEF Flushing, ReturnsOf
<1> QED
  BY <1>1, <1>2, <1>3, <1>4, FlushFrames, ThreadKinds

\* What a fetch leaves alone.
LEMMA FetchLeavesPass ==
  ASSUME TypeOK, Posts, NEW t \in Threads, FetchStep(t)
  PROVE  /\ UNCHANGED <<cfg, roster, stopped, pass, passes, now>>
         /\ \A u \in Threads \ {t} : pc'[u] = pc[u] /\ frame'[u] = frame[u]
         /\ t # Pass
         /\ \A u \in Threads : frame[u].retries \subseteq frame'[u].retries
<1>1. UNCHANGED <<cfg, roster, stopped, pass, passes, now>>
  BY DEF FetchStep, FetchQuit, FetchExpired, FetchStart, AdmitRestart, AdmitRefused,
         AdmitExpired, AdmitCall, CallReturns, ReadFails, ApplyError, ApplyAnswer,
         settings, world
<1>2. t # Pass /\ pc[t] \in Requesting
  BY FetchFrom
<1>3. pc[t] \notin Flushing
  BY <1>2 DEF Requesting, Flushing
<1>4. \A u \in Threads \ {t} : pc'[u] = pc[u] /\ frame'[u] = frame[u]
  BY <1>2, <1>3, FetchGoes, FetchPlaced
<1>5. frame[t].retries = {}
  BY <1>3 DEF Posts, Placed
<1> QED
  BY <1>1, <1>2, <1>4, <1>5

\* Fetches take nobody's retry away.
LEMMA FetchMends ==
  ASSUME TypeOK, Posts, NEW t \in Threads, FetchStep(t)
  PROVE  Mending
<1>1. AllLater
  BY FetchLater
<1>2. /\ UNCHANGED <<cfg, roster, stopped, pass, passes>> /\ roster \subseteq Accounts
      /\ pc'[Pass] = pc[Pass] /\ frame'[Pass] = frame[Pass]
      /\ \A u \in Threads : frame[u].retries \subseteq frame'[u].retries
  BY FetchLeavesPass, ThreadKinds DEF TypeOK
<1>3. \A a \in roster : Cared(a) => Cared(a)'
  BY <1>1, <1>2, LaterCared DEF AllLater
<1> QED
  BY <1>1, <1>2, <1>3 DEF Mending, AllLater, Later, Follows

\* Nor does a flush but where it collects or hands over.
LEMMA WriteMends ==
  ASSUME TypeOK, Posts, NEW t \in Threads, FlushStep(t), ~FlushPlan(t), ~FlushArm(t)
  PROVE  Mending
<1>1. AllLater
  <2>1. CASE \/ FlushStopped(t) \/ WriteSkip(t) \/ WriteRead(t) \/ WriteReadFails(t)
             \/ WriteRefused(t) \/ WriteAdmit(t) \/ WriteSaveFails(t)
    BY <2>1, SameLater
    DEF FlushStopped, WriteSkip, WriteRead, WriteReadFails, WriteRefused, WriteAdmit,
        WriteSaveFails
  <2>2. CASE WriteNoOp(t) \/ WriteSaved(t)
    BY <2>2, NotedLater DEF WriteNoOp, WriteSaved
  <2> QED
    BY <2>1, <2>2, AgainLater DEF FlushStep
<1>2. ~stopped => \A u \in Threads : frame[u].retries \subseteq frame'[u].retries
  BY FlushFrames DEF FlushStopped
<1>3. roster \subseteq Accounts
  BY DEF TypeOK
<1>4. ~stopped => \A a \in roster : Cared(a) => Cared(a)'
  BY <1>1, <1>2, <1>3, LaterCared DEF AllLater
<1> QED
  BY <1>1, <1>4, FlushLeavesPass, ThreadKinds DEF Mending, AllLater, Later

\* What a flush collects it holds.
LEMMA PlanMends ==
  ASSUME TypeOK, Posts, NEW t \in Threads, FlushPlan(t)
  PROVE  Mending
<1> DEFINE demoted == AllDemoted(acct)
           ranked == Ranked(demoted)
           collected == IF frame[t].mode = "none" THEN {}
                        ELSE {a \in roster : Collects(ranked[a])}
<1>1. demoted \in Records /\ \A a \in Accounts : Later(acct[a], demoted[a])
  BY AllDemotedType, DemotedLater DEF Records, TypeOK, AllDemoted
<1>2. /\ acct' = [a \in Accounts |-> IF a \in collected THEN Collected(ranked[a]) ELSE ranked[a]]
      /\ \A u \in Threads \ {t} : frame'[u] = frame[u]
      /\ frame'[t].retries = frame[t].retries \cup {ScheduleOf(a, ranked[a]) : a \in collected}
      /\ FlushStep(t)
  <2> HIDE DEF ranked
  <2>1. /\ acct' = [a \in Accounts |-> IF a \in collected THEN Collected(ranked[a]) ELSE ranked[a]]
        /\ frame' = [frame EXCEPT
              ![t].plan = WritePlan(ranked),
              ![t].retries = @ \cup {ScheduleOf(a, ranked[a]) : a \in collected},
              ![t].demoted = {<<a, ranked[a].epoch>> :
                                a \in {b \in roster : ranked[b].reset = "awaiting"}}]
    BY DEF FlushPlan, ranked
  <2> HIDE DEF collected
  <2>2. FlushStep(t)
    BY DEF FlushStep
  <2> QED
    BY <2>1, <2>2 DEF TypeOK, Frames
<1> HIDE DEF demoted
<1>3. \A a \in Accounts : ranked[a] \in Record /\ Later(demoted[a], ranked[a])
  <2>1. ranked \in Records
    BY <1>1, RankedType
  <2>2. \A a \in Accounts : Later(demoted[a], ranked[a])
    BY <1>1, BookkeepingLater DEF Ranked, Records
  <2> QED
    BY <2>1, <2>2 DEF Records
<1> HIDE DEF ranked
<1>4. \A a \in collected : ~ranked[a].fetchPending
  BY DEF Collects
<1> HIDE DEF collected
<1>5. \A a \in Accounts : Later(acct[a], ranked[a])
  BY <1>1, <1>3, LaterLater
<1>6. ASSUME NEW a \in Accounts
      PROVE  /\ Kept(acct[a], acct'[a])
             /\ acct'[a].health = ranked[a].health /\ acct'[a].reset = ranked[a].reset
             /\ acct'[a].epoch = ranked[a].epoch /\ acct'[a].retrySeq = ranked[a].retrySeq
             /\ a \notin collected \/ ranked[a].reset # "awaiting" =>
                  (Provided(ranked[a]) => Provided(acct'[a]))
  <2>1. CASE a \in collected
    <3>1. acct'[a] = Collected(ranked[a]) /\ ranked[a] \in Record
      BY <1>2, <1>3, <2>1
    <3> DEFINE r == ranked[a]
               s == acct'[a]
    <3>2. /\ s.health = r.health /\ s.reset = r.reset
          /\ s.epoch = r.epoch /\ s.retrySeq = r.retrySeq /\ s.ladder = r.ladder
          /\ s.wantRetry = r.wantRetry /\ s.fetchPending = r.fetchPending
      BY <3>1 DEF Collected, Record
    <3>3. ~s.fetchPending
      BY <1>4, <2>1, <3>2
    <3>4. Kept(r, s)
      BY <3>2, <3>3 DEF Kept, KeepsIntent, Reaches
    <3>5. Kept(acct[a], s)
      BY <1>5, <3>4 DEF Later, Kept
    <3>6. r.reset # "awaiting" => (Provided(r) => Provided(s))
      BY <3>2 DEF Provided
    <3> QED
      BY <2>1, <3>2, <3>5, <3>6
  <2>2. CASE a \notin collected
    BY <1>2, <1>5, <2>2 DEF Later
  <2> QED
    BY <2>1, <2>2
<1>7. ASSUME NEW a \in roster, Cared(a)
      PROVE  Cared(a)'
  <2>1. a \in Accounts /\ Later(acct[a], ranked[a])
    BY <1>5 DEF TypeOK
  <2>2. CASE ranked[a].health = "quarantined"
    BY <1>6, <2>1, <2>2 DEF Cared
  <2>3. CASE a \in collected /\ ranked[a].reset = "awaiting"
    <3>1. ScheduleOf(a, ranked[a]) \in frame'[t].retries
      BY <1>2, <2>3
    <3>2. /\ ScheduleOf(a, ranked[a]).acct = a
          /\ ScheduleOf(a, ranked[a]).epoch = acct'[a].epoch
          /\ ScheduleOf(a, ranked[a]).retrySeq = acct'[a].retrySeq
      BY <1>6, <2>1 DEF ScheduleOf
    <3>3. Held(a)'
      BY <3>1, <3>2 DEF Held
    <3> QED
      BY <1>6, <2>1, <2>3, <3>3 DEF Cared
  <2>4. CASE Provided(ranked[a]) /\ (a \notin collected \/ ranked[a].reset # "awaiting")
    BY <1>6, <2>1, <2>4 DEF Cared
  <2>5. CASE ranked[a].health # "quarantined" /\ ~Provided(ranked[a])
    <3>1. /\ acct[a].health = ranked[a].health
          /\ acct[a].reset = "awaiting" <=> ranked[a].reset = "awaiting"
          /\ ranked[a].epoch = acct[a].epoch /\ ranked[a].retrySeq = acct[a].retrySeq
          /\ ~Provided(acct[a])
      BY <2>1, <2>5 DEF Later, Retried
    <3>2. acct[a].reset = "awaiting" /\ Held(a)
      BY <1>7, <2>5, <3>1 DEF Cared
    <3>3. PICK u \in Threads : \E r \in frame[u].retries :
            r.acct = a /\ r.epoch = acct[a].epoch /\ r.retrySeq = acct[a].retrySeq
      BY <3>2 DEF Held
    <3>4. frame[u].retries \subseteq frame'[u].retries
      BY <1>2
    <3>5. Held(a)' /\ acct'[a].reset = "awaiting"
      BY <1>6, <2>1, <3>1, <3>2, <3>3, <3>4 DEF Held
    <3> QED
      BY <3>5 DEF Cared
  <2> QED
    BY <2>2, <2>3, <2>4, <2>5
<1> QED
  BY <1>2, <1>6, <1>7, FlushLeavesPass, ThreadKinds DEF Mending

\* What it hands over is armed, or the record does not want it any more.
LEMMA ArmMends ==
  ASSUME LongRung, TypeOK, Posts, Mend, NEW t \in Threads, FlushArm(t)
  PROVE  Mending
<1> DEFINE settled == Settled(acct, t)
           armed == {a \in Accounts : ValidRetries(t, a) # {}}
<1>1. /\ ~stopped /\ now \in Nat /\ FlushStep(t) /\ roster \subseteq Accounts
      /\ acct' = [a \in Accounts |->
                    IF a \in armed
                    THEN [StartRetries(settled[a], now) EXCEPT !.wantRetry = FALSE]
                    ELSE settled[a]]
  BY DEF FlushArm, FlushStep, TypeOK
<1>2. \A a \in Accounts : settled[a] \in Record
  BY SettledType DEF Records, TypeOK
<1>3. \A a \in Accounts : SameRetries(acct[a], settled[a])
  BY DEF Settled, SameRetries, TypeOK, Record
<1> HIDE DEF settled
<1>4. \A a \in armed : Provided(acct'[a]) /\ Later(settled[a], acct'[a])
  BY <1>1, <1>2, StartedLater
<1>5. \A a \in Accounts \ armed : acct'[a] = settled[a]
  BY <1>1
<1>6. ASSUME NEW a \in Accounts
      PROVE  Kept(acct[a], acct'[a])
  <2>1. Later(acct[a], settled[a])
    BY <1>3, SameRetriesLater
  <2> QED
    BY <1>4, <1>5, <2>1 DEF Later, Kept
<1>7. ASSUME NEW a \in roster, Manages(cfg, a), Cared(a)
      PROVE  Cared(a)'
  <2>1. CASE a \in armed
    BY <1>4, <2>1 DEF Cared
  <2>2. CASE a \notin armed
    <3>1. SameRetries(acct[a], acct'[a]) /\ a \in Accounts
      BY <1>1, <1>3, <1>5, <2>2
    <3>2. CASE acct[a].health = "quarantined" \/ Provided(acct[a])
      BY <3>1, <3>2 DEF Cared, SameRetries, Provided
    <3>3. CASE acct[a].health # "quarantined" /\ ~Provided(acct[a])
      <4>1. acct[a].reset = "awaiting" /\ Held(a)
        BY <1>7, <3>3 DEF Cared
      <4>2. PICK u \in Threads : \E r \in frame[u].retries :
              r.acct = a /\ r.epoch = acct[a].epoch /\ r.retrySeq = acct[a].retrySeq
        BY <4>1 DEF Held
      <4> PICK r \in frame[u].retries :
            r.acct = a /\ r.epoch = acct[a].epoch /\ r.retrySeq = acct[a].retrySeq
        BY <4>2
      <4>3. u # t
        <5>1. ~acct[a].fetchPending
          BY <3>1, <3>3, <4>1 DEF Provided, Mend, RecordsSane, KeepsIntent
        <5>2. StillAwaiting(a, r)
          BY <1>7, <3>3, <4>1, <4>2, <5>1 DEF StillAwaiting
        <5>3. r \notin frame[t].retries
          BY <2>2, <3>1, <4>2, <5>2 DEF ValidRetries
        <5> QED
          BY <4>2, <5>3
      <4>4. r \in frame'[u].retries
        BY <1>1, <4>2, <4>3, FlushFrames
      <4>5. Held(a)'
        BY <3>1, <4>2, <4>4 DEF Held, SameRetries
      <4> QED
        BY <3>1, <4>1, <4>5 DEF Cared, SameRetries
    <3> QED
      BY <3>2, <3>3
  <2> QED
    BY <2>1, <2>2
<1> HIDE DEF armed
<1> QED
  BY <1>1, <1>6, <1>7, FlushLeavesPass, ThreadKinds DEF Mending

----------------------------------------------------------------------------
\* Retries: passes.

\* While a full pass is requested, or the engine is stopped, only the records count.
LEMMA PassMends ==
  ASSUME stopped' \/ passes' > 0, Claims', RecordsSane'
  PROVE  Mend'
  BY DEF Mend, RecoveryOwed, OptOutsLeave, RetriesOwed

\* Records that only get later, and claims that are what is claimed, are as sane.
LEMMA LaterSane ==
  ASSUME Mend, AllLater
  PROVE  RecordsSane'
  BY DEF Mend, RecordsSane, AllLater, Later, Kept

\* A pass that begins claims what it manages and can fetch.
LEMMA BeginMends ==
  ASSUME TypeOK, Mend, PassBegin
  PROVE  Mend'
<1> DEFINE claimed == {a \in roster : Claimable(a)}
<1>1. /\ acct' = [a \in Accounts |-> IF a \in claimed THEN Reserved(acct[a]) ELSE acct[a]]
      /\ pass' = [pass EXCEPT !.reserved = claimed]
      /\ pc[Pass] = "idle" /\ pc'[Pass] = "prune"
      /\ UNCHANGED <<cfg, roster>> /\ roster \subseteq Accounts
  BY ThreadKinds DEF PassBegin, TypeOK, settings
<1>2. pass'.reserved = claimed
  BY <1>1 DEF TypeOK
<1>3. \A a \in Accounts : ~acct[a].fetchPending
  BY <1>1, ThreadKinds DEF Mend, Claims, Follows, Flushing, Requesting
<1>4. \A a \in Accounts : acct[a] \in Record
  BY DEF TypeOK
<1>5. \A a \in claimed : a \in Accounts /\ acct[a].health # "quarantined" /\ Manages(cfg, a)
  BY <1>1 DEF Claimable
<1>6. \A a \in roster : a \in claimed \/ ~Manages(cfg, a) \/ acct[a].health = "quarantined"
  BY DEF Claimable
<1> HIDE DEF claimed
<1>7. \A a \in claimed : Provided(acct'[a]) /\ KeepsIntent(acct'[a]) /\ Reaches(acct'[a])
  BY <1>1, <1>3, <1>4, <1>5, ReservedProvides
<1>8. \A a \in Accounts \ claimed : acct'[a] = acct[a]
  BY <1>1
<1>9. Claims'
  BY <1>1, <1>2, <1>3, <1>8, ThreadKinds DEF Claims, Follows
<1>10. RecordsSane'
  BY <1>7, <1>8 DEF RecordsSane, Mend
<1>11. RetriesOwed'
  BY <1>1, <1>6, <1>7, <1>8 DEF RetriesOwed, Cared, Manages
<1>12. RecoveryOwed' /\ OptOutsLeave'
  BY <1>1 DEF RecoveryOwed, OptOutsLeave
<1> QED
  BY <1>9, <1>10, <1>11, <1>12 DEF Mend

\* What is opted out goes, and its claims with it.
LEMMA PruneMends ==
  ASSUME TypeOK, Posts, Mend, PassPrune
  PROVE  Mend'
<1>1. /\ roster' = {a \in roster : Manages(cfg, a)} /\ roster \subseteq Accounts
      /\ acct' = [a \in Accounts |-> IF a \in roster' THEN acct[a] ELSE NewAccount]
      /\ UNCHANGED <<cfg, stopped, passes, pass>>
  BY DEF PassPrune, settings, TypeOK
<1>2. /\ pc'[Pass] = "flush" /\ frame'[Pass].ret = "list"
      /\ \A u \in Threads : frame[u].retries \subseteq frame'[u].retries
  <2>1. CallFlush(Pass, "none", "list") /\ "list" \in ReturnsOf(Pass) /\ pc[Pass] = "prune"
    BY DEF PassPrune, ReturnsOf
  <2>2. frame[Pass].retries = {}
    BY <2>1, ThreadKinds DEF Posts, Placed, Flushing
  <2> QED
    BY <2>1, <2>2, CalledPlaced, ThreadKinds
<1>3. \A a \in Accounts \ roster' :
        /\ ~acct'[a].fetchPending /\ acct'[a].ladder = {}
        /\ acct'[a].reset = "unknown"
  BY <1>1 DEF NewAccount
<1>4. \A a \in roster' : acct'[a] = acct[a] /\ a \in roster
  BY <1>1
<1>5. Follows(Pass)'
  BY <1>2, ThreadKinds DEF Follows, Flushing
<1>6. Claims'
  BY <1>1, <1>3, <1>4, <1>5 DEF Mend, Claims
<1>7. RecordsSane'
  BY <1>3, <1>4 DEF Mend, RecordsSane, KeepsIntent, Reaches
<1>8. RecoveryOwed' /\ OptOutsLeave'
  BY <1>1, <1>2 DEF RecoveryOwed, OptOutsLeave, Manages
<1>9. RetriesOwed'
  <2> SUFFICES ASSUME NEW a \in roster', ~stopped, ~(passes > 0)
               PROVE  Cared(a)'
    BY <1>1 DEF RetriesOwed
  <2>1. a \in roster /\ acct'[a] = acct[a] /\ Manages(cfg, a)
    BY <1>1
  <2>2. Cared(a)
    BY <2>1 DEF Mend, RetriesOwed
  <2>3. Later(acct[a], acct'[a])
    BY <1>1, <2>1, BookkeepingLater DEF TypeOK
  <2> QED
    BY <1>2, <2>2, <2>3, LaterCared
<1> QED
  BY <1>6, <1>7, <1>8, <1>9 DEF Mend

\* Listing, and starting the fetches, take nobody's retry away.
LEMMA ListMends ==
  ASSUME TypeOK, PassList \/ PassListSkips \/ PassListFails \/ PassFetchAll
  PROVE  Mending
<1>1. UNCHANGED <<cfg, roster, stopped, passes, acct, frame>> /\ pass'.reserved = pass.reserved
  BY DEF PassList, PassListSkips, PassListFails, PassFetchAll, settings, TypeOK
<1>2. pc[Pass] # "prune" /\ pc'[Pass] \in {"roster", "defer", "waiting"}
  BY ThreadKinds DEF PassList, PassListSkips, PassListFails, PassFetchAll, TypeOK
<1>3. \A a \in Accounts : Kept(acct[a], acct'[a])
  BY <1>1 DEF Kept
<1>4. \A a \in roster : Cared(a) => Cared(a)'
  BY <1>1 DEF Cared, Held
<1>5. Follows(Pass)'
  BY <1>2 DEF Follows
<1> QED
  BY <1>1, <1>2, <1>3, <1>4, <1>5 DEF Mending

\* Claims given back.
LEMMA ReleaseLater ==
  ASSUME TypeOK, Mend, acct' = ReleasedAll(acct), pass' = NoPass
  PROVE  AllLater /\ Claims'
<1>1. ASSUME NEW a \in Accounts
      PROVE  Later(acct[a], acct'[a]) /\ ~acct'[a].fetchPending
  <2>1. acct[a] \in Record
    BY DEF TypeOK
  <2>2. CASE a \in pass.reserved
    BY <2>1, <2>2, ReleasedLater DEF ReleasedAll
  <2>3. CASE a \notin pass.reserved
    BY <2>1, <2>3, BookkeepingLater DEF ReleasedAll, Mend, Claims
  <2> QED
    BY <2>2, <2>3
<1> QED
  BY <1>1 DEF AllLater, Claims, NoPass

\* A pass that ends early, or joins its fetchers, gives back what it claimed.
LEMMA ReleaseMends ==
  ASSUME TypeOK, Posts, Mend, PassAbandon \/ PassDefer \/ PassJoin
  PROVE  Mend'
<1>1. AllLater /\ Claims'
  BY ReleaseLater DEF PassAbandon, PassDefer, PassJoin
<1>2. RecordsSane'
  BY <1>1, LaterSane
<1>3. CASE PassAbandon
  <2>1. stopped'
    BY <1>3 DEF PassAbandon, settings
  <2> QED
    BY <1>1, <1>2, <2>1, PassMends
<1>4. CASE PassDefer \/ PassJoin
  <2>1. /\ UNCHANGED <<cfg, roster, stopped, passes>> /\ roster \subseteq Accounts
        /\ pc[Pass] \in {"defer", "waiting"}
        /\ \E mode \in {"immediate", "delayed"} : CallFlush(Pass, mode, "tail")
    BY <1>4 DEF PassDefer, PassJoin, settings, TypeOK
  <2>2. /\ pc'[Pass] = "flush"
        /\ \A u \in Threads : frame[u].retries \subseteq frame'[u].retries
    <3>1. frame[Pass].retries = {} /\ "tail" \in ReturnsOf(Pass)
      BY <2>1, ThreadKinds DEF Posts, Placed, Flushing, ReturnsOf
    <3> QED
      BY <2>1, <3>1, CalledPlaced, ThreadKinds
  <2>3. \A a \in roster : Cared(a) => Cared(a)'
    BY <1>1, <2>1, <2>2, LaterCared DEF AllLater
  <2>4. RecoveryOwed'
    BY <2>2 DEF RecoveryOwed
  <2>5. OptOutsLeave'
    BY <2>1 DEF Mend, OptOutsLeave, Manages
  <2>6. RetriesOwed'
    BY <2>1, <2>3 DEF Mend, RetriesOwed
  <2> QED
    BY <1>1, <1>2, <2>4, <2>5, <2>6 DEF Mend
<1> QED
  BY <1>3, <1>4

\* At its tail a pass arms what recovery wants.
LEMMA TailMends ==
  ASSUME LongRung, TypeOK, Mend, PassTail
  PROVE  Mend'
<1>1. /\ UNCHANGED <<cfg, roster, stopped, passes, pass, frame>> /\ roster \subseteq Accounts
      /\ acct' = [a \in Accounts |-> WithRecoveryRetries(acct[a])]
      /\ pc[Pass] = "tail" /\ pc'[Pass] = "idle"
  BY ThreadKinds DEF PassTail, settings, TypeOK
<1>2. \A a \in Accounts : Later(acct[a], acct'[a]) /\ ~acct'[a].wantRetry
  BY <1>1, RecoveryLater DEF TypeOK
<1>3. AllLater
  BY <1>2 DEF AllLater
<1>4. RecordsSane'
  BY <1>3, LaterSane
<1>5. pass.reserved = {}
  BY <1>1 DEF Mend, Claims, Follows, Flushing, Requesting
<1>6. Claims'
  BY <1>1, <1>2, <1>5 DEF Mend, Claims, Later, Kept
<1>7. RecoveryOwed'
  BY <1>1, <1>2 DEF RecoveryOwed
<1>8. OptOutsLeave'
  BY <1>1 DEF Mend, OptOutsLeave, Manages
<1>9. \A a \in roster : Cared(a) => Cared(a)'
  BY <1>1, <1>2, LaterCared
<1>10. RetriesOwed'
  BY <1>1, <1>9 DEF Mend, RetriesOwed
<1> QED
  BY <1>4, <1>6, <1>7, <1>8, <1>10 DEF Mend

\* A roster entry leaves a record's retries alone, quarantines it, or recovers it.
LEMMA EntryRetries ==
  ASSUME NEW r \in Record, NEW e, NEW sentinel, NEW t
  PROVE  LET s == AfterEntry(r, e, sentinel, t)
         IN  /\ Reaches(r) => Reaches(s)
             /\ \/ SameRetries(r, s)
                \/ s.health = "quarantined"
                \/ Provided(s) /\ KeepsIntent(s)
<1> DEFINE p == IF e.priority = 0 THEN NoPriority ELSE e.priority
           b == [r EXCEPT !.current = p]
           c == IF e.bad THEN Quarantined(b)
                ELSE IF b.health = "quarantined" /\ Evidence(b.sentinelAt, e.touched)
                     THEN Recovered(b, t)
                     ELSE b
           d == IF NeedsSentinel(c, sentinel) THEN [c EXCEPT !.sentinelReady = FALSE] ELSE c
<1>1. AfterEntry(r, e, sentinel, t) = d
  BY DEF AfterEntry
<1>2. SameRetries(r, b) /\ DOMAIN b = DOMAIN r
  BY DEF SameRetries, Record
<1>3. SameRetries(c, d)
  <2>1. /\ c.health = d.health /\ c.reset = d.reset /\ c.epoch = d.epoch
        /\ c.retrySeq = d.retrySeq /\ c.ladder = d.ladder /\ c.wantRetry = d.wantRetry
        /\ c.wantAwaiting = d.wantAwaiting /\ c.fetchPending = d.fetchPending
    BY DEF Quarantined, CancelRetries, Recovered, Record
  <2> QED
    BY <2>1 DEF SameRetries
<1>4. LET q == Quarantined(b) IN q.health = "quarantined" /\ (q.ladder = b.ladder \/ q.ladder = {})
  BY DEF Quarantined, CancelRetries, Record
<1>5. LET q == Recovered(b, t) IN q.reset = "unknown" /\ q.wantRetry /\ q.ladder = b.ladder
  BY DEF Recovered, Record
<1>6. c = b \/ c = Quarantined(b) \/ c = Recovered(b, t)
  OBVIOUS
<1> HIDE DEF b, c, d
<1>7. /\ Reaches(r) => Reaches(c)
      /\ SameRetries(r, c) \/ c.health = "quarantined" \/ (Provided(c) /\ KeepsIntent(c))
  <2>1. CASE c = b
    BY <1>2, <2>1 DEF SameRetries, Reaches
  <2>2. CASE c = Quarantined(b)
    BY <1>2, <1>4, <2>2 DEF SameRetries, Reaches
  <2>3. CASE c = Recovered(b, t)
    BY <1>2, <1>5, <2>3 DEF SameRetries, Reaches, Provided, KeepsIntent
  <2> QED
    BY <1>6, <2>1, <2>2, <2>3
<1>8. /\ Reaches(r) => Reaches(d)
      /\ SameRetries(r, d) \/ d.health = "quarantined" \/ (Provided(d) /\ KeepsIntent(d))
  BY <1>3, <1>7 DEF SameRetries, Reaches, Provided, KeepsIntent
<1> QED
  BY <1>1, <1>8

\* So does the roster as a whole.
LEMMA RosterRetries ==
  ASSUME TypeOK, Forgotten, NEW a \in Accounts
  PROVE  LET s == RosterRecord(a)
         IN  /\ Reaches(acct[a]) => Reaches(s)
             /\ \/ a \in roster /\ SameRetries(acct[a], s)
                \/ s.health = "quarantined"
                \/ Provided(s) /\ (KeepsIntent(acct[a]) => KeepsIntent(s))
<1>1. acct[a] \in Record
  BY DEF TypeOK
<1>2. CASE \E e \in EntriesKept : e.acct = a
  <2> DEFINE e == CHOOSE x \in EntriesKept : x.acct = a
             s == RosterRecord(a)
  <2>1. s = AfterEntry(acct[a], e, cfg.sentinel, now)
    BY <1>2 DEF RosterRecord
  <2> HIDE DEF e, s
  <2>2. /\ Reaches(acct[a]) => Reaches(s)
        /\ SameRetries(acct[a], s) \/ s.health = "quarantined" \/ (Provided(s) /\ KeepsIntent(s))
    BY <1>1, <2>1, EntryRetries
  <2>3. a \notin roster /\ SameRetries(acct[a], s) => Provided(s) /\ KeepsIntent(s)
    BY DEF Forgotten, SameRetries, Provided, KeepsIntent
  <2> QED
    BY <2>2, <2>3 DEF s
<1>3. CASE ~\E e \in EntriesKept : e.acct = a
  <2>1. RosterRecord(a) = NewAccount
    BY <1>3 DEF RosterRecord
  <2> QED
    BY <2>1 DEF NewAccount, Reaches, Provided, KeepsIntent
<1> QED
  BY <1>2, <1>3

\* A validated roster: what it keeps is claimed anew, and nobody's retry is lost.
LEMMA RosterMends ==
  ASSUME TypeOK, Posts, Forgotten, Mend, PassRoster
  PROVE  Mend'
<1> DEFINE kept == {e.acct : e \in EntriesKept}
           targets == {a \in kept : RosterRecord(a).health # "quarantined"}
           claimed == [a \in Accounts |-> Rereserved(RosterRecord(a), a \in targets)]
           unsaved == \E a \in kept : NeedsSentinel(RosterRecord(a), cfg.sentinel)
           expired == \E a \in kept : Expired(claimed[a], now)
<1>1. /\ roster' = kept
      /\ acct' = IF unsaved THEN claimed ELSE AllDemoted(claimed)
      /\ pass' = [entries |-> {}, reserved |-> targets]
      /\ IF unsaved \/ expired THEN CallFlush(Pass, "none", "fetching")
         ELSE pc' = [pc EXCEPT ![Pass] = "fetching"] /\ UNCHANGED frame
      /\ pc[Pass] = "roster" /\ UNCHANGED <<cfg, stopped, passes>>
  BY Zenon DEF PassRoster, settings
<1>2. kept \subseteq Accounts /\ \A a \in kept : Manages(cfg, a)
  BY DEF EntriesKept, RosterEntries, TypeOK
<1>3. \A a \in Accounts : /\ RosterRecord(a) \in Record
                          /\ a \in targets <=> a \in kept /\ RosterRecord(a).health # "quarantined"
                          /\ claimed[a] = IF a \in targets THEN Reserved(RosterRecord(a))
                                          ELSE Released(RosterRecord(a))
  BY RosterRecordType DEF Rereserved
<1>4. claimed \in Records
  BY RosterRecordType, ReservedType, ReleasedType DEF Rereserved, Records
<1> HIDE DEF kept, targets, claimed, unsaved, expired
<1>5. \A a \in Accounts : Later(claimed[a], acct'[a])
  <2>1. \A a \in Accounts : claimed[a] \in Record
    BY <1>4 DEF Records
  <2>2. \A a \in Accounts : acct'[a] \in {claimed[a], Demoted(claimed[a], now)}
    BY <1>1 DEF AllDemoted
  <2> QED
    BY <2>1, <2>2, DemotedLater, BookkeepingLater
<1>6. /\ pc'[Pass] # "idle" /\ Follows(Pass)'
      /\ \A u \in Threads : frame[u].retries \subseteq frame'[u].retries
  <2>1. CASE CallFlush(Pass, "none", "fetching")
    <3>1. frame[Pass].retries = {} /\ "fetching" \in ReturnsOf(Pass)
      BY <1>1, ThreadKinds DEF Posts, Placed, Flushing, ReturnsOf
    <3>2. /\ pc'[Pass] = "flush" /\ frame'[Pass].ret = "fetching"
          /\ \A u \in Threads \ {Pass} : frame'[u] = frame[u]
      BY <2>1, <3>1, CalledPlaced, ThreadKinds
    <3> QED
      BY <3>1, <3>2, ThreadKinds DEF Follows, Flushing
  <2>2. CASE pc' = [pc EXCEPT ![Pass] = "fetching"] /\ UNCHANGED frame
    BY <2>2, ThreadKinds DEF Follows, TypeOK
  <2> QED
    BY <1>1, <2>1, <2>2
<1>7. ASSUME NEW a \in Accounts
      PROVE  /\ Reaches(claimed[a]) /\ KeepsIntent(claimed[a])
             /\ claimed[a].fetchPending => a \in targets
             /\ a \in kept =>
                  \/ claimed[a].health = "quarantined"
                  \/ Provided(claimed[a])
                  \/ a \in roster /\ SameRetries(acct[a], claimed[a])
  <2> DEFINE s == RosterRecord(a)
  <2>1. Reaches(acct[a]) /\ KeepsIntent(acct[a])
    BY DEF Mend, RecordsSane
  <2>2. /\ s \in Record /\ Reaches(s)
        /\ \/ a \in roster /\ SameRetries(acct[a], s)
           \/ s.health = "quarantined"
           \/ Provided(s) /\ KeepsIntent(s)
    BY <1>3, <2>1, RosterRetries
  <2>3. /\ a \in targets <=> a \in kept /\ s.health # "quarantined"
        /\ claimed[a] = IF a \in targets THEN Reserved(s) ELSE Released(s)
    BY <1>3
  <2> HIDE DEF s
  <2>4. CASE a \notin targets
    <3>1. /\ ~Released(s).fetchPending /\ Released(s).ladder = s.ladder
          /\ Released(s).health = s.health
      BY <2>2 DEF Released, Record
    <3> QED
      BY <2>2, <2>3, <2>4, <3>1 DEF Reaches, KeepsIntent
  <2>5. CASE a \in targets /\ ~s.fetchPending
    BY <2>2, <2>3, <2>5, ReservedProvides
  <2>6. CASE a \in targets /\ s.fetchPending
    <3>1. claimed[a] = s
      BY <2>3, <2>6 DEF Reserved
    <3>2. SameRetries(acct[a], s) => KeepsIntent(s)
      BY <2>1 DEF SameRetries, KeepsIntent
    <3> QED
      BY <2>2, <2>3, <2>6, <3>1, <3>2
  <2> QED
    BY <2>4, <2>5, <2>6
<1>8. Claims'
  BY <1>1, <1>5, <1>6, <1>7 DEF Claims, Later, Kept
<1>9. RecordsSane'
  BY <1>5, <1>7 DEF RecordsSane, Later, Kept
<1>10. RecoveryOwed' /\ OptOutsLeave'
  BY <1>1, <1>2, <1>6 DEF RecoveryOwed, OptOutsLeave, Manages
<1>11. RetriesOwed'
  <2> SUFFICES ASSUME NEW a \in kept, ~stopped, ~(passes > 0)
               PROVE  Cared(a)'
    BY <1>1 DEF RetriesOwed
  <2>1. a \in Accounts /\ Later(claimed[a], acct'[a])
    BY <1>2, <1>5
  <2>2. CASE claimed[a].health = "quarantined" \/ Provided(claimed[a])
    BY <2>1, <2>2 DEF Later, Retried, Cared
  <2>3. CASE a \in roster /\ SameRetries(acct[a], claimed[a])
    <3>1. Cared(a)
      BY <1>1, <2>3 DEF Mend, RetriesOwed
    <3>2. Later(acct[a], acct'[a])
      BY <2>1, <2>3, SameRetriesLater, LaterLater
    <3> QED
      BY <1>6, <3>1, <3>2, LaterCared
  <2> QED
    BY <1>7, <2>1, <2>2, <2>3
<1> QED
  BY <1>8, <1>9, <1>10, <1>11 DEF Mend

----------------------------------------------------------------------------
\* Retries: callbacks, the clock and everybody else.

\* Callbacks read the records only.
LEMMA WorkerMends ==
  ASSUME TypeOK, Posts, NEW w \in Workers, WorkerStep(w)
  PROVE  Mending
<1>1. /\ UNCHANGED <<cfg, roster, stopped, pass, acct>>
      /\ passes > 0 => passes' > 0
  BY DEF WorkerStep, RetryDropped, RetryBegin, RetryRecheck, DeadlineDropped,
         DeadlineBegin, PollDropped, PollBegin, ProbeChanged, ProbeSame, ProbeFails,
         PollEnd, settings, timers, world, TypeOK
<1>2. w \in Threads /\ w # Pass
  BY ThreadKinds
<1>3. /\ \A u \in Threads \ {w} : pc'[u] = pc[u] /\ frame'[u] = frame[u]
      /\ frame[w].retries \subseteq frame'[w].retries
  <2>1. CASE UNCHANGED <<pc, frame>>
    BY <2>1
  <2>2. CASE pc[w] = "idle" /\ \E ret \in {"recheck", "idle"} : CallFlush(w, "immediate", ret)
    <3>1. frame[w].retries = {}
      BY <1>2, <2>2 DEF Posts, Placed, Flushing
    <3> QED
      BY <1>2, <2>2, <3>1 DEF CallFlush, TypeOK
  <2>3. CASE (\A u \in Threads \ {w} : pc'[u] = pc[u]) /\ UNCHANGED frame
    BY <2>3
  <2> QED
    BY <2>1, <2>2, <2>3, WorkerMoves
<1>4. \A a \in Accounts : Kept(acct[a], acct'[a])
  BY <1>1 DEF Kept
<1>5. \A a \in roster : Cared(a) => Cared(a)'
  <2>1. \A a \in roster : Later(acct[a], acct'[a])
    BY <1>1, BookkeepingLater DEF TypeOK
  <2> QED
    BY <1>2, <1>3, <2>1, LaterCared
<1> QED
  BY <1>1, <1>2, <1>3, <1>4, <1>5, ThreadKinds DEF Mending, Follows

\* A rung that comes due leaves the last one.
LEMMA TickMends ==
  ASSUME TypeOK, Mend, Tick
  PROVE  Mending
<1>1. /\ UNCHANGED <<cfg, roster, stopped, pass, pc, frame>> /\ roster \subseteq Accounts
      /\ passes > 0 => passes' > 0
      /\ now \in Nat /\ Horizon \in Nat /\ now < Horizon
  BY BoundsAreNumbers DEF Tick, settings, TypeOK
<1>2. ASSUME NEW a \in Accounts
      PROVE  Later(acct[a], acct'[a])
  <2> DEFINE r == acct[a]
             s == acct'[a]
  <2>1. r \in Record /\ Reaches(r) /\ s = [r EXCEPT !.ladder = @ \ {now + 1}]
    BY DEF Tick, TypeOK, Mend, RecordsSane
  <2>2. /\ s.health = r.health /\ s.reset = r.reset /\ s.epoch = r.epoch
        /\ s.retrySeq = r.retrySeq /\ s.ladder = r.ladder \ {now + 1}
        /\ s.wantRetry = r.wantRetry /\ s.wantAwaiting = r.wantAwaiting
        /\ s.fetchPending = r.fetchPending /\ r.ladder \subseteq Nat
    BY <2>1 DEF Record
  <2> HIDE DEF r, s
  <2>3. Reaches(s) /\ (r.ladder # {} => s.ladder # {})
    BY <1>1, <2>1, <2>2 DEF Reaches
  <2>4. Later(r, s)
    BY <2>2, <2>3 DEF Later, Kept, Retried, KeepsIntent, Provided
  <2> QED
    BY <2>4 DEF r, s
<1>3. \A a \in roster : Cared(a) => Cared(a)'
  BY <1>1, <1>2, LaterCared
<1> QED
  BY <1>1, <1>2, <1>3 DEF Mending, Later, Follows

\* Reconfiguration, stop, refresh and the host.
LEMMA OutsideMends ==
  ASSUME TypeOK, Mend, AdminStep \/ HostStep \/ UNCHANGED vars
  PROVE  Mend'
<1>1. \A a \in Accounts : acct[a] \in Record
  BY DEF TypeOK
<1>2. ASSUME UNCHANGED <<cfg, roster, stopped, pass, acct, pc, frame>>, passes > 0 => passes' > 0
      PROVE  Mend'
  <2>1. Mending
    BY <1>2 DEF Mending, Kept, Follows, Cared, Held
  <2> QED
    BY <2>1, MendingKeeps
<1>3. ASSUME UNCHANGED <<pass, pc, frame>>, stopped' \/ passes' > 0,
             \A a \in Accounts :
               acct'[a] \in {acct[a], CancelRetries(acct[a]), OptedOut(acct[a])}
      PROVE  Mend'
  <2>1. ASSUME NEW a \in Accounts
        PROVE  /\ acct'[a].fetchPending => acct[a].fetchPending
               /\ KeepsIntent(acct[a]) => KeepsIntent(acct'[a])
               /\ Reaches(acct[a]) => Reaches(acct'[a])
    <3> DEFINE r == acct[a]
               s == acct'[a]
    <3>1. CASE s = r
      BY <3>1
    <3>2. CASE s = CancelRetries(r)
      BY <1>1, <3>2 DEF CancelRetries, KeepsIntent, Reaches, Record
    <3>3. CASE s = OptedOut(r)
      BY <1>1, <3>3 DEF OptedOut, CancelRetries, KeepsIntent, Reaches, Record
    <3> QED
      BY <1>3, <3>1, <3>2, <3>3
  <2>2. Claims' /\ RecordsSane'
    BY <1>3, <2>1 DEF Mend, Claims, RecordsSane, Follows
  <2> QED
    BY <1>3, <2>2, PassMends
<1>4. Quieted => stopped' /\ \A a \in Accounts : acct'[a] \in {acct[a], CancelRetries(acct[a])}
  BY DEF Quieted
<1>5. CASE Reconfigure \/ Refresh \/ HostStep \/ UNCHANGED vars
  <2>1. UNCHANGED <<cfg, roster, stopped, pass, acct, pc, frame>> /\ (passes > 0 => passes' > 0)
    BY <1>5 DEF Reconfigure, Refresh, HostStep, vars, settings, TypeOK
  <2> QED
    BY <1>2, <2>1
<1>6. CASE Publish
  <2>1. PICK c \in Configs :
          /\ stopped' = ~c.enabled
          /\ c.enabled => passes' = passes + 1
          /\ \A a \in Accounts : acct'[a] \in {acct[a], OptedOut(acct[a])}
    BY <1>6 DEF Publish
  <2>2. UNCHANGED <<pass, pc, frame>> /\ passes \in Nat
    BY <1>6 DEF Publish, TypeOK
  <2>3. c.enabled => passes' > 0
    BY <2>1, <2>2
  <2>4. stopped' \/ passes' > 0
    BY <2>1, <2>3, Zenon
  <2> QED
    BY <1>3, <2>1, <2>2, <2>4
<1>7. CASE DisableGeneration
  <2>1. UNCHANGED <<cfg, roster, pass, pc, frame, passes>>
    BY <1>7 DEF DisableGeneration
  <2>2. Quieted \/ UNCHANGED <<stopped, acct>>
    BY <1>7 DEF DisableGeneration
  <2> QED
    BY <1>2, <1>3, <1>4, <2>1, <2>2
<1>8. CASE Stop
  <2>1. UNCHANGED <<pass, pc, frame>> /\ Quieted
    BY <1>8 DEF Stop
  <2> QED
    BY <1>3, <1>4, <2>1
<1> QED
  BY <1>5, <1>6, <1>7, <1>8 DEF AdminStep

\* Every step.
LEMMA NextMends ==
  ASSUME LongRung, TypeOK, Posts, Forgotten, Mend, [Next]_vars
  PROVE  Mend'
<1>1. CASE PassStep
  <2>1. CASE PassRefused
    <3>1. UNCHANGED <<acct, pass, pc, frame, stopped>> /\ stopped
      BY <2>1 DEF PassRefused, settings
    <3>2. Claims' /\ RecordsSane'
      BY <3>1 DEF Mend, Claims, RecordsSane, Follows
    <3> QED
      BY <3>1, <3>2, PassMends
  <2>2. CASE ~PassRefused
    BY <1>1, <2>2, BeginMends, PruneMends, ListMends, MendingKeeps, ReleaseMends, RosterMends,
       TailMends DEF PassStep
  <2> QED
    BY <2>1, <2>2
<1>2. CASE ThreadStep
  <2>1. ASSUME NEW t \in Threads, FlushStep(t)
        PROVE  Mending
    BY <2>1, WriteMends, PlanMends, ArmMends
  <2> QED
    BY <1>2, <2>1, FetchMends, MendingKeeps DEF ThreadStep
<1>3. CASE CallbackStep
  BY <1>3, WorkerMends, MendingKeeps DEF CallbackStep
<1>4. CASE Tick
  BY <1>4, TickMends, MendingKeeps
<1>5. CASE AdminStep \/ HostStep \/ Asleep \/ UNCHANGED vars
  BY <1>5, OutsideMends DEF Asleep
<1> QED
  BY <1>1, <1>2, <1>3, <1>4, <1>5 DEF Next

\* A step that leaves to be flushed what was leaves what is wanted to be collected.
LEMMA OrdinaryKeepsAwaiting ==
  ASSUME TypeOK, AwaitingOwed, Ordinary, ~stopped
  PROVE  AwaitingOwed'
  BY DEF AwaitingOwed, Ordinary, Still, TypeOK

\* A flush leaves no wish behind that is not a pass's to keep.
LEMMA PlanCollects ==
  ASSUME TypeOK, Posts, Mend', NEW t \in Threads, FlushPlan(t)
  PROVE  AwaitingOwed'
<1> DEFINE ranked == Ranked(AllDemoted(acct))
           collected == IF frame[t].mode = "none" THEN {}
                        ELSE {a \in roster : Collects(ranked[a])}
<1>1. /\ acct' = [a \in Accounts |-> IF a \in collected THEN Collected(ranked[a]) ELSE ranked[a]]
      /\ pc[t] = "flush" /\ FlushStep(t) /\ ~FlushArm(t) /\ ~FlushStopped(t)
  BY DEF FlushPlan, FlushStep, FlushArm, FlushStopped
<1>2. \A a \in Accounts : ranked[a] \in Record
  <2>1. AllDemoted(acct) \in Records
    BY AllDemotedType DEF Records, TypeOK
  <2> QED
    BY <2>1, RankedType DEF Records
<1>3. /\ pc'[t] \in Flushing /\ frame'[t].ret = frame[t].ret
      /\ \A u \in Threads \ {t} : pc'[u] = pc[u]
      /\ UNCHANGED roster /\ roster \subseteq Accounts
  BY <1>1, FlushFrames, FlushLeavesPass DEF TypeOK
<1> HIDE DEF ranked
<1>4. CASE frame[t].mode = "none"
  <2>1. frame[t].ret \in {"list", "fetching", "fetch"}
    BY <1>1, <1>4 DEF Posts, Placed, Flushing
  <2>2. CASE t \in Fetchers
    <3>1. pc'[Pass] = "waiting"
      BY <1>1, <1>3, <2>2, ThreadKinds DEF Posts
    <3> QED
      BY <3>1, ThreadKinds DEF AwaitingOwed, FlushAhead, Ahead, Follows
  <2>3. CASE t \notin Fetchers
    BY <1>3, <2>1, <2>3 DEF AwaitingOwed, FlushAhead, Ahead, Follows
  <2> QED
    BY <2>2, <2>3
<1>5. CASE frame[t].mode # "none"
  <2> SUFFICES ASSUME NEW a \in roster, acct'[a].wantAwaiting
               PROVE  FlushAhead'
    BY <1>3 DEF AwaitingOwed
  <2>1. a \notin collected
    <3> SUFFICES ASSUME a \in collected
                 PROVE  FALSE
      OBVIOUS
    <3> HIDE DEF collected
    <3>1. acct'[a] = Collected(ranked[a]) /\ ranked[a] \in Record
      BY <1>1, <1>2, <1>3
    <3> QED
      BY <3>1 DEF Collected, Record
  <2>2. acct'[a] = ranked[a]
    BY <1>1, <1>3, <2>1
  <2>3. acct'[a].fetchPending
    BY <1>5, <2>1, <2>2 DEF Collects
  <2>4. Follows(Pass)'
    BY <1>3, <2>3 DEF Mend, Claims
  <2> QED
    BY <2>4, ThreadKinds DEF FlushAhead, Ahead, Follows
<1> QED
  BY <1>4, <1>5

\* Every step.
LEMMA NextAwaiting ==
  ASSUME TypeOK, TypeOK', Posts, Mend', AwaitingOwed, [Next]_vars
  PROVE  AwaitingOwed'
<1>1. CASE stopped'
  BY <1>1 DEF AwaitingOwed
<1>2. CASE stopped /\ ~stopped'
  BY <1>2, StartsWithPass DEF AwaitingOwed, FlushAhead
<1>3. CASE ~stopped /\ ~stopped'
  <2>1. CASE PassStep
    BY <1>3, <2>1, PassOrdinary, OrdinaryKeepsAwaiting
  <2>2. CASE ThreadStep
    <3>1. ASSUME NEW t \in Threads, FetchStep(t)
          PROVE  AwaitingOwed'
      BY <3>1, FetchOrdinary DEF AwaitingOwed
    <3>2. ASSUME NEW t \in Threads, FlushStep(t)
          PROVE  AwaitingOwed'
      <4>1. CASE FlushPlan(t)
        BY <4>1, PlanCollects
      <4>2. CASE FlushAgain(t)
        <5>1. pc'[t] = "flush"
          BY <4>2 DEF FlushAgain, TypeOK
        <5> QED
          BY <5>1 DEF AwaitingOwed, FlushAhead, Ahead
      <4>3. CASE FlushArm(t)
        <5>1. Still /\ (FlushAhead => FlushAhead')
          BY <4>3, FlushArmStill
        <5> QED
          BY <1>3, <5>1 DEF AwaitingOwed, Still, TypeOK
      <4>4. CASE \/ WriteSkip(t) \/ WriteRead(t) \/ WriteReadFails(t) \/ WriteNoOp(t)
                 \/ WriteRefused(t) \/ WriteAdmit(t) \/ WriteSaved(t) \/ WriteSaveFails(t)
        BY <1>3, <4>4, WriteOrdinary, OrdinaryKeepsAwaiting
      <4>5. ~FlushStopped(t)
        BY <1>3 DEF FlushStopped
      <4> QED
        BY <3>2, <4>1, <4>2, <4>3, <4>4, <4>5 DEF FlushStep
    <3> QED
      BY <2>2, <3>1, <3>2 DEF ThreadStep
  <2>3. CASE CallbackStep
    BY <1>3, <2>3, WorkerOrdinary, OrdinaryKeepsAwaiting DEF CallbackStep
  <2>4. CASE Tick
    <3>1. /\ UNCHANGED <<roster, pc, frame>> /\ roster \subseteq Accounts
          /\ passes \in Nat /\ passes' \in Nat /\ passes' >= passes
      BY <2>4 DEF Tick, TypeOK
    <3> QED
      BY <1>3, <2>4, <3>1, NoneAhead, TickAlike DEF AwaitingOwed
  <2>5. CASE AdminStep \/ HostStep \/ Asleep \/ UNCHANGED vars
    BY <1>3, <2>5, OutsideOrdinary, OrdinaryKeepsAwaiting DEF Asleep
  <2> QED
    BY <2>1, <2>2, <2>3, <2>4, <2>5 DEF Next
<1> QED
  BY <1>1, <1>2, <1>3

\* What retries are owed is owed for ever.
LEMMA MendHolds ==
  ASSUME LongRung
  PROVE  Spec => [](Mend /\ AwaitingOwed)
<1>1. Init => Mend /\ AwaitingOwed
  BY DEF Init, NewAccount, NoPass, Mend, Claims, RecoveryOwed, RecordsSane, KeepsIntent,
         Reaches, OptOutsLeave, RetriesOwed, AwaitingOwed
<1>2. TypeOK /\ TypeOK' /\ Posts /\ Forgotten /\ Mend /\ AwaitingOwed /\ [Next]_vars
        => (Mend /\ AwaitingOwed)'
  BY NextMends, NextAwaiting
<1> QED
  BY <1>1, <1>2, TypesHold, ForgottenHolds, OwedHolds, PTL DEF Spec

\* Whenever the engine sleeps nobody's intent to retry is lost: no claim of a pass and
\* no wish for retries is left behind, and an account that waits for a fresh answer has
\* a rung of its ladder ahead, whatever passes claimed it, released it, failed to list
\* it or opted it out, and whoever collected its wish (collectAwaitingRetriesLocked,
\* scheduleRecoveryRetriesLocked).  The ladder is finite, so some rung of it must be
\* longer than the time looked at.
THEOREM NoLostRetryHolds ==
  ASSUME LongRung
  PROVE  Spec => []NoLostRetry
<1>1. TypeOK /\ Posts /\ Mend /\ AwaitingOwed => NoLostRetry
  <2> SUFFICES ASSUME TypeOK, Posts, Mend, AwaitingOwed, Quiet, NEW a \in roster
               PROVE  /\ ~acct[a].fetchPending
                      /\ ~acct[a].wantAwaiting
                      /\ ~acct[a].wantRetry
                      /\ NeedsRetry(acct[a]) /\ acct[a].health # "quarantined"
                           => acct[a].ladder # {}
    BY DEF NoLostRetry
  <2>1. /\ ~stopped /\ passes = 0 /\ a \in Accounts
        /\ \A t \in Threads : pc[t] = "idle"
    BY DEF Quiet, Idle, TypeOK
  <2>2. ~acct[a].fetchPending
    BY <2>1, ThreadKinds DEF Mend, Claims, Follows, Flushing, Requesting
  <2>3. ~acct[a].wantAwaiting
    BY <2>1, SleepOwesNothing DEF AwaitingOwed
  <2>4. ~acct[a].wantRetry
    BY <2>1, ThreadKinds DEF Mend, RecoveryOwed
  <2>5. \A t \in Threads : frame[t].retries = {}
    BY <2>1 DEF Posts, Placed, Flushing
  <2>6. Cared(a)
    BY <2>1, ThreadKinds DEF Mend, RetriesOwed
  <2>7. acct[a].health = "quarantined" \/ Provided(acct[a])
    BY <2>5, <2>6 DEF Cared, Held
  <2> QED
    BY <2>2, <2>3, <2>4, <2>7 DEF Provided, NeedsRetry
<1> QED
  BY <1>1, MendHolds, TypesHold, OwedHolds, PTL
=============================================================================
