----------------------------- MODULE FileProofs -----------------------------
(***************************************************************************)
(* What the auth files hold, for any accounts, configurations, bounds and  *)
(* schedules, while no callback fails and no operator edits: the sentinel  *)
(* of an account that is not healthy, and the rank of one whose rank       *)
(* nobody else's depends on; and that no account leaves quarantine on a    *)
(* record this plugin has rebuilt.                                         *)
(*                                                                         *)
(* The cached priorities are not the files': a save is noted after it has  *)
(* taken effect, and a list is applied long after it was read.  The        *)
(* invariants say how far the cache may be trusted, and who is about to    *)
(* write what it cannot be trusted about.                                  *)
(***************************************************************************)
EXTENDS SaveProofs, QuietProofs

\* The sentinel is the default, 0 (config.go), in every configuration: it is the one
\* priority that a list does not tell from none.
ZeroSentinel == \A c \in Configs \cup {InitialConfig} : c.sentinel = 0

LEMMA ZeroIsOne ==
  ASSUME ZeroSentinel
  PROVE  OneSentinel
  BY DEF ZeroSentinel, OneSentinel

\* In force it is 0, below every rank.
LEMMA ZeroInForce ==
  ASSUME ZeroSentinel, TypeOK
  PROVE  cfg.sentinel = 0 /\ cfg.floor \in Nat /\ cfg.floor > 0 /\ cfg.floor # NoPriority
<1>1. /\ cfg \in Configs \cup {InitialConfig}
      /\ cfg \in Config /\ cfg.sentinel < cfg.floor
  BY ConfigsAreValid DEF TypeOK
<1>2. cfg.sentinel = 0 /\ cfg.floor \in Nat
  BY <1>1 DEF ZeroSentinel, Config
<1> QED
  BY <1>1, <1>2 DEF NoPriority

----------------------------------------------------------------------------
\* What a step may do while nothing meddles.

Spared == budget.fault <= Budget.fault /\ budget.edit <= Budget.edit

Meddles == Spend("fault") \/ Spend("edit")

\* Every step spends one event at most.
LEMMA NextSpends ==
  ASSUME [Next]_vars
  PROVE  UNCHANGED budget \/ \E what \in DOMAIN Budget : Spend(what)
<1>1. DOMAIN Budget = {"config", "stop", "refresh", "fault", "health", "edit"}
  BY BoundsAreNumbers DEF Budgets
<1>2. CASE PassStep
  BY <1>1, <1>2 DEF PassStep, PassRefused, PassBegin, PassPrune, PassList, PassListSkips,
      PassListFails, PassAbandon, PassDefer, PassRoster, PassFetchAll, PassJoin, PassTail,
      world
<1>3. ASSUME NEW t \in Threads, FlushStep(t)
      PROVE  UNCHANGED budget \/ Spend("fault")
  BY <1>3 DEF FlushStep, FlushStopped, FlushPlan, FlushAgain, FlushArm, WriteSkip,
        WriteRead, WriteReadFails, WriteNoOp, WriteRefused, WriteAdmit, WriteSaved,
        WriteSaveFails, world
<1>4. ASSUME NEW t \in Threads, FetchStep(t)
      PROVE  UNCHANGED budget \/ Spend("fault")
  BY <1>4 DEF FetchStep, FetchQuit, FetchExpired, FetchStart, AdmitRestart, AdmitRefused,
      AdmitExpired, AdmitCall, CallReturns, ReadFails, ApplyError, ApplyAnswer, world
<1>5. CASE CallbackStep
  <2>1. UNCHANGED budget \/ Spend("fault")
    BY <1>5 DEF CallbackStep, WorkerStep, RetryDropped, RetryBegin, RetryRecheck,
      DeadlineDropped, DeadlineBegin, PollDropped, PollBegin, ProbeChanged, ProbeSame,
      ProbeFails, PollEnd, world
  <2> QED
    BY <1>1, <2>1
<1>6. CASE Tick \/ AdminStep \/ HostStep \/ Asleep \/ UNCHANGED vars
  BY <1>1, <1>6 DEF Tick, AdminStep, Reconfigure, Publish, DisableGeneration, Stop, Refresh,
      HostStep, Asleep, vars, world
<1> QED
  BY <1>1, <1>2, <1>3, <1>4, <1>5, <1>6 DEF Next, ThreadStep

\* While nothing has meddled nothing meddles.
LEMMA NextSpared ==
  ASSUME TypeOK, TypeOK', Spared, [Next]_vars
  PROVE  /\ Spared'
         /\ Undisturbed' => Undisturbed /\ ~Meddles
<1>1. budget \in Budgets /\ budget' \in Budgets /\ Budget \in Budgets
  BY BoundsAreNumbers DEF TypeOK
<1>2. ASSUME NEW what \in DOMAIN Budget, Spend(what)
      PROVE  /\ budget'.fault <= budget.fault /\ budget'.edit <= budget.edit
             /\ what = "fault" => budget'.fault < budget.fault
             /\ what = "edit" => budget'.edit < budget.edit
  BY <1>1, <1>2 DEF Spend, Budgets
<1>3. budget'.fault <= budget.fault /\ budget'.edit <= budget.edit
  BY <1>1, <1>2, NextSpends DEF Budgets
<1>4. Meddles => budget'.fault < budget.fault \/ budget'.edit < budget.edit
  BY <1>1, <1>2 DEF Meddles, Budgets
<1>5. /\ budget.fault \in Nat /\ budget'.fault \in Nat /\ Budget.fault \in Nat
      /\ budget.edit \in Nat /\ budget'.edit \in Nat /\ Budget.edit \in Nat
  BY <1>1 DEF Budgets
<1> HIDE DEF Meddles
<1> QED
  BY <1>3, <1>4, <1>5 DEF Spared, Undisturbed, Faultless, Unedited

\* The files and the host's records change only when a save is answered, or by the host.
LEMMA NextWorld ==
  ASSUME TypeOK, [Next]_vars, ~Meddles
  PROVE  \/ UNCHANGED <<disk, host, listed>>
         \/ /\ UNCHANGED <<disk, listed>>
            /\ HostStep /\ \E a \in Accounts : HostFails(a) \/ HostRecovers(a)
         \/ \E t \in Threads : WriteSaved(t)
<1>1. CASE PassStep
  BY <1>1 DEF PassStep, PassRefused, PassBegin, PassPrune, PassList, PassListSkips,
      PassListFails, PassAbandon, PassDefer, PassRoster, PassFetchAll, PassJoin, PassTail,
      world
<1>2. ASSUME NEW t \in Threads, FlushStep(t), ~WriteSaved(t)
      PROVE  UNCHANGED <<disk, host, listed>>
  BY <1>2 DEF FlushStep, FlushStopped, FlushPlan, FlushAgain, FlushArm, WriteSkip,
        WriteRead, WriteReadFails, WriteNoOp, WriteRefused, WriteAdmit,
        WriteSaveFails, world, Meddles
<1>3. ASSUME NEW t \in Threads, FetchStep(t)
      PROVE  UNCHANGED <<disk, host, listed>>
  BY <1>3 DEF FetchStep, FetchQuit, FetchExpired, FetchStart, AdmitRestart, AdmitRefused,
      AdmitExpired, AdmitCall, CallReturns, ReadFails, ApplyError, ApplyAnswer, world
<1>4. CASE CallbackStep
  BY <1>4 DEF CallbackStep, WorkerStep, RetryDropped, RetryBegin, RetryRecheck,
      DeadlineDropped, DeadlineBegin, PollDropped, PollBegin, ProbeChanged, ProbeSame,
      ProbeFails, PollEnd, world
<1>5. CASE HostStep
  BY <1>5 DEF HostStep, HostFails, HostRecovers, Meddles
<1>6. CASE Tick \/ AdminStep \/ Asleep \/ UNCHANGED vars
  BY <1>6 DEF Tick, AdminStep, Reconfigure, Publish, DisableGeneration, Stop, Refresh,
      Asleep, vars, world
<1> QED
  BY <1>1, <1>2, <1>3, <1>4, <1>5, <1>6 DEF Next, ThreadStep

\* The roster changes only in a pass.
LEMMA NextRoster ==
  ASSUME TypeOK, Posts, [Next]_vars
  PROVE  UNCHANGED roster \/ PassPrune \/ PassRoster
<1>1. CASE PassStep
  BY <1>1 DEF PassStep, PassRefused, PassBegin, PassList, PassListSkips, PassListFails,
      PassAbandon, PassDefer, PassFetchAll, PassJoin, PassTail
<1>2. CASE ThreadStep
  BY <1>2, FlushLeavesPass, FetchLeavesPass DEF ThreadStep
<1>3. CASE CallbackStep \/ Tick \/ AdminStep \/ HostStep \/ UNCHANGED vars
  BY <1>3 DEF CallbackStep, WorkerStep, RetryDropped, RetryBegin, RetryRecheck,
      DeadlineDropped, DeadlineBegin, PollDropped, PollBegin, ProbeChanged, ProbeSame,
      ProbeFails, PollEnd, Tick, AdminStep, Reconfigure, Publish, DisableGeneration, Stop,
      Refresh, HostStep, vars
<1> QED
  BY <1>1, <1>2, <1>3 DEF Next, Asleep

\* The records' healths, priorities and sentinels change in few steps.
LEMMA NextKinds ==
  ASSUME TypeOK, Posts, [Next]_vars, ~Meddles
  PROVE  \/ AllSame /\ UNCHANGED <<roster, disk>>
         \/ \E t \in Threads : FlushPlan(t) \/ WriteNoOp(t) \/ WriteSaved(t) \/ ApplyAnswer(t)
         \/ PassPrune \/ PassRoster
<1>1. UNCHANGED disk \/ \E t \in Threads : WriteSaved(t)
  BY NextWorld
<1>2. UNCHANGED roster \/ PassPrune \/ PassRoster
  BY NextRoster
<1>3. CASE PassStep
  BY <1>1, <1>2, <1>3, PassSame
<1>4. ASSUME NEW t \in Threads, FlushStep(t)
      PROVE  FlushPlan(t) \/ WriteNoOp(t) \/ WriteSaved(t) \/ AllSame
  BY <1>4, FlushSame DEF Writes
<1>5. ASSUME NEW t \in Threads, FetchStep(t)
      PROVE  ApplyAnswer(t) \/ AllSame
  BY <1>5, FetchSame
<1>6. CASE CallbackStep \/ Tick \/ AdminStep \/ HostStep \/ UNCHANGED vars
  BY <1>1, <1>2, <1>6, OtherSame
<1> QED
  BY <1>1, <1>2, <1>3, <1>4, <1>5, <1>6 DEF Next, ThreadStep, Asleep

\* Nobody but a pass moves it, or has its entries.
LEMMA PassAlone ==
  ASSUME TypeOK, Posts, [Next]_vars
  PROVE  \/ PassStep
         \/ FlushStep(Pass) /\ UNCHANGED pass
         \/ pc'[Pass] = pc[Pass] /\ frame'[Pass] = frame[Pass] /\ UNCHANGED pass
<1>1. ASSUME NEW t \in Threads, FlushStep(t)
      PROVE  /\ UNCHANGED pass
             /\ t = Pass \/ (pc'[Pass] = pc[Pass] /\ frame'[Pass] = frame[Pass])
  BY <1>1, FlushLeavesPass, FlushFrames, ThreadKinds
<1>2. ASSUME NEW t \in Threads, FetchStep(t)
      PROVE  pc'[Pass] = pc[Pass] /\ frame'[Pass] = frame[Pass] /\ UNCHANGED pass
  BY <1>2, FetchLeavesPass, ThreadKinds
<1>3. ASSUME NEW w \in Workers, WorkerStep(w)
      PROVE  pc'[Pass] = pc[Pass] /\ frame'[Pass] = frame[Pass] /\ UNCHANGED pass
  <2>1. UNCHANGED pass
    BY <1>3 DEF WorkerStep, RetryDropped, RetryBegin, RetryRecheck, DeadlineDropped,
      DeadlineBegin, PollDropped, PollBegin, ProbeChanged, ProbeSame, ProbeFails, PollEnd
  <2>2. w # Pass /\ w \in Threads
    BY ThreadKinds
  <2> QED
    BY <1>3, <2>1, <2>2, WorkerMoves, ThreadKinds DEF CallFlush, TypeOK
<1>4. CASE Tick \/ AdminStep \/ HostStep \/ UNCHANGED vars
  <2>1. UNCHANGED pass
    BY <1>4 DEF Tick, AdminStep, Reconfigure, Publish, DisableGeneration, Stop, Refresh,
      HostStep, vars
  <2> QED
    BY <1>4, <2>1, OthersStay DEF vars
<1> QED
  BY <1>1, <1>2, <1>3, <1>4 DEF Next, ThreadStep, CallbackStep, Asleep

\* A request for a pass is served, or refused when the engine is stopped.
LEMMA PassCounts ==
  ASSUME TypeOK, Posts, [Next]_vars, ~stopped
  PROVE  passes' >= passes \/ PassBegin
<1>1. passes \in Nat /\ passes + 1 >= passes /\ passes >= passes
  BY DEF TypeOK
<1>2. CASE PassStep
  BY <1>1, <1>2 DEF PassStep, PassRefused, PassPrune, PassList, PassListSkips,
      PassListFails, PassAbandon, PassDefer, PassRoster, PassFetchAll, PassJoin, PassTail
<1>3. CASE ThreadStep
  BY <1>1, <1>3, FlushLeavesPass, FetchLeavesPass DEF ThreadStep
<1>4. CASE CallbackStep \/ Tick \/ AdminStep \/ HostStep \/ UNCHANGED vars
  BY <1>1, <1>4 DEF CallbackStep, WorkerStep, RetryDropped, RetryBegin, RetryRecheck,
      DeadlineDropped, DeadlineBegin, PollDropped, PollBegin, ProbeChanged, ProbeSame,
      ProbeFails, PollEnd, Tick, AdminStep, Reconfigure, Publish, DisableGeneration, Stop,
      Refresh, HostStep, vars
<1> QED
  BY <1>2, <1>3, <1>4 DEF Next, Asleep

\* Only a publication changes the configuration.
LEMMA NextPublishes ==
  ASSUME [Next]_vars, ~Publish
  PROVE  UNCHANGED <<cfg, configSeq>>
<1>1. CASE PassStep
  BY <1>1 DEF PassStep, PassRefused, PassBegin, PassPrune, PassList, PassListSkips,
    PassListFails, PassAbandon, PassDefer, PassRoster, PassFetchAll, PassJoin, PassTail,
    settings
<1>2. ASSUME NEW t \in Threads, FlushStep(t) \/ FetchStep(t)
      PROVE  UNCHANGED <<cfg, configSeq>>
  BY <1>2 DEF FlushStep, FlushStopped, FlushPlan, FlushAgain, FlushArm, WriteSkip,
    WriteRead, WriteReadFails, WriteNoOp, WriteRefused, WriteAdmit, WriteSaved,
    WriteSaveFails, FetchStep, FetchQuit, FetchExpired, FetchStart, AdmitRestart,
    AdmitRefused, AdmitExpired, AdmitCall, CallReturns, ReadFails, ApplyError,
    ApplyAnswer, settings
<1>3. CASE CallbackStep \/ Tick \/ AdminStep \/ HostStep \/ UNCHANGED vars
  BY <1>3 DEF CallbackStep, WorkerStep, RetryDropped, RetryBegin, RetryRecheck,
    DeadlineDropped, DeadlineBegin, PollDropped, PollBegin, ProbeChanged, ProbeSame,
    ProbeFails, PollEnd, Tick, AdminStep, Reconfigure, DisableGeneration, Stop,
    Refresh, HostStep, settings, vars
<1> QED
  BY <1>1, <1>2, <1>3 DEF Next, ThreadStep, Asleep

\* No configuration waits to be taken up.
Told == Undisturbed /\ MayWrite /\ (passes = 0 \/ configSeq = 0)

\* Between two steps that is so nothing else happens than what the engine does with the
\* configuration in force, or the pass that takes it up begins.
LEMMA NextTold ==
  ASSUME TypeOK, TypeOK', Posts, Spared, [Next]_vars, Undisturbed', MayWrite',
         passes' = 0 \/ configSeq' = 0
  PROVE  /\ UNCHANGED <<cfg, configSeq, stopped>>
         /\ ~Meddles /\ Undisturbed /\ MayWrite
         /\ Told \/ (PassBegin /\ configSeq # 0)
<1>1. Undisturbed /\ ~Meddles
  BY NextSpared
<1>2. configSeq \in Nat /\ passes \in Nat /\ passes' \in Nat
  BY DEF TypeOK
<1>3. ASSUME Publish
      PROVE  stopped' \/ (passes' # 0 /\ configSeq' # 0)
  <2>1. configSeq' # 0
    BY <1>2, <1>3 DEF Publish
  <2>2. PICK c \in Configs : stopped' = ~c.enabled /\ (c.enabled => passes' = passes + 1)
    BY <1>3 DEF Publish
  <2>3. c.enabled \/ stopped'
    BY <2>2, Zenon
  <2> QED
    BY <1>2, <2>1, <2>2, <2>3
<1>4. ~Publish /\ ~stopped /\ ~stopped'
  BY <1>3, StartsWithPass DEF MayWrite
<1>5. UNCHANGED <<cfg, configSeq>>
  BY <1>4, NextPublishes
<1>6. passes = 0 \/ configSeq = 0 \/ PassBegin
  BY <1>2, <1>4, <1>5, PassCounts
<1>7. UNCHANGED stopped
  BY <1>4 DEF TypeOK
<1> QED
  BY <1>1, <1>4, <1>5, <1>6, <1>7 DEF Told, MayWrite

----------------------------------------------------------------------------
\* Items.

Listed(t, i) == pc[t] \in {"write", "admit", "saving"} /\ i \in frame[t].plan

\* An item that may still be saved stays in its plan until it has been saved, or its file
\* has been found as wanted.
LEMMA ItemFate ==
  ASSUME TypeOK, Posts, [Next]_vars, ~Meddles, NEW t \in Threads, NEW i,
         Listed(t, i), AdmitsSave(i)
  PROVE  Listed(t, i)' \/ ((WriteNoOp(t) \/ WriteSaved(t)) /\ Plain(item) = i)
<1>1. pc[t] \in {"write", "admit", "saving"} /\ i \in frame[t].plan /\ ~stopped
  BY DEF Listed, AdmitsSave, ItemCurrent
<1>2. pc'[t] = pc[t] /\ frame'[t] = frame[t] => Listed(t, i)'
  BY <1>1 DEF Listed
<1>3. CASE PassStep
  <2>1. t # Pass
    BY <1>1, <1>3 DEF PassStep, PassRefused, PassBegin, PassPrune, PassList, PassListSkips,
      PassListFails, PassAbandon, PassDefer, PassRoster, PassFetchAll, PassJoin, PassTail
  <2>2. CASE PassFetchAll
    <3>1. pc[Pass] = "fetching" /\ UNCHANGED frame
      BY <2>2 DEF PassFetchAll
    <3>2. t \notin Fetchers
      BY <1>1, <3>1 DEF Posts
    <3> QED
      BY <1>2, <2>1, <2>2, <3>1, <3>2 DEF PassFetchAll
  <2>3. CASE ~PassFetchAll
    BY <1>2, <1>3, <2>1, <2>3 DEF PassStep, PassRefused, PassBegin, PassPrune, PassList,
      PassListSkips, PassListFails, PassAbandon, PassDefer, PassRoster, PassJoin, PassTail,
      CallFlush, TypeOK
  <2> QED
    BY <2>2, <2>3
<1>4. ASSUME NEW u \in Threads, FlushStep(u)
      PROVE  Listed(t, i)' \/ ((WriteNoOp(t) \/ WriteSaved(t)) /\ Plain(item) = i)
  <2>1. CASE u # t
    BY <1>2, <1>4, <2>1, FlushFrames
  <2>2. CASE u = t
    <3>1. ASSUME NEW j, j # i, NextItem(t, j)
          PROVE  Listed(t, i)'
      <4>1. frame'[t].plan = frame[t].plan \ {j} /\ frame[t].plan # {j}
        BY <1>1, <3>1 DEF NextItem, TypeOK, Frames
      <4>2. pc'[t] = "write"
        BY <3>1, <4>1 DEF NextItem, TypeOK
      <4> QED
        BY <1>1, <3>1, <4>1, <4>2 DEF Listed
    <3>2. CASE WriteSkip(t)
      <4>1. PICK j \in frame[t].plan : ~AdmitsSave(j) /\ NextItem(t, j)
        BY <3>2 DEF WriteSkip
      <4> QED
        BY <3>1, <4>1
    <3>3. CASE WriteRead(t) \/ WriteAdmit(t)
      BY <1>1, <3>3 DEF WriteRead, WriteAdmit, Listed, TypeOK
    <3>4. CASE WriteRefused(t)
      <4>1. ~AdmitsSave(Plain(item)) /\ NextItem(t, Plain(item))
        BY <3>4 DEF WriteRefused, Plain, AdmitsSave, ItemCurrent
      <4> QED
        BY <3>1, <4>1
    <3>5. CASE WriteNoOp(t) \/ WriteSaved(t)
      <4>1. NextItem(t, Plain(item))
        BY <3>5 DEF WriteNoOp, WriteSaved
      <4> QED
        BY <3>1, <3>5, <4>1
    <3>6. ~WriteReadFails(t) /\ ~WriteSaveFails(t)
      BY DEF WriteReadFails, WriteSaveFails, Meddles
    <3>7. ~FlushStopped(t) /\ ~FlushPlan(t) /\ ~FlushAgain(t) /\ ~FlushArm(t)
      BY <1>1 DEF FlushStopped, FlushPlan, FlushAgain, FlushArm
    <3> QED
      BY <1>4, <2>2, <3>2, <3>3, <3>4, <3>5, <3>6, <3>7 DEF FlushStep
  <2> QED
    BY <2>1, <2>2
<1>5. ASSUME NEW u \in Threads, FetchStep(u)
      PROVE  Listed(t, i)'
  <2>1. u # t
    BY <1>1, <1>5, FetchFrom DEF Requesting
  <2> QED
    BY <1>2, <1>5, <2>1, FetchLeavesPass
<1>6. ASSUME NEW w \in Workers, WorkerStep(w)
      PROVE  Listed(t, i)'
  <2>1. w \in Threads
    BY ThreadKinds
  <2>2. \/ UNCHANGED <<pc, frame>>
        \/ /\ w # t
           /\ pc'[t] = pc[t] /\ frame'[t] = frame[t]
    BY <1>1, <1>6, <2>1, WorkerMoves DEF CallFlush, TypeOK
  <2> QED
    BY <1>2, <2>2
<1>7. CASE Tick \/ AdminStep \/ HostStep \/ Asleep \/ UNCHANGED vars
  BY <1>2, <1>7, OthersStay DEF vars
<1> QED
  BY <1>3, <1>4, <1>5, <1>6, <1>7 DEF Next, ThreadStep, CallbackStep

\* A save that has been answered was one for an account of the roster, that suits it.
LEMMA SavedSuits ==
  ASSUME TypeOK, IInv, SInv, NEW t \in Threads, WriteSaved(t)
  PROVE  /\ item.acct \in roster /\ item.acct \in Accounts
         /\ Suits(cfg, item.acct, acct[item.acct].health, item.desired)
         /\ disk' = [disk EXCEPT ![item.acct] = item.desired]
<1>1. pc[t] = "saving" /\ disk' = [disk EXCEPT ![item.acct] = item.desired]
  BY DEF WriteSaved, Persisted
<1>2. item.acct \in roster /\ acct[item.acct].health = item.health
  BY <1>1 DEF SInv, SavesKnown
<1>3. item.seq = configSeq
  BY <1>1 DEF IInv, SaveAuthorized
<1> QED
  BY <1>1, <1>2, <1>3 DEF SInv, ItemSound, Sound, Fits, TypeOK

\* What a write pass notes.
LEMMA NotedWants ==
  ASSUME TypeOK, NEW t \in Threads, WriteNoOp(t) \/ WriteSaved(t), NEW a \in Accounts
  PROVE  /\ acct'[a].health = acct[a].health /\ acct'[a].desired = acct[a].desired
         /\ acct'[a].current = IF a = item.acct /\ a \in roster THEN item.desired
                               ELSE acct[a].current
         /\ UNCHANGED roster
<1>1. PICK saved : acct' = Noted(item, saved)
  BY DEF WriteNoOp, WriteSaved
<1>2. acct[a] \in Record
  BY DEF TypeOK
<1>3. LET s == AfterWrite(acct[a], item.desired, saved, cfg.sentinel, now)
      IN  /\ s.health = acct[a].health /\ s.desired = acct[a].desired
          /\ s.current = item.desired
  BY <1>2 DEF AfterWrite, Record
<1>4. \/ a = item.acct /\ a \in roster
         /\ acct'[a] = AfterWrite(acct[a], item.desired, saved, cfg.sentinel, now)
      \/ ~(a = item.acct /\ a \in roster) /\ acct'[a] = acct[a]
  BY <1>1 DEF Noted, TypeOK
<1>5. UNCHANGED roster
  BY DEF WriteNoOp, WriteSaved
<1> QED
  BY <1>3, <1>4, <1>5

\* A weekly answer says nothing of files.
LEMMA WeeklyWants ==
  ASSUME NEW r \in Record, NEW seq \in Nat, NEW s, NEW at \in Int, NEW dry, NEW t
  PROVE  LET u == AfterWeekly(r, seq, s, at, dry, t)
         IN  /\ u.desired = r.desired /\ u.current = r.current
             /\ u.sentinelAt = r.sentinelAt
             /\ u.health \in {r.health, "healthy"}
<1> DEFINE b == [r EXCEPT !.weekly = seq]
           c == [b EXCEPT !.resetAt = at]
<1>1. b \in Record /\ Same(r, b)
  BY Zenon DEF Record, Same
<1>2. c \in Record /\ Same(r, c)
  BY Zenon, <1>1 DEF Record, Same
<1>3. AfterWeekly(r, seq, s, at, dry, t) =
        IF Crossed(b, s, t) THEN CrossedDeadline(b)
        ELSE IF at <= t THEN EnterAwaiting(c)
        ELSE IF MayConfirm(b, s, dry) THEN Confirmed(b, at)
        ELSE b
  BY DEF AfterWeekly
<1> HIDE DEF b, c
<1>4. Same(b, CrossedDeadline(b)) /\ Same(c, EnterAwaiting(c))
  BY <1>1, <1>2 DEF Same, EnterAwaiting, CrossedDeadline, Record
<1>5. /\ Confirmed(b, at).health = "healthy" /\ Confirmed(b, at).desired = b.desired
      /\ Confirmed(b, at).current = b.current /\ Confirmed(b, at).sentinelAt = b.sentinelAt
  BY <1>1 DEF Confirmed, CancelRetries, Record
<1> QED
  BY <1>1, <1>2, <1>3, <1>4, <1>5 DEF Same

\* Nor does any other; an answer may make an account healthy, never otherwise.
LEMMA AnswerWants ==
  ASSUME TypeOK, Posts, NEW t \in Threads, ApplyAnswer(t), NEW a \in Accounts
  PROVE  /\ acct'[a].desired = acct[a].desired /\ acct'[a].current = acct[a].current
         /\ acct'[a].sentinelAt = acct[a].sentinelAt
         /\ acct'[a].health \in {acct[a].health, "healthy"}
         /\ UNCHANGED <<roster, disk>>
<1>1. acct[a] \in Record /\ now \in Nat /\ try[t].seq \in Nat /\ try[t].at \in Int
  BY DEF TypeOK, Tries
<1>2. acct'[a] = IF a = Target(t) THEN AfterAnswer(t, a) ELSE acct[a]
  BY DEF ApplyAnswer, TypeOK
<1>3. \/ acct'[a] = acct[a]
      \/ acct'[a] = AfterWeekly(acct[a], try[t].seq, try[t].startedAt, try[t].at,
                                cfg.dryRun, now)
      \/ acct'[a] = AfterFailure(acct[a], try[t].startedAt, now)
  BY <1>2 DEF AfterAnswer
<1>4. Same(acct[a], AfterFailure(acct[a], try[t].startedAt, now))
  BY <1>1, SameRecords
<1>5. UNCHANGED <<roster, disk>>
  BY DEF ApplyAnswer, world
<1> QED
  BY <1>1, <1>3, <1>4, <1>5, WeeklyWants DEF Same

----------------------------------------------------------------------------
\* What may be trusted.

\* From the read of a file to the answer of its save it holds what was read.
FoundStands ==
  Undisturbed => \A t \in Threads : pc[t] \in {"admit", "saving"} =>
    /\ disk[item.acct] = item.found
    /\ pc[t] = "saving" => item.found # item.desired

LEMMA NextFound ==
  ASSUME TypeOK, TypeOK', Spared, IInv, FoundStands, [Next]_vars
  PROVE  FoundStands'
<1> SUFFICES ASSUME Undisturbed', NEW t \in Threads, pc'[t] \in {"admit", "saving"}
             PROVE  /\ disk'[item'.acct] = item'.found
                    /\ pc'[t] = "saving" => item'.found # item'.desired
  BY DEF FoundStands
<1>1. Undisturbed /\ ~Meddles
  BY NextSpared
<1>2. ItemStep /\ SaveStep
  BY NextSteps DEF Steps
<1>3. pc'[t] = "saving" => item'.found # item'.desired
  BY <1>1, <1>2 DEF SaveStep, WriteAdmit, FoundStands
<1>4. CASE item' = item /\ pc[t] \in {"admit", "saving"}
  <2>1. ~WriteSaved(t)
    <3>1. WriteSaved(t) => pc'[t] \in {"write", "arm"}
      BY DEF WriteSaved, NextItem, TypeOK
    <3> QED
      BY <3>1
  <2>2. \A u \in Threads : WriteSaved(u) => u = t
    BY <1>4 DEF WriteSaved, IInv, Locked
  <2>3. UNCHANGED disk
    BY <1>1, <2>1, <2>2, NextWorld
  <2> QED
    BY <1>1, <1>3, <1>4, <2>3 DEF FoundStands
<1> QED
  BY <1>2, <1>3, <1>4 DEF ItemStep

\* A file whose priority is known to be 0 has it.
ZeroKnown == Undisturbed => \A a \in Accounts : acct[a].current = 0 => disk[a] = 0

\* A roster's entry is what is known of an account that stays or comes, and a listed
\* 0 is not known.
LEMMA RosterNotes ==
  ASSUME TypeOK, PassRoster, NEW a \in Accounts
  PROVE  /\ a \notin roster' => acct'[a].current = NoPriority
         /\ a \in roster' => \E e \in pass.entries :
              /\ e.acct = a /\ Manages(cfg, a)
              /\ \/ acct'[a].current = NoPriority
                 \/ acct'[a].current = e.priority /\ e.priority # 0
<1> DEFINE kept == {e.acct : e \in EntriesKept}
           targets == {b \in kept : RosterRecord(b).health # "quarantined"}
           claimed == [b \in Accounts |-> Rereserved(RosterRecord(b), b \in targets)]
<1>1. roster' = kept /\ (acct' = claimed \/ acct' = AllDemoted(claimed))
  BY DEF PassRoster
<1>2. RosterRecord(a) \in Record /\ now \in Nat
  BY RosterRecordType DEF TypeOK
<1>3. claimed[a] \in {Reserved(RosterRecord(a)), Released(RosterRecord(a))}
  BY DEF Rereserved
<1>4. claimed[a] \in Record /\ Same(RosterRecord(a), claimed[a])
  BY <1>2, <1>3, SameRecords, ReservedType, ReleasedType
<1> HIDE DEF claimed, targets
<1>5. Same(claimed[a], Demoted(claimed[a], now)) /\ Same(claimed[a], claimed[a])
  BY <1>2, <1>4, SameRecords DEF Same
<1>6. acct'[a].current = RosterRecord(a).current
  BY <1>1, <1>4, <1>5 DEF AllDemoted, Same
<1>7. CASE a \in kept
  <2> DEFINE e == CHOOSE x \in EntriesKept : x.acct = a
  <2>1. e \in EntriesKept /\ e.acct = a
    BY <1>7
  <2>2. RosterRecord(a) = AfterEntry(acct[a], e, cfg.sentinel, now)
    BY <1>7 DEF RosterRecord
  <2> HIDE DEF e
  <2>3. e \in pass.entries /\ Manages(cfg, a)
    BY <2>1 DEF EntriesKept
  <2> DEFINE p == IF e.priority = 0 THEN NoPriority ELSE e.priority
             b == [acct[a] EXCEPT !.current = p]
             c == IF e.bad THEN Quarantined(b)
                  ELSE IF b.health = "quarantined" /\ Evidence(b.sentinelAt, e.touched)
                       THEN Recovered(b, now)
                       ELSE b
  <2>4. b.current = p /\ DOMAIN b = DOMAIN acct[a] /\ "current" \in DOMAIN acct[a]
        /\ "health" \in DOMAIN acct[a]
    BY DEF TypeOK, Record
  <2>5. AfterEntry(acct[a], e, cfg.sentinel, now)
          = IF NeedsSentinel(c, cfg.sentinel) THEN [c EXCEPT !.sentinelReady = FALSE] ELSE c
    BY DEF AfterEntry
  <2> HIDE DEF b
  <2>6. Quarantined(b).current = p /\ Recovered(b, now).current = NoPriority
    BY <2>4 DEF Quarantined, CancelRetries, Recovered
  <2>7. c.current \in {p, NoPriority}
    BY <2>4, <2>6
  <2> HIDE DEF c
  <2>8. RosterRecord(a).current = c.current
    BY <2>2, <2>5
  <2> QED
    BY <1>1, <1>6, <1>7, <2>1, <2>3, <2>7, <2>8
<1>8. CASE a \notin kept
  <2>1. RosterRecord(a) = NewAccount
    BY <1>8 DEF RosterRecord
  <2> QED
    BY <1>1, <1>6, <1>8, <2>1 DEF NewAccount
<1> QED
  BY <1>7, <1>8

LEMMA NextZero ==
  ASSUME TypeOK, TypeOK', Posts, Spared, IInv, SInv, FoundStands, ZeroKnown, [Next]_vars
  PROVE  ZeroKnown'
<1> SUFFICES ASSUME Undisturbed', NEW a \in Accounts, acct'[a].current = 0
             PROVE  disk'[a] = 0
  BY DEF ZeroKnown
<1>1. Undisturbed /\ ~Meddles
  BY NextSpared
<1>2. acct'[a].current = acct[a].current /\ disk'[a] = disk[a] => disk'[a] = 0
  BY <1>1 DEF ZeroKnown
<1>3. CASE AllSame /\ UNCHANGED disk
  BY <1>2, <1>3 DEF AllSame, Same
<1>4. ASSUME NEW t \in Threads, FlushPlan(t)
      PROVE  disk'[a] = 0
  BY <1>2, <1>4, PlanKeeps DEF FlushPlan, world
<1>5. ASSUME NEW t \in Threads, ApplyAnswer(t)
      PROVE  disk'[a] = 0
  BY <1>2, <1>5, AnswerWants
<1>6. ASSUME NEW t \in Threads, WriteNoOp(t)
      PROVE  disk'[a] = 0
  <2>1. disk[item.acct] = item.desired /\ UNCHANGED disk
    BY <1>1, <1>6 DEF WriteNoOp, FoundStands, world
  <2> QED
    BY <1>2, <1>6, <2>1, NotedWants
<1>7. ASSUME NEW t \in Threads, WriteSaved(t)
      PROVE  disk'[a] = 0
  BY <1>2, <1>7, NotedWants, SavedSuits DEF TypeOK
<1>8. CASE PassPrune
  <2>1. acct'[a] \in {acct[a], NewAccount} /\ UNCHANGED disk
    BY <1>8 DEF PassPrune, world
  <2>2. NewAccount.current # 0
    BY DEF NewAccount, NoPriority
  <2> QED
    BY <1>2, <2>1, <2>2
<1>9. CASE PassRoster
  BY <1>9, RosterNotes DEF NoPriority
<1> QED
  BY <1>1, <1>3, <1>4, <1>5, <1>6, <1>7, <1>8, <1>9, NextKinds

\* The roster's accounts are managed, or a pass is to prune it.
Managed ==
  ~stopped => \A a \in roster :
    Manages(cfg, a) \/ (configSeq # 0 /\ (passes > 0 \/ pc[Pass] = "prune"))

LEMMA NextManaged ==
  ASSUME TypeOK, TypeOK', Posts, Managed, [Next]_vars
  PROVE  Managed'
<1> SUFFICES ASSUME ~stopped', NEW a \in roster'
             PROVE  \/ Manages(cfg', a)
                    \/ configSeq' # 0 /\ (passes' > 0 \/ pc'[Pass] = "prune")
  BY DEF Managed, Manages
<1>1. passes \in Nat /\ passes' \in Nat /\ configSeq \in Nat
  BY DEF TypeOK
<1>2. CASE Publish
  <2>1. configSeq' # 0
    BY <1>1, <1>2 DEF Publish
  <2>2. PICK c \in Configs : stopped' = ~c.enabled /\ (c.enabled => passes' = passes + 1)
    BY <1>2 DEF Publish
  <2>3. c.enabled
    BY <2>2, Zenon
  <2> QED
    BY <1>1, <2>1, <2>2, <2>3
<1>3. CASE ~Publish
  <2>1. ~stopped
    BY <1>3, StartsWithPass
  <2>2. UNCHANGED <<cfg, configSeq>>
    BY <1>3, NextPublishes
  <2>3. CASE PassPrune \/ PassRoster
    BY <2>2, <2>3 DEF PassPrune, PassRoster, EntriesKept, Manages
  <2>4. CASE ~PassPrune /\ ~PassRoster
    <3>1. a \in roster
      BY <2>4, NextRoster
    <3>2. passes > 0 => passes' > 0 \/ pc'[Pass] = "prune"
      <4>1. PassBegin => pc'[Pass] = "prune"
        BY ThreadKinds DEF PassBegin, TypeOK
      <4> QED
        BY <1>1, <2>1, <4>1, PassCounts
    <3>3. pc[Pass] = "prune" => pc'[Pass] = "prune"
      <4>1. ASSUME pc[Pass] = "prune"
            PROVE  ~FlushStep(Pass) /\ ~PassStep
        BY <2>1, <2>4, <4>1, FlushFrames, ThreadKinds
        DEF Flushing, PassStep, PassRefused, PassBegin, PassList, PassListSkips,
            PassListFails, PassAbandon, PassDefer, PassFetchAll, PassJoin, PassTail
      <4> QED
        BY <4>1, PassAlone
    <3> QED
      BY <2>1, <2>2, <3>1, <3>2, <3>3 DEF Managed, Manages
  <2> QED
    BY <2>3, <2>4
<1> QED
  BY <1>2, <1>3

----------------------------------------------------------------------------
\* The sentinels.

\* The item that writes what is wanted of an account as it is.
Wanted(a) ==
  [acct |-> a, desired |-> acct[a].desired, health |-> acct[a].health, seq |-> configSeq]

Planned(t, a) == Listed(t, Wanted(a))

\* It is in every plan that is made while the file is not known to hold it.
LEMMA PlanLists ==
  ASSUME TypeOK, NEW t \in Threads, FlushPlan(t), NEW a \in roster,
         acct[a].current # acct'[a].desired
  PROVE  Planned(t, a)'
<1> DEFINE demoted == AllDemoted(acct)
           ranked == Ranked(demoted)
           collected == IF frame[t].mode = "none" THEN {}
                        ELSE {b \in roster : Collects(ranked[b])}
<1>1. acct \in Records /\ now \in Nat /\ a \in Accounts
  BY DEF TypeOK, Records
<1>2. demoted \in Records /\ Same(acct[a], demoted[a])
  BY <1>1, AllDemotedType, SameRecords DEF AllDemoted, Records
<1>3. /\ acct' = [b \in Accounts |->
                   IF b \in collected THEN Collected(ranked[b]) ELSE ranked[b]]
      /\ UNCHANGED <<roster, configSeq>>
      /\ frame'[t].plan = WritePlan(ranked)
      /\ pc'[t] = IF WritePlan(ranked) = {} THEN "arm" ELSE "write"
  BY DEF FlushPlan, settings, TypeOK, Frames
<1> HIDE DEF demoted
<1>4. ranked \in Records
  BY <1>2, RankedType
<1>5. ranked[a].health = demoted[a].health /\ ranked[a].current = demoted[a].current
  <2>1. demoted[a] \in Record
    BY <1>1, <1>2 DEF Records
  <2> QED
    BY <1>1, <2>1 DEF Ranked, Record
<1> HIDE DEF ranked, collected
<1>6. Same(ranked[a], acct'[a])
  BY <1>1, <1>3, <1>4, SameRecords DEF Same, Records
<1>7. /\ ranked[a].desired = acct'[a].desired /\ ranked[a].health = acct'[a].health
      /\ ranked[a].current # ranked[a].desired
  BY <1>2, <1>5, <1>6 DEF Same
<1>8. [acct |-> a, desired |-> ranked[a].desired, health |-> ranked[a].health,
       seq |-> configSeq] \in WritePlan(ranked)
  BY <1>7 DEF WritePlan
<1> QED
  BY <1>3, <1>7, <1>8 DEF Planned, Listed, Wanted

\* It stays there while it is wanted until it has been written, or found.
LEMMA PlannedFate ==
  ASSUME TypeOK, Posts, [Next]_vars, ~Meddles, UNCHANGED configSeq, MayWrite,
         NEW t \in Threads, NEW a \in roster, Manages(cfg, a), Planned(t, a),
         acct'[a].desired = acct[a].desired, acct'[a].health = acct[a].health
  PROVE  Planned(t, a)' \/ ((WriteNoOp(t) \/ WriteSaved(t)) /\ Plain(item) = Wanted(a))
<1>1. AdmitsSave(Wanted(a))
  BY DEF AdmitsSave, ItemCurrent, Wanted, MayWrite
<1>2. Wanted(a)' = Wanted(a)
  BY DEF Wanted
<1> QED
  BY <1>1, <1>2, ItemFate DEF Planned, Listed

\* A full pass is going to write it.
Coming(a) ==
  \/ pc[Pass] \in {"fetching", "waiting"}
  \/ pc[Pass] = "prune" /\ configSeq # 0
  \/ /\ pc[Pass] \in Flushing
     /\ frame[Pass].ret # "list" \/ configSeq # 0
     /\ pc[Pass] = "flush" \/ Planned(Pass, a)

\* While no configuration waits to be taken up, a managed account is managed by the one
\* in force.
LEMMA ToldManages ==
  ASSUME TypeOK, Told, Managed, pc[Pass] # "prune", NEW a \in roster
  PROVE  Manages(cfg, a)
  BY DEF Told, MayWrite, Managed, TypeOK

LEMMA ComingStays ==
  ASSUME TypeOK, Posts, [Next]_vars, ~Meddles, UNCHANGED configSeq, Told, Managed,
         ~FlushPlan(Pass), ~PassPrune, NEW a \in roster, Coming(a),
         acct'[a].desired = acct[a].desired, acct'[a].health = acct[a].health
  PROVE  Coming(a)' \/ ((WriteNoOp(Pass) \/ WriteSaved(Pass)) /\ Plain(item) = Wanted(a))
<1>1. ~stopped /\ MayWrite
  BY DEF Told, MayWrite
<1>2. pc'[Pass] = pc[Pass] /\ frame'[Pass] = frame[Pass] => Coming(a)'
  BY DEF Coming, Planned, Listed, Wanted
<1>3. CASE pc[Pass] \in {"fetching", "waiting", "prune"}
  <2>1. ~FlushStep(Pass)
    BY <1>3, FlushFrames, ThreadKinds DEF Flushing
  <2>2. CASE PassStep
    <3>1. PassFetchAll \/ PassJoin \/ PassRoster
      BY <1>3, <2>2 DEF PassStep, PassRefused, PassBegin, PassList, PassListSkips,
        PassListFails, PassAbandon, PassDefer, PassTail
    <3>2. PassFetchAll => pc'[Pass] = "waiting"
      BY ThreadKinds DEF PassFetchAll
    <3>3. PassRoster => pc[Pass] = "roster"
      BY DEF PassRoster
    <3>4. PassJoin => pc'[Pass] = "flush" /\ frame'[Pass].ret = "tail"
      BY ThreadKinds DEF PassJoin, CallFlush, NoFrame, TypeOK
    <3> QED
      BY <1>3, <3>1, <3>2, <3>3, <3>4 DEF Coming, Flushing
  <2> QED
    BY <1>2, <2>1, <2>2, PassAlone
<1>4. CASE pc[Pass] \in Flushing
  <2>1. ~PassStep
    BY <1>4 DEF Flushing, PassStep, PassRefused, PassBegin, PassPrune, PassList,
      PassListSkips, PassListFails, PassAbandon, PassDefer, PassRoster, PassFetchAll,
      PassJoin, PassTail
  <2>2. CASE FlushStep(Pass)
    <3>1. pc[Pass] # "flush"
      BY <1>1, <2>2 DEF FlushStep, FlushStopped, FlushAgain, FlushArm, WriteSkip,
        WriteRead, WriteReadFails, WriteNoOp, WriteRefused, WriteAdmit, WriteSaved,
        WriteSaveFails
    <3>2. Planned(Pass, a) /\ (frame[Pass].ret # "list" \/ configSeq # 0)
      BY <1>4, <3>1 DEF Coming, Flushing
    <3>3. Manages(cfg, a)
      BY <1>4, ToldManages DEF Flushing
    <3>4. CASE Planned(Pass, a)'
      <4>1. pc'[Pass] \in {"write", "admit", "saving"}
        BY <3>4 DEF Planned, Listed
      <4>2. frame'[Pass].ret = frame[Pass].ret
        BY <2>2, <4>1, FlushFrames, ThreadKinds DEF ReturnsOf
      <4> QED
        BY <3>2, <3>4, <4>1, <4>2 DEF Coming, Flushing
    <3> QED
      BY <1>1, <3>2, <3>3, <3>4, PlannedFate, ThreadKinds
  <2> QED
    BY <1>2, <2>1, <2>2, PassAlone
<1> QED
  BY <1>3, <1>4 DEF Coming

\* Until then an account that is not healthy has it already.
SentinelComes ==
  Told => \A a \in roster : acct[a].health # "healthy" => disk[a] = 0 \/ Coming(a)

LEMMA NextComes ==
  ASSUME ZeroSentinel, TypeOK, TypeOK', Posts, IInv, SInv, Spared, FoundStands, ZeroKnown,
         Managed, SentinelComes, [Next]_vars
  PROVE  SentinelComes'
<1> SUFFICES ASSUME Told', NEW a \in roster', acct'[a].health # "healthy"
             PROVE  disk'[a] = 0 \/ Coming(a)'
  BY DEF SentinelComes
<1>1. /\ UNCHANGED <<cfg, configSeq, stopped>>
      /\ ~Meddles /\ Undisturbed /\ MayWrite
      /\ Told \/ (PassBegin /\ configSeq # 0)
  BY NextTold DEF Told
<1>2. CASE PassBegin /\ configSeq # 0
  <2>1. pc'[Pass] = "prune"
    BY <1>2, ThreadKinds DEF PassBegin, TypeOK
  <2> QED
    BY <1>1, <1>2, <2>1 DEF Coming
<1>3. CASE PassRoster
  <2>1. \/ pc'[Pass] = "fetching"
        \/ pc'[Pass] = "flush" /\ frame'[Pass].ret = "fetching"
    <3>1. \/ CallFlush(Pass, "none", "fetching")
          \/ pc' = [pc EXCEPT ![Pass] = "fetching"]
      BY <1>3 DEF PassRoster
    <3>2. CASE CallFlush(Pass, "none", "fetching")
      BY <3>2, ThreadKinds DEF CallFlush, NoFrame, TypeOK
    <3>3. CASE pc' = [pc EXCEPT ![Pass] = "fetching"]
      BY <3>3, ThreadKinds DEF TypeOK
    <3> QED
      BY <3>1, <3>2, <3>3
  <2> QED
    BY <2>1 DEF Coming, Flushing
<1>4. CASE PassPrune /\ Told
  <2>1. pc[Pass] = "prune" /\ pc'[Pass] = "flush"
    BY <1>4, ThreadKinds DEF PassPrune, CallFlush, TypeOK
  <2>2. CASE configSeq # 0
    BY <1>1, <2>1, <2>2 DEF Coming, Flushing
  <2>3. CASE configSeq = 0
    <3>1. a \in roster /\ acct'[a] = acct[a] /\ disk' = disk
      BY <1>4 DEF PassPrune, world, TypeOK
    <3>2. ~Coming(a)
      BY <2>1, <2>3 DEF Coming, Flushing
    <3> QED
      BY <1>4, <3>1, <3>2 DEF SentinelComes
  <2> QED
    BY <2>2, <2>3
<1>5. CASE Told /\ ~PassPrune /\ ~PassRoster
  <2>1. a \in roster /\ UNCHANGED roster /\ a \in Accounts
    BY <1>5, NextRoster DEF TypeOK
  <2>2. ASSUME NEW t \in Threads, FlushPlan(t)
        PROVE  disk'[a] = 0 \/ Coming(a)'
    <3>1. /\ acct'[a].health = acct[a].health /\ acct[a].health # "healthy"
          /\ acct'[a].desired = cfg.sentinel
          /\ UNCHANGED disk
      BY <2>1, <2>2, PlanKeeps DEF Suits, FlushPlan, world
    <3>2. acct'[a].desired = 0
      BY <3>1, ZeroInForce
    <3>3. CASE disk[a] = 0
      BY <3>1, <3>3
    <3>4. CASE Coming(a) /\ t = Pass
      <4>1. pc[Pass] = "flush" /\ (frame[Pass].ret # "list" \/ configSeq # 0)
        BY <2>2, <3>4 DEF FlushPlan, Coming
      <4>2. CASE acct[a].current = 0
        BY <1>1, <2>1, <3>1, <4>2 DEF ZeroKnown
      <4>3. CASE acct[a].current # 0
        <5>1. Planned(Pass, a)'
          BY <2>1, <2>2, <3>2, <3>4, <4>3, PlanLists
        <5>2. pc'[Pass] \in {"write", "admit", "saving"}
          BY <5>1 DEF Planned, Listed
        <5>3. frame'[Pass].ret = frame[Pass].ret
          BY <2>2, <3>4, <5>2, FlushFrames, ThreadKinds DEF ReturnsOf, FlushStep
        <5> QED
          BY <1>1, <4>1, <5>1, <5>2, <5>3 DEF Coming, Flushing
      <4> QED
        BY <4>2, <4>3
    <3>5. CASE Coming(a) /\ t # Pass
      <4>1. pc'[Pass] = pc[Pass] /\ frame'[Pass] = frame[Pass]
        BY <2>2, <3>5, FlushFrames, ThreadKinds DEF FlushStep
      <4>2. Planned(Pass, a) => Planned(Pass, a)'
        <5>1. ASSUME Planned(Pass, a)
              PROVE  acct[a].desired = 0
          <6>1. Sound(cfg, configSeq, Wanted(a))
            BY <5>1, ThreadKinds DEF SInv, PlansSound, Planned, Listed
          <6> QED
            BY <3>1, <6>1, ZeroInForce DEF Sound, Fits, Suits, Wanted
        <5> QED
          BY <1>1, <3>1, <3>2, <4>1, <5>1 DEF Planned, Listed, Wanted
      <4> QED
        BY <1>1, <3>5, <4>1, <4>2 DEF Coming
    <3> QED
      BY <1>5, <2>1, <3>1, <3>3, <3>4, <3>5 DEF SentinelComes
  <2>3. ASSUME ~FlushPlan(Pass), UNCHANGED disk, acct'[a].desired = acct[a].desired,
               acct'[a].health = acct[a].health, ~WriteNoOp(Pass), ~WriteSaved(Pass)
        PROVE  disk'[a] = 0 \/ Coming(a)'
    BY <1>1, <1>5, <2>1, <2>3, ComingStays DEF SentinelComes
  <2>4. ASSUME NEW t \in Threads, ApplyAnswer(t), \A u \in Threads : ~FlushPlan(u) /\ ~WriteNoOp(u) /\ ~WriteSaved(u)
        PROVE  disk'[a] = 0 \/ Coming(a)'
    BY <2>1, <2>3, <2>4, AnswerWants, ThreadKinds
  <2>5. ASSUME NEW t \in Threads, WriteNoOp(t) \/ WriteSaved(t)
        PROVE  disk'[a] = 0 \/ Coming(a)'
    <3>1. /\ acct'[a].health = acct[a].health /\ acct[a].health # "healthy"
          /\ acct'[a].desired = acct[a].desired
      BY <2>1, <2>5, NotedWants
    <3>2. ~FlushPlan(Pass)
      <4>1. CASE t = Pass
        BY <2>5, <4>1 DEF WriteNoOp, WriteSaved, FlushPlan
      <4>2. CASE t # Pass
        <5>1. pc'[t] # pc[t]
          BY <2>5 DEF WriteNoOp, WriteSaved, NextItem, TypeOK
        <5>2. FlushPlan(Pass) => pc'[t] = pc[t]
          BY <4>2, ThreadKinds DEF FlushPlan, TypeOK
        <5> QED
          BY <5>1, <5>2
      <4> QED
        BY <4>1, <4>2
    <3>3. Coming(a) => Coming(a)' \/ ((WriteNoOp(Pass) \/ WriteSaved(Pass)) /\ Plain(item) = Wanted(a))
      BY <1>1, <1>5, <2>1, <3>1, <3>2, ComingStays
    <3>4. \A u \in Threads : WriteSaved(u) /\ item.acct # a => disk'[a] = disk[a]
      BY <2>1, SavedSuits DEF TypeOK
    <3>5. \A u \in Threads : WriteSaved(u) /\ item.acct = a => disk'[a] = 0
      <4> SUFFICES ASSUME NEW u \in Threads, WriteSaved(u), item.acct = a
                   PROVE  disk'[a] = 0
        OBVIOUS
      <4>1. /\ Suits(cfg, a, acct[a].health, item.desired)
            /\ disk' = [disk EXCEPT ![a] = item.desired]
        BY SavedSuits
      <4> QED
        BY <2>1, <3>1, <4>1, ZeroInForce DEF Suits, TypeOK
    <3>6. \A u \in Threads : WriteNoOp(u) => UNCHANGED disk /\ disk[item.acct] = item.desired
      BY <1>1 DEF WriteNoOp, FoundStands, world
    <3>7. ASSUME NEW u \in Threads, WriteNoOp(u), Plain(item) = Wanted(a)
          PROVE  disk'[a] = 0
      <4>1. Sound(cfg, configSeq, item) /\ item.acct = a /\ item.seq = configSeq
            /\ item.health = acct[a].health
        BY <3>7 DEF WriteNoOp, SInv, ItemSound, Plain, Wanted
      <4>2. item.desired = 0
        BY <3>1, <4>1, ZeroInForce DEF Sound, Fits, Suits
      <4> QED
        BY <3>6, <3>7, <4>1, <4>2
    <3>8. Plain(item) = Wanted(a) => item.acct = a
      BY DEF Plain, Wanted
    <3>9. disk[a] = 0 => disk'[a] = 0
      BY <2>5, <3>4, <3>5, <3>6
    <3> QED
      BY <1>5, <2>1, <3>1, <3>3, <3>5, <3>7, <3>8, <3>9, ThreadKinds DEF SentinelComes
  <2>6. CASE AllSame /\ UNCHANGED disk
             /\ \A u \in Threads : ~FlushPlan(u) /\ ~WriteNoOp(u) /\ ~WriteSaved(u)
    BY <2>1, <2>3, <2>6, ThreadKinds DEF AllSame, Same
  <2> QED
    BY <1>1, <1>5, <2>2, <2>4, <2>5, <2>6, NextKinds
<1> QED
  BY <1>1, <1>2, <1>3, <1>4, <1>5

----------------------------------------------------------------------------
\* The rank of an account that nobody contests.

\* A flush that is ahead stays ahead until a plan is made.
LEMMA AheadStays ==
  ASSUME TypeOK, TypeOK', Posts, [Next]_vars, ~stopped, ~stopped', FlushAhead,
         \A t \in Threads : ~FlushPlan(t)
  PROVE  FlushAhead'
<1>1. CASE PassStep
  BY <1>1, PassOrdinary DEF Ordinary
<1>2. ASSUME NEW t \in Threads, FlushStep(t)
      PROVE  FlushAhead'
  <2>1. CASE FlushAgain(t)
    <3>1. pc'[t] = "flush"
      BY <2>1 DEF FlushAgain, TypeOK
    <3> QED
      BY <3>1 DEF FlushAhead, Ahead
  <2>2. CASE FlushArm(t)
    BY <2>2, FlushArmStill
  <2>3. CASE \/ WriteSkip(t) \/ WriteRead(t) \/ WriteReadFails(t) \/ WriteNoOp(t)
             \/ WriteRefused(t) \/ WriteAdmit(t) \/ WriteSaved(t) \/ WriteSaveFails(t)
    BY <2>3, WriteOrdinary DEF Ordinary
  <2>4. ~FlushStopped(t)
    BY DEF FlushStopped
  <2> QED
    BY <1>2, <2>1, <2>2, <2>3, <2>4 DEF FlushStep
<1>3. ASSUME NEW t \in Threads, FetchStep(t)
      PROVE  FlushAhead'
  BY <1>3, FetchOrdinary
<1>4. ASSUME NEW w \in Workers, WorkerStep(w)
      PROVE  FlushAhead'
  BY <1>4, WorkerOrdinary DEF Ordinary
<1>5. CASE Tick
  <2>1. /\ UNCHANGED <<pc, frame>>
        /\ passes \in Nat /\ passes' \in Nat /\ passes' >= passes
    BY <1>5 DEF Tick, TypeOK
  <2> QED
    BY <2>1, NoneAhead
<1>6. CASE AdminStep \/ HostStep \/ UNCHANGED vars
  BY <1>6, OutsideOrdinary DEF Ordinary
<1> QED
  BY <1>1, <1>2, <1>3, <1>4, <1>5, <1>6 DEF Next, ThreadStep, CallbackStep, Asleep

\* A pass has not yet read the files under a configuration that has been published.
Unread ==
  /\ configSeq # 0
  /\ \/ pc[Pass] \in {"prune", "list", "roster"}
     \/ pc[Pass] \in Flushing /\ frame[Pass].ret = "list"

\* It reads them in the end.
LEMMA UnreadStays ==
  ASSUME TypeOK, Posts, [Next]_vars, ~stopped, ~Meddles, UNCHANGED configSeq, Unread,
         ~PassRoster
  PROVE  Unread'
<1>1. CASE PassStep
  <2>1. PassPrune \/ PassList
    BY <1>1 DEF PassStep, PassRefused, PassBegin, PassListSkips, PassListFails,
      PassAbandon, PassDefer, PassFetchAll, PassJoin, PassTail, Unread, Flushing, Meddles
  <2>2. PassPrune => pc'[Pass] = "flush" /\ frame'[Pass].ret = "list"
    BY ThreadKinds DEF PassPrune, CallFlush, NoFrame, TypeOK
  <2>3. PassList => pc'[Pass] = "roster"
    BY ThreadKinds DEF PassList, TypeOK
  <2> QED
    BY <2>1, <2>2, <2>3 DEF Unread, Flushing
<1>2. CASE FlushStep(Pass)
  BY <1>2, FlushFrames, ThreadKinds DEF Unread, Flushing
<1> QED
  BY <1>1, <1>2, PassAlone DEF Unread

\* What a pass has read of such an account still holds when it is taken for known.
EntriesStand ==
  Told /\ pc[Pass] = "roster" =>
    \A e \in pass.entries : Alone(e.acct) /\ e.priority = cfg.floor =>
      /\ disk[e.acct] = cfg.floor
      /\ e.acct \in roster => acct[e.acct].health = "healthy"

LEMMA NextEntries ==
  ASSUME ZeroSentinel, TypeOK, TypeOK', Posts, IInv, SInv, Spared, SentinelComes,
         EntriesStand, [Next]_vars
  PROVE  EntriesStand'
<1> SUFFICES ASSUME Told', pc'[Pass] = "roster", NEW e \in pass'.entries,
                    Alone(e.acct), e.priority = cfg'.floor
             PROVE  /\ disk'[e.acct] = cfg'.floor
                    /\ e.acct \in roster' => acct'[e.acct].health = "healthy"
  BY DEF EntriesStand, Alone
<1>1. /\ UNCHANGED <<cfg, configSeq, stopped>>
      /\ ~Meddles /\ Undisturbed /\ MayWrite
      /\ Told \/ (PassBegin /\ configSeq # 0)
  BY NextTold DEF Told
<1>2. Told
  <2>1. PassBegin => pc'[Pass] = "prune"
    BY ThreadKinds DEF PassBegin, TypeOK
  <2> QED
    BY <1>1, <2>1
<1>3. e.acct \in Accounts
  BY DEF TypeOK, RosterEntries
<1>4. CASE PassList
  <2>1. PICK a \in Candidates : e = EntryFor(a)
    BY <1>4 DEF PassList, TypeOK
  <2>2. e.acct = a /\ e.priority = ListedPriority(a)
    BY <2>1 DEF EntryFor
  <2>3. disk[a] = cfg.floor /\ cfg.floor # 0
    BY <1>1, <2>2, ZeroInForce DEF ListedPriority
  <2>4. UNCHANGED <<disk, roster, acct>> /\ pc[Pass] = "list"
    BY <1>4 DEF PassList, world
  <2>5. ~Coming(a)
    BY <2>4 DEF Coming, Flushing
  <2> QED
    BY <1>1, <1>2, <2>2, <2>3, <2>4, <2>5 DEF SentinelComes
<1>5. CASE pc[Pass] = "roster" /\ UNCHANGED pass /\ ~PassStep
  <2>1. /\ disk[e.acct] = cfg.floor
        /\ e.acct \in roster => acct[e.acct].health = "healthy"
    BY <1>1, <1>2, <1>5 DEF EntriesStand
  <2>2. ~PassPrune /\ ~PassRoster
    BY <1>5 DEF PassStep
  <2>3. CASE AllSame /\ UNCHANGED <<roster, disk>>
    BY <1>1, <1>3, <2>1, <2>3 DEF AllSame, Same
  <2>4. ASSUME NEW t \in Threads, FlushPlan(t)
        PROVE  /\ disk'[e.acct] = cfg'.floor
               /\ e.acct \in roster' => acct'[e.acct].health = "healthy"
    BY <1>1, <1>3, <2>1, <2>4, PlanKeeps DEF FlushPlan, world
  <2>5. ASSUME NEW t \in Threads, ApplyAnswer(t)
        PROVE  /\ disk'[e.acct] = cfg'.floor
               /\ e.acct \in roster' => acct'[e.acct].health = "healthy"
    BY <1>1, <1>3, <2>1, <2>5, AnswerWants
  <2>6. ASSUME NEW t \in Threads, WriteNoOp(t)
        PROVE  /\ disk'[e.acct] = cfg'.floor
               /\ e.acct \in roster' => acct'[e.acct].health = "healthy"
    BY <1>1, <1>3, <2>1, <2>6, NotedWants DEF WriteNoOp, world
  <2>7. ASSUME NEW t \in Threads, WriteSaved(t)
        PROVE  /\ disk'[e.acct] = cfg'.floor
               /\ e.acct \in roster' => acct'[e.acct].health = "healthy"
    <3>1. disk'[e.acct] = IF e.acct = item.acct THEN item.desired ELSE disk[e.acct]
      BY <1>3, <2>7, SavedSuits DEF TypeOK
    <3>2. e.acct = item.acct => item.desired = cfg.floor
      BY <2>1, <2>7, SavedSuits DEF Suits
    <3> QED
      BY <1>1, <1>3, <2>1, <2>7, <3>1, <3>2, NotedWants
  <2> QED
    BY <1>1, <2>2, <2>3, <2>4, <2>5, <2>6, <2>7, NextKinds
<1>6. PassStep => PassList
  BY <1>1, ThreadKinds DEF PassStep, PassRefused, PassBegin, PassPrune, PassListSkips,
    PassListFails, PassAbandon, PassDefer, PassRoster, PassFetchAll, PassJoin, PassTail,
    CallFlush, TypeOK, MayWrite, Meddles
<1>7. ~FlushStep(Pass)
  <2>1. FlushStep(Pass) => pc'[Pass] # "roster"
    BY FlushFrames, ThreadKinds DEF Flushing, ReturnsOf
  <2> QED
    BY <2>1
<1> QED
  BY <1>4, <1>5, <1>6, <1>7, PassAlone

\* The floor that is known of such an account is in its file.
FloorKnown ==
  Told /\ ~Unread =>
    \A a \in roster : Alone(a) /\ acct[a].current = cfg.floor => disk[a] = cfg.floor

LEMMA NextFloorKnown ==
  ASSUME ZeroSentinel, TypeOK, TypeOK', Posts, IInv, SInv, Spared, FoundStands,
         EntriesStand, FloorKnown, [Next]_vars
  PROVE  FloorKnown'
<1> SUFFICES ASSUME Told', ~Unread', NEW a \in roster', Alone(a), acct'[a].current = cfg'.floor
             PROVE  disk'[a] = cfg'.floor
  BY DEF FloorKnown, Alone
<1>1. /\ UNCHANGED <<cfg, configSeq, stopped>>
      /\ ~Meddles /\ Undisturbed /\ MayWrite
      /\ Told \/ (PassBegin /\ configSeq # 0)
  BY NextTold DEF Told
<1>2. Told
  <2>1. PassBegin => pc'[Pass] = "prune"
    BY ThreadKinds DEF PassBegin, TypeOK
  <2> QED
    BY <1>1, <2>1 DEF Unread
<1>3. a \in Accounts /\ cfg.floor # NoPriority
  BY ZeroInForce DEF TypeOK
<1>4. CASE PassRoster
  <2>1. PICK e \in pass.entries : e.acct = a /\ acct'[a].current \in {NoPriority, e.priority}
    BY <1>3, <1>4, RosterNotes
  <2>2. e.priority = cfg.floor
    BY <1>1, <1>3, <2>1
  <2>3. pc[Pass] = "roster" /\ UNCHANGED disk
    BY <1>4 DEF PassRoster, world
  <2> QED
    BY <1>1, <1>2, <2>1, <2>2, <2>3 DEF EntriesStand
<1>5. CASE ~PassRoster
  <2>1. ~Unread
    BY <1>1, <1>5, UnreadStays DEF MayWrite
  <2>2. a \in roster /\ acct'[a].current = acct[a].current /\ disk'[a] = disk[a]
          => disk'[a] = cfg'.floor
    BY <1>1, <1>2, <2>1 DEF FloorKnown
  <2>3. CASE PassPrune
    BY <2>2, <2>3 DEF PassPrune, world, TypeOK
  <2>4. CASE AllSame /\ UNCHANGED <<roster, disk>>
    BY <1>3, <2>2, <2>4 DEF AllSame, Same
  <2>5. ASSUME NEW t \in Threads, FlushPlan(t)
        PROVE  disk'[a] = cfg'.floor
    BY <1>3, <2>2, <2>5, PlanKeeps DEF FlushPlan, world
  <2>6. ASSUME NEW t \in Threads, ApplyAnswer(t)
        PROVE  disk'[a] = cfg'.floor
    BY <1>3, <2>2, <2>6, AnswerWants
  <2>7. ASSUME NEW t \in Threads, WriteNoOp(t)
        PROVE  disk'[a] = cfg'.floor
    <3>1. disk[item.acct] = item.desired /\ UNCHANGED disk
      BY <1>1, <2>7 DEF WriteNoOp, FoundStands, world
    <3> QED
      BY <1>3, <2>2, <2>7, <3>1, NotedWants
  <2>8. ASSUME NEW t \in Threads, WriteSaved(t)
        PROVE  disk'[a] = cfg'.floor
    BY <1>3, <2>2, <2>8, NotedWants, SavedSuits DEF TypeOK
  <2> QED
    BY <1>1, <1>5, <2>3, <2>4, <2>5, <2>6, <2>7, <2>8, NextKinds
<1> QED
  BY <1>4, <1>5

\* Somebody is going to write it, if it is not there.
FloorComes ==
  Undisturbed /\ MayWrite =>
    \A a \in roster : acct[a].health = "healthy" /\ Alone(a) =>
      disk[a] = cfg.floor \/ FlushAhead \/ \E t \in Threads : Planned(t, a)

LEMMA NextFloorComes ==
  ASSUME ZeroSentinel, TypeOK, TypeOK', Posts, IInv, SInv, Spared, FoundStands, Managed,
         FloorKnown, FloorComes, [Next]_vars
  PROVE  FloorComes'
<1> SUFFICES ASSUME Undisturbed', MayWrite', NEW a \in roster', acct'[a].health = "healthy",
                    Alone(a), ~FlushAhead'
             PROVE  disk'[a] = cfg'.floor \/ \E t \in Threads : Planned(t, a)'
  BY DEF FloorComes, Alone
<1>1. passes' = 0
  BY DEF FlushAhead, TypeOK
<1>2. /\ UNCHANGED <<cfg, configSeq, stopped>>
      /\ ~Meddles /\ Undisturbed /\ MayWrite
      /\ Told \/ (PassBegin /\ configSeq # 0)
  BY <1>1, NextTold
<1>3. ~PassBegin /\ ~PassPrune /\ ~PassRoster
  <2>1. PassBegin => pc'[Pass] = "prune"
    BY ThreadKinds DEF PassBegin, TypeOK
  <2>2. PassPrune => pc'[Pass] = "flush"
    BY ThreadKinds DEF PassPrune, CallFlush, TypeOK
  <2>3. PassRoster => pc'[Pass] \in {"flush", "fetching"}
    <3>1. PassRoster => \/ CallFlush(Pass, "none", "fetching")
                        \/ pc' = [pc EXCEPT ![Pass] = "fetching"]
      BY DEF PassRoster
    <3>2. CallFlush(Pass, "none", "fetching") => pc'[Pass] = "flush"
      BY ThreadKinds DEF CallFlush, TypeOK
    <3>3. pc' = [pc EXCEPT ![Pass] = "fetching"] => pc'[Pass] = "fetching"
      BY ThreadKinds DEF TypeOK
    <3> QED
      BY <3>1, <3>2, <3>3
  <2>4. ~Ahead(Pass)'
    BY ThreadKinds DEF FlushAhead
  <2> QED
    BY <2>1, <2>2, <2>3, <2>4 DEF Ahead, Follows
<1>4. Told /\ a \in roster /\ UNCHANGED roster /\ a \in Accounts
  BY <1>2, <1>3, NextRoster DEF TypeOK
<1>5. \A t \in Threads : ~ApplyAnswer(t)
  BY FetchOrdinary DEF FetchStep
<1>6. CASE \E t \in Threads : FlushPlan(t)
  <2>1. PICK t \in Threads : FlushPlan(t)
    BY <1>6
  <2>2. /\ acct[a].health = "healthy" /\ acct'[a].desired = cfg.floor
        /\ acct'[a].current = acct[a].current /\ UNCHANGED disk
    BY <1>4, <2>1, PlanKeeps DEF Suits, FlushPlan, world
  <2>3. CASE acct[a].current # cfg.floor
    BY <1>4, <2>1, <2>2, <2>3, PlanLists
  <2>4. CASE acct[a].current = cfg.floor
    <3>1. ~Unread
      <4>1. ~Follows(Pass)'
        BY ThreadKinds DEF FlushAhead, Ahead
      <4>2. Follows(Pass) => Follows(Pass)'
        BY <2>1, FlushLeavesPass, ThreadKinds DEF FlushStep
      <4> QED
        BY <4>1, <4>2, ThreadKinds DEF Unread, Follows
    <3> QED
      BY <1>2, <1>4, <2>2, <2>4, <3>1 DEF FloorKnown
  <2> QED
    BY <2>3, <2>4
<1>7. CASE \A t \in Threads : ~FlushPlan(t)
  <2>1. ~FlushAhead
    BY <1>2, <1>7, AheadStays DEF MayWrite
  <2>2. acct'[a].health = acct[a].health /\ acct'[a].desired = acct[a].desired
    BY <1>2, <1>3, <1>4, <1>5, <1>7, NextKinds, NotedWants DEF AllSame, Same
  <2>3. disk'[a] = disk[a] \/ disk'[a] = cfg.floor
    <3>1. ASSUME NEW t \in Threads, WriteSaved(t)
          PROVE  disk'[a] = disk[a] \/ disk'[a] = cfg.floor
      BY <1>4, <2>2, <3>1, SavedSuits DEF Suits, TypeOK
    <3> QED
      BY <1>2, <3>1, NextWorld
  <2>4. CASE disk[a] = cfg.floor
    BY <1>2, <2>3, <2>4
  <2>5. CASE \E t \in Threads : Planned(t, a)
    <3>1. PICK t \in Threads : Planned(t, a)
      BY <2>5
    <3>2. Manages(cfg, a)
      <4>1. ~Ahead(Pass)
        BY <2>1, ThreadKinds DEF FlushAhead
      <4> QED
        BY <1>4, <4>1, ToldManages DEF Ahead, Follows
    <3>3. Planned(t, a)' \/ ((WriteNoOp(t) \/ WriteSaved(t)) /\ Plain(item) = Wanted(a))
      BY <1>2, <1>4, <2>2, <3>1, <3>2, PlannedFate
    <3>4. ASSUME WriteNoOp(t) \/ WriteSaved(t), Plain(item) = Wanted(a)
          PROVE  disk'[a] = cfg.floor
      <4>1. item.acct = a /\ item.desired = acct[a].desired
        BY <3>4 DEF Plain, Wanted
      <4>2. acct[a].desired = cfg.floor
        <5>1. Sound(cfg, configSeq, Wanted(a))
          BY <3>1 DEF SInv, PlansSound, Planned, Listed
        <5> QED
          BY <2>2, <5>1 DEF Sound, Fits, Suits, Wanted
      <4>3. WriteNoOp(t) => disk'[a] = item.desired
        BY <1>2, <4>1 DEF WriteNoOp, FoundStands, world
      <4>4. WriteSaved(t) => disk'[a] = item.desired
        BY <1>4, <4>1, SavedSuits DEF TypeOK
      <4> QED
        BY <3>4, <4>1, <4>2, <4>3, <4>4
    <3> QED
      BY <1>2, <3>3, <3>4
  <2> QED
    BY <1>2, <1>4, <2>1, <2>2, <2>4, <2>5 DEF FloorComes
<1> QED
  BY <1>6, <1>7

----------------------------------------------------------------------------
\* The theorems.

Files ==
  /\ Spared /\ FoundStands /\ ZeroKnown /\ Managed
  /\ SentinelComes /\ EntriesStand /\ FloorKnown /\ FloorComes

LEMMA FilesHold ==
  ASSUME ZeroSentinel
  PROVE  Spec => [](TypeOK /\ Posts /\ IInv /\ SInv /\ Files)
<1>1. Init => Files
  <2> SUFFICES ASSUME Init
               PROVE  Files
    OBVIOUS
  <2>1. Spared
    BY BoundsAreNumbers DEF Init, Spared, Budgets
  <2>2. FoundStands /\ ZeroKnown /\ Managed /\ SentinelComes /\ FloorKnown /\ FloorComes
    BY DEF Init, NewAccount, NoPriority, FoundStands, ZeroKnown, Managed, SentinelComes,
           FloorKnown, FloorComes
  <2>3. EntriesStand
    BY ThreadKinds DEF Init, EntriesStand
  <2> QED
    BY <2>1, <2>2, <2>3 DEF Files
<1>2. TypeOK /\ TypeOK' /\ Posts /\ IInv /\ SInv /\ Files /\ [Next]_vars => Files'
  BY NextSpared, NextFound, NextZero, NextManaged, NextComes, NextEntries, NextFloorKnown,
     NextFloorComes DEF Files
<1> QED
  BY <1>1, <1>2, ZeroIsOne, BehindHolds, OwedHolds, PTL DEF Spec

\* From the end of the pass that has found an account to be unhealthy its file holds the
\* sentinel at every moment, whatever was planned, read, answered or listed before, while
\* no callback fails and no operator edits (applyRosterLocked, flushInternal, writeOne).
THEOREM SentinelStandsHolds ==
  ASSUME ZeroSentinel
  PROVE  Spec => []SentinelStands
<1>1. TypeOK /\ Files => SentinelStands
  <2> SUFFICES ASSUME TypeOK, Files, Undisturbed, MayWrite, ~Unapplied, ~Applying,
                      NEW a \in roster, acct[a].health # "healthy"
               PROVE  disk[a] = cfg.sentinel
    BY DEF SentinelStands
  <2>1. Told
    BY DEF Told, Unapplied, TypeOK
  <2>2. ~Coming(a)
    BY DEF Coming, Applying, Unapplied
  <2> QED
    BY <2>1, <2>2, ZeroInForce DEF Files, SentinelComes
<1> QED
  BY <1>1, FilesHold, PTL

\* Whenever the engine sleeps, no callback having failed and no operator having edited,
\* the file of an account that is unhealthy, or the only one of its provider, holds the
\* priority wanted of it: a save that a stale plan, a reconfiguration or a late answer
\* undid was made again.
THEOREM UncontestedHolds ==
  ASSUME ZeroSentinel
  PROVE  Spec => []Uncontested
<1>1. TypeOK /\ Files /\ RanksCurrent => Uncontested
  <2> SUFFICES ASSUME TypeOK, Files, RanksCurrent, Quiet, Undisturbed, ~cfg.dryRun,
                      NEW a \in roster, acct[a].health # "healthy" \/ Alone(a)
               PROVE  disk[a] = acct[a].desired
    BY DEF Uncontested
  <2>1. /\ MayWrite /\ passes = 0 /\ Told
        /\ \A t \in Threads : pc[t] = "idle"
    BY DEF Quiet, Idle, MayWrite, Told
  <2>2. a \in Accounts /\ acct \in Records
    BY DEF TypeOK, Records
  <2>3. Suits(cfg, a, acct[a].health, acct[a].desired)
    BY <2>2, DesiredFits DEF RanksCurrent
  <2>4. CASE acct[a].health # "healthy"
    <3>1. ~Coming(a)
      BY <2>1, ThreadKinds DEF Coming, Flushing
    <3> QED
      BY <2>1, <2>3, <2>4, <3>1, ZeroInForce DEF Files, SentinelComes, Suits
  <2>5. CASE acct[a].health = "healthy" /\ Alone(a)
    <3>1. ~FlushAhead /\ \A t \in Threads : ~Planned(t, a)
      BY <2>1, SleepOwesNothing DEF Planned, Listed
    <3> QED
      BY <2>1, <2>3, <2>5, <3>1 DEF Files, FloorComes, Suits
  <2> QED
    BY <2>4, <2>5
<1> QED
  BY <1>1, FilesHold, RanksCurrentHolds, PTL

----------------------------------------------------------------------------
\* Recovery by a record of its own.

\* The first configuration is in force, live, and nothing has meddled.
Calm == Undisturbed /\ MayWrite /\ configSeq = 0

LEMMA CalmStays ==
  ASSUME TypeOK, TypeOK', Posts, Spared, [Next]_vars, Calm'
  PROVE  Calm /\ Told /\ ~Meddles /\ UNCHANGED <<cfg, configSeq, stopped>>
<1>1. /\ UNCHANGED <<cfg, configSeq, stopped>>
      /\ ~Meddles /\ Undisturbed /\ MayWrite
  BY NextTold DEF Calm
<1> QED
  BY <1>1 DEF Calm, Told

\* What a save that is answered shows of the host, and notes.
LEMMA SavedShows ==
  ASSUME TypeOK, IInv, SInv, FoundStands, Undisturbed, NEW t \in Threads, WriteSaved(t),
         NEW a \in Accounts
  PROVE  /\ acct'[a].health = acct[a].health /\ UNCHANGED <<roster, now, pass>>
         /\ a # item.acct => /\ disk'[a] = disk[a] /\ host'[a] = host[a]
                             /\ acct'[a].sentinelAt = acct[a].sentinelAt
         /\ a = item.acct =>
              /\ a \in roster /\ disk'[a] # disk[a]
              /\ Suits(cfg, a, acct[a].health, disk'[a])
              /\ host'[a].touched = now
              /\ acct[a].health = "quarantined" => acct'[a].sentinelAt = now
<1>1. /\ pc[t] = "saving" /\ Persisted(item) /\ acct' = Noted(item, TRUE)
      /\ UNCHANGED <<roster, now, pass>>
  BY DEF WriteSaved
<1>2. disk[item.acct] = item.found /\ item.found # item.desired
  BY <1>1 DEF FoundStands
<1>3. acct[a] \in Record
  BY DEF TypeOK
<1>4. LET s == AfterWrite(acct[a], item.desired, TRUE, cfg.sentinel, now)
      IN  /\ s.health = acct[a].health
          /\ acct[a].health = "quarantined" /\ item.desired = cfg.sentinel =>
               s.sentinelAt = now
  BY <1>3 DEF AfterWrite, Record
<1>5. /\ item.acct \in roster
      /\ Suits(cfg, item.acct, acct[item.acct].health, item.desired)
  BY SavedSuits
<1>6. CASE a # item.acct
  BY <1>1, <1>6 DEF Persisted, Noted, TypeOK
<1>7. CASE a = item.acct
  <2>1. acct'[a] = AfterWrite(acct[a], item.desired, TRUE, cfg.sentinel, now)
    BY <1>1, <1>5, <1>7 DEF Noted, TypeOK
  <2>2. disk'[a] = item.desired /\ host'[a].touched = now
    BY <1>1, <1>7 DEF Persisted, TypeOK
  <2>3. acct[a].health = "quarantined" => item.desired = cfg.sentinel
    BY <1>5, <1>7 DEF Suits
  <2> QED
    BY <1>1, <1>2, <1>4, <1>5, <1>7, <2>1, <2>2, <2>3
<1> QED
  BY <1>6, <1>7

\* Between the rosters nobody is found to have failed or recovered.
LEMMA RecordsStay ==
  ASSUME TypeOK, Posts, IInv, SInv, FoundStands, Undisturbed, [Next]_vars, ~Meddles,
         ~PassPrune, ~PassRoster, NEW a \in Accounts
  PROVE  /\ UNCHANGED roster
         /\ acct'[a].health \in {acct[a].health, "healthy"}
         /\ acct[a].health = "quarantined" =>
              /\ acct'[a].health = "quarantined"
              /\ \/ acct'[a].sentinelAt = acct[a].sentinelAt
                 \/ acct'[a].sentinelAt = now /\ \E t \in Threads : WriteSaved(t)
<1>1. CASE AllSame /\ UNCHANGED roster
  BY <1>1 DEF AllSame, Same
<1>2. ASSUME NEW t \in Threads, FlushPlan(t)
      PROVE  /\ UNCHANGED roster
             /\ acct'[a].health = acct[a].health
             /\ acct'[a].sentinelAt = acct[a].sentinelAt
  BY <1>2, PlanKeeps DEF FlushPlan
<1>3. ASSUME NEW t \in Threads, WriteSaved(t)
      PROVE  /\ UNCHANGED roster
             /\ acct'[a].health = acct[a].health
             /\ acct[a].health = "quarantined" =>
                  acct'[a].sentinelAt \in {acct[a].sentinelAt, now}
  BY <1>3, SavedShows
<1>4. ASSUME NEW t \in Threads, WriteNoOp(t)
      PROVE  /\ UNCHANGED roster
             /\ acct'[a].health = acct[a].health
             /\ acct'[a].sentinelAt = acct[a].sentinelAt
  <2>1. acct' = Noted(item, FALSE) /\ UNCHANGED roster
    BY <1>4 DEF WriteNoOp
  <2>2. acct[a] \in Record
    BY DEF TypeOK
  <2>3. LET s == AfterWrite(acct[a], item.desired, FALSE, cfg.sentinel, now)
        IN  s.health = acct[a].health /\ s.sentinelAt = acct[a].sentinelAt
    BY <2>2 DEF AfterWrite, Record
  <2> QED
    BY <2>1, <2>3 DEF Noted, TypeOK
<1>5. ASSUME NEW t \in Threads, ApplyAnswer(t)
      PROVE  /\ UNCHANGED roster
             /\ acct'[a].health \in {acct[a].health, "healthy"}
             /\ acct'[a].sentinelAt = acct[a].sentinelAt
             /\ acct[a].health = "quarantined" => acct'[a].health = "quarantined"
  <2>1. acct[a].health = "quarantined" => acct'[a] = acct[a]
    BY <1>5 DEF ApplyAnswer, AfterAnswer, Current, TypeOK
  <2> QED
    BY <1>5, <2>1, AnswerWants
<1> QED
  BY <1>1, <1>2, <1>3, <1>4, <1>5, NextKinds

\* What becomes of a record in a roster, and by which entry.
RosterFate(r, s, e) ==
  \/ s.health = "healthy"
  \/ /\ s.health = "quarantined"
     /\ \/ r.health = "quarantined" /\ s.sentinelAt = r.sentinelAt
        \/ r.health # "quarantined" /\ e.bad
  \/ /\ s.health = "recovering"
     /\ \/ r.health = "recovering"
        \/ r.health = "quarantined" /\ ~e.bad /\ e.touched > r.sentinelAt

LEMMA EntryFate ==
  ASSUME NEW r \in Record, NEW e, NEW sentinel, NEW t
  PROVE  RosterFate(r, AfterEntry(r, e, sentinel, t), e)
<1> DEFINE p == IF e.priority = 0 THEN NoPriority ELSE e.priority
           b == [r EXCEPT !.current = p]
           c == IF e.bad THEN Quarantined(b)
                ELSE IF b.health = "quarantined" /\ Evidence(b.sentinelAt, e.touched)
                     THEN Recovered(b, t)
                     ELSE b
<1>1. /\ b.health = r.health /\ b.sentinelAt = r.sentinelAt /\ DOMAIN b = DOMAIN r
      /\ r.health \in {"healthy", "quarantined", "recovering"}
  BY DEF Record, Healths
<1>2. {"health", "sentinelReady", "sentinelAt"} \subseteq DOMAIN b
  BY <1>1 DEF Record
<1>3. AfterEntry(r, e, sentinel, t)
        = IF NeedsSentinel(c, sentinel) THEN [c EXCEPT !.sentinelReady = FALSE] ELSE c
  BY DEF AfterEntry
<1> HIDE DEF b
<1>4. /\ Quarantined(b).health = "quarantined"
      /\ b.health = "quarantined" => Quarantined(b).sentinelAt = b.sentinelAt
  BY <1>1, <1>2 DEF Quarantined, CancelRetries
<1>5. Recovered(b, t).health = "recovering"
  BY <1>1, <1>2 DEF Recovered
<1>6. RosterFate(r, c, e)
  BY <1>1, <1>4, <1>5 DEF RosterFate, Evidence
<1> HIDE DEF c
<1>7. /\ [c EXCEPT !.sentinelReady = FALSE].health = c.health
      /\ [c EXCEPT !.sentinelReady = FALSE].sentinelAt = c.sentinelAt
  OBVIOUS
<1> QED
  BY <1>3, <1>6, <1>7 DEF RosterFate

LEMMA RosterFates ==
  ASSUME TypeOK, PassRoster, NEW a \in Accounts
  PROVE  /\ a \notin roster' => acct'[a].health = "healthy"
         /\ a \in roster' => \E e \in pass.entries :
                               e.acct = a /\ RosterFate(acct[a], acct'[a], e)
<1> DEFINE kept == {e.acct : e \in EntriesKept}
           targets == {b \in kept : RosterRecord(b).health # "quarantined"}
           claimed == [b \in Accounts |-> Rereserved(RosterRecord(b), b \in targets)]
<1>1. roster' = kept /\ (acct' = claimed \/ acct' = AllDemoted(claimed))
  BY DEF PassRoster
<1>2. RosterRecord(a) \in Record /\ now \in Nat
  BY RosterRecordType DEF TypeOK
<1>3. claimed[a] \in {Reserved(RosterRecord(a)), Released(RosterRecord(a))}
  BY DEF Rereserved
<1>4. claimed[a] \in Record /\ Same(RosterRecord(a), claimed[a])
  BY <1>2, <1>3, SameRecords, ReservedType, ReleasedType
<1> HIDE DEF claimed, targets
<1>5. Same(claimed[a], Demoted(claimed[a], now)) /\ Same(claimed[a], claimed[a])
  BY <1>2, <1>4, SameRecords DEF Same
<1>6. /\ acct'[a].health = RosterRecord(a).health
      /\ acct'[a].sentinelAt = RosterRecord(a).sentinelAt
  BY <1>1, <1>4, <1>5 DEF AllDemoted, Same
<1>7. CASE a \in kept
  <2> DEFINE e == CHOOSE x \in EntriesKept : x.acct = a
  <2>1. e \in EntriesKept /\ e.acct = a
    BY <1>7
  <2>2. RosterRecord(a) = AfterEntry(acct[a], e, cfg.sentinel, now)
    BY <1>7 DEF RosterRecord
  <2> HIDE DEF e
  <2>3. acct[a] \in Record /\ e \in pass.entries
    BY <2>1 DEF EntriesKept, TypeOK
  <2>4. RosterFate(acct[a], RosterRecord(a), e)
    BY <2>2, <2>3, EntryFate
  <2> QED
    BY <1>1, <1>6, <1>7, <2>1, <2>3, <2>4 DEF RosterFate
<1>8. CASE a \notin kept
  <2>1. RosterRecord(a) = NewAccount
    BY <1>8 DEF RosterRecord
  <2> QED
    BY <1>1, <1>6, <1>8, <2>1 DEF NewAccount
<1> QED
  BY <1>7, <1>8

\* An account out of the roster has no health to recover.
Fresh == Undisturbed => \A a \in Accounts \ roster : acct[a].health = "healthy"

LEMMA NextFresh ==
  ASSUME TypeOK, TypeOK', Posts, IInv, SInv, Spared, FoundStands, Fresh, [Next]_vars
  PROVE  Fresh'
<1> SUFFICES ASSUME Undisturbed', NEW a \in Accounts, a \notin roster'
             PROVE  acct'[a].health = "healthy"
  BY DEF Fresh
<1>1. Undisturbed /\ ~Meddles
  BY NextSpared
<1>2. CASE PassPrune
  BY <1>2 DEF PassPrune, NewAccount
<1>3. CASE PassRoster
  BY <1>3, RosterFates
<1>4. CASE ~PassPrune /\ ~PassRoster
  BY <1>1, <1>4, RecordsStay DEF Fresh
<1> QED
  BY <1>2, <1>3, <1>4

\* A list has one entry for an account.
Single == \A e, f \in pass.entries : e.acct = f.acct => e = f

LEMMA NextSingle ==
  ASSUME TypeOK, Posts, Single, [Next]_vars
  PROVE  Single'
<1>1. CASE UNCHANGED pass
  BY <1>1 DEF Single
<1>2. CASE PassStep
  <2>1. PassList \/ PassListSkips => Single'
    <3>1. ASSUME NEW A, pass' = [pass EXCEPT !.entries = {EntryFor(a) : a \in A}]
          PROVE  Single'
      BY <3>1 DEF Single, EntryFor, TypeOK
    <3> QED
      BY <3>1 DEF PassList, PassListSkips
  <2>2. PassAbandon \/ PassDefer \/ PassRoster \/ PassJoin => pass'.entries = {}
    BY DEF PassAbandon, PassDefer, PassRoster, PassJoin, NoPass
  <2>3. PassBegin => pass'.entries = pass.entries
    BY DEF PassBegin, TypeOK
  <2>4. PassRefused \/ PassPrune \/ PassListFails \/ PassFetchAll \/ PassTail
          => UNCHANGED pass
    BY DEF PassRefused, PassPrune, PassListFails, PassFetchAll, PassTail
  <2> QED
    BY <1>2, <2>1, <2>2, <2>3, <2>4 DEF PassStep, Single
<1> QED
  BY <1>1, <1>2, PassAlone

\* The host's records are touched in the past.
Past ==
  Undisturbed => /\ \A a \in Accounts : host[a].touched <= now
                 /\ \A e \in pass.entries : e.touched <= now

LEMMA NextClock ==
  ASSUME TypeOK, [Next]_vars
  PROVE  now' >= now
<1>1. now \in Nat /\ now >= now
  BY DEF TypeOK
<1>2. CASE PassStep
  BY <1>1, <1>2 DEF PassStep, PassRefused, PassBegin, PassPrune, PassList, PassListSkips,
    PassListFails, PassAbandon, PassDefer, PassRoster, PassFetchAll, PassJoin, PassTail,
    world
<1>3. ASSUME NEW t \in Threads, FlushStep(t) \/ FetchStep(t)
      PROVE  now' >= now
  BY <1>1, <1>3 DEF FlushStep, FlushStopped, FlushPlan, FlushAgain, FlushArm, WriteSkip,
    WriteRead, WriteReadFails, WriteNoOp, WriteRefused, WriteAdmit, WriteSaved,
    WriteSaveFails, FetchStep, FetchQuit, FetchExpired, FetchStart, AdmitRestart,
    AdmitRefused, AdmitExpired, AdmitCall, CallReturns, ReadFails, ApplyError,
    ApplyAnswer, world
<1>4. CASE CallbackStep \/ AdminStep \/ HostStep \/ UNCHANGED vars
  BY <1>1, <1>4 DEF CallbackStep, WorkerStep, RetryDropped, RetryBegin, RetryRecheck,
    DeadlineDropped, DeadlineBegin, PollDropped, PollBegin, ProbeChanged, ProbeSame,
    ProbeFails, PollEnd, AdminStep, Reconfigure, Publish, DisableGeneration, Stop,
    Refresh, HostStep, vars, world
<1>5. Tick => now' = now + 1
  BY DEF Tick
<1> QED
  BY <1>1, <1>2, <1>3, <1>4, <1>5 DEF Next, ThreadStep, Asleep

LEMMA NextPast ==
  ASSUME TypeOK, TypeOK', Posts, IInv, SInv, Spared, FoundStands, Past, [Next]_vars
  PROVE  Past'
<1> SUFFICES ASSUME Undisturbed'
             PROVE  /\ \A a \in Accounts : host'[a].touched <= now'
                    /\ \A e \in pass'.entries : e.touched <= now'
  BY DEF Past
<1>1. Undisturbed /\ ~Meddles
  BY NextSpared
<1>2. now' >= now /\ now \in Nat /\ now' \in Nat
  BY NextClock DEF TypeOK
<1>3. ASSUME NEW a \in Accounts
      PROVE  host'[a].touched <= now'
  <2>1. host[a] \in Runtimes /\ host'[a] \in Runtimes
    BY DEF TypeOK
  <2>2. host[a].touched \in Nat /\ host'[a].touched \in Nat
    BY <2>1 DEF Runtimes
  <2>3. host[a].touched <= now
    BY <1>1 DEF Past
  <2>4. host'[a].touched \in {host[a].touched, now}
    <3>1. ASSUME NEW b \in Accounts, HostFails(b) \/ HostRecovers(b)
          PROVE  host'[a].touched \in {host[a].touched, now}
      <4>1. host \in [Accounts -> Runtimes]
        BY DEF TypeOK
      <4>2. CASE HostFails(b)
        <5>1. host'[a].touched = host[a].touched
          BY <2>1, <4>1, <4>2 DEF HostFails, Runtimes
        <5> QED
          BY <5>1
      <4>3. CASE HostRecovers(b)
        <5>1. host'[a] = host[a] \/ host'[a].touched = now
          BY <4>1, <4>3 DEF HostRecovers
        <5> QED
          BY <5>1
      <4> QED
        BY <3>1, <4>2, <4>3
    <3>2. ASSUME NEW t \in Threads, WriteSaved(t)
          PROVE  host'[a].touched \in {host[a].touched, now}
      BY <1>1, <3>2, SavedShows
    <3> QED
      BY <1>1, <3>1, <3>2, NextWorld
  <2> QED
    BY <1>2, <2>2, <2>3, <2>4
<1>4. ASSUME NEW e \in pass'.entries
      PROVE  e.touched <= now'
  <2>1. e.touched \in Nat
    BY DEF TypeOK, RosterEntries
  <2>2. CASE e \in pass.entries
    <3>1. e.touched <= now
      BY <1>1, <2>2 DEF Past
    <3> QED
      BY <1>2, <2>1, <3>1
  <2>3. CASE e \notin pass.entries
    <3>1. PassList
      <4>1. PassStep
        BY <2>3, PassAlone
      <4>2. ~PassListSkips /\ ~PassListFails
        BY <1>1 DEF PassListSkips, PassListFails, Meddles
      <4>3. PassAbandon \/ PassDefer \/ PassRoster \/ PassJoin => pass'.entries = {}
        BY DEF PassAbandon, PassDefer, PassRoster, PassJoin, NoPass
      <4>4. PassBegin => pass'.entries = pass.entries
        BY DEF PassBegin, TypeOK
      <4>5. PassRefused \/ PassPrune \/ PassFetchAll \/ PassTail => UNCHANGED pass
        BY DEF PassRefused, PassPrune, PassFetchAll, PassTail
      <4> QED
        BY <2>3, <4>1, <4>2, <4>3, <4>4, <4>5 DEF PassStep
    <3>2. PICK a \in Candidates : e = EntryFor(a)
      BY <3>1 DEF PassList, TypeOK
    <3>3. a \in Accounts /\ e.touched = host[a].touched
      BY <3>2 DEF Candidates, EntryFor, TypeOK
    <3> QED
      BY <1>1, <1>2, <2>1, <3>3 DEF Past
  <2> QED
    BY <2>2, <2>3
<1> QED
  BY <1>3, <1>4

\* An account that recovers has the sentinel in its file.
RecoversBehind ==
  Calm => \A a \in roster : acct[a].health = "recovering" => disk[a] = 0

LEMMA NextRecovers ==
  ASSUME ZeroSentinel, TypeOK, TypeOK', Posts, IInv, SInv, Spared, FoundStands, Fresh,
         SentinelComes, RecoversBehind, [Next]_vars
  PROVE  RecoversBehind'
<1> SUFFICES ASSUME Calm', NEW a \in roster', acct'[a].health = "recovering"
             PROVE  disk'[a] = 0
  BY DEF RecoversBehind
<1>1. Calm /\ Told /\ Undisturbed /\ ~Meddles /\ UNCHANGED <<cfg, configSeq, stopped>>
  BY CalmStays DEF Calm
<1>2. a \in Accounts
  BY DEF TypeOK
<1>3. CASE PassPrune
  BY <1>1, <1>2, <1>3 DEF PassPrune, world, RecoversBehind
<1>4. CASE PassRoster
  <2>1. pc[Pass] = "roster" /\ UNCHANGED disk
    BY <1>4 DEF PassRoster, world
  <2>2. acct[a].health \in {"quarantined", "recovering"}
    BY <1>2, <1>4, RosterFates DEF RosterFate
  <2>3. a \in roster
    BY <1>1, <1>2, <2>2 DEF Fresh
  <2>4. ~Coming(a)
    BY <2>1 DEF Coming, Flushing
  <2> QED
    BY <1>1, <2>1, <2>2, <2>3, <2>4 DEF SentinelComes
<1>5. CASE ~PassPrune /\ ~PassRoster
  <2>1. a \in roster /\ acct[a].health = "recovering"
    BY <1>1, <1>2, <1>5, RecordsStay
  <2>2. disk[a] = 0
    BY <1>1, <2>1 DEF RecoversBehind
  <2>3. ASSUME NEW t \in Threads, WriteSaved(t)
        PROVE  disk'[a] = 0
    BY <1>1, <1>2, <2>1, <2>2, <2>3, SavedShows, ZeroInForce DEF Suits
  <2> QED
    BY <1>1, <2>2, <2>3, NextWorld
<1> QED
  BY <1>3, <1>4, <1>5

\* A pass in front of a roster has just read it, or waits.
LEMMA ReadsRoster ==
  ASSUME TypeOK, Posts, [Next]_vars, ~stopped, ~Meddles, pc'[Pass] = "roster"
  PROVE  PassList \/ (pc[Pass] = "roster" /\ UNCHANGED pass /\ ~PassPrune /\ ~PassRoster)
<1>1. PassStep => PassList
  BY ThreadKinds DEF PassStep, PassRefused, PassBegin, PassPrune, PassListSkips,
    PassListFails, PassAbandon, PassDefer, PassRoster, PassFetchAll, PassJoin, PassTail,
    CallFlush, TypeOK, Meddles
<1>2. ~FlushStep(Pass)
  <2>1. FlushStep(Pass) => pc'[Pass] # "roster"
    BY FlushFrames, ThreadKinds DEF Flushing, ReturnsOf
  <2> QED
    BY <2>1
<1>3. PassPrune \/ PassRoster => PassStep
  BY DEF PassStep
<1>4. PassList => ~PassPrune /\ ~PassRoster
  BY DEF PassList, PassPrune, PassRoster
<1> QED
  BY <1>1, <1>2, <1>3, <1>4, PassAlone

\* What the host does of its own accord.
LEMMA HostShows ==
  ASSUME TypeOK, NEW b \in Accounts, HostFails(b) \/ HostRecovers(b), NEW a \in Accounts
  PROVE  host'[a] = host[a] \/ host'[a].bad \/ host'[a].by = "host"
<1>1. host \in [Accounts -> Runtimes] /\ host[a] \in Runtimes
  BY DEF TypeOK
<1>2. CASE HostFails(b)
  <2>1. host'[a] = host[a] \/ host'[a].bad = TRUE
    BY <1>1, <1>2 DEF HostFails, Runtimes
  <2> QED
    BY <2>1
<1>3. CASE HostRecovers(b)
  BY <1>1, <1>3 DEF HostRecovers
<1> QED
  BY <1>2, <1>3

\* A record that was bad and is not any more is the host's own, or the file has a rank: a
\* sentinel is saved over a rank only, and of an account that is not in quarantine only
\* one that recovers gets it.
FailureStands ==
  Calm /\ pc[Pass] = "roster" =>
    \A e \in pass.entries : e.bad /\ acct[e.acct].health # "quarantined" =>
      host[e.acct].bad \/ host[e.acct].by = "host" \/ disk[e.acct] # 0

LEMMA NextFailure ==
  ASSUME ZeroSentinel, TypeOK, TypeOK', Posts, IInv, SInv, Spared, FoundStands,
         RecoversBehind, FailureStands, [Next]_vars
  PROVE  FailureStands'
<1> SUFFICES ASSUME Calm', pc'[Pass] = "roster", NEW e \in pass'.entries, e.bad,
                    acct'[e.acct].health # "quarantined"
             PROVE  host'[e.acct].bad \/ host'[e.acct].by = "host" \/ disk'[e.acct] # 0
  BY DEF FailureStands
<1>1. Calm /\ ~stopped /\ Undisturbed /\ ~Meddles /\ UNCHANGED <<cfg, configSeq, stopped>>
  BY CalmStays DEF Calm, MayWrite
<1> DEFINE a == e.acct
<1>2. a \in Accounts
  BY DEF TypeOK, RosterEntries
<1>3. CASE PassList
  <2>1. PICK b \in Candidates : e = EntryFor(b)
    BY <1>3 DEF PassList, TypeOK
  <2> QED
    BY <1>3, <2>1 DEF PassList, EntryFor, world
<1>4. CASE pc[Pass] = "roster" /\ UNCHANGED pass /\ ~PassPrune /\ ~PassRoster
  <2>1. acct[a].health # "quarantined"
    BY <1>1, <1>2, <1>4, RecordsStay
  <2>2. host[a].bad \/ host[a].by = "host" \/ disk[a] # 0
    BY <1>1, <1>4, <2>1 DEF FailureStands
  <2>3. ASSUME NEW t \in Threads, WriteSaved(t)
        PROVE  host'[a].bad \/ host'[a].by = "host" \/ disk'[a] # 0
    <3>1. CASE a # item.acct
      BY <1>1, <1>2, <2>2, <2>3, <3>1, SavedShows
    <3>2. CASE a = item.acct
      <4>1. /\ a \in roster /\ disk'[a] # disk[a]
            /\ Suits(cfg, a, acct[a].health, disk'[a])
        BY <1>1, <1>2, <2>3, <3>2, SavedShows
      <4>2. acct[a].health = "recovering" => disk[a] = 0
        BY <1>1, <4>1 DEF RecoversBehind
      <4>3. acct[a].health \in {"healthy", "recovering"}
        BY <1>2, <2>1 DEF TypeOK, Record, Healths
      <4>4. disk'[a] # 0
        BY <4>1, <4>2, <4>3, ZeroInForce DEF Suits, TypeOK
      <4> QED
        BY <4>4
    <3> QED
      BY <3>1, <3>2
  <2> QED
    BY <1>1, <1>2, <2>2, <2>3, HostShows, NextWorld
<1> QED
  BY <1>1, <1>3, <1>4, ReadsRoster

\* An account in quarantine whose record the plugin has rebuilt, no one knows when.
Rebuilt(a) ==
  /\ acct[a].health = "quarantined"
  /\ ~host[a].bad /\ host[a].by = "plugin"
  /\ host[a].touched > acct[a].sentinelAt

\* It has been rebuilt by the save of a rank.
RebuiltByRank == Calm => \A a \in roster : Rebuilt(a) => disk[a] # 0

LEMMA NextRebuilt ==
  ASSUME ZeroSentinel, TypeOK, TypeOK', Posts, IInv, SInv, Spared, FoundStands, Fresh,
         FailureStands, RebuiltByRank, [Next]_vars
  PROVE  RebuiltByRank'
<1> SUFFICES ASSUME Calm', NEW a \in roster', Rebuilt(a)'
             PROVE  disk'[a] # 0
  BY DEF RebuiltByRank
<1>1. Calm /\ Undisturbed /\ ~Meddles /\ UNCHANGED <<cfg, configSeq, stopped>>
  BY CalmStays DEF Calm
<1>2. a \in Accounts /\ now \in Nat
  BY DEF TypeOK
<1>3. /\ acct'[a].health = "quarantined"
      /\ ~host'[a].bad /\ host'[a].by = "plugin"
      /\ host'[a].touched > acct'[a].sentinelAt
  BY DEF Rebuilt
<1>4. CASE PassPrune
  <2>1. a \in roster /\ acct'[a] = acct[a] /\ UNCHANGED <<disk, host>>
    BY <1>2, <1>4 DEF PassPrune, world
  <2> QED
    BY <1>1, <1>3, <2>1 DEF RebuiltByRank, Rebuilt
<1>5. CASE PassRoster
  <2>1. pc[Pass] = "roster" /\ UNCHANGED <<disk, host>>
    BY <1>5 DEF PassRoster, world
  <2>2. PICK e \in pass.entries : e.acct = a /\ RosterFate(acct[a], acct'[a], e)
    BY <1>2, <1>5, RosterFates
  <2>3. CASE acct[a].health = "quarantined" /\ acct'[a].sentinelAt = acct[a].sentinelAt
    <3>1. a \in roster
      BY <1>1, <1>2, <2>3 DEF Fresh
    <3> QED
      BY <1>1, <1>3, <2>1, <2>3, <3>1 DEF RebuiltByRank, Rebuilt
  <2>4. CASE acct[a].health # "quarantined" /\ e.bad
    BY <1>1, <1>3, <2>1, <2>2, <2>4 DEF FailureStands
  <2> QED
    BY <1>3, <2>2, <2>3, <2>4 DEF RosterFate
<1>6. CASE ~PassPrune /\ ~PassRoster
  <2>1. a \in roster /\ acct[a].health = "quarantined"
    BY <1>1, <1>2, <1>3, <1>6, RecordsStay DEF TypeOK, Record, Healths
  <2>2. CASE \E t \in Threads : WriteSaved(t)
    <3>1. PICK t \in Threads : WriteSaved(t)
      BY <2>2
    <3>2. CASE a = item.acct
      <4>1. host'[a].touched = now /\ acct'[a].sentinelAt = now
        BY <1>1, <1>2, <2>1, <3>1, <3>2, SavedShows
      <4> QED
        BY <1>2, <1>3, <4>1
    <3>3. CASE a # item.acct
      <4>1. /\ disk'[a] = disk[a] /\ host'[a] = host[a]
            /\ acct'[a].sentinelAt = acct[a].sentinelAt
        BY <1>1, <1>2, <3>1, <3>3, SavedShows
      <4> QED
        BY <1>1, <1>3, <2>1, <4>1 DEF RebuiltByRank, Rebuilt
    <3> QED
      BY <3>2, <3>3
  <2>3. CASE \A t \in Threads : ~WriteSaved(t)
    <3>1. disk'[a] = disk[a] /\ host'[a] = host[a]
      BY <1>1, <1>2, <1>3, <2>3, HostShows, NextWorld
    <3>2. acct'[a].sentinelAt = acct[a].sentinelAt
      BY <1>1, <1>2, <1>6, <2>1, <2>3, RecordsStay
    <3> QED
      BY <1>1, <1>3, <2>1, <3>1, <3>2 DEF RebuiltByRank, Rebuilt
  <2> QED
    BY <2>2, <2>3
<1> QED
  BY <1>4, <1>5, <1>6

\* A good record that a list shows to be rebuilt by the plugin is older than the save of
\* the sentinel that is known, for an account in quarantine.
ListShowsNoRepair ==
  Calm /\ pc[Pass] = "roster" =>
    \A e \in pass.entries :
      /\ e.acct \in roster /\ acct[e.acct].health = "quarantined"
      /\ ~e.bad /\ e.by = "plugin"
      => e.touched <= acct[e.acct].sentinelAt

LEMMA NextShows ==
  ASSUME ZeroSentinel, TypeOK, TypeOK', Posts, IInv, SInv, Spared, FoundStands, Fresh,
         SentinelComes, Past, RebuiltByRank, ListShowsNoRepair, [Next]_vars
  PROVE  ListShowsNoRepair'
<1> SUFFICES ASSUME Calm', pc'[Pass] = "roster", NEW e \in pass'.entries,
                    e.acct \in roster', acct'[e.acct].health = "quarantined",
                    ~e.bad, e.by = "plugin"
             PROVE  e.touched <= acct'[e.acct].sentinelAt
  BY DEF ListShowsNoRepair
<1>1. /\ Calm /\ Told /\ ~stopped /\ Undisturbed /\ ~Meddles
      /\ UNCHANGED <<cfg, configSeq, stopped>>
  BY CalmStays DEF Calm, MayWrite
<1> DEFINE a == e.acct
<1>2. a \in Accounts /\ e.touched \in Nat
  BY DEF TypeOK, RosterEntries
<1>3. CASE PassList
  <2>1. PICK b \in Candidates : e = EntryFor(b)
    BY <1>3 DEF PassList, TypeOK
  <2>2. pc[Pass] = "list" /\ UNCHANGED <<acct, roster>>
    BY <1>3 DEF PassList
  <2>3. e.bad = host[a].bad /\ e.by = host[a].by /\ e.touched = host[a].touched
    BY <2>1 DEF EntryFor
  <2>4. ~Coming(a)
    BY <2>2 DEF Coming, Flushing
  <2>5. disk[a] = 0
    BY <1>1, <2>2, <2>4 DEF SentinelComes
  <2>6. ~(host[a].touched > acct[a].sentinelAt)
    BY <1>1, <2>2, <2>3, <2>5 DEF RebuiltByRank, Rebuilt
  <2>7. acct[a].sentinelAt \in Int
    BY <1>2 DEF TypeOK, Record
  <2> QED
    BY <1>2, <2>2, <2>3, <2>6, <2>7
<1>4. CASE pc[Pass] = "roster" /\ UNCHANGED pass /\ ~PassPrune /\ ~PassRoster
  <2>1. /\ a \in roster /\ acct[a].health = "quarantined"
        /\ acct'[a].sentinelAt \in {acct[a].sentinelAt, now}
    BY <1>1, <1>2, <1>4, RecordsStay DEF TypeOK, Record, Healths
  <2>2. e.touched <= now
    BY <1>1, <1>4 DEF Past
  <2>3. e.touched <= acct[a].sentinelAt
    BY <1>1, <1>4, <2>1 DEF ListShowsNoRepair
  <2> QED
    BY <2>1, <2>2, <2>3
<1> QED
  BY <1>1, <1>3, <1>4, ReadsRoster

\* Only a roster lets an account recover.
LEMMA RecoversByRoster ==
  ASSUME TypeOK, Posts, [Next]_vars, NEW a \in Accounts,
         acct[a].health = "quarantined", acct'[a].health = "recovering"
  PROVE  PassRoster
<1> SUFFICES ASSUME ~PassRoster
             PROVE  FALSE
  OBVIOUS
<1>1. CASE PassStep
  <2>1. PassPrune \/ AllSame
    BY <1>1, PassSame
  <2>2. ~AllSame
    BY DEF AllSame, Same
  <2>3. ~PassPrune
    BY DEF PassPrune, NewAccount
  <2> QED
    BY <2>1, <2>2, <2>3
<1>2. ASSUME NEW t \in Threads, FlushStep(t)
      PROVE  acct'[a].health = acct[a].health
  BY <1>2, FlushSame, PlanKeeps, WriteKeeps DEF AllSame, Same
<1>3. ASSUME NEW t \in Threads, FetchStep(t)
      PROVE  acct'[a].health \in {acct[a].health, "healthy"}
  BY <1>3, FetchSame, AnswerWants DEF AllSame, Same
<1>4. CASE CallbackStep \/ Tick \/ AdminStep \/ HostStep \/ UNCHANGED vars
  BY <1>4, OtherSame DEF AllSame, Same
<1> QED
  BY <1>1, <1>2, <1>3, <1>4 DEF Next, ThreadStep, Asleep

Repairs ==
  /\ Fresh /\ Single /\ Past
  /\ RecoversBehind /\ FailureStands /\ RebuiltByRank /\ ListShowsNoRepair

LEMMA RepairsHold ==
  ASSUME ZeroSentinel
  PROVE  Spec => [](TypeOK /\ Posts /\ IInv /\ SInv /\ Files /\ Repairs)
<1>1. Init => Repairs
  <2> SUFFICES ASSUME Init
               PROVE  Repairs
    OBVIOUS
  <2>1. Fresh /\ RecoversBehind /\ RebuiltByRank
    BY DEF Init, NewAccount, Fresh, RecoversBehind, RebuiltByRank
  <2>2. pass.entries = {} /\ \A a \in Accounts : host[a].touched <= now
    BY DEF Init, NoPass
  <2>3. Single /\ Past
    BY <2>2 DEF Single, Past
  <2>4. FailureStands /\ ListShowsNoRepair
    BY <2>2 DEF FailureStands, ListShowsNoRepair
  <2> QED
    BY <2>1, <2>3, <2>4 DEF Repairs
<1>2. TypeOK /\ TypeOK' /\ Posts /\ IInv /\ SInv /\ Files /\ Repairs /\ [Next]_vars
        => Repairs'
  BY NextFresh, NextSingle, NextPast, NextRecovers, NextFailure, NextRebuilt, NextShows
  DEF Files, Repairs
<1> QED
  BY <1>1, <1>2, FilesHold, PTL DEF Spec

\* While nothing meddles and the first configuration is in force no account leaves
\* quarantine on a record that this plugin's own save rebuilt (AfterEntry's evidence,
\* applyRosterLocked): the record that a list shows is never newer than the save known.
THEOREM NoSelfRecoveryUndisturbedHolds ==
  ASSUME ZeroSentinel
  PROVE  Spec => NoSelfRecoveryUndisturbed
<1>1. ASSUME TypeOK, Posts, IInv, SInv, Files, Repairs, [Next]_vars,
             Undisturbed, MayWrite, configSeq = 0, NEW a \in Accounts, SelfRecovers(a)
      PROVE  FALSE
  <2>1. /\ a \in roster /\ a \in roster'
        /\ acct[a].health = "quarantined" /\ acct'[a].health = "recovering"
    BY <1>1 DEF SelfRecovers
  <2>2. PICK e \in pass.entries : e.acct = a /\ e.by = "plugin"
    BY <1>1 DEF SelfRecovers
  <2>3. PassRoster
    BY <1>1, <2>1, RecoversByRoster
  <2>4. PICK f \in pass.entries : f.acct = a /\ RosterFate(acct[a], acct'[a], f)
    BY <1>1, <2>1, <2>3, RosterFates
  <2>5. ~f.bad /\ f.touched > acct[a].sentinelAt /\ f = e
    BY <1>1, <2>1, <2>2, <2>4 DEF RosterFate, Repairs, Single
  <2>6. pc[Pass] = "roster"
    BY <2>3 DEF PassRoster
  <2>7. f.touched <= acct[a].sentinelAt
    BY <1>1, <2>1, <2>2, <2>5, <2>6 DEF Repairs, ListShowsNoRepair, Calm
  <2>8. f.touched \in Nat /\ acct[a].sentinelAt \in Int
    BY <1>1 DEF TypeOK, RosterEntries, Record
  <2> QED
    BY <2>5, <2>7, <2>8
<1>2. TypeOK /\ Posts /\ IInv /\ SInv /\ Files /\ Repairs /\ [Next]_vars
        => (Undisturbed /\ MayWrite /\ configSeq = 0 => \A a \in Accounts : ~SelfRecovers(a))
  BY <1>1
<1> QED
  BY <1>2, RepairsHold, PTL DEF Spec, NoSelfRecoveryUndisturbed
=============================================================================
