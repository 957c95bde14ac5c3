------------------------------- MODULE Engine -------------------------------
(***************************************************************************)
(* The whole engine (internal/engine/engine.go): full passes, the          *)
(* callbacks of its timers, reconfiguration and stop, in the host and at   *)
(* the mercy of the provider and of the operator.                          *)
(***************************************************************************)
EXTENDS Reconcile

----------------------------------------------------------------------------
\* Callbacks.

\* A worker takes a callback that has started but has not had Engine.mu yet.
Take(w, j) ==
  /\ pc[w] = "idle"
  /\ j \in pending
  /\ pending' = pending \ {j}

\* retryStillNeeded.
RetryNeeded(j) ==
  /\ j.acct \in roster
  /\ ~stopped
  /\ Manages(cfg, j.acct)
  /\ j.seq = acct[j.acct].retrySeq
  /\ NeedsRetry(acct[j.acct])

RetryDropped(w) ==
  /\ \E j \in pending : j.kind = "retry" /\ ~RetryNeeded(j) /\ Take(w, j)
  /\ UNCHANGED <<settings, timers, world, roster, acct, deadline, passes, pc, frame,
                 try, job, pass, item, writeMu, slots>>

RetryBegin(w) ==
  /\ \E j \in pending :
       /\ j.kind = "retry"
       /\ RetryNeeded(j)
       /\ Take(w, j)
       /\ job' = [job EXCEPT ![w] = j]
  /\ CallFlush(w, "immediate", "recheck")
  /\ UNCHANGED <<settings, timers, world, roster, acct, deadline, passes, try, pass,
                 item, writeMu, slots>>

\* The second look, after the callback's own flush.
RetryRecheck(w) ==
  /\ pc[w] = "recheck"
  /\ IF RetryNeeded(job[w])
     THEN pc' = [pc EXCEPT ![w] = "fetch"] /\ UNCHANGED job
     ELSE pc' = [pc EXCEPT ![w] = "idle"] /\ job' = [job EXCEPT ![w] = NoJob]
  /\ UNCHANGED <<settings, timers, world, roster, acct, deadline, passes, pending,
                 frame, try, pass, item, writeMu, slots>>

\* A callback fired just before its timer was replaced must not clear the
\* replacement.
DeadlineCurrent(j) == ~stopped /\ j.seq = deadline.seq

DeadlineDropped(w) ==
  /\ \E j \in pending : j.kind = "deadline" /\ ~DeadlineCurrent(j) /\ Take(w, j)
  /\ UNCHANGED <<settings, timers, world, roster, acct, deadline, passes, pc, frame,
                 try, job, pass, item, writeMu, slots>>

DeadlineBegin(w) ==
  /\ \E j \in pending : j.kind = "deadline" /\ DeadlineCurrent(j) /\ Take(w, j)
  /\ deadline' = [deadline EXCEPT !.at = NoTime]
  /\ CallFlush(w, "immediate", "idle")
  /\ UNCHANGED <<settings, timers, world, roster, acct, passes, try, job, pass, item,
                 writeMu, slots>>

----------------------------------------------------------------------------
\* The health poll.

PollCurrent(j) == ~stopped /\ j.seq = poll.seq

PollDropped(w) ==
  /\ \E j \in pending : j.kind = "poll" /\ ~PollCurrent(j) /\ Take(w, j)
  /\ UNCHANGED <<settings, timers, world, roster, acct, deadline, passes, pc, frame,
                 try, job, pass, item, writeMu, slots>>

PollBegin(w) ==
  /\ \E j \in pending :
       /\ j.kind = "poll"
       /\ PollCurrent(j)
       /\ Take(w, j)
       /\ job' = [job EXCEPT ![w] = [j EXCEPT !.probes =
            {[acct |-> a, health |-> acct[a].health, sentinelAt |-> acct[a].sentinelAt] :
               a \in {b \in roster : acct[b].health # "healthy"}}]]
  /\ poll' = [poll EXCEPT !.at = NoTime]
  /\ pc' = [pc EXCEPT ![w] = "probe"]
  /\ UNCHANGED <<settings, nextPass, world, roster, acct, deadline, passes, frame, try,
                 pass, item, writeMu, slots>>

\* What host.auth.get_runtime says differs from what the engine last knew.
Differs(p) ==
  IF host[p.acct].bad THEN p.health = "recovering"
  ELSE p.health = "quarantined" /\ Evidence(p.sentinelAt, host[p.acct].touched)

\* A transition triggers a full pass; its tail re-arms the poll.
ProbeChanged(w) ==
  /\ pc[w] = "probe"
  /\ \E p \in job[w].probes : p.acct \in listed /\ Differs(p)
  /\ passes' = passes + 1
  /\ job' = [job EXCEPT ![w] = NoJob]
  /\ pc' = [pc EXCEPT ![w] = "idle"]
  /\ UNCHANGED <<settings, timers, world, roster, acct, deadline, pending, frame, try,
                 pass, item, writeMu, slots>>

\* Nothing to say about this one: no transition, or the host did not answer.
ProbeSame(w) ==
  /\ pc[w] = "probe"
  /\ \E p \in job[w].probes :
       /\ p.acct \notin listed \/ ~Differs(p)
       /\ job' = [job EXCEPT ![w].probes = @ \ {p}]
  /\ UNCHANGED <<settings, timers, world, roster, acct, deadline, passes, pending, pc,
                 frame, try, pass, item, writeMu, slots>>

ProbeFails(w) ==
  /\ pc[w] = "probe"
  /\ \E p \in job[w].probes : job' = [job EXCEPT ![w].probes = @ \ {p}]
  /\ Spend("fault")
  /\ UNCHANGED <<settings, timers, now, disk, host, listed, roster, acct, deadline,
                 passes, pending, pc, frame, try, pass, item, writeMu, slots>>

PollEnd(w) ==
  /\ pc[w] = "probe"
  /\ job[w].probes = {}
  /\ poll' = IF ~stopped /\ job[w].seq = poll.seq THEN PollRestarted(acct) ELSE poll
  /\ job' = [job EXCEPT ![w] = NoJob]
  /\ pc' = [pc EXCEPT ![w] = "idle"]
  /\ UNCHANGED <<settings, nextPass, world, roster, acct, deadline, passes, pending,
                 frame, try, pass, item, writeMu, slots>>

WorkerStep(w) ==
  \/ RetryDropped(w) \/ RetryBegin(w) \/ RetryRecheck(w)
  \/ DeadlineDropped(w) \/ DeadlineBegin(w)
  \/ PollDropped(w) \/ PollBegin(w) \/ ProbeChanged(w) \/ ProbeSame(w)
  \/ ProbeFails(w) \/ PollEnd(w)

----------------------------------------------------------------------------
\* Time.  A timer fires at its instant; the callback it starts may run later.

Tick ==
  /\ now < Horizon
  /\ now' = now + 1
  /\ acct' = [a \in Accounts |-> [acct[a] EXCEPT !.ladder = @ \ {now + 1}]]
  /\ pending' = pending
       \cup {RetryJob(a, acct[a].retrySeq) : a \in {b \in Accounts : now + 1 \in acct[b].ladder}}
       \cup (IF deadline.at = now + 1 THEN {DeadlineJob(deadline.seq)} ELSE {})
       \cup (IF poll.at = now + 1 THEN {PollJob(poll.seq)} ELSE {})
  /\ IF nextPass = now + 1
     THEN passes' = passes + 1 /\ nextPass' = NoTime
     ELSE UNCHANGED <<passes, nextPass>>
  /\ UNCHANGED <<settings, roster, deadline, poll, pc, frame, try, job, pass, item,
                 writeMu, slots, disk, host, listed, budget>>

----------------------------------------------------------------------------
\* Reconfigure, Stop and the management refresh.

\* stopLocked.
Quieted ==
  /\ stopped' = TRUE
  /\ nextPass' = NoTime
  /\ deadline' = [seq |-> deadline.seq + 1, at |-> NoTime]
  /\ poll' = [seq |-> poll.seq + 1, at |-> NoTime]
  /\ acct' = [a \in Accounts |-> IF a \in roster THEN CancelRetries(acct[a]) ELSE acct[a]]

Reconfigure ==
  /\ admin.at = "idle"
  /\ Spend("config")
  /\ admin' = [admin EXCEPT !.at = "publish"]
  /\ UNCHANGED <<cfg, configSeq, stopped, forgotten, timers, now, disk, host, listed, roster,
                 acct, deadline, passes, pending, pc, frame, try, job, pass, item, writeMu,
                 slots>>

\* The accounts a publication opts out.
OptsOut(c, a) == Manages(cfg, a) /\ (~c.enabled \/ ~Manages(c, a))

\* Both barriers are held: no provider call and no save is in flight.
PublishMayEnterDuringSave == ~CallInFlight

PublishMayEnterDuringCall == ~SaveInFlight

PublishMayEnter == ~CallInFlight /\ ~SaveInFlight

Publish ==
  /\ admin.at = "publish"
  /\ PublishMayEnter
  /\ \E c \in Configs :
       /\ cfg' = c
       /\ stopped' = ~c.enabled
       /\ acct' = [a \in Accounts |->
                     IF a \in roster /\ OptsOut(c, a) THEN OptedOut(acct[a]) ELSE acct[a]]
       /\ IF c.enabled
          THEN /\ passes' = passes + 1
               /\ admin' = [admin EXCEPT !.at = "idle",
                                         !.overtaken = @ \/ configSeq \in admin.disabling]
          ELSE /\ UNCHANGED passes
               /\ admin' = [admin EXCEPT !.at = "idle",
                                         !.disabling = @ \cup {configSeq + 1}]
  /\ configSeq' = configSeq + 1
  /\ UNCHANGED <<forgotten, timers, world, roster, deadline, pending, pc, frame, try, job,
                 pass, item, writeMu, slots>>

\* stopDisabledGeneration: a newer enabled configuration stays runnable.
DisablesAnyway(g) == TRUE

StillDisabled(g) == configSeq = g /\ ~cfg.enabled

DisableGeneration ==
  /\ writeMu = Nobody
  /\ \E g \in admin.disabling :
       /\ admin' = [admin EXCEPT !.disabling = @ \ {g}]
       /\ IF StillDisabled(g) THEN Quieted
          ELSE UNCHANGED <<stopped, timers, deadline, acct>>
  /\ UNCHANGED <<cfg, configSeq, forgotten, world, roster, passes, pending, pc, frame, try,
                 job, pass, item, writeMu, slots>>

\* Runtime.Quiesce.  Taking writeMu drains a write pass in progress.
StopMayEnterDuringWrite == TRUE

StopMayEnter == writeMu = Nobody

Stop ==
  /\ StopMayEnter
  /\ Spend("stop")
  /\ Quieted
  /\ UNCHANGED <<cfg, configSeq, admin, forgotten, now, disk, host, listed, roster, passes,
                 pending, pc, frame, try, job, pass, item, writeMu, slots>>

Refresh ==
  /\ Spend("refresh")
  /\ passes' = passes + 1
  /\ UNCHANGED <<settings, timers, now, disk, host, listed, roster, acct, deadline,
                 pending, pc, frame, try, job, pass, item, writeMu, slots>>

----------------------------------------------------------------------------
\* The host and its operator.

\* The host reports the credential failed (disabled, unauthorized, ...).
HostFails(a) ==
  /\ ~host[a].bad
  /\ host' = [host EXCEPT ![a].bad = TRUE]
  /\ UNCHANGED <<disk, listed>>

\* A token refresh, or the operator, makes the credential good again.
HostRecovers(a) ==
  /\ host' = [host EXCEPT ![a] = [bad |-> FALSE, touched |-> now, by |-> "host"]]
  /\ UNCHANGED <<disk, listed>>

\* The operator edits the file's priority.
OperatorEdits(a) ==
  /\ disk' = [disk EXCEPT ![a] = NoPriority]
  /\ host' = [host EXCEPT ![a].touched = now, ![a].by = "host"]
  /\ UNCHANGED listed

\* The file disappears from the list, or comes back.
Relisted(a) ==
  /\ listed' = IF a \in listed THEN listed \ {a} ELSE listed \cup {a}
  /\ UNCHANGED <<disk, host>>

HostStep ==
  /\ \E a \in Accounts :
       \/ (HostFails(a) \/ HostRecovers(a)) /\ Spend("health")
       \/ (OperatorEdits(a) \/ Relisted(a)) /\ Spend("edit")
  /\ UNCHANGED <<settings, timers, now, roster, acct, deadline, passes, pending, pc,
                 frame, try, job, pass, item, writeMu, slots>>

----------------------------------------------------------------------------
\* The engine is asleep: nothing runs and nothing is about to.
Idle ==
  /\ \A t \in Threads : pc[t] = "idle"
  /\ pending = {}
  /\ passes = 0
  /\ admin.at = "idle" /\ admin.disabling = {}

\* The bound on time ends a behaviour, never the engine.
Asleep == Idle /\ now = Horizon /\ UNCHANGED vars

Init ==
  /\ now = 0
  /\ cfg = InitialConfig
  /\ configSeq = 0
  /\ stopped = ~InitialConfig.enabled
  /\ roster = {}
  /\ acct = [a \in Accounts |-> NewAccount]
  /\ deadline = [seq |-> 0, at |-> NoTime]
  /\ poll = [seq |-> 0, at |-> NoTime]
  /\ nextPass = NoTime
  /\ passes = IF InitialConfig.enabled THEN 1 ELSE 0
  /\ pending = {}
  /\ pc = [t \in Threads |-> "idle"]
  /\ frame = [t \in Threads |-> NoFrame]
  /\ try = [t \in Threads |-> NoTry]
  /\ job = [t \in Threads |-> NoJob]
  /\ pass = NoPass
  /\ item = NoItem
  /\ writeMu = Nobody
  /\ slots = {}
  /\ admin = [at |-> "idle", disabling |-> {}, overtaken |-> FALSE]
  /\ forgotten = {}
  /\ disk = [a \in Accounts |-> NoPriority]
  /\ host = [a \in Accounts |-> [bad |-> FALSE, touched |-> 0, by |-> "host"]]
  /\ listed = Accounts
  /\ budget = Budget

ThreadStep == \E t \in Threads : FlushStep(t) \/ FetchStep(t)

CallbackStep == \E w \in Workers : WorkerStep(w)

AdminStep == Reconfigure \/ Publish \/ DisableGeneration \/ Stop \/ Refresh

Next ==
  \/ PassStep \/ ThreadStep \/ CallbackStep
  \/ Tick \/ AdminStep \/ HostStep \/ Asleep

Spec == Init /\ [][Next]_vars
=============================================================================
