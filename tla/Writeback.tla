----------------------------- MODULE Writeback -----------------------------
(***************************************************************************)
(* flushInternal and performWrites (internal/engine/engine.go and          *)
(* writeback.go): demote what has expired, rank, write the priorities that *)
(* changed through the host, and only then arm retries and the deadline.   *)
(*                                                                         *)
(*   "flush"   about to enter the first critical section                   *)
(*   "write"   in performWrites, before the next item (or before writeMu)  *)
(*   "admit"   host.auth.get has answered, before the final admission      *)
(*   "saving"  inside host.auth.save, holding saveMu                       *)
(*   "arm"     about to enter the last critical section                    *)
(***************************************************************************)
EXTENDS EngineState

----------------------------------------------------------------------------
\* Ranking.

EntryOf(records, a) ==
  [key |-> a, at |-> records[a].resetAt, future |-> HasFutureReset(records[a], now)]

\* The healthy accounts of one provider, unhealthy ones do not count toward N.
GroupOf(records, a) ==
  {b \in roster : ProviderOf[b] = ProviderOf[a] /\ records[b].health = "healthy"}

DesiredPriority(records, a) ==
  IF records[a].health = "healthy"
  THEN Priority(EntryOf(records, a), {EntryOf(records, b) : b \in GroupOf(records, a)},
                cfg.floor, cfg.step)
  ELSE cfg.sentinel

Ranked(records) ==
  [a \in Accounts |-> IF a \in roster
                      THEN [records[a] EXCEPT !.desired = DesiredPriority(records, a)]
                      ELSE records[a]]

AllDemotedOnCopies(records) == records

AllDemoted(records) == [a \in Accounts |-> Demoted(records[a], now)]

HealthyWritePlan(records) ==
  {[acct |-> a, desired |-> records[a].desired, health |-> records[a].health,
    seq |-> configSeq] :
     a \in {b \in roster : /\ records[b].health = "healthy"
                           /\ records[b].current # records[b].desired}}

LoweringWritePlan(records) ==
  {[acct |-> a, desired |-> records[a].desired, health |-> records[a].health,
    seq |-> configSeq] :
     a \in {b \in roster : records[b].current > records[b].desired}}

\* An account is skipped only when its cached priority is the desired one.
WritePlan(records) ==
  {[acct |-> a, desired |-> records[a].desired, health |-> records[a].health,
    seq |-> configSeq] :
     a \in {b \in roster : records[b].current # records[b].desired}}

\* An account a running pass has reserved keeps its intent for that pass.
CollectsAll(r) == r.wantAwaiting

Collects(r) == r.wantAwaiting /\ ~r.fetchPending

Collected(r) == [r EXCEPT !.wantAwaiting = FALSE, !.needsImmediate = FALSE]

ScheduleOf(a, r) ==
  [acct |-> a, epoch |-> r.epoch, retrySeq |-> r.retrySeq,
   immediate |-> r.needsImmediate]

----------------------------------------------------------------------------
\* The first critical section of flushInternal.

Return(t) ==
  /\ pc' = [pc EXCEPT ![t] = frame[t].ret]
  /\ frame' = [frame EXCEPT ![t] = NoFrame]
  /\ job' = [job EXCEPT ![t] = IF frame[t].ret = "idle" THEN NoJob ELSE @]

FlushStopped(t) ==
  /\ pc[t] \in {"flush", "arm"}
  /\ stopped
  /\ Return(t)
  /\ UNCHANGED <<settings, timers, world, roster, acct, deadline, passes, pending,
                 try, pass, item, writeMu, slots>>

FlushPlan(t) ==
  /\ pc[t] = "flush"
  /\ ~stopped
  /\ LET ranked == Ranked(AllDemoted(acct))
         plan == WritePlan(ranked)
         collected == IF frame[t].mode = "none" THEN {}
                      ELSE {a \in roster : Collects(ranked[a])}
     IN  /\ acct' = [a \in Accounts |->
                       IF a \in collected THEN Collected(ranked[a]) ELSE ranked[a]]
         /\ frame' = [frame EXCEPT
              ![t].plan = plan,
              ![t].retries = @ \cup {ScheduleOf(a, ranked[a]) : a \in collected},
              ![t].demoted = {<<a, ranked[a].epoch>> :
                                a \in {b \in roster : ranked[b].reset = "awaiting"}}]
         /\ pc' = [pc EXCEPT ![t] = IF plan = {} THEN "arm" ELSE "write"]
  /\ UNCHANGED <<settings, timers, world, roster, deadline, passes, pending, try,
                 job, pass, item, writeMu, slots>>

----------------------------------------------------------------------------
\* performWrites and writeOne.

\* The item still says what live state wants.
ItemCurrent(i) ==
  /\ ~stopped
  /\ i.seq = configSeq
  /\ Manages(cfg, i.acct)
  /\ i.acct \in roster
  /\ acct[i.acct].desired = i.desired
  /\ acct[i.acct].health = i.health

\* The last check before host.auth.save, under saveMu (writeItemCurrent).
AdmitsAnything(i) == TRUE

AdmitsSave(i) == ItemCurrent(i) /\ ~cfg.dryRun

NextItemKeepingLock(t, i) ==
  /\ frame' = [frame EXCEPT ![t].plan = @ \ {i}]
  /\ item' = NoItem
  /\ pc' = [pc EXCEPT ![t] = IF frame[t].plan = {i} THEN "arm" ELSE "write"]
  /\ writeMu' = t

\* Done with one item; the last one gives writeMu back.
NextItem(t, i) ==
  /\ frame' = [frame EXCEPT ![t].plan = @ \ {i}]
  /\ item' = NoItem
  /\ IF frame[t].plan = {i}
     THEN pc' = [pc EXCEPT ![t] = "arm"] /\ writeMu' = Nobody
     ELSE pc' = [pc EXCEPT ![t] = "write"] /\ writeMu' = t

Plain(i) == [acct |-> i.acct, desired |-> i.desired, health |-> i.health, seq |-> i.seq]

WriteSkip(t) ==
  /\ pc[t] = "write"
  /\ Free(t)
  /\ \E i \in frame[t].plan : ~AdmitsSave(i) /\ NextItem(t, i)
  /\ UNCHANGED <<settings, timers, world, roster, acct, deadline, passes, pending,
                 try, job, pass, slots>>

\* Revalidate and read the latest document.
WriteRead(t) ==
  /\ pc[t] = "write"
  /\ Free(t)
  /\ \E i \in frame[t].plan :
       /\ AdmitsSave(i)
       /\ item' = [acct |-> i.acct, desired |-> i.desired, health |-> i.health,
                   seq |-> i.seq, found |-> disk[i.acct]]
  /\ writeMu' = t
  /\ pc' = [pc EXCEPT ![t] = "admit"]
  /\ UNCHANGED <<settings, timers, world, roster, acct, deadline, passes, pending,
                 frame, try, job, pass, slots>>

\* The read failed, or its answer is not this account's credential any more.
WriteReadFails(t) ==
  /\ pc[t] = "write"
  /\ Free(t)
  /\ \E i \in frame[t].plan : AdmitsSave(i) /\ NextItem(t, i)
  /\ Spend("fault")
  /\ UNCHANGED <<settings, timers, now, disk, host, listed, roster, acct, deadline,
                 passes, pending, try, job, pass, slots>>

\* updateCurrentPriority.
Noted(i, saved) ==
  IF i.acct \in roster
  THEN [acct EXCEPT ![i.acct] = AfterWrite(@, i.desired, saved, cfg.sentinel, now)]
  ELSE acct

\* The latest physical priority already matches: no save.
WriteNoOp(t) ==
  /\ pc[t] = "admit"
  /\ item.found = item.desired
  /\ acct' = Noted(item, FALSE)
  /\ NextItem(t, Plain(item))
  /\ UNCHANGED <<settings, timers, world, roster, deadline, passes, pending, try,
                 job, pass, slots>>

WriteRefused(t) ==
  /\ pc[t] = "admit"
  /\ item.found # item.desired
  /\ ~AdmitsSave(item)
  /\ NextItem(t, Plain(item))
  /\ UNCHANGED <<settings, timers, world, roster, acct, deadline, passes, pending,
                 try, job, pass, slots>>

WriteAdmitAnyway(t) ==
  /\ pc[t] = "admit"
  /\ AdmitsSave(item)
  /\ pc' = [pc EXCEPT ![t] = "saving"]
  /\ UNCHANGED <<settings, timers, world, roster, acct, deadline, passes, pending,
                 frame, try, job, pass, item, writeMu, slots>>

WriteAdmit(t) ==
  /\ pc[t] = "admit"
  /\ item.found # item.desired
  /\ AdmitsSave(item)
  /\ pc' = [pc EXCEPT ![t] = "saving"]
  /\ UNCHANGED <<settings, timers, world, roster, acct, deadline, passes, pending,
                 frame, try, job, pass, item, writeMu, slots>>

\* What host.auth.save does: replace the document and rebuild the runtime
\* record as active, whatever it was.
Persisted(i) ==
  /\ disk' = [disk EXCEPT ![i.acct] = i.desired]
  /\ host' = [host EXCEPT ![i.acct] =
       [bad |-> FALSE, touched |-> now, by |-> IF @.bad THEN "plugin" ELSE @.by]]

WriteSaved(t) ==
  /\ pc[t] = "saving"
  /\ Persisted(item)
  /\ acct' = Noted(item, TRUE)
  /\ NextItem(t, Plain(item))
  /\ UNCHANGED <<settings, timers, now, listed, budget, roster, deadline, passes,
                 pending, try, job, pass, slots>>

\* The save failed, or took effect but its answer was an error.
WriteSaveFails(t) ==
  /\ pc[t] = "saving"
  /\ Persisted(item) \/ UNCHANGED <<disk, host>>
  /\ NextItem(t, Plain(item))
  /\ Spend("fault")
  /\ UNCHANGED <<settings, timers, now, listed, roster, acct, deadline, passes,
                 pending, try, job, pass, slots>>

----------------------------------------------------------------------------
\* The last critical section of flushInternal.

\* History: the demotions this flush planned writes for have had their pass.
Settled(records, t) ==
  [a \in Accounts |-> IF <<a, records[a].epoch>> \in frame[t].demoted
                      THEN [records[a] EXCEPT !.unwritten = FALSE]
                      ELSE records[a]]

\* A deadline was crossed while writes were in progress: go round again.
FlushAgain(t) ==
  /\ pc[t] = "arm"
  /\ ~stopped
  /\ \E a \in roster : Expired(acct[a], now)
  /\ acct' = AllDemoted(Settled(acct, t))
  /\ pc' = [pc EXCEPT ![t] = "flush"]
  /\ UNCHANGED <<settings, timers, world, roster, deadline, passes, pending, frame,
                 try, job, pass, item, writeMu, slots>>

StillAwaiting(a, r) ==
  /\ a \in roster
  /\ Manages(cfg, a)
  /\ acct[a].epoch = r.epoch
  /\ acct[a].retrySeq = r.retrySeq
  /\ ~acct[a].fetchPending
  /\ acct[a].health # "quarantined"
  /\ acct[a].reset = "awaiting"

\* The retries of this flush that are still valid for account a.
ValidRetries(t, a) == {r \in frame[t].retries : r.acct = a /\ StillAwaiting(a, r)}

EarliestReset(records) ==
  LET due == {records[a].resetAt :
                a \in {b \in roster : records[b].health = "healthy"
                                        /\ HasFutureReset(records[b], now)}}
  IN  IF due = {} THEN NoTime ELSE CHOOSE m \in due : \A d \in due : m <= d

\* rescheduleDeadlineLocked: one timer, for the earliest rankable reset.
RearmedKeepingTimer(at) ==
  IF deadline.at # NoTime THEN deadline
  ELSE [seq |-> deadline.seq + 1, at |-> at]

Rearmed(at) ==
  IF at = deadline.at THEN deadline ELSE [seq |-> deadline.seq + 1, at |-> at]

FlushArm(t) ==
  /\ pc[t] = "arm"
  /\ ~stopped
  /\ \A a \in roster : ~Expired(acct[a], now)
  /\ LET armed == {a \in Accounts : ValidRetries(t, a) # {}}
         settled == Settled(acct, t)
         after == [a \in Accounts |->
                     IF a \in armed
                     THEN [StartRetries(settled[a], now) EXCEPT !.wantRetry = FALSE]
                     ELSE settled[a]]
         immediate == {a \in armed : \/ frame[t].mode = "immediate"
                                     \/ \E r \in ValidRetries(t, a) : r.immediate}
     IN  /\ acct' = after
         /\ pending' = pending \cup {RetryJob(a, after[a].retrySeq) : a \in immediate}
         /\ deadline' = Rearmed(EarliestReset(after))
  /\ Return(t)
  /\ UNCHANGED <<settings, timers, world, roster, passes, try, pass, item, writeMu,
                 slots>>

----------------------------------------------------------------------------
FlushStep(t) ==
  \/ FlushStopped(t) \/ FlushPlan(t) \/ FlushAgain(t) \/ FlushArm(t)
  \/ WriteSkip(t) \/ WriteRead(t) \/ WriteReadFails(t)
  \/ WriteNoOp(t) \/ WriteRefused(t) \/ WriteAdmit(t)
  \/ WriteSaved(t) \/ WriteSaveFails(t)
=============================================================================
