------------------------------- MODULE Fetch -------------------------------
(***************************************************************************)
(* fetchOneInternal (internal/engine/engine.go): one bounded provider      *)
(* request for one account, by a goroutine of fetchAll or by a retry       *)
(* callback, and the ways its answer is folded into account state.         *)
(*                                                                         *)
(*   "fetch"    about to take a slot of fetchSem, or at the loop's top     *)
(*   "reading"  inside host.auth.get                                       *)
(*   "calling"  inside the provider request, holding providerCallMu.RLock  *)
(*   "apply"    has an answer, about to fold it in                         *)
(***************************************************************************)
EXTENDS Writeback

EndFetchWithoutFlush(t) ==
  /\ slots' = slots \ {t}
  /\ try' = [try EXCEPT ![t] = NoTry]
  /\ pc' = [pc EXCEPT ![t] = "idle"]
  /\ UNCHANGED frame

\* The slot, the attempt and the thread's place when fetchOneInternal returns.
\* A retry callback goes on to flushAfterFetch; a fetcher is done.
EndFetch(t) ==
  /\ slots' = slots \ {t}
  /\ try' = [try EXCEPT ![t] = NoTry]
  /\ IF OwnedByPass(t)
     THEN pc' = [pc EXCEPT ![t] = "idle"] /\ UNCHANGED frame
     ELSE CallFlush(t, "delayed", "idle")

\* Persist a demotion, then come back to the loop's top with the slot held.
FlushAndRetry(t) ==
  /\ CallFlush(t, "none", "fetch")
  /\ slots' = slots \cup {t}
  /\ try' = [try EXCEPT ![t] = NoTry]

HasSlot(t) == t \in slots \/ Cardinality(slots) < MaxFetches

Fetchable(t, a) ==
  /\ a \in roster
  /\ ~stopped
  /\ Manages(cfg, a)
  /\ acct[a].health # "quarantined"
  /\ ~SentinelPending(acct[a], cfg.dryRun)
  /\ MatchesRetry(t, a)

----------------------------------------------------------------------------
\* The loop's top.

FetchQuit(t) ==
  /\ pc[t] = "fetch"
  /\ HasSlot(t)
  /\ ~Fetchable(t, Target(t))
  /\ EndFetch(t)
  /\ UNCHANGED <<settings, timers, world, roster, acct, deadline, passes, pending,
                 job, pass, item, writeMu>>

FetchExpired(t) ==
  LET a == Target(t)
  IN  /\ pc[t] = "fetch"
      /\ HasSlot(t)
      /\ Fetchable(t, a)
      /\ Expired(acct[a], now)
      /\ acct' = [acct EXCEPT ![a] = EnterAwaiting(@)]
      /\ FlushAndRetry(t)
      /\ UNCHANGED <<settings, timers, world, roster, deadline, passes, pending, job,
                     pass, item, writeMu>>

FetchStart(t) ==
  LET a == Target(t)
  IN  /\ pc[t] = "fetch"
      /\ HasSlot(t)
      /\ Fetchable(t, a)
      /\ ~Expired(acct[a], now)
      /\ acct' = [acct EXCEPT ![a].started = @ + 1]
      /\ try' = [try EXCEPT ![t] =
           [epoch |-> acct[a].epoch, seq |-> acct[a].started + 1,
            configSeq |-> configSeq, startedAt |-> now, answer |-> "none",
            at |-> NoTime]]
      /\ slots' = slots \cup {t}
      /\ pc' = [pc EXCEPT ![t] = "reading"]
      /\ UNCHANGED <<settings, timers, world, roster, deadline, passes, pending, frame,
                     job, pass, item, writeMu>>

----------------------------------------------------------------------------
\* Admission to the provider call.

\* fetchAttemptCurrentLocked.
Current(t, a) ==
  /\ a \in roster
  /\ ~stopped
  /\ Manages(cfg, a)
  /\ try[t].configSeq = configSeq
  /\ acct[a].health # "quarantined"
  /\ acct[a].epoch = try[t].epoch
  /\ MatchesRetry(t, a)

MayRestart(t, a) ==
  /\ OwnedByPass(t)
  /\ a \in roster
  /\ ~stopped
  /\ Manages(cfg, a)
  /\ acct[a].fetchPending
  /\ acct[a].health # "quarantined"
  /\ acct[a].reset = "awaiting"

\* providerCallMu.RLock succeeds.
MayEnter == ~CallsBarred

AdmitRestart(t) ==
  /\ pc[t] = "reading"
  /\ MayEnter
  /\ ~Current(t, Target(t))
  /\ MayRestart(t, Target(t))
  /\ FlushAndRetry(t)
  /\ UNCHANGED <<settings, timers, world, roster, acct, deadline, passes, pending,
                 job, pass, item, writeMu>>

AdmitRefused(t) ==
  /\ pc[t] = "reading"
  /\ MayEnter
  /\ ~Current(t, Target(t))
  /\ ~MayRestart(t, Target(t))
  /\ EndFetch(t)
  /\ UNCHANGED <<settings, timers, world, roster, acct, deadline, passes, pending,
                 job, pass, item, writeMu>>

\* The deadline came while the credential was being read.
AdmitExpired(t) ==
  LET a == Target(t)
  IN  /\ pc[t] = "reading"
      /\ MayEnter
      /\ Current(t, a)
      /\ Expired(acct[a], now)
      /\ acct' = [acct EXCEPT ![a] = EnterAwaiting(@)]
      /\ FlushAndRetry(t)
      /\ UNCHANGED <<settings, timers, world, roster, deadline, passes, pending, job,
                     pass, item, writeMu>>

\* Only a request that gets here counts as the attempt owed after a demotion.
AdmitCall(t) ==
  LET a == Target(t)
  IN  /\ pc[t] = "reading"
      /\ MayEnter
      /\ Current(t, a)
      /\ ~Expired(acct[a], now)
      /\ acct' = [acct EXCEPT ![a].needsImmediate = @ /\ acct[a].reset # "awaiting"]
      /\ pc' = [pc EXCEPT ![t] = "calling"]
      /\ UNCHANGED <<settings, timers, world, roster, deadline, passes, pending, frame,
                     try, job, pass, item, writeMu, slots>>

----------------------------------------------------------------------------
\* Answers.

\* The provider answers with a weekly reset, without one, or not at all.
CallReturns(t) ==
  /\ pc[t] = "calling"
  /\ \/ \E r \in Answers :
          try' = [try EXCEPT ![t].answer = "weekly", ![t].at = r]
     \/ \E w \in {"none", "error"} : try' = [try EXCEPT ![t].answer = w]
  /\ pc' = [pc EXCEPT ![t] = "apply"]
  /\ UNCHANGED <<settings, timers, world, roster, acct, deadline, passes, pending,
                 frame, job, pass, item, writeMu, slots>>

\* A failure counts only for the attempt started last.
AfterFailedTry(t, a) ==
  IF Current(t, a) /\ acct[a].started = try[t].seq
  THEN [acct EXCEPT ![a] = AfterFailure(@, try[t].startedAt, now)]
  ELSE acct

ReadFails(t) ==
  /\ pc[t] = "reading"
  /\ acct' = AfterFailedTry(t, Target(t))
  /\ EndFetch(t)
  /\ Spend("fault")
  /\ UNCHANGED <<settings, timers, now, disk, host, listed, roster, deadline, passes,
                 pending, job, pass, item, writeMu>>

ApplyError(t) ==
  /\ pc[t] = "apply"
  /\ try[t].answer = "error"
  /\ acct' = AfterFailedTry(t, Target(t))
  /\ EndFetch(t)
  /\ UNCHANGED <<settings, timers, world, roster, deadline, passes, pending, job, pass,
                 item, writeMu>>

AfterAnswerInAnyOrder(t, a) ==
  LET r == acct[a]
  IN  IF ~Current(t, a) THEN r
      ELSE IF try[t].answer = "weekly"
      THEN AfterWeekly(r, try[t].seq, try[t].startedAt, try[t].at, cfg.dryRun, now)
      ELSE IF r.started # try[t].seq THEN r
           ELSE AfterFailure(r, try[t].startedAt, now)

\* An answer without a weekly window is failure-like; a weekly one yields only
\* to a weekly answer of a later attempt.
AfterAnswer(t, a) ==
  LET r == acct[a]
  IN  IF ~Current(t, a) THEN r
      ELSE IF try[t].answer = "weekly"
      THEN IF try[t].seq < r.weekly THEN r
           ELSE AfterWeekly(r, try[t].seq, try[t].startedAt, try[t].at, cfg.dryRun, now)
      ELSE IF r.started # try[t].seq THEN r
           ELSE AfterFailure(r, try[t].startedAt, now)

\* applyObservation takes writeMu: it cannot race a sentinel save.
MayApply(t) == writeMu = Nobody

ApplyAnswer(t) ==
  /\ pc[t] = "apply"
  /\ try[t].answer # "error"
  /\ MayApply(t)
  /\ acct' = [acct EXCEPT ![Target(t)] = AfterAnswer(t, Target(t))]
  /\ EndFetch(t)
  /\ UNCHANGED <<settings, timers, world, roster, deadline, passes, pending, job, pass,
                 item, writeMu>>

----------------------------------------------------------------------------
FetchStep(t) ==
  \/ FetchQuit(t) \/ FetchExpired(t) \/ FetchStart(t)
  \/ AdmitRestart(t) \/ AdmitRefused(t) \/ AdmitExpired(t) \/ AdmitCall(t)
  \/ CallReturns(t) \/ ReadFails(t) \/ ApplyError(t) \/ ApplyAnswer(t)
=============================================================================
