------------------------------ MODULE Account ------------------------------
(***************************************************************************)
(* One credential's record in the engine (internal/engine/state.go) and    *)
(* every way the engine changes it.  All operators are pure: each stands   *)
(* for the part of a critical section of Engine.mu that touches a single   *)
(* account, and the modules that extend this one say when it runs.         *)
(*                                                                         *)
(* Times are small integers; NoTime is Go's zero time.Time, older than     *)
(* every instant.  NoPriority stands for "no usable cached or physical     *)
(* value": currentKnown = false, or a document without a priority.         *)
(***************************************************************************)
EXTENDS Integers, FiniteSets

\* The offsets of the bounded retry ladder (+5s ... +15m in the code).
CONSTANT RetryDelays

ASSUME RetryDelaysAreDelays == RetryDelays \subseteq Nat \ {0}

NoTime == -1
NoPriority == -1

Healths == {"healthy", "quarantined", "recovering"}
ResetStates == {"confirmed", "stale", "awaiting", "unknown"}

(***************************************************************************)
(* current merges currentKnown and currentPriority; ladder is the set of   *)
(* due times of the retry timers still scheduled; started is both          *)
(* nextFetchSeq and latestStartedFetchSeq, which are always equal.         *)
(* Two fields are history, not in the code: unwritten, the account was     *)
(* demoted and no write pass planned since then has run to its end; and    *)
(* lapsedAt, the reset it had when it was last demoted.                    *)
(***************************************************************************)
Record ==
  [health : Healths, reset : ResetStates, resetAt : Int,
   recoveredAt : Int, sentinelReady : BOOLEAN, sentinelAt : Int,
   epoch : Nat, started : Nat, weekly : Nat,
   current : Int, desired : Int,
   retrySeq : Nat, ladder : SUBSET Nat,
   wantRetry : BOOLEAN, wantAwaiting : BOOLEAN, needsImmediate : BOOLEAN,
   fetchPending : BOOLEAN, unwritten : BOOLEAN, lapsedAt : Int]

NewAccount ==
  [health |-> "healthy", reset |-> "unknown", resetAt |-> NoTime,
   recoveredAt |-> NoTime, sentinelReady |-> FALSE, sentinelAt |-> NoTime,
   epoch |-> 0, started |-> 0, weekly |-> 0,
   current |-> NoPriority, desired |-> 0,
   retrySeq |-> 0, ladder |-> {},
   wantRetry |-> FALSE, wantAwaiting |-> FALSE, needsImmediate |-> FALSE,
   fetchPending |-> FALSE, unwritten |-> FALSE, lapsedAt |-> NoTime]

----------------------------------------------------------------------------
\* What a record says at an instant.

HasKnownReset(a) == a.reset \in {"confirmed", "stale"}

HasFutureReset(a, t) == HasKnownReset(a) /\ a.resetAt > t

\* A rankable account whose known deadline has come.
Expired(a, t) == a.health = "healthy" /\ HasKnownReset(a) /\ a.resetAt <= t

\* The request began before the deadline that has since passed.
Crossed(a, startedAt, t) == Expired(a, t) /\ startedAt < a.resetAt

SentinelNeverPending(a, dryRun) == FALSE

SentinelPending(a, dryRun) ==
  a.health = "recovering" /\ ~dryRun /\ ~a.sentinelReady

\* A retry callback still has something to obtain.
NeedsRetry(a) == a.health = "recovering" \/ a.reset = "awaiting"

\* Runtime or file evidence newer than the sentinel this plugin wrote.
AnyEvidence(sentinelAt, touched) == TRUE

Evidence(sentinelAt, touched) == touched > sentinelAt

----------------------------------------------------------------------------
\* Retries.

CancelRetriesBackwards(a) == [a EXCEPT !.retrySeq = @ - 1, !.ladder = {}]

CancelRetries(a) == [a EXCEPT !.retrySeq = @ + 1, !.ladder = {}]

StartRetries(a, t) ==
  [CancelRetries(a) EXCEPT !.ladder = {t + d : d \in RetryDelays}]

----------------------------------------------------------------------------
\* Expiry.

EnterAwaitingKeepingEpoch(a) ==
  IF a.reset = "awaiting" THEN a
  ELSE [a EXCEPT !.reset = "awaiting", !.wantAwaiting = TRUE,
                 !.needsImmediate = a.fetchPending, !.wantRetry = FALSE,
                 !.unwritten = TRUE, !.lapsedAt = a.resetAt]

EnterAwaiting(a) ==
  IF a.reset = "awaiting" THEN a
  ELSE [a EXCEPT !.reset = "awaiting", !.epoch = @ + 1,
                 !.wantAwaiting = TRUE, !.needsImmediate = a.fetchPending,
                 !.wantRetry = FALSE, !.unwritten = TRUE, !.lapsedAt = a.resetAt]

Demoted(a, t) == IF Expired(a, t) THEN EnterAwaiting(a) ELSE a

\* A failed refresh keeps a future reset as stale and expires a past one.
Degraded(a, t) ==
  IF ~HasKnownReset(a) THEN a
  ELSE IF a.resetAt > t THEN [a EXCEPT !.reset = "stale"]
  ELSE EnterAwaiting(a)

\* The immediate attempt after this demotion is still owed.
CrossedDeadline(a) == [EnterAwaiting(a) EXCEPT !.needsImmediate = TRUE]

----------------------------------------------------------------------------
\* Outcomes of one provider attempt.

AfterFailure(a, startedAt, t) ==
  IF Crossed(a, startedAt, t) THEN CrossedDeadline(a) ELSE Degraded(a, t)

Confirmed(a, resetAt) ==
  [CancelRetries(a) EXCEPT !.health = "healthy", !.resetAt = resetAt,
     !.reset = "confirmed", !.wantRetry = FALSE, !.wantAwaiting = FALSE,
     !.needsImmediate = FALSE]

\* A recovering account is confirmed only by a request of this recovery, and
\* in live mode only behind a physical sentinel.
MayConfirm(a, startedAt, dryRun) ==
  a.health = "recovering" =>
    startedAt >= a.recoveredAt /\ ~SentinelPending(a, dryRun)

AfterWeeklyAtTheInstant(a, seq, startedAt, resetAt, dryRun, t) ==
  LET b == [a EXCEPT !.weekly = seq]
  IN  IF Crossed(b, startedAt, t) THEN CrossedDeadline(b)
      ELSE IF resetAt < t THEN EnterAwaiting([b EXCEPT !.resetAt = resetAt])
      ELSE IF MayConfirm(b, startedAt, dryRun) THEN Confirmed(b, resetAt)
      ELSE b

AfterWeekly(a, seq, startedAt, resetAt, dryRun, t) ==
  LET b == [a EXCEPT !.weekly = seq]
  IN  IF Crossed(b, startedAt, t) THEN CrossedDeadline(b)
      ELSE IF resetAt <= t THEN EnterAwaiting([b EXCEPT !.resetAt = resetAt])
      ELSE IF MayConfirm(b, startedAt, dryRun) THEN Confirmed(b, resetAt)
      ELSE b

----------------------------------------------------------------------------
\* Ownership of the immediate attempt by a full pass.

ReservedLosingIntent(a) ==
  [CancelRetries(a) EXCEPT !.fetchPending = TRUE]

ReservedKeepingRetries(a) ==
  [a EXCEPT !.fetchPending = TRUE,
     !.wantAwaiting = @ \/ a.reset = "awaiting",
     !.needsImmediate = @ \/ a.reset = "awaiting",
     !.wantRetry = @ \/ a.health = "recovering"]

Reserved(a) ==
  IF a.health = "quarantined" \/ a.fetchPending THEN a
  ELSE [CancelRetries(a) EXCEPT !.fetchPending = TRUE,
          !.wantAwaiting = @ \/ a.reset = "awaiting",
          !.needsImmediate = @ \/ a.reset = "awaiting",
          !.wantRetry = @ \/ a.health = "recovering"]

Released(a) == [a EXCEPT !.fetchPending = FALSE]

\* The provider was opted out by a reconfiguration.
OptedOut(a) ==
  [CancelRetries(a) EXCEPT !.epoch = @ + 1, !.fetchPending = FALSE,
     !.wantRetry = FALSE, !.wantAwaiting = FALSE, !.needsImmediate = FALSE]

----------------------------------------------------------------------------
\* Roster and writeback.

Quarantined(a) ==
  LET b == IF a.health = "quarantined" THEN a
           ELSE [CancelRetries(a) EXCEPT !.epoch = @ + 1, !.sentinelAt = NoTime]
  IN  [b EXCEPT !.health = "quarantined", !.sentinelReady = FALSE,
         !.wantRetry = FALSE, !.wantAwaiting = FALSE, !.needsImmediate = FALSE]

Recovered(a, t) ==
  [a EXCEPT !.health = "recovering", !.recoveredAt = t,
     !.sentinelReady = FALSE, !.sentinelAt = NoTime, !.epoch = @ + 1,
     !.resetAt = NoTime, !.reset = "unknown", !.current = NoPriority,
     !.wantRetry = TRUE, !.wantAwaiting = FALSE, !.needsImmediate = FALSE]

NeedsSentinel(a, sentinel) ==
  a.health = "recovering" /\ a.current # sentinel

\* One validated roster entry.  A listed priority of 0 says nothing: the host
\* omits the field both when it is missing and when it is zero.
AfterEntry(a, entry, sentinel, t) ==
  LET b == [a EXCEPT !.current =
              IF entry.priority = 0 THEN NoPriority ELSE entry.priority]
      c == IF entry.bad THEN Quarantined(b)
           ELSE IF b.health = "quarantined" /\ Evidence(b.sentinelAt, entry.touched)
                THEN Recovered(b, t)
                ELSE b
  IN  IF NeedsSentinel(c, sentinel) THEN [c EXCEPT !.sentinelReady = FALSE] ELSE c

\* The physical priority is known to equal the value written or found.
AfterWrite(a, priority, saved, sentinel, t) ==
  [a EXCEPT !.current = priority,
     !.sentinelReady = @ \/ (a.health = "recovering" /\ priority = sentinel),
     !.sentinelAt = IF saved /\ a.health = "quarantined" /\ priority = sentinel
                    THEN t ELSE @]
=============================================================================
