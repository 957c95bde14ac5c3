---------------------------- MODULE EngineTypes ----------------------------
(***************************************************************************)
(* Type correctness of the engine, for any accounts, configurations and    *)
(* bounds.  Two facts are not local to a variable: a standing is a number  *)
(* because rosters are finite, and an earliest reset exists because        *)
(* instants are well-founded.                                              *)
(***************************************************************************)
EXTENDS EngineProperties, TLAPS, FiniteSetTheorems, WellFoundedInduction

----------------------------------------------------------------------------
\* One account: every way the engine changes a record yields a record, whatever the
\* retry ladder and the instants are.

\* The values the operators write belong where they write them.
LEMMA Values ==
  /\ NoTime \in Int /\ NoPriority \in Int
  /\ "healthy" \in Healths /\ "quarantined" \in Healths /\ "recovering" \in Healths
  /\ "awaiting" \in ResetStates /\ "unknown" \in ResetStates
  /\ "stale" \in ResetStates /\ "confirmed" \in ResetStates
  /\ {} \in SUBSET Nat
  BY DEF NoTime, NoPriority, Healths, ResetStates

\* The numbers of a record that count up stay numbers.
LEMMA Counters ==
  ASSUME NEW a \in Record
  PROVE  a.retrySeq + 1 \in Nat /\ a.epoch + 1 \in Nat /\ a.started + 1 \in Nat
  BY DEF Record

\* A new account is an account.
LEMMA NewAccountType == NewAccount \in Record
  BY DEF NewAccount, Record, Healths, ResetStates, NoTime, NoPriority

\* Cancelled retries leave an account.
LEMMA CancelRetriesType ==
  ASSUME NEW a \in Record
  PROVE  CancelRetries(a) \in Record
  BY Zenon, Counters, Values DEF CancelRetries, Record

\* A new ladder holds future instants.
LEMMA StartRetriesType ==
  ASSUME NEW a \in Record, NEW t \in Nat
  PROVE  StartRetries(a, t) \in Record
<1>1. {t + d : d \in RetryDelays} \in SUBSET Nat
  BY RetryDelaysAreDelays
<1> QED
  BY Zenon, <1>1, CancelRetriesType DEF StartRetries, Record

\* Demotion at a deadline.
LEMMA EnterAwaitingType ==
  ASSUME NEW a \in Record
  PROVE  EnterAwaiting(a) \in Record
  BY Zenon, Counters, Values DEF EnterAwaiting, Record

\* A demotion yields a record.
LEMMA DemotedType ==
  ASSUME NEW a \in Record, NEW t
  PROVE  Demoted(a, t) \in Record
  BY EnterAwaitingType DEF Demoted

\* So does a failed refresh.
LEMMA DegradedType ==
  ASSUME NEW a \in Record, NEW t
  PROVE  Degraded(a, t) \in Record
  BY Zenon, EnterAwaitingType, Values DEF Degraded, Record

\* So does a deadline crossed by a request.
LEMMA CrossedDeadlineType ==
  ASSUME NEW a \in Record
  PROVE  CrossedDeadline(a) \in Record
  BY Zenon, EnterAwaitingType DEF CrossedDeadline, Record

\* A failed attempt.
LEMMA AfterFailureType ==
  ASSUME NEW a \in Record, NEW startedAt, NEW t
  PROVE  AfterFailure(a, startedAt, t) \in Record
  BY CrossedDeadlineType, DegradedType DEF AfterFailure

\* So does a confirmation.
LEMMA ConfirmedType ==
  ASSUME NEW a \in Record, NEW resetAt \in Int
  PROVE  Confirmed(a, resetAt) \in Record
  BY Zenon, CancelRetriesType, Values DEF Confirmed, Record

\* A weekly answer.
LEMMA AfterWeeklyType ==
  ASSUME NEW a \in Record, NEW seq \in Nat, NEW startedAt, NEW resetAt \in Int,
         NEW dryRun, NEW t
  PROVE  AfterWeekly(a, seq, startedAt, resetAt, dryRun, t) \in Record
<1> DEFINE b == [a EXCEPT !.weekly = seq]
<1>1. b \in Record
  BY Zenon DEF Record
<1>2. [b EXCEPT !.resetAt = resetAt] \in Record
  BY Zenon, <1>1 DEF Record
<1> QED
  BY <1>1, <1>2, CrossedDeadlineType, EnterAwaitingType, ConfirmedType DEF AfterWeekly

\* A pass takes an account, and gives it back.
LEMMA ReservedType ==
  ASSUME NEW a \in Record
  PROVE  Reserved(a) \in Record
<1> DEFINE b == CancelRetries(a)
<1>1. b \in Record
  BY CancelRetriesType
<1>2. /\ (b.wantAwaiting \/ a.reset = "awaiting") \in BOOLEAN
      /\ (b.needsImmediate \/ a.reset = "awaiting") \in BOOLEAN
      /\ (b.wantRetry \/ a.health = "recovering") \in BOOLEAN
  OBVIOUS
<1> HIDE DEF b
<1>3. ASSUME NEW awaiting \in BOOLEAN, NEW immediate \in BOOLEAN, NEW retry \in BOOLEAN
      PROVE  [b EXCEPT !.fetchPending = TRUE, !.wantAwaiting = awaiting,
                       !.needsImmediate = immediate, !.wantRetry = retry] \in Record
  BY Zenon, <1>1 DEF Record
<1>4. [b EXCEPT !.fetchPending = TRUE,
                !.wantAwaiting = @ \/ a.reset = "awaiting",
                !.needsImmediate = @ \/ a.reset = "awaiting",
                !.wantRetry = @ \/ a.health = "recovering"] \in Record
  BY Zenon, <1>2, <1>3
<1> QED
  BY <1>4 DEF Reserved, b

\* So does a release.
LEMMA ReleasedType ==
  ASSUME NEW a \in Record
  PROVE  Released(a) \in Record
  BY Zenon DEF Released, Record

\* So does an opt-out.
LEMMA OptedOutType ==
  ASSUME NEW a \in Record
  PROVE  OptedOut(a) \in Record
<1>1. CancelRetries(a).epoch + 1 \in Nat
  BY CancelRetriesType, Counters
<1> QED
  BY Zenon, <1>1, CancelRetriesType, Values DEF OptedOut, Record

\* The roster's transitions.
LEMMA QuarantinedType ==
  ASSUME NEW a \in Record
  PROVE  Quarantined(a) \in Record
<1> DEFINE b == IF a.health = "quarantined" THEN a
                ELSE [CancelRetries(a) EXCEPT !.epoch = @ + 1, !.sentinelAt = NoTime]
<1>1. CancelRetries(a).epoch + 1 \in Nat
  BY CancelRetriesType, Counters
<1>2. [CancelRetries(a) EXCEPT !.epoch = @ + 1, !.sentinelAt = NoTime] \in Record
  BY Zenon, <1>1, CancelRetriesType, Values DEF Record
<1>3. b \in Record
  BY <1>2
<1> HIDE DEF b
<1>4. [b EXCEPT !.health = "quarantined", !.sentinelReady = FALSE, !.wantRetry = FALSE,
                !.wantAwaiting = FALSE, !.needsImmediate = FALSE] \in Record
  BY Zenon, <1>3, Values DEF Record
<1> QED
  BY <1>4 DEF Quarantined, b

\* So does the beginning of a recovery.
LEMMA RecoveredType ==
  ASSUME NEW a \in Record, NEW t \in Int
  PROVE  Recovered(a, t) \in Record
<1> DEFINE b == [a EXCEPT !.health = "recovering", !.recoveredAt = t,
                   !.sentinelReady = FALSE, !.sentinelAt = NoTime, !.epoch = @ + 1]
           c == [b EXCEPT !.resetAt = NoTime, !.reset = "unknown", !.current = NoPriority]
           d == [c EXCEPT !.wantRetry = TRUE, !.wantAwaiting = FALSE,
                          !.needsImmediate = FALSE]
<1>1. b \in Record
  BY Zenon, Counters, Values DEF Record
<1>2. c \in Record
  <2> HIDE DEF b
  <2> QED
    BY Zenon, <1>1, Values DEF Record
<1>3. d \in Record
  <2> HIDE DEF c
  <2> QED
    BY Zenon, <1>2 DEF Record
<1>4. Recovered(a, t) = d
  BY DEF Recovered
<1> QED
  BY <1>3, <1>4

\* So does a roster entry.
LEMMA AfterEntryType ==
  ASSUME NEW a \in Record, NEW entry, entry.priority \in Int, NEW sentinel,
         NEW t \in Int
  PROVE  AfterEntry(a, entry, sentinel, t) \in Record
<1> DEFINE b == [a EXCEPT !.current =
                   IF entry.priority = 0 THEN NoPriority ELSE entry.priority]
           c == IF entry.bad THEN Quarantined(b)
                ELSE IF b.health = "quarantined" /\ Evidence(b.sentinelAt, entry.touched)
                     THEN Recovered(b, t)
                     ELSE b
<1>1. b \in Record
  BY Zenon, Values DEF Record
<1>2. c \in Record
  <2> HIDE DEF b
  <2> QED
    BY <1>1, QuarantinedType, RecoveredType DEF c
<1>3. [c EXCEPT !.sentinelReady = FALSE] \in Record
  <2> HIDE DEF c
  <2> QED
    BY Zenon, <1>2 DEF Record
<1> QED
  BY <1>2, <1>3 DEF AfterEntry

\* A finished write.
LEMMA AfterWriteType ==
  ASSUME NEW a \in Record, NEW priority \in Int, NEW saved, NEW sentinel, NEW t \in Int
  PROVE  AfterWrite(a, priority, saved, sentinel, t) \in Record
<1> DEFINE ready == a.sentinelReady \/ (a.health = "recovering" /\ priority = sentinel)
           at == IF saved /\ a.health = "quarantined" /\ priority = sentinel
                 THEN t ELSE a.sentinelAt
<1>1. ready \in BOOLEAN
  OBVIOUS
<1>2. at \in Int
  BY DEF Record
<1>3. AfterWrite(a, priority, saved, sentinel, t) =
        [a EXCEPT !.current = priority, !.sentinelReady = ready, !.sentinelAt = at]
  BY DEF AfterWrite
<1> HIDE DEF ready, at
<1>4. [a EXCEPT !.current = priority, !.sentinelReady = ready, !.sentinelAt = at] \in Record
  BY Zenon, <1>1, <1>2 DEF Record
<1> QED
  BY <1>3, <1>4

----------------------------------------------------------------------------
\* Ranking.

\* A set of followers of a finite roster is finite.
LEMMA StandingType ==
  ASSUME NEW f, NEW G \in SUBSET Accounts, NEW e
  PROVE  Standing(e, {f[b] : b \in G}) \in Nat
<1> DEFINE E == {f[b] : b \in G}
           F == Followers(e, E)
<1>1. IsFiniteSet(G)
  BY AccountsAreNumbers, FS_Subset
<1>2. [b \in G |-> f[b]] \in Surjection(G, E)
  BY DEF Surjection
<1>3. IsFiniteSet(E)
  BY <1>1, <1>2, FS_Surjection
<1>4. IsFiniteSet(F)
  BY <1>3, FS_Subset DEF Followers
<1> QED
  BY <1>4, FS_CardinalityType DEF Standing

\* Every priority the engine may want is a number.
LEMMA DesiredType ==
  ASSUME TypeOK, NEW records, NEW a \in Accounts
  PROVE  DesiredPriority(records, a) \in Int
<1> DEFINE f == [b \in Accounts |-> EntryOf(records, b)]
           G == GroupOf(records, a)
           E == {EntryOf(records, b) : b \in G}
<1>1. G \in SUBSET Accounts
  BY DEF GroupOf, TypeOK
<1>2. E = {f[b] : b \in G}
  BY <1>1
<1>3. Standing(EntryOf(records, a), E) \in Nat
  <2> HIDE DEF f, G
  <2> QED
    BY <1>1, <1>2, StandingType
<1>4. cfg.sentinel \in Nat /\ cfg.floor \in Nat /\ cfg.step \in Nat
  BY ConfigsAreValid DEF TypeOK, Config
<1> QED
  BY <1>3, <1>4 DEF DesiredPriority, Priority

\* A finite set of numbers that is not empty has a least one: of the sets of
\* smaller members the least is empty.
LEMMA LeastExists ==
  ASSUME NEW D \in SUBSET Int, IsFiniteSet(D), D # {}
  PROVE  \E m \in D : \A d \in D : m <= d
<1> DEFINE Below(m) == {d \in D : d < m}
           T == {Below(m) : m \in D}
           R == StrictSubsetOrdering(D)
<1>1. IsWellFoundedOn(R, FiniteSubsetsOf(D))
  BY FS_StrictSubsetOrderingWellFounded
<1>2. T \subseteq FiniteSubsetsOf(D)
  BY FS_Subset DEF FiniteSubsetsOf
<1>3. T # {}
  OBVIOUS
<1>4. PICK x \in T : \A y \in T : <<y, x>> \notin R
  <2> HIDE DEF T, R
  <2> QED
    BY Zenon, <1>1, <1>2, <1>3, WFMin
<1>5. PICK m \in D : x = Below(m)
  BY <1>4
<1>6. ASSUME NEW d \in D, d < m
      PROVE  FALSE
  <2>1. Below(d) \subseteq Below(m) /\ Below(d) # Below(m)
    <3>1. d \in Below(m) /\ d \notin Below(d)
      BY <1>6
    <3>2. \A e \in D : e < d => e < m
      BY <1>6
    <3> QED
      BY <3>1, <3>2
  <2>2. <<Below(d), x>> \in R
    BY <1>5, <2>1 DEF StrictSubsetOrdering
  <2> QED
    BY <1>4, <2>2
<1> QED
  BY <1>6

\* The resets still to come of the healthy accounts.
DueResets(records) ==
  {records[a].resetAt : a \in {b \in roster : records[b].health = "healthy"
                                              /\ HasFutureReset(records[b], now)}}

\* The earliest reset is one of those to come and no later than any, or there is none.
LEMMA EarliestResetIsLeast ==
  ASSUME TypeOK, NEW records \in [Accounts -> Record]
  PROVE  /\ DueResets(records) \subseteq Int
         /\ DueResets(records) = {} => EarliestReset(records) = NoTime
         /\ DueResets(records) # {} => EarliestReset(records) \in DueResets(records)
         /\ \A d \in DueResets(records) : EarliestReset(records) <= d
<1> DEFINE B == {b \in roster : records[b].health = "healthy"
                                  /\ HasFutureReset(records[b], now)}
           due == {records[a].resetAt : a \in B}
<1>1. B \in SUBSET Accounts
  BY DEF TypeOK
<1>2. due \subseteq Int
  BY <1>1 DEF Record
<1>3. IsFiniteSet(B)
  BY <1>1, AccountsAreNumbers, FS_Subset
<1>4. [b \in B |-> records[b].resetAt] \in Surjection(B, due)
  BY DEF Surjection
<1>5. IsFiniteSet(due)
  BY <1>3, <1>4, FS_Surjection
<1>6. EarliestReset(records) =
        IF due = {} THEN NoTime ELSE CHOOSE m \in due : \A d \in due : m <= d
  BY DEF EarliestReset
<1>7. DueResets(records) = due
  BY DEF DueResets
<1> HIDE DEF B, due
<1>8. due # {} => EarliestReset(records) \in due /\ \A d \in due : EarliestReset(records) <= d
  BY <1>2, <1>5, <1>6, LeastExists
<1> QED
  BY <1>2, <1>6, <1>7, <1>8

\* It is an instant.
LEMMA EarliestResetType ==
  ASSUME TypeOK, NEW records \in [Accounts -> Record]
  PROVE  EarliestReset(records) \in Int
  BY EarliestResetIsLeast DEF NoTime

----------------------------------------------------------------------------
\* What a step does to every record at once.

Records == [Accounts -> Record]

\* A record with another desired priority, or with one request more, and one
\* whose history or whose wish to retry is cleared, are records.
LEMMA FieldTypes ==
  ASSUME NEW r \in Record
  PROVE  /\ \A d \in Int : [r EXCEPT !.desired = d] \in Record
         /\ [r EXCEPT !.started = @ + 1] \in Record
         /\ [r EXCEPT !.unwritten = FALSE] \in Record
         /\ [r EXCEPT !.wantRetry = FALSE] \in Record
         /\ Collected(r) \in Record
         /\ \A b \in BOOLEAN : [r EXCEPT !.needsImmediate = b] \in Record
         /\ \A n \in Int : [r EXCEPT !.ladder = @ \ {n}] \in Record
<1>1. \A d \in Int : [r EXCEPT !.desired = d] \in Record
  BY Zenon DEF Record
<1>2. [r EXCEPT !.started = @ + 1] \in Record
  BY Zenon, Counters DEF Record
<1>3. [r EXCEPT !.unwritten = FALSE] \in Record
  BY Zenon DEF Record
<1>4. [r EXCEPT !.wantRetry = FALSE] \in Record
  BY Zenon DEF Record
<1>5. Collected(r) \in Record
  BY Zenon DEF Collected, Record
<1>6. \A b \in BOOLEAN : [r EXCEPT !.needsImmediate = b] \in Record
  BY Zenon DEF Record
<1>7. ASSUME NEW n \in Int
      PROVE  [r EXCEPT !.ladder = @ \ {n}] \in Record
  <2>1. r.ladder \ {n} \in SUBSET Nat
    BY DEF Record
  <2> QED
    BY Zenon, <2>1 DEF Record
<1> QED
  BY <1>1, <1>2, <1>3, <1>4, <1>5, <1>6, <1>7

\* Ranking all of them.
LEMMA RankedType ==
  ASSUME TypeOK, NEW records \in Records
  PROVE  Ranked(records) \in Records
  BY DesiredType, FieldTypes DEF Ranked, Records

\* Demoting all that have expired.
LEMMA AllDemotedType ==
  ASSUME NEW records \in Records
  PROVE  AllDemoted(records) \in Records
  BY DemotedType DEF AllDemoted, Records

\* Clearing the history of those a flush has planned for.
LEMMA SettledType ==
  ASSUME NEW records \in Records, NEW t
  PROVE  Settled(records, t) \in Records
  BY FieldTypes DEF Settled, Records

\* Noting a physical priority.
LEMMA NotedType ==
  ASSUME TypeOK, NEW i, i.desired \in Int, NEW saved
  PROVE  Noted(i, saved) \in Records
<1>1. \A r \in Record : AfterWrite(r, i.desired, saved, cfg.sentinel, now) \in Record
  BY AfterWriteType DEF TypeOK
<1> QED
  BY <1>1 DEF Noted, Records, TypeOK

\* Giving every claim back.
LEMMA ReleasedAllType ==
  ASSUME NEW records \in Records
  PROVE  ReleasedAll(records) \in Records
  BY ReleasedType DEF ReleasedAll, Records

----------------------------------------------------------------------------
\* What a step does to one thread.

Modes == {"none", "immediate", "delayed"}

\* The constants of the threads' variables.
LEMMA IdleTypes ==
  NoFrame \in Frames /\ NoTry \in Tries /\ NoJob \in Jobs
  BY DEF NoFrame, Frames, NoTry, Tries, NoTime, NoJob, Jobs, Places

\* A flush is called.
LEMMA CallFlushType ==
  ASSUME TypeOK, NEW t \in Threads, NEW mode \in Modes, NEW ret \in Places,
         CallFlush(t, mode, ret)
  PROVE  pc' \in [Threads -> Places] /\ frame' \in [Threads -> Frames]
<1>1. [NoFrame EXCEPT !.mode = mode, !.ret = ret] \in Frames
  BY DEF NoFrame, Frames, Modes
<1> QED
  BY <1>1 DEF CallFlush, TypeOK, Places

\* A flush returns.
LEMMA ReturnType ==
  ASSUME TypeOK, NEW t \in Threads, Return(t)
  PROVE  /\ pc' \in [Threads -> Places]
         /\ frame' \in [Threads -> Frames]
         /\ job' \in [Threads -> Jobs]
<1>1. frame[t].ret \in Places
  BY DEF TypeOK, Frames
<1> QED
  BY <1>1, IdleTypes DEF Return, TypeOK

\* One item is dealt with.
LEMMA NextItemType ==
  ASSUME TypeOK, NEW t \in Threads, NEW i, NextItem(t, i)
  PROVE  /\ pc' \in [Threads -> Places]
         /\ frame' \in [Threads -> Frames]
         /\ item' \in ItemsFound \cup {NoItem}
         /\ writeMu' \in Threads \cup {Nobody}
<1>1. [frame[t] EXCEPT !.plan = @ \ {i}] \in Frames
  <2>1. frame[t] \in Frames
    BY DEF TypeOK
  <2>2. frame[t].plan \ {i} \in SUBSET Items
    BY <2>1 DEF Frames
  <2> QED
    BY Zenon, <2>1, <2>2 DEF Frames
<1> QED
  BY <1>1 DEF NextItem, TypeOK, Places

\* A bounded event happens.
LEMMA SpendType ==
  ASSUME TypeOK, NEW what \in DOMAIN budget, Spend(what)
  PROVE  budget' \in Budgets
  BY DEF Spend, TypeOK, Budgets

----------------------------------------------------------------------------
\* flushInternal and performWrites.

\* The first critical section.
LEMMA FlushPlanTypes ==
  ASSUME TypeOK, NEW t \in Threads, FlushPlan(t)
  PROVE  TypeOK'
<1> DEFINE ranked == Ranked(AllDemoted(acct))
           plan == WritePlan(ranked)
           collected == IF frame[t].mode = "none" THEN {}
                        ELSE {a \in roster : Collects(ranked[a])}
           retries == frame[t].retries \cup {ScheduleOf(a, ranked[a]) : a \in collected}
           demoted == {<<a, ranked[a].epoch>> :
                         a \in {b \in roster : ranked[b].reset = "awaiting"}}
<1>1. ranked \in Records
  BY AllDemotedType, RankedType DEF Records, TypeOK
<1> HIDE DEF ranked
<1>2. roster \subseteq Accounts /\ collected \subseteq Accounts
  BY DEF TypeOK
<1>3. plan \subseteq Items
  BY <1>1, <1>2 DEF WritePlan, Items, Records, Record, TypeOK
<1>4. {ScheduleOf(a, ranked[a]) : a \in collected} \subseteq RetrySchedules
  BY <1>1, <1>2 DEF ScheduleOf, RetrySchedules, Records, Record
<1>5. demoted \subseteq Accounts \X Nat
  BY <1>1, <1>2 DEF Records, Record
<1>6. acct' \in Records
  <2>1. acct' = [a \in Accounts |->
                   IF a \in collected THEN Collected(ranked[a]) ELSE ranked[a]]
    BY DEF FlushPlan, ranked
  <2> HIDE DEF collected
  <2> QED
    BY <1>1, <2>1, FieldTypes DEF Records
<1>7. frame' \in [Threads -> Frames]
  <2>1. frame' = [frame EXCEPT ![t].plan = plan, ![t].retries = retries,
                               ![t].demoted = demoted]
    BY DEF FlushPlan, ranked
  <2>2. retries \in SUBSET RetrySchedules
    BY <1>4 DEF TypeOK, Frames
  <2> HIDE DEF plan, retries, demoted
  <2>3. [frame[t] EXCEPT !.plan = plan, !.retries = retries, !.demoted = demoted] \in Frames
    <3>1. frame[t] \in Frames
      BY DEF TypeOK
    <3> QED
      BY Zenon, <1>3, <1>5, <2>2, <3>1 DEF Frames
  <2>4. frame \in [Threads -> Frames]
    BY DEF TypeOK
  <2>5. frame' = [frame EXCEPT ![t] = [frame[t] EXCEPT !.plan = plan, !.retries = retries,
                                                       !.demoted = demoted]]
    BY <2>1, <2>4
  <2> QED
    BY <2>3, <2>4, <2>5
<1>8. pc' \in [Threads -> Places]
  BY DEF FlushPlan, TypeOK, Places
<1> QED
  BY <1>6, <1>7, <1>8 DEF FlushPlan, Records, TypeOK, settings, timers, world

\* The last one.
LEMMA FlushArmTypes ==
  ASSUME TypeOK, NEW t \in Threads, FlushArm(t)
  PROVE  TypeOK'
<1> DEFINE armed == {a \in Accounts : ValidRetries(t, a) # {}}
           settled == Settled(acct, t)
           after == [a \in Accounts |->
                       IF a \in armed
                       THEN [StartRetries(settled[a], now) EXCEPT !.wantRetry = FALSE]
                       ELSE settled[a]]
<1>1. settled \in Records
  BY SettledType DEF Records, TypeOK
<1>9. armed \subseteq Accounts
  OBVIOUS
<1> HIDE DEF armed, settled
<1>2. after \in Records
  BY <1>1, StartRetriesType, FieldTypes DEF Records, TypeOK
<1>3. acct' = after /\ deadline' = Rearmed(EarliestReset(after))
  BY DEF FlushArm, armed, settled
<1>4. \E immediate \in SUBSET Accounts :
        pending' = pending \cup {RetryJob(a, after[a].retrySeq) : a \in immediate}
  <2> DEFINE chosen == {a \in armed : \/ frame[t].mode = "immediate"
                                      \/ \E r \in ValidRetries(t, a) : r.immediate}
  <2>1. chosen \in SUBSET Accounts
    BY <1>9
  <2>2. pending' = pending \cup {RetryJob(a, after[a].retrySeq) : a \in chosen}
    BY DEF FlushArm, armed, settled
  <2> HIDE DEF chosen, after
  <2> QED
    BY <2>1, <2>2
<1> HIDE DEF after
<1>5. pending' \subseteq Jobs
  BY <1>2, <1>4 DEF RetryJob, Jobs, Records, Record, TypeOK
<1>6. deadline' \in [seq : Nat, at : Int]
  BY <1>2, <1>3, EarliestResetType DEF Rearmed, Records, TypeOK
<1>7. Return(t)
  BY DEF FlushArm
<1> QED
  BY <1>2, <1>3, <1>5, <1>6, <1>7, ReturnType
  DEF FlushArm, Records, TypeOK, settings, timers, world

\* Reading and writing.
LEMMA WriteTypes ==
  ASSUME TypeOK, NEW t \in Threads,
         \/ WriteSkip(t) \/ WriteRead(t) \/ WriteReadFails(t)
         \/ WriteNoOp(t) \/ WriteRefused(t) \/ WriteAdmit(t)
         \/ WriteSaved(t) \/ WriteSaveFails(t)
  PROVE  TypeOK'
<1>1. item.desired \in Int
  BY DEF TypeOK, ItemsFound, NoItem, NoPriority
<1>2. ASSUME Persisted(item)
      PROVE  disk' \in [Accounts -> Int] /\ host' \in [Accounts -> Runtimes]
  <2>1. ASSUME NEW r \in Runtimes
        PROVE  [bad |-> FALSE, touched |-> now,
                by |-> IF r.bad THEN "plugin" ELSE r.by] \in Runtimes
    <3>1. (IF r.bad THEN "plugin" ELSE r.by) \in {"host", "plugin"}
      BY DEF Runtimes
    <3>2. now \in Nat
      BY DEF TypeOK
    <3> QED
      BY <3>1, <3>2 DEF Runtimes
  <2> QED
    BY <1>1, <1>2, <2>1 DEF Persisted, TypeOK
<1>3. CASE WriteSkip(t)
  BY <1>3, NextItemType DEF WriteSkip, TypeOK, settings, timers, world
<1>4. CASE WriteRead(t)
  <2>1. item' \in ItemsFound
    BY <1>4 DEF WriteRead, ItemsFound, Items, Frames, TypeOK
  <2> QED
    BY <1>4, <2>1 DEF WriteRead, TypeOK, Places, settings, timers, world
<1>5. CASE WriteReadFails(t)
  BY <1>5, NextItemType, SpendType
  DEF WriteReadFails, TypeOK, Budgets, settings, timers
<1>6. CASE WriteNoOp(t)
  BY <1>1, <1>6, NextItemType, NotedType
  DEF WriteNoOp, Records, TypeOK, settings, timers, world
<1>7. CASE WriteRefused(t)
  BY <1>7, NextItemType DEF WriteRefused, TypeOK, settings, timers, world
<1>8. CASE WriteAdmit(t)
  BY <1>8 DEF WriteAdmit, TypeOK, Places, settings, timers, world
<1>9. CASE WriteSaved(t)
  BY <1>1, <1>2, <1>9, NextItemType, NotedType
  DEF WriteSaved, Records, TypeOK, settings, timers
<1>10. CASE WriteSaveFails(t)
  BY <1>2, <1>10, NextItemType, SpendType
  DEF WriteSaveFails, TypeOK, Budgets, settings, timers
<1> QED
  BY <1>3, <1>4, <1>5, <1>6, <1>7, <1>8, <1>9, <1>10

\* All of them.
LEMMA FlushStepTypes ==
  ASSUME TypeOK, NEW t \in Threads, FlushStep(t)
  PROVE  TypeOK'
<1>1. CASE FlushStopped(t)
  BY <1>1, ReturnType DEF FlushStopped, TypeOK, settings, timers, world
<1>2. CASE FlushAgain(t)
  <2>1. acct' \in Records
    BY <1>2, SettledType, AllDemotedType DEF FlushAgain, Records, TypeOK
  <2> QED
    BY <1>2, <2>1 DEF FlushAgain, Records, TypeOK, Places, settings, timers, world
<1> QED
  BY <1>1, <1>2, FlushPlanTypes, FlushArmTypes, WriteTypes DEF FlushStep

----------------------------------------------------------------------------
\* fetchOneInternal.

\* One record is replaced.
LEMMA OneRecord ==
  ASSUME NEW records \in Records, NEW a, NEW r,
         a \in Accounts => r \in Record
  PROVE  [records EXCEPT ![a] = r] \in Records
  BY DEF Records

\* A fetch returns.
LEMMA EndFetchTypes ==
  ASSUME TypeOK, NEW t \in Threads, EndFetch(t)
  PROVE  /\ pc' \in [Threads -> Places]
         /\ frame' \in [Threads -> Frames]
         /\ try' \in [Threads -> Tries]
         /\ slots' \subseteq Threads
<1>1. try' \in [Threads -> Tries] /\ slots' \subseteq Threads
  BY IdleTypes DEF EndFetch, TypeOK
<1>2. CASE OwnedByPass(t)
  BY <1>1, <1>2 DEF EndFetch, TypeOK, Places
<1>3. CASE ~OwnedByPass(t)
  <2>1. "delayed" \in Modes /\ "idle" \in Places
    BY DEF Modes, Places
  <2>2. CallFlush(t, "delayed", "idle")
    BY <1>3 DEF EndFetch
  <2> QED
    BY <1>1, <2>1, <2>2, CallFlushType
<1> QED
  BY <1>2, <1>3

\* A fetch persists a demotion and starts afresh.
LEMMA FlushAndRetryTypes ==
  ASSUME TypeOK, NEW t \in Threads, FlushAndRetry(t)
  PROVE  /\ pc' \in [Threads -> Places]
         /\ frame' \in [Threads -> Frames]
         /\ try' \in [Threads -> Tries]
         /\ slots' \subseteq Threads
<1>1. try' \in [Threads -> Tries] /\ slots' \subseteq Threads
  BY IdleTypes DEF FlushAndRetry, TypeOK
<1>2. "none" \in Modes /\ "fetch" \in Places
  BY DEF Modes, Places
<1>3. CallFlush(t, "none", "fetch")
  BY DEF FlushAndRetry
<1> QED
  BY <1>1, <1>2, <1>3, CallFlushType

\* A failed attempt is folded in.
LEMMA AfterFailedTryType ==
  ASSUME TypeOK, NEW t \in Threads, NEW a
  PROVE  AfterFailedTry(t, a) \in Records
<1>1. acct \in Records
  BY DEF TypeOK, Records
<1>2. a \in Accounts => AfterFailure(acct[a], try[t].startedAt, now) \in Record
  BY <1>1, AfterFailureType DEF Records
<1> QED
  BY <1>1, <1>2, OneRecord DEF AfterFailedTry

\* An answer is folded in.
LEMMA AfterAnswerType ==
  ASSUME TypeOK, NEW t \in Threads, NEW a \in Accounts
  PROVE  AfterAnswer(t, a) \in Record
<1>1. acct[a] \in Record
  BY DEF TypeOK
<1>2. try[t].seq \in Nat /\ try[t].at \in Int
  BY DEF TypeOK, Tries
<1>3. AfterWeekly(acct[a], try[t].seq, try[t].startedAt, try[t].at, cfg.dryRun, now) \in Record
  BY <1>1, <1>2, AfterWeeklyType
<1>4. AfterFailure(acct[a], try[t].startedAt, now) \in Record
  BY <1>1, AfterFailureType
<1> QED
  BY <1>1, <1>3, <1>4 DEF AfterAnswer

\* Every step of a fetch.
LEMMA FetchStepTypes ==
  ASSUME TypeOK, NEW t \in Threads, FetchStep(t)
  PROVE  TypeOK'
<1>1. acct \in Records
  BY DEF TypeOK, Records
<1>2. \A a \in Accounts : acct[a] \in Record
  BY DEF TypeOK
<1>3. CASE FetchQuit(t)
  BY <1>3, EndFetchTypes DEF FetchQuit, TypeOK, settings, timers, world
<1>4. CASE FetchExpired(t)
  <2>1. acct' \in Records
    BY <1>1, <1>2, <1>4, OneRecord, EnterAwaitingType DEF FetchExpired
  <2> QED
    BY <1>4, <2>1, FlushAndRetryTypes
    DEF FetchExpired, Records, TypeOK, settings, timers, world
<1>5. CASE FetchStart(t)
  <2>1. Target(t) \in Accounts
    BY <1>5 DEF FetchStart, Fetchable, TypeOK
  <2>2. acct' \in Records
    <3>1. [acct[Target(t)] EXCEPT !.started = @ + 1] \in Record
      BY <1>2, <2>1, FieldTypes
    <3>2. acct' = [acct EXCEPT ![Target(t)] = [acct[Target(t)] EXCEPT !.started = @ + 1]]
      BY <1>5, <2>1 DEF FetchStart, TypeOK
    <3> QED
      BY <1>1, <3>1, <3>2, OneRecord
  <2>3. acct[Target(t)].epoch \in Nat /\ acct[Target(t)].started + 1 \in Nat
    BY <1>2, <2>1, Counters DEF Record
  <2>4. [epoch |-> acct[Target(t)].epoch, seq |-> acct[Target(t)].started + 1,
         configSeq |-> configSeq, startedAt |-> now, answer |-> "none",
         at |-> NoTime] \in Tries
    BY <2>3 DEF Tries, TypeOK, NoTime
  <2>5. try' \in [Threads -> Tries]
    BY <1>5, <2>4 DEF FetchStart, TypeOK
  <2> QED
    BY <1>5, <2>2, <2>5 DEF FetchStart, Records, TypeOK, Places, settings, timers, world
<1>6. CASE AdmitRestart(t)
  BY <1>6, FlushAndRetryTypes DEF AdmitRestart, TypeOK, settings, timers, world
<1>7. CASE AdmitRefused(t)
  BY <1>7, EndFetchTypes DEF AdmitRefused, TypeOK, settings, timers, world
<1>8. CASE AdmitExpired(t)
  <2>1. acct' \in Records
    BY <1>1, <1>2, <1>8, OneRecord, EnterAwaitingType DEF AdmitExpired
  <2> QED
    BY <1>8, <2>1, FlushAndRetryTypes
    DEF AdmitExpired, Records, TypeOK, settings, timers, world
<1>9. CASE AdmitCall(t)
  <2>1. Target(t) \in Accounts
    BY <1>9 DEF AdmitCall, Current, TypeOK
  <2> DEFINE owed == acct[Target(t)].needsImmediate /\ acct[Target(t)].reset # "awaiting"
  <2>2. acct' \in Records
    <3>1. owed \in BOOLEAN
      OBVIOUS
    <3>2. [acct[Target(t)] EXCEPT !.needsImmediate = owed] \in Record
      BY <1>2, <2>1, <3>1, FieldTypes
    <3>3. acct' = [acct EXCEPT ![Target(t)] = [acct[Target(t)] EXCEPT !.needsImmediate = owed]]
      BY <1>9, <2>1 DEF AdmitCall, TypeOK
    <3> QED
      BY <1>1, <3>2, <3>3, OneRecord
  <2> QED
    BY <1>9, <2>2 DEF AdmitCall, Records, TypeOK, Places, settings, timers, world
<1>10. CASE CallReturns(t)
  <2>1. try[t] \in Tries
    BY DEF TypeOK
  <2>2. \A r \in Answers : [try[t] EXCEPT !.answer = "weekly", !.at = r] \in Tries
    <3>1. \A r \in Answers : r \in Int
      BY BoundsAreNumbers
    <3> QED
      BY Zenon, <2>1, <3>1 DEF Tries
  <2>3. \A w \in {"none", "error"} : [try[t] EXCEPT !.answer = w] \in Tries
    BY Zenon, <2>1 DEF Tries
  <2>4. try' \in [Threads -> Tries]
    <3>1. \E x \in Tries : try' = [try EXCEPT ![t] = x]
      BY <1>10, <2>2, <2>3 DEF CallReturns, TypeOK
    <3> QED
      BY <3>1 DEF TypeOK
  <2> QED
    BY <1>10, <2>4 DEF CallReturns, TypeOK, Places, settings, timers, world
<1>11. CASE ReadFails(t)
  <2>1. acct' \in Records
    BY <1>11, AfterFailedTryType DEF ReadFails
  <2> QED
    BY <1>11, <2>1, EndFetchTypes, SpendType
    DEF ReadFails, Records, TypeOK, Budgets, settings, timers
<1>12. CASE ApplyError(t)
  <2>1. acct' \in Records
    BY <1>12, AfterFailedTryType DEF ApplyError
  <2> QED
    BY <1>12, <2>1, EndFetchTypes
    DEF ApplyError, Records, TypeOK, settings, timers, world
<1>13. CASE ApplyAnswer(t)
  <2>1. acct' \in Records
    BY <1>1, <1>13, OneRecord, AfterAnswerType DEF ApplyAnswer
  <2> QED
    BY <1>13, <2>1, EndFetchTypes
    DEF ApplyAnswer, Records, TypeOK, settings, timers, world
<1> QED
  BY <1>3, <1>4, <1>5, <1>6, <1>7, <1>8, <1>9, <1>10, <1>11, <1>12, <1>13 DEF FetchStep

----------------------------------------------------------------------------
\* Reconcile.

\* What a pass reads of a listed file.
LEMMA EntryForType ==
  ASSUME TypeOK, NEW a \in Accounts
  PROVE  EntryFor(a) \in RosterEntries
<1>1. ListedPriority(a) \in Int
  BY DEF ListedPriority, TypeOK
<1>2. host[a] \in Runtimes
  BY DEF TypeOK
<1> QED
  BY <1>1, <1>2 DEF EntryFor, RosterEntries, Runtimes

\* The record a roster leaves an account with.
LEMMA RosterRecordType ==
  ASSUME TypeOK, NEW a \in Accounts
  PROVE  RosterRecord(a) \in Record
<1>1. acct[a] \in Record /\ now \in Int
  BY DEF TypeOK
<1>2. \A e \in EntriesKept : e.priority \in Int
  BY DEF EntriesKept, RosterEntries, TypeOK
<1>3. CASE \E e \in EntriesKept : e.acct = a
  <2> DEFINE chosen == CHOOSE e \in EntriesKept : e.acct = a
  <2>1. chosen.priority \in Int
    BY <1>2, <1>3
  <2>2. RosterRecord(a) = AfterEntry(acct[a], chosen, cfg.sentinel, now)
    BY <1>3 DEF RosterRecord
  <2> HIDE DEF chosen
  <2> QED
    BY <1>1, <2>1, <2>2, AfterEntryType
<1>4. CASE ~\E e \in EntriesKept : e.acct = a
  BY <1>4, NewAccountType DEF RosterRecord
<1> QED
  BY <1>3, <1>4

\* The poll after a pass, or after its own callback.
LEMMA PollRestartedType ==
  ASSUME TypeOK, NEW records
  PROVE  PollRestarted(records) \in [seq : Nat, at : Int]
<1>1. poll.seq + 1 \in Nat /\ now + PollInterval \in Int /\ NoTime \in Int
  BY BoundsAreNumbers DEF TypeOK, NoTime
<1>2. poll \in [seq : Nat, at : Int]
  BY DEF TypeOK
<1> QED
  BY <1>1, <1>2 DEF PollRestarted

\* The retries a pass's tail arms.
LEMMA WithRecoveryRetriesType ==
  ASSUME TypeOK, NEW r \in Record
  PROVE  WithRecoveryRetries(r) \in Record
<1>1. StartRetries(r, now) \in Record
  BY StartRetriesType DEF TypeOK
<1> QED
  BY <1>1, FieldTypes DEF WithRecoveryRetries

\* The places a pass calls a flush to come back to.
LEMMA PassPlaces ==
  /\ Pass \in Threads
  /\ {"none", "immediate", "delayed"} \subseteq Modes
  /\ {"idle", "prune", "list", "roster", "defer", "fetching", "waiting", "tail",
      "fetch", "recheck", "probe"} \subseteq Places
  BY DEF Threads, Modes, Places

\* The second half of a roster's application.
LEMMA PassRosterTypes ==
  ASSUME TypeOK, PassRoster
  PROVE  TypeOK'
<1> DEFINE kept == {e.acct : e \in EntriesKept}
           targets == {a \in kept : RosterRecord(a).health # "quarantined"}
           claimed == [a \in Accounts |-> Rereserved(RosterRecord(a), a \in targets)]
           unsaved == \E a \in kept : NeedsSentinel(RosterRecord(a), cfg.sentinel)
           expired == \E a \in kept : Expired(claimed[a], now)
<1>1. kept \subseteq Accounts /\ targets \subseteq Accounts
  BY DEF EntriesKept, RosterEntries, TypeOK
<1>2. claimed \in Records
  BY RosterRecordType, ReservedType, ReleasedType DEF Rereserved, Records
<1>3. /\ roster' = kept
      /\ acct' = IF unsaved THEN claimed ELSE AllDemoted(claimed)
      /\ pass' = [entries |-> {}, reserved |-> targets]
      /\ IF unsaved \/ expired THEN CallFlush(Pass, "none", "fetching")
         ELSE pc' = [pc EXCEPT ![Pass] = "fetching"] /\ UNCHANGED frame
  BY Zenon DEF PassRoster
<1> HIDE DEF kept, targets, claimed, unsaved, expired
<1>4. acct' \in Records
  BY <1>2, <1>3, AllDemotedType
<1>5. pc' \in [Threads -> Places] /\ frame' \in [Threads -> Frames]
  <2>1. CASE CallFlush(Pass, "none", "fetching")
    BY <2>1, CallFlushType, PassPlaces
  <2>2. CASE pc' = [pc EXCEPT ![Pass] = "fetching"] /\ UNCHANGED frame
    BY <2>2, PassPlaces DEF TypeOK
  <2> QED
    BY <1>3, <2>1, <2>2
<1>6. pass' \in [entries : SUBSET RosterEntries, reserved : SUBSET Accounts]
  BY <1>1, <1>3
<1> QED
  BY <1>1, <1>3, <1>4, <1>5, <1>6
  DEF PassRoster, Records, TypeOK, settings, timers, world

\* Every step of a pass.
LEMMA PassStepTypes ==
  ASSUME TypeOK, PassStep
  PROVE  TypeOK'
<1> DEFINE Passes == [entries : SUBSET RosterEntries, reserved : SUBSET Accounts]
<1>1. acct \in Records /\ \A a \in Accounts : acct[a] \in Record
  BY DEF TypeOK, Records
<1>2. pass \in Passes /\ NoPass \in Passes
  BY DEF TypeOK, NoPass
<1>3. \A e \in SUBSET RosterEntries : [pass EXCEPT !.entries = e] \in Passes
  BY <1>2
<1>4. Candidates \subseteq Accounts
  BY DEF Candidates, TypeOK
<1>5. ReleasedAll(acct) \in Records
  BY <1>1, ReleasedAllType
<1>6. CASE PassRefused
  BY <1>6 DEF PassRefused, TypeOK, settings, timers, world
<1>7. CASE PassBegin
  <2> DEFINE claimed == {a \in roster : Claimable(a)}
  <2>1. acct' \in Records
    BY <1>1, <1>7, ReservedType DEF PassBegin, Records
  <2>2. claimed \subseteq Accounts
    BY DEF TypeOK
  <2>3. pass' = [pass EXCEPT !.reserved = claimed]
    BY <1>7 DEF PassBegin
  <2> HIDE DEF claimed
  <2>4. pass' \in Passes
    BY <1>2, <2>2, <2>3
  <2> QED
    BY <1>7, <2>1, <2>4, PassPlaces
    DEF PassBegin, Records, TypeOK, settings, timers, world
<1>8. CASE PassPrune
  <2>1. roster' \subseteq Accounts
    BY <1>8 DEF PassPrune, TypeOK
  <2>2. acct' \in Records
    BY <1>1, <1>8, NewAccountType DEF PassPrune, Records
  <2>3. pc' \in [Threads -> Places] /\ frame' \in [Threads -> Frames]
    BY <1>8, CallFlushType, PassPlaces DEF PassPrune
  <2> QED
    BY <1>8, <2>1, <2>2, <2>3 DEF PassPrune, Records, TypeOK, settings, timers, world
<1>9. CASE PassList
  <2>1. {EntryFor(a) : a \in Candidates} \in SUBSET RosterEntries
    BY <1>4, EntryForType
  <2>2. pass' \in Passes
    BY <1>3, <1>9, <2>1 DEF PassList
  <2> QED
    BY <1>9, <2>2, PassPlaces DEF PassList, TypeOK, settings, timers, world
<1>10. CASE PassListSkips
  <2>1. PICK b \in Candidates \ roster :
          pass' = [pass EXCEPT !.entries = {EntryFor(a) : a \in Candidates \ {b}}]
    BY <1>10 DEF PassListSkips
  <2>2. {EntryFor(a) : a \in Candidates \ {b}} \in SUBSET RosterEntries
    BY <1>4, EntryForType
  <2>3. pass' \in Passes
    BY <1>3, <2>1, <2>2
  <2> QED
    BY <1>10, <2>3, PassPlaces, SpendType
    DEF PassListSkips, TypeOK, Budgets, settings, timers
<1>11. CASE PassListFails
  BY <1>11, PassPlaces, SpendType DEF PassListFails, TypeOK, Budgets, settings, timers
<1>12. CASE PassAbandon
  BY <1>2, <1>5, <1>12, PassPlaces
  DEF PassAbandon, Records, TypeOK, settings, timers, world
<1>13. CASE PassDefer
  <2>1. pc' \in [Threads -> Places] /\ frame' \in [Threads -> Frames]
    BY <1>13, CallFlushType, PassPlaces DEF PassDefer
  <2> QED
    BY <1>2, <1>5, <1>13, <2>1 DEF PassDefer, Records, TypeOK, settings, timers, world
<1>14. CASE PassFetchAll
  <2>1. pc' \in [Threads -> Places]
    BY <1>14, PassPlaces DEF PassFetchAll, TypeOK
  <2> QED
    BY <1>14, <2>1 DEF PassFetchAll, TypeOK, settings, timers, world
<1>15. CASE PassJoin
  <2>1. pc' \in [Threads -> Places] /\ frame' \in [Threads -> Frames]
    BY <1>15, CallFlushType, PassPlaces DEF PassJoin
  <2> QED
    BY <1>2, <1>5, <1>15, <2>1 DEF PassJoin, Records, TypeOK, settings, timers, world
<1>16. CASE PassTail
  <2>1. acct' \in Records
    BY <1>1, <1>16, WithRecoveryRetriesType DEF PassTail, Records
  <2>2. poll' \in [seq : Nat, at : Int]
    BY <1>16, PollRestartedType DEF PassTail
  <2>3. nextPass' \in Int
    BY <1>16, BoundsAreNumbers DEF PassTail, TypeOK
  <2> QED
    BY <1>16, <2>1, <2>2, <2>3, PassPlaces DEF PassTail, Records, TypeOK, settings, world
<1> QED
  BY <1>6, <1>7, <1>8, <1>9, <1>10, <1>11, <1>12, <1>13, <1>14, <1>15, <1>16,
     PassRosterTypes DEF PassStep

----------------------------------------------------------------------------
\* The callbacks.

\* A worker is a thread, and a callback taken is a callback that was pending.
LEMMA TakeTypes ==
  ASSUME TypeOK, NEW w, NEW j, Take(w, j)
  PROVE  j \in Jobs /\ pending' \subseteq Jobs
  BY DEF Take, TypeOK

\* Every step of a worker.
LEMMA WorkerStepTypes ==
  ASSUME TypeOK, NEW w \in Workers, WorkerStep(w)
  PROVE  TypeOK'
<1>1. w \in Threads
  BY DEF Threads
<1>2. job \in [Threads -> Jobs] /\ job[w] \in Jobs
  BY <1>1 DEF TypeOK
<1>3. \A j \in Jobs : \A P \in SUBSET Probes : [j EXCEPT !.probes = P] \in Jobs
  BY Zenon DEF Jobs
<1>4. \A p : job[w].probes \ {p} \in SUBSET Probes
  BY <1>2 DEF Jobs
<1>5. \A j \in Jobs : [job EXCEPT ![w] = j] \in [Threads -> Jobs]
  BY <1>2
<1>6. \A p : [job EXCEPT ![w].probes = @ \ {p}] \in [Threads -> Jobs]
  BY <1>1, <1>2, <1>3, <1>4
<1>7. [job EXCEPT ![w] = NoJob] \in [Threads -> Jobs]
  BY <1>5, IdleTypes
<1>8. CASE RetryDropped(w) \/ DeadlineDropped(w) \/ PollDropped(w)
  <2>1. pending' \subseteq Jobs
    BY <1>8, TakeTypes DEF RetryDropped, DeadlineDropped, PollDropped
  <2> QED
    BY <1>8, <2>1
    DEF RetryDropped, DeadlineDropped, PollDropped, TypeOK, settings, timers, world
<1>9. CASE RetryBegin(w)
  <2>1. PICK j \in pending : Take(w, j) /\ job' = [job EXCEPT ![w] = j]
    BY <1>9 DEF RetryBegin
  <2>2. pending' \subseteq Jobs /\ job' \in [Threads -> Jobs]
    BY <1>5, <2>1, TakeTypes
  <2>3. pc' \in [Threads -> Places] /\ frame' \in [Threads -> Frames]
    BY <1>1, <1>9, CallFlushType, PassPlaces DEF RetryBegin
  <2> QED
    BY <1>9, <2>2, <2>3 DEF RetryBegin, TypeOK, settings, timers, world
<1>10. CASE RetryRecheck(w)
  <2>1. pc' \in [Threads -> Places] /\ job' \in [Threads -> Jobs]
    BY <1>2, <1>7, <1>10, PassPlaces DEF RetryRecheck, TypeOK
  <2> QED
    BY <1>10, <2>1 DEF RetryRecheck, TypeOK, settings, timers, world
<1>11. CASE DeadlineBegin(w)
  <2>1. pending' \subseteq Jobs
    BY <1>11, TakeTypes DEF DeadlineBegin
  <2>2. pc' \in [Threads -> Places] /\ frame' \in [Threads -> Frames]
    BY <1>1, <1>11, CallFlushType, PassPlaces DEF DeadlineBegin
  <2>3. deadline' \in [seq : Nat, at : Int]
    BY <1>11 DEF DeadlineBegin, TypeOK, NoTime
  <2> QED
    BY <1>11, <2>1, <2>2, <2>3 DEF DeadlineBegin, TypeOK, settings, timers, world
<1>12. CASE PollBegin(w)
  <2> DEFINE probes == {[acct |-> a, health |-> acct[a].health,
                         sentinelAt |-> acct[a].sentinelAt] :
                          a \in {b \in roster : acct[b].health # "healthy"}}
  <2>1. probes \in SUBSET Probes
    BY DEF Probes, Record, TypeOK
  <2>2. PICK j \in pending : Take(w, j) /\ job' = [job EXCEPT ![w] = [j EXCEPT !.probes = probes]]
    BY <1>12 DEF PollBegin
  <2> HIDE DEF probes
  <2>3. pending' \subseteq Jobs /\ [j EXCEPT !.probes = probes] \in Jobs
    BY <1>3, <2>1, <2>2, TakeTypes
  <2>4. job' \in [Threads -> Jobs]
    BY <1>5, <2>2, <2>3
  <2>5. poll' \in [seq : Nat, at : Int]
    BY <1>12 DEF PollBegin, TypeOK, NoTime
  <2> QED
    BY <1>12, <2>3, <2>4, <2>5, PassPlaces DEF PollBegin, TypeOK, settings, world
<1>13. CASE ProbeChanged(w)
  BY <1>7, <1>13, PassPlaces DEF ProbeChanged, TypeOK, settings, timers, world
<1>14. CASE ProbeSame(w)
  <2>1. job' \in [Threads -> Jobs]
    BY <1>6, <1>14 DEF ProbeSame
  <2> QED
    BY <1>14, <2>1 DEF ProbeSame, TypeOK, settings, timers, world
<1>15. CASE ProbeFails(w)
  <2>1. job' \in [Threads -> Jobs]
    BY <1>6, <1>15 DEF ProbeFails
  <2> QED
    BY <1>15, <2>1, SpendType DEF ProbeFails, TypeOK, Budgets, settings, timers
<1>16. CASE PollEnd(w)
  <2>1. poll' \in [seq : Nat, at : Int]
    BY <1>16, PollRestartedType DEF PollEnd, TypeOK
  <2> QED
    BY <1>7, <1>16, <2>1, PassPlaces DEF PollEnd, TypeOK, settings, world
<1> QED
  BY <1>8, <1>9, <1>10, <1>11, <1>12, <1>13, <1>14, <1>15, <1>16 DEF WorkerStep

----------------------------------------------------------------------------
\* Time, the plugin and the host.

\* Callbacks that timers start.
LEMMA TimerJobs ==
  /\ \A a \in Accounts : \A n \in Nat : RetryJob(a, n) \in Jobs
  /\ \A n \in Nat : DeadlineJob(n) \in Jobs /\ PollJob(n) \in Jobs
  BY DEF RetryJob, DeadlineJob, PollJob, Jobs

\* The clock advances.
LEMMA TickTypes ==
  ASSUME TypeOK, Tick
  PROVE  TypeOK'
<1>1. acct' \in Records
  <2>1. \A a \in Accounts : acct[a] \in Record
    BY DEF TypeOK
  <2>2. now + 1 \in Int
    BY DEF TypeOK
  <2>3. \A a \in Accounts : [acct[a] EXCEPT !.ladder = @ \ {now + 1}] \in Record
    BY <2>1, <2>2, FieldTypes
  <2>4. acct' = [a \in Accounts |-> [acct[a] EXCEPT !.ladder = @ \ {now + 1}]]
    BY DEF Tick
  <2> QED
    BY <2>3, <2>4 DEF Records
<1>2. pending' \subseteq Jobs
  <2>1. \A a \in Accounts : RetryJob(a, acct[a].retrySeq) \in Jobs
    BY TimerJobs DEF TypeOK, Record
  <2>2. DeadlineJob(deadline.seq) \in Jobs /\ PollJob(poll.seq) \in Jobs
    BY TimerJobs DEF TypeOK
  <2> QED
    BY <2>1, <2>2 DEF Tick, TypeOK
<1>3. passes' \in Nat /\ nextPass' \in Int
  BY DEF Tick, TypeOK, NoTime
<1> QED
  BY <1>1, <1>2, <1>3 DEF Tick, Records, TypeOK, settings

\* Every timer is stopped.
LEMMA QuietedTypes ==
  ASSUME TypeOK, Quieted
  PROVE  /\ stopped' \in BOOLEAN
         /\ nextPass' \in Int
         /\ deadline' \in [seq : Nat, at : Int]
         /\ poll' \in [seq : Nat, at : Int]
         /\ acct' \in Records
<1>1. acct' \in Records
  BY CancelRetriesType DEF Quieted, Records, TypeOK
<1>2. deadline.seq + 1 \in Nat /\ poll.seq + 1 \in Nat /\ NoTime \in Int
  BY DEF TypeOK, NoTime
<1> QED
  BY <1>1, <1>2 DEF Quieted

\* The steps of the plugin's own goroutines outside a pass.
LEMMA AdminStepTypes ==
  ASSUME TypeOK, AdminStep
  PROVE  TypeOK'
<1> DEFINE Admins == [at : {"idle", "publish"}, disabling : SUBSET Nat,
                      overtaken : BOOLEAN]
<1>1. admin \in Admins /\ configSeq + 1 \in Nat
  BY DEF TypeOK
<1>2. CASE Reconfigure
  <2>1. admin' \in Admins
    BY <1>1, <1>2 DEF Reconfigure
  <2> QED
    BY <1>2, <2>1, SpendType DEF Reconfigure, TypeOK, Budgets, timers
<1>3. CASE Publish
  <2>1. PICK c \in Configs :
          /\ cfg' = c
          /\ stopped' = ~c.enabled
          /\ acct' = [a \in Accounts |->
                        IF a \in roster /\ OptsOut(c, a) THEN OptedOut(acct[a]) ELSE acct[a]]
          /\ IF c.enabled
             THEN /\ passes' = passes + 1
                  /\ admin' = [admin EXCEPT !.at = "idle",
                                 !.overtaken = @ \/ configSeq \in admin.disabling]
             ELSE /\ UNCHANGED passes
                  /\ admin' = [admin EXCEPT !.at = "idle",
                                 !.disabling = @ \cup {configSeq + 1}]
    BY <1>3 DEF Publish
  <2>2. acct' \in Records
    BY <2>1, OptedOutType DEF Records, TypeOK
  <2>3. admin' \in Admins
    <3>1. CASE c.enabled
      <4> DEFINE overtaken == admin.overtaken \/ configSeq \in admin.disabling
      <4>1. admin' = [admin EXCEPT !.at = "idle", !.overtaken = overtaken]
        BY <2>1, <3>1
      <4>2. overtaken \in BOOLEAN
        OBVIOUS
      <4> HIDE DEF overtaken
      <4> QED
        BY <1>1, <4>1, <4>2
    <3>2. CASE ~c.enabled
      <4> DEFINE disabling == admin.disabling \cup {configSeq + 1}
      <4>1. admin' = [admin EXCEPT !.at = "idle", !.disabling = disabling]
        BY <2>1, <3>2
      <4>2. disabling \in SUBSET Nat
        BY <1>1
      <4> HIDE DEF disabling
      <4> QED
        BY <1>1, <4>1, <4>2
    <3> QED
      BY <3>1, <3>2
  <2>4. passes' \in Nat /\ stopped' \in BOOLEAN /\ cfg' \in Configs
    BY <2>1 DEF TypeOK
  <2>5. configSeq' \in Nat
    BY <1>1, <1>3 DEF Publish
  <2> QED
    BY <1>3, <2>2, <2>3, <2>4, <2>5 DEF Publish, Records, TypeOK, timers, world
<1>4. CASE DisableGeneration
  <2>1. admin' \in Admins
    BY <1>1, <1>4 DEF DisableGeneration
  <2>2. CASE Quieted
    BY <1>4, <2>1, <2>2, QuietedTypes DEF DisableGeneration, Records, TypeOK, world
  <2>3. CASE UNCHANGED <<stopped, timers, deadline, acct>>
    BY <1>4, <2>1, <2>3 DEF DisableGeneration, TypeOK, timers, world
  <2> QED
    BY <1>4, <2>2, <2>3 DEF DisableGeneration
<1>5. CASE Stop
  BY <1>5, QuietedTypes, SpendType DEF Stop, Records, TypeOK, Budgets
<1>6. CASE Refresh
  BY <1>6, SpendType DEF Refresh, TypeOK, Budgets, settings, timers
<1> QED
  BY <1>2, <1>3, <1>4, <1>5, <1>6 DEF AdminStep

\* What the host and the operator do.
LEMMA HostStepTypes ==
  ASSUME TypeOK, HostStep
  PROVE  TypeOK'
<1>1. PICK a \in Accounts :
        \/ (HostFails(a) \/ HostRecovers(a)) /\ Spend("health")
        \/ (OperatorEdits(a) \/ Relisted(a)) /\ Spend("edit")
  BY DEF HostStep
<1>2. budget' \in Budgets
  BY <1>1, SpendType DEF Budgets, TypeOK
<1>3. disk \in [Accounts -> Int] /\ host \in [Accounts -> Runtimes] /\ listed \subseteq Accounts
  BY DEF TypeOK
<1>4. host[a] \in Runtimes /\ now \in Nat
  BY <1>3 DEF TypeOK
<1>5. [host[a] EXCEPT !.bad = TRUE] \in Runtimes
  BY Zenon, <1>4 DEF Runtimes
<1>6. [bad |-> FALSE, touched |-> now, by |-> "host"] \in Runtimes
  BY <1>4 DEF Runtimes
<1>7. [host[a] EXCEPT !.touched = now, !.by = "host"] \in Runtimes
  BY Zenon, <1>4 DEF Runtimes
<1>8. host' \in [Accounts -> Runtimes]
  BY <1>1, <1>3, <1>5, <1>6, <1>7 DEF HostFails, HostRecovers, OperatorEdits, Relisted
<1>9. disk' \in [Accounts -> Int]
  BY <1>1, <1>3 DEF HostFails, HostRecovers, OperatorEdits, Relisted, NoPriority
<1>10. listed' \subseteq Accounts
  BY <1>1, <1>3 DEF HostFails, HostRecovers, OperatorEdits, Relisted
<1> QED
  BY <1>2, <1>8, <1>9, <1>10 DEF HostStep, TypeOK, settings, timers

----------------------------------------------------------------------------
\* The theorem.

\* A new engine.
LEMMA InitTypes == Init => TypeOK
<1> SUFFICES ASSUME Init PROVE TypeOK
  OBVIOUS
<1>1. acct \in [Accounts -> Record]
  BY NewAccountType DEF Init
<1>2. /\ pc \in [Threads -> Places] /\ frame \in [Threads -> Frames]
      /\ try \in [Threads -> Tries] /\ job \in [Threads -> Jobs]
  BY IdleTypes, PassPlaces DEF Init
<1>3. cfg.enabled \in BOOLEAN
  BY ConfigsAreValid DEF Init, Config
<1>4. /\ disk \in [Accounts -> Int] /\ host \in [Accounts -> Runtimes]
      /\ budget \in Budgets
  BY BoundsAreNumbers DEF Init, NoPriority, Runtimes
<1> QED
  BY <1>1, <1>2, <1>3, <1>4 DEF Init, TypeOK, NoTime, NoPass

\* Every variable of the engine always holds a value of its kind: no ranking,
\* timer, probe or answer ever leaves an account with a field outside its range.
THEOREM TypesHold == Spec => []TypeOK
<1>1. Init => TypeOK
  BY InitTypes
<1>2. TypeOK /\ [Next]_vars => TypeOK'
  <2> SUFFICES ASSUME TypeOK, [Next]_vars PROVE TypeOK'
    OBVIOUS
  <2>1. CASE PassStep
    BY <2>1, PassStepTypes
  <2>2. CASE ThreadStep
    BY <2>2, FlushStepTypes, FetchStepTypes DEF ThreadStep
  <2>3. CASE CallbackStep
    BY <2>3, WorkerStepTypes DEF CallbackStep
  <2>4. CASE Tick
    BY <2>4, TickTypes
  <2>5. CASE AdminStep
    BY <2>5, AdminStepTypes
  <2>6. CASE HostStep
    BY <2>6, HostStepTypes
  <2>7. CASE UNCHANGED vars
    BY <2>7 DEF vars, TypeOK
  <2> QED
    BY <2>1, <2>2, <2>3, <2>4, <2>5, <2>6, <2>7 DEF Next, Asleep
<1> QED
  BY <1>1, <1>2, PTL DEF Spec
=============================================================================
