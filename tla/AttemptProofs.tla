---------------------------- MODULE AttemptProofs ----------------------------
(***************************************************************************)
(* SingleOwner, ConfirmedByNewRequest and NewestAnswerStands, for any      *)
(* accounts, any number of callbacks and any bounds.                       *)
(*                                                                         *)
(* Retry callbacks and attempts carry numbers taken from their account's   *)
(* record: the ladder's (retrySeq), the attempt's (started) and the epoch. *)
(* The record's own only grow, and whatever makes an older number invalid  *)
(* moves them on: a claim by a pass cancels the ladder, a demotion begins  *)
(* an epoch, a start takes a new attempt number.  A record deleted and     *)
(* made again counts from 0, and so nothing is said of such accounts.      *)
(***************************************************************************)
EXTENDS QuietProofs

\* An account out of the roster has the record of a new one.
Absent == \A a \in Accounts \ roster : acct[a] = NewAccount

Sane(r) ==
  /\ r.weekly <= r.started
  /\ r.reset = "awaiting" => r.lapsedAt <= now
  /\ r.fetchPending => r.ladder = {}

\* A callback's ladder is the record's or an older one, and while a pass owns the
\* immediate attempt an older one.
Behind(b, n) ==
  b \in Accounts \ forgotten =>
    /\ n <= acct[b].retrySeq
    /\ acct[b].fetchPending => n < acct[b].retrySeq

JobsBehind ==
  /\ \A j \in pending : Behind(j.acct, j.seq)
  /\ \A t \in Threads : Behind(job[t].acct, job[t].seq)

\* An attempt in flight: what it carries was the record's when it began, it has not
\* had the last weekly answer yet, and while its epoch lasts the record can only be
\* awaiting a request as new as this.
Begun(t, r) ==
  /\ try[t].epoch <= r.epoch
  /\ try[t].seq <= r.started
  /\ try[t].seq # r.weekly
  /\ try[t].epoch = r.epoch /\ r.reset = "awaiting" => try[t].startedAt >= r.lapsedAt

AttemptsBegun ==
  \A t \in Threads : InFlight(t) /\ Target(t) \in Accounts \ forgotten =>
    Begun(t, acct[Target(t)])

Distinct ==
  \A t, u \in Threads :
    InFlight(t) /\ InFlight(u) /\ t # u /\ Target(t) = Target(u)
      /\ Target(t) \in Accounts \ forgotten => try[t].seq # try[u].seq

Ordered ==
  /\ Absent
  /\ Claims
  /\ \A a \in Accounts \ forgotten : Sane(acct[a])
  /\ JobsBehind
  /\ AttemptsBegun
  /\ Distinct

----------------------------------------------------------------------------
\* What a record's own numbers do.

\* They grow, and a record that is awaiting was so before, or a new epoch has begun
\* with a window that has lapsed.
Advances(r, s, t) ==
  /\ s.epoch >= r.epoch /\ s.started >= r.started /\ s.retrySeq >= r.retrySeq
  /\ s.reset = "awaiting" =>
       \/ r.reset = "awaiting" /\ s.lapsedAt = r.lapsedAt
       \/ s.epoch > r.epoch /\ s.lapsedAt <= t

\* No pass claims the immediate attempt, and a ladder stays down while one owns it.
Unclaimed(r, s) == s.fetchPending => r.fetchPending /\ (r.ladder = {} => s.ladder = {})

\* A pass may claim it, and then the ladder is a new one.
MayClaim(r, s) ==
  Unclaimed(r, s) \/ (s.retrySeq > r.retrySeq /\ s.ladder = {})

\* No weekly answer is taken.
Unanswered(r, s) ==
  /\ s.weekly = r.weekly
  /\ s.reset = "confirmed" => r.reset = "confirmed"
  /\ s.resetAt \in {r.resetAt, NoTime}

Ages(r, s, t) == Advances(r, s, t) /\ Unclaimed(r, s) /\ Unanswered(r, s)

\* Two changes in a row are one.
LEMMA AgesAges ==
  ASSUME NEW r \in Record, NEW s \in Record, NEW u \in Record, NEW t \in Nat,
         Ages(r, s, t), Ages(s, u, t)
  PROVE  Ages(r, u, t)
<1>1. Advances(r, u, t)
  BY DEF Ages, Advances, Record
<1>2. Unclaimed(r, u) /\ Unanswered(r, u)
  BY DEF Ages, Unclaimed, Unanswered
<1> QED
  BY <1>1, <1>2 DEF Ages

\* Changes of the other fields, of the ladder while nobody owns the attempt, and of
\* a counter.
LEMMA BookkeepingAges ==
  ASSUME NEW r \in Record, NEW t
  PROVE  /\ Ages(r, r, t)
         /\ Ages(r, [r EXCEPT !.started = @ + 1], t)
         /\ Ages(r, [r EXCEPT !.unwritten = FALSE], t)
         /\ \A d : Ages(r, [r EXCEPT !.desired = d], t)
         /\ \A n : Ages(r, [r EXCEPT !.needsImmediate = n], t)
         /\ \A n : Ages(r, [r EXCEPT !.ladder = @ \ {n}], t)
         /\ \A p, saved, sentinel, u : Ages(r, AfterWrite(r, p, saved, sentinel, u), t)
         /\ Ages(r, Collected(r), t)
         /\ Ages(r, Released(r), t)
         /\ Ages(r, CancelRetries(r), t)
         /\ Ages(r, OptedOut(r), t)
  BY DEF Ages, Advances, Unclaimed, Unanswered, AfterWrite, Collected, Released,
         CancelRetries, OptedOut, Record

\* A demotion, of a window that has lapsed.
LEMMA EnterAwaitingAges ==
  ASSUME NEW r \in Record, NEW t, r.resetAt <= t
  PROVE  Ages(r, EnterAwaiting(r), t) /\ Ages(r, CrossedDeadline(r), t)
  BY DEF Ages, Advances, Unclaimed, Unanswered, EnterAwaiting, CrossedDeadline, Record

\* A demotion when it is due.
LEMMA DemotedAges ==
  ASSUME NEW r \in Record, NEW t
  PROVE  Ages(r, Demoted(r, t), t)
  BY EnterAwaitingAges, BookkeepingAges DEF Demoted, Expired

\* A failed attempt.
LEMMA AfterFailureAges ==
  ASSUME NEW r \in Record, NEW s, NEW t \in Nat
  PROVE  Ages(r, AfterFailure(r, s, t), t)
<1>1. CASE Crossed(r, s, t)
  BY <1>1, EnterAwaitingAges DEF AfterFailure, Crossed, Expired
<1>2. CASE ~Crossed(r, s, t) /\ HasKnownReset(r) /\ r.resetAt > t
  <2>1. AfterFailure(r, s, t) = [r EXCEPT !.reset = "stale"]
    BY <1>2 DEF AfterFailure, Degraded
  <2> QED
    BY <2>1 DEF Ages, Advances, Unclaimed, Unanswered, Record
<1>3. CASE ~Crossed(r, s, t) /\ HasKnownReset(r) /\ ~(r.resetAt > t)
  BY <1>3, EnterAwaitingAges DEF AfterFailure, Degraded, Record
<1>4. CASE ~Crossed(r, s, t) /\ ~HasKnownReset(r)
  BY <1>4, BookkeepingAges DEF AfterFailure, Degraded
<1> QED
  BY <1>1, <1>2, <1>3, <1>4

\* New ladders, of an account whose attempt no pass owns.
LEMMA StartedAges ==
  ASSUME TypeOK, NEW r \in Record, ~r.fetchPending, NEW t
  PROVE  /\ Ages(r, [StartRetries(r, now) EXCEPT !.wantRetry = FALSE], t)
         /\ Ages(r, WithRecoveryRetries(r), t)
  BY DEF Ages, Advances, Unclaimed, Unanswered, StartRetries, CancelRetries,
         WithRecoveryRetries, Record

\* A roster entry.
LEMMA EntryAges ==
  ASSUME NEW r \in Record, NEW e, e.priority \in Int, NEW sentinel, NEW u \in Int, NEW t
  PROVE  Ages(r, AfterEntry(r, e, sentinel, u), t)
<1> DEFINE b == [r EXCEPT !.current = IF e.priority = 0 THEN NoPriority ELSE e.priority]
           c == IF e.bad THEN Quarantined(b)
                ELSE IF b.health = "quarantined" /\ Evidence(b.sentinelAt, e.touched)
                     THEN Recovered(b, u)
                     ELSE b
<1>1. Ages(r, b, t)
  BY DEF Ages, Advances, Unclaimed, Unanswered, Record
<1>2. Ages(r, Quarantined(b), t)
  BY DEF Ages, Advances, Unclaimed, Unanswered, Quarantined, CancelRetries, Record
<1>3. Ages(r, Recovered(b, u), t)
  BY DEF Ages, Advances, Unclaimed, Unanswered, Recovered, Record
<1>4. Ages(r, c, t)
  BY <1>1, <1>2, <1>3
<1>5. c \in Record
  <2>1. b \in Record
    BY Values DEF Record
  <2> QED
    BY <2>1, QuarantinedType, RecoveredType
<1> HIDE DEF c
<1>6. Ages(r, [c EXCEPT !.sentinelReady = FALSE], t)
  BY <1>4, <1>5 DEF Ages, Advances, Unclaimed, Unanswered, Record
<1> QED
  BY <1>4, <1>6 DEF AfterEntry, c

\* A claim: the ladder is cancelled, so whatever runs of it is too late.
LEMMA ReservedTakes ==
  ASSUME NEW r \in Record, NEW t
  PROVE  /\ Advances(r, Reserved(r), t) /\ Unanswered(r, Reserved(r))
         /\ MayClaim(r, Reserved(r))
  BY DEF Advances, Unclaimed, Unanswered, MayClaim, Reserved, CancelRetries, Record

\* A weekly answer, of an attempt of the record's present epoch.
LEMMA AfterWeeklyAdvances ==
  ASSUME NEW r \in Record, NEW seq \in Nat, NEW began, NEW at \in Int, NEW dry, NEW t \in Nat
  PROVE  LET s == AfterWeekly(r, seq, began, at, dry, t)
         IN  Advances(r, s, t) /\ Unclaimed(r, s) /\ s.weekly = seq
<1> DEFINE b == [r EXCEPT !.weekly = seq]
<1>1. b \in Record
  BY DEF Record
<1>2. CASE Crossed(b, began, t)
  BY <1>1, <1>2 DEF AfterWeekly, Crossed, Expired, CrossedDeadline, EnterAwaiting, Advances,
       Unclaimed, Record
<1>3. CASE ~Crossed(b, began, t) /\ at <= t
  BY <1>1, <1>3 DEF AfterWeekly, EnterAwaiting, Advances, Unclaimed, Record
<1>4. CASE ~Crossed(b, began, t) /\ ~(at <= t)
  BY <1>1, <1>4 DEF AfterWeekly, Confirmed, CancelRetries, Advances, Unclaimed, Record
<1> QED
  BY <1>2, <1>3, <1>4

----------------------------------------------------------------------------
\* What keeps the order.

\* The records' numbers grow, of accounts whose records were never deleted.
Growing ==
  /\ forgotten \subseteq forgotten'
  /\ now' >= now
  /\ \A a \in Accounts \ forgotten' :
       Advances(acct[a], acct'[a], now) /\ MayClaim(acct[a], acct'[a])

\* No attempt begins.
FlightsStay ==
  \A t \in Threads : InFlight(t)' =>
    /\ InFlight(t) /\ Target(t)' = Target(t)
    /\ try'[t].epoch = try[t].epoch /\ try'[t].seq = try[t].seq
    /\ try'[t].startedAt = try[t].startedAt

\* A callback that was behind stays behind.
LEMMA BehindStays ==
  ASSUME TypeOK, TypeOK', Growing, NEW b, NEW n \in Nat, Behind(b, n)
  PROVE  Behind(b, n)'
<1> SUFFICES ASSUME b \in Accounts \ forgotten'
             PROVE  /\ n <= acct'[b].retrySeq
                    /\ acct'[b].fetchPending => n < acct'[b].retrySeq
  BY DEF Behind
<1>1. acct[b] \in Record /\ acct'[b] \in Record
  BY DEF TypeOK
<1>2. Advances(acct[b], acct'[b], now) /\ MayClaim(acct[b], acct'[b]) /\ b \notin forgotten
  BY DEF Growing
<1>3. n <= acct[b].retrySeq /\ (acct[b].fetchPending => n < acct[b].retrySeq)
  BY <1>2 DEF Behind
<1>4. acct[b].retrySeq \in Nat /\ acct'[b].retrySeq \in Nat
  BY <1>1 DEF Record
<1>5. n <= acct'[b].retrySeq
  BY <1>2, <1>3, <1>4 DEF Advances
<1>6. ASSUME acct'[b].fetchPending
      PROVE  n < acct'[b].retrySeq
  BY <1>2, <1>3, <1>4, <1>6 DEF Advances, MayClaim, Unclaimed
<1> QED
  BY <1>5, <1>6

\* A record that was sane is.
LEMMA SaneStays ==
  ASSUME TypeOK, TypeOK', Growing, NEW a \in Accounts \ forgotten', Sane(acct[a]),
         acct'[a].weekly <= acct'[a].started
  PROVE  Sane(acct[a])'
<1>1. acct[a] \in Record /\ acct'[a] \in Record /\ now \in Nat /\ now' \in Nat
  BY DEF TypeOK
<1>2. Advances(acct[a], acct'[a], now) /\ MayClaim(acct[a], acct'[a]) /\ now' >= now
  BY DEF Growing
<1>3. acct'[a].reset = "awaiting" => acct'[a].lapsedAt <= now'
  BY <1>1, <1>2 DEF Advances, Sane, Record
<1>4. acct'[a].fetchPending => acct'[a].ladder = {}
  BY <1>2 DEF MayClaim, Unclaimed, Sane
<1> QED
  BY <1>3, <1>4 DEF Sane

\* What an attempt carries stays behind its record.
LEMMA BegunStays ==
  ASSUME TypeOK, TypeOK', NEW t \in Threads, NEW a \in Accounts, Begun(t, acct[a]),
         Advances(acct[a], acct'[a], now), acct'[a].weekly # try[t].seq,
         try'[t].epoch = try[t].epoch, try'[t].seq = try[t].seq,
         try'[t].startedAt = try[t].startedAt
  PROVE  Begun(t, acct[a])'
<1>1. acct[a] \in Record /\ acct'[a] \in Record /\ try[t] \in Tries
  BY DEF TypeOK
<1>2. /\ acct[a].epoch \in Nat /\ acct'[a].epoch \in Nat /\ acct[a].started \in Nat
      /\ acct'[a].started \in Nat /\ try[t].epoch \in Nat /\ try[t].seq \in Nat
  BY <1>1 DEF Record, Tries
<1> QED
  BY <1>2 DEF Begun, Advances

\* The attempts under way, when none begins and no answer is taken.
LEMMA AttemptsStay ==
  ASSUME TypeOK, TypeOK', Growing, FlightsStay, AttemptsBegun, Distinct,
         \A a \in Accounts \ forgotten' : acct'[a].weekly = acct[a].weekly
  PROVE  AttemptsBegun' /\ Distinct'
<1>1. AttemptsBegun'
  <2> SUFFICES ASSUME NEW t \in Threads, InFlight(t)', NEW a \in Accounts \ forgotten',
                      Target(t)' = a
               PROVE  Begun(t, acct[a])'
    BY DEF AttemptsBegun, Begun
  <2>1. /\ InFlight(t) /\ Target(t) = a
        /\ a \in Accounts \ forgotten
        /\ try'[t].epoch = try[t].epoch /\ try'[t].seq = try[t].seq
        /\ try'[t].startedAt = try[t].startedAt
    BY DEF FlightsStay, Growing
  <2>2. Begun(t, acct[a]) /\ Advances(acct[a], acct'[a], now)
    BY <2>1 DEF AttemptsBegun, Growing
  <2>3. acct'[a].weekly # try[t].seq
    BY <2>1, <2>2 DEF Begun
  <2> QED
    BY <2>1, <2>2, <2>3, BegunStays
<1>2. Distinct'
  BY DEF Distinct, FlightsStay, Growing
<1> QED
  BY <1>1, <1>2

\* A step that takes no weekly answer and begins no attempt.
LEMMA OrderStays ==
  ASSUME TypeOK, TypeOK', Ordered, Growing, FlightsStay, Absent', Claims', JobsBehind',
         \A a \in Accounts \ forgotten' : acct'[a].weekly = acct[a].weekly
  PROVE  Ordered'
<1>1. ASSUME NEW a \in Accounts \ forgotten'
      PROVE  Sane(acct[a])'
  <2>1. a \in Accounts \ forgotten /\ Sane(acct[a]) /\ Advances(acct[a], acct'[a], now)
    BY DEF Growing, Ordered
  <2>2. acct[a] \in Record /\ acct'[a] \in Record
    BY DEF TypeOK
  <2>3. acct'[a].weekly <= acct'[a].started
    BY <2>1, <2>2 DEF Sane, Advances, Record
  <2> QED
    BY <2>1, <2>3, SaneStays
<1>2. AttemptsBegun' /\ Distinct'
  BY AttemptsStay DEF Ordered
<1> QED
  BY <1>1, <1>2 DEF Ordered

\* Every account ages, and one out of the roster does not change.
Ageing ==
  \A a \in Accounts :
    /\ Ages(acct[a], acct'[a], now)
    /\ a \notin roster => acct'[a] = acct[a]

\* Such a step leaves the pass's claims, and deletes nothing.
LEMMA AgeingGrows ==
  ASSUME TypeOK, TypeOK', Ordered, Ageing, UNCHANGED <<roster, forgotten>>, now' >= now,
         pass'.reserved = pass.reserved, Follows(Pass) => Follows(Pass)'
  PROVE  /\ Growing /\ Absent' /\ Claims'
         /\ \A a \in Accounts \ forgotten' : acct'[a].weekly = acct[a].weekly
<1>1. Growing
  BY DEF Growing, Ageing, Ages, MayClaim
<1>2. Absent'
  BY DEF Ordered, Absent, Ageing
<1>3. Claims'
  BY DEF Ordered, Claims, Ageing, Ages, Unclaimed
<1>4. \A a \in Accounts \ forgotten' : acct'[a].weekly = acct[a].weekly
  BY DEF Ageing, Ages, Unanswered
<1> QED
  BY <1>1, <1>2, <1>3, <1>4

\* Callbacks go on as they were, start behind, or are taken by a worker or done with.
LEMMA JobsStay ==
  ASSUME TypeOK, TypeOK', JobsBehind, Growing,
         \A j \in pending' : j \in pending \/ Behind(j.acct, j.seq)',
         \A t \in Threads :
           \/ job'[t] \in {job[t], NoJob}
           \/ \E j \in pending : job'[t].acct = j.acct /\ job'[t].seq = j.seq
           \/ job'[t].acct = job[t].acct /\ job'[t].seq = job[t].seq
  PROVE  JobsBehind'
<1>1. (\A j \in pending : j \in Jobs) /\ \A t \in Threads : job[t] \in Jobs
  BY DEF TypeOK
<1>2. NoJob.acct = 0 /\ \A n : Behind(0, n)'
  BY AccountsAreNumbers DEF NoJob, Behind
<1>3. \A j \in pending \cup {job[t] : t \in Threads} :
        Behind(j.acct, j.seq) /\ j.seq \in Nat
  BY <1>1 DEF JobsBehind, Jobs
<1>4. \A j \in pending \cup {job[t] : t \in Threads} : Behind(j.acct, j.seq)'
  BY <1>3, BehindStays
<1> QED
  BY <1>2, <1>4 DEF JobsBehind, Behind

----------------------------------------------------------------------------
\* Flushes and requests.

\* A field that is set to what it is.
LEMMA SameField ==
  ASSUME NEW r \in Record
  PROVE  /\ r.unwritten = FALSE => [r EXCEPT !.unwritten = FALSE] = r
         /\ r.fetchPending = FALSE => [r EXCEPT !.fetchPending = FALSE] = r
         /\ r.ladder = {} => [r EXCEPT !.ladder = {}] = r
<1>1. ASSUME r.unwritten = FALSE PROVE [r EXCEPT !.unwritten = FALSE] = r
  BY <1>1 DEF Record
<1>2. ASSUME r.fetchPending = FALSE PROVE [r EXCEPT !.fetchPending = FALSE] = r
  BY <1>2 DEF Record
<1>3. ASSUME r.ladder = {} PROVE [r EXCEPT !.ladder = {}] = r
  BY <1>3 DEF Record
<1> QED
  BY <1>1, <1>2, <1>3

\* A new record is left as it is by what visits every account.
LEMMA NewStays ==
  /\ \A t : Demoted(NewAccount, t) = NewAccount
  /\ [NewAccount EXCEPT !.unwritten = FALSE] = NewAccount
  /\ Released(NewAccount) = NewAccount
  /\ WithRecoveryRetries(NewAccount) = NewAccount
  /\ \A n : [NewAccount EXCEPT !.ladder = @ \ {n}] = NewAccount
<1>1. \A t : Demoted(NewAccount, t) = NewAccount
  BY DEF NewAccount, Demoted, Expired, HasKnownReset
<1>2. [NewAccount EXCEPT !.unwritten = FALSE] = NewAccount
  <2>1. NewAccount.unwritten = FALSE
    BY DEF NewAccount
  <2> QED
    BY <2>1, NewAccountType, SameField
<1>3. Released(NewAccount) = NewAccount
  <2>1. NewAccount.fetchPending = FALSE
    BY DEF NewAccount
  <2> QED
    BY <2>1, NewAccountType, SameField DEF Released
<1>4. WithRecoveryRetries(NewAccount) = NewAccount
  BY DEF NewAccount, WithRecoveryRetries
<1>5. ASSUME NEW n
      PROVE  [NewAccount EXCEPT !.ladder = @ \ {n}] = NewAccount
  <2>1. NewAccount.ladder = {} /\ NewAccount.ladder \ {n} = {}
    BY DEF NewAccount
  <2>2. [NewAccount EXCEPT !.ladder = {}] = NewAccount
    BY <2>1, NewAccountType, SameField
  <2> QED
    BY <2>1, <2>2
<1> QED
  BY <1>1, <1>2, <1>3, <1>4, <1>5

\* One account of the roster ages.
LEMMA OneAges ==
  ASSUME TypeOK, NEW x, NEW r, acct' = [acct EXCEPT ![x] = r],
         x \in Accounts => x \in roster /\ Ages(acct[x], r, now)
  PROVE  Ageing
<1>1. \A a \in Accounts : acct'[a] = IF a = x THEN r ELSE acct[a]
  BY DEF TypeOK
<1>2. \A a \in Accounts : Ages(acct[a], acct[a], now)
  BY BookkeepingAges DEF TypeOK
<1> QED
  BY <1>1, <1>2 DEF Ageing

\* Or none does.
LEMMA NoneAges ==
  ASSUME TypeOK, UNCHANGED acct
  PROVE  Ageing
  BY BookkeepingAges DEF Ageing, TypeOK

\* Every step of a fetch that takes no answer.
LEMMA FetchAges ==
  ASSUME TypeOK, NEW t \in Threads, FetchStep(t), ~ApplyAnswer(t)
  PROVE  Ageing
<1> DEFINE a == Target(t)
<1>1. now \in Nat /\ (a \in Accounts => acct[a] \in Record)
  BY DEF TypeOK
<1>2. CASE FetchQuit(t) \/ AdmitRestart(t) \/ AdmitRefused(t) \/ CallReturns(t)
  BY <1>2, NoneAges DEF FetchQuit, AdmitRestart, AdmitRefused, CallReturns
<1>3. CASE FetchExpired(t) \/ AdmitExpired(t)
  <2>1. /\ acct' = [acct EXCEPT ![a] = EnterAwaiting(acct[a])]
        /\ a \in roster /\ acct[a].resetAt <= now
    BY <1>3 DEF FetchExpired, AdmitExpired, Fetchable, Current, Expired
  <2> QED
    BY <1>1, <2>1, EnterAwaitingAges, OneAges
<1>4. CASE FetchStart(t)
  <2>1. a \in roster /\ a \in Accounts
    BY <1>4 DEF FetchStart, Fetchable, TypeOK
  <2>2. acct' = [acct EXCEPT ![a] = [acct[a] EXCEPT !.started = @ + 1]]
    BY <1>4, <2>1 DEF FetchStart, TypeOK
  <2> QED
    BY <1>1, <2>1, <2>2, BookkeepingAges, OneAges
<1>5. CASE AdmitCall(t)
  <2> DEFINE owed == acct[a].needsImmediate /\ acct[a].reset # "awaiting"
  <2>1. a \in roster /\ a \in Accounts
    BY <1>5 DEF AdmitCall, Current, TypeOK
  <2>2. acct' = [acct EXCEPT ![a] = [acct[a] EXCEPT !.needsImmediate = owed]]
    BY <1>5, <2>1 DEF AdmitCall, TypeOK
  <2>3. Ages(acct[a], [acct[a] EXCEPT !.needsImmediate = owed], now)
    BY <1>1, <2>1, BookkeepingAges
  <2> QED
    BY <2>1, <2>2, <2>3, OneAges
<1>6. CASE ReadFails(t) \/ ApplyError(t)
  <2>1. acct' = AfterFailedTry(t, a)
    BY <1>6 DEF ReadFails, ApplyError
  <2>2. CASE Current(t, a) /\ acct[a].started = try[t].seq
    <3>1. /\ acct' = [acct EXCEPT ![a] = AfterFailure(acct[a], try[t].startedAt, now)]
          /\ a \in roster
      BY <2>1, <2>2 DEF AfterFailedTry, Current
    <3> QED
      BY <1>1, <3>1, AfterFailureAges, OneAges
  <2>3. CASE ~(Current(t, a) /\ acct[a].started = try[t].seq)
    BY <2>1, <2>3, NoneAges DEF AfterFailedTry
  <2> QED
    BY <2>2, <2>3
<1> QED
  BY <1>2, <1>3, <1>4, <1>5, <1>6 DEF FetchStep

\* Noting a priority.
LEMMA NotedAges ==
  ASSUME TypeOK, NEW i, NEW saved, acct' = Noted(i, saved)
  PROVE  Ageing
<1>1. CASE i.acct \in roster
  <2> DEFINE r == AfterWrite(acct[i.acct], i.desired, saved, cfg.sentinel, now)
  <2>1. acct[i.acct] \in Record
    BY <1>1 DEF TypeOK
  <2>2. Ages(acct[i.acct], r, now)
    BY <2>1, BookkeepingAges
  <2>3. acct' = [acct EXCEPT ![i.acct] = r]
    BY <1>1 DEF Noted
  <2> HIDE DEF r
  <2> QED
    BY <1>1, <2>2, <2>3, OneAges
<1>2. CASE i.acct \notin roster
  BY <1>2, NoneAges DEF Noted
<1> QED
  BY <1>1, <1>2

\* What a flush settles.
LEMMA SettledAges ==
  ASSUME TypeOK, Absent, NEW t
  PROVE  \A a \in Accounts :
           /\ Settled(acct, t)[a] \in Record
           /\ Ages(acct[a], Settled(acct, t)[a], now)
           /\ Settled(acct, t)[a].fetchPending = acct[a].fetchPending
           /\ a \notin roster => Settled(acct, t)[a] = NewAccount
<1> DEFINE settled == Settled(acct, t)
<1>1. \A a \in Accounts : acct[a] \in Record /\ settled[a] \in Record
  BY SettledType DEF Records, TypeOK
<1>2. \A a \in Accounts : settled[a] \in {acct[a], [acct[a] EXCEPT !.unwritten = FALSE]}
  BY DEF Settled
<1> HIDE DEF settled
<1>3. \A a \in Accounts : Ages(acct[a], settled[a], now)
  BY <1>1, <1>2, BookkeepingAges
<1>4. \A a \in Accounts : settled[a].fetchPending = acct[a].fetchPending
  BY <1>1, <1>2 DEF Record
<1>5. \A a \in Accounts : a \notin roster => settled[a] = NewAccount
  BY <1>2, NewStays DEF Absent
<1> QED
  BY <1>1, <1>3, <1>4, <1>5 DEF settled

\* A flush that goes round again.
LEMMA AgainAges ==
  ASSUME TypeOK, Absent, NEW t \in Threads, FlushAgain(t)
  PROVE  Ageing
<1> DEFINE settled == Settled(acct, t)
<1>1. \A a \in Accounts :
        /\ settled[a] \in Record /\ Ages(acct[a], settled[a], now)
        /\ a \notin roster => settled[a] = NewAccount
  BY SettledAges
<1>2. \A a \in Accounts : acct'[a] = Demoted(settled[a], now)
  BY DEF FlushAgain, AllDemoted
<1> HIDE DEF settled
<1>3. \A a \in Accounts : Ages(settled[a], acct'[a], now) /\ acct'[a] \in Record
  BY <1>1, <1>2, DemotedAges, DemotedType
<1>4. now \in Nat /\ \A a \in Accounts : acct[a] \in Record
  BY DEF TypeOK
<1>5. \A a \in Accounts : Ages(acct[a], acct'[a], now)
  BY <1>1, <1>3, <1>4, AgesAges
<1>6. \A a \in Accounts : a \notin roster => acct'[a] = acct[a]
  BY <1>1, <1>2, NewStays DEF Absent
<1> QED
  BY <1>5, <1>6 DEF Ageing

\* A flush that plans.
LEMMA PlanAges ==
  ASSUME TypeOK, Absent, NEW t \in Threads, FlushPlan(t)
  PROVE  Ageing
<1> DEFINE demoted == AllDemoted(acct)
           ranked == Ranked(demoted)
           collected == IF frame[t].mode = "none" THEN {}
                        ELSE {a \in roster : Collects(ranked[a])}
<1>1. /\ demoted \in Records
      /\ \A a \in Accounts : /\ acct[a] \in Record /\ Ages(acct[a], demoted[a], now)
                             /\ a \notin roster => demoted[a] = NewAccount
  <2>1. \A a \in Accounts : acct[a] \in Record
    BY DEF TypeOK
  <2>2. demoted \in Records /\ \A a \in Accounts : demoted[a] = Demoted(acct[a], now)
    BY AllDemotedType DEF Records, TypeOK, AllDemoted
  <2> HIDE DEF demoted
  <2> QED
    BY <2>1, <2>2, DemotedAges, NewStays DEF Absent
<1>2. /\ acct' = [a \in Accounts |-> IF a \in collected THEN Collected(ranked[a]) ELSE ranked[a]]
      /\ collected \subseteq roster
  <2> HIDE DEF ranked
  <2> QED
    BY DEF FlushPlan, ranked
<1> HIDE DEF demoted
<1>3. /\ ranked \in Records
      /\ \A a \in Accounts : /\ Ages(demoted[a], ranked[a], now)
                             /\ a \notin roster => ranked[a] = demoted[a]
  BY <1>1, RankedType, BookkeepingAges DEF Ranked, Records
<1> HIDE DEF ranked, collected
<1>4. \A a \in Accounts : ranked[a] \in Record /\ demoted[a] \in Record /\ acct'[a] \in Record
  BY <1>1, <1>2, <1>3, FieldTypes DEF Records
<1>5. \A a \in Accounts : Ages(ranked[a], acct'[a], now)
  BY <1>2, <1>4, BookkeepingAges
<1>6. now \in Nat
  BY DEF TypeOK
<1>7. \A a \in Accounts : Ages(acct[a], ranked[a], now)
  BY <1>1, <1>3, <1>4, <1>6, AgesAges
<1>8. \A a \in Accounts : Ages(acct[a], acct'[a], now)
  BY <1>1, <1>4, <1>5, <1>6, <1>7, AgesAges
<1>9. \A a \in Accounts : a \notin roster => acct'[a] = acct[a]
  BY <1>1, <1>2, <1>3 DEF Absent
<1> QED
  BY <1>8, <1>9 DEF Ageing

\* A flush that arms.
LEMMA ArmAges ==
  ASSUME TypeOK, Absent, NEW t \in Threads, FlushArm(t)
  PROVE  /\ Ageing
         /\ \A a \in Accounts : ValidRetries(t, a) # {} => ~acct'[a].fetchPending
<1> DEFINE settled == Settled(acct, t)
           armed == {a \in Accounts : ValidRetries(t, a) # {}}
<1>1. acct' = [a \in Accounts |->
                 IF a \in armed
                 THEN [StartRetries(settled[a], now) EXCEPT !.wantRetry = FALSE]
                 ELSE settled[a]]
  BY DEF FlushArm
<1>2. \A a \in Accounts :
        /\ settled[a] \in Record /\ Ages(acct[a], settled[a], now)
        /\ settled[a].fetchPending = acct[a].fetchPending
        /\ a \notin roster => settled[a] = NewAccount
  BY SettledAges
<1>3. \A a \in armed : a \in Accounts /\ a \in roster /\ ~acct[a].fetchPending
  BY DEF ValidRetries, StillAwaiting
<1>4. now \in Nat /\ \A a \in Accounts : acct[a] \in Record
  BY DEF TypeOK
<1> HIDE DEF settled, armed
<1>5. ASSUME NEW a \in armed
      PROVE  /\ Ages(settled[a], acct'[a], now) /\ acct'[a] \in Record
             /\ ~acct'[a].fetchPending
  <2>1. /\ settled[a] \in Record /\ ~settled[a].fetchPending
        /\ acct'[a] = [StartRetries(settled[a], now) EXCEPT !.wantRetry = FALSE]
    BY <1>1, <1>2, <1>3
  <2>2. StartRetries(settled[a], now) \in Record
    BY <1>4, <2>1, StartRetriesType
  <2>3. Ages(settled[a], acct'[a], now) /\ acct'[a] \in Record
    BY <2>1, <2>2, StartedAges, FieldTypes
  <2> QED
    BY <2>1, <2>3 DEF Ages, Unclaimed
<1>6. \A a \in Accounts : Ages(acct[a], acct'[a], now)
  BY <1>1, <1>2, <1>4, <1>5, AgesAges
<1>7. \A a \in Accounts : a \notin roster => acct'[a] = acct[a]
  BY <1>1, <1>2, <1>3 DEF Absent
<1>8. \A a \in Accounts : ValidRetries(t, a) # {} => ~acct'[a].fetchPending
  BY <1>5 DEF armed
<1> QED
  BY <1>6, <1>7, <1>8 DEF Ageing

\* Every step of a flush.
LEMMA FlushAges ==
  ASSUME TypeOK, Absent, NEW t \in Threads, FlushStep(t)
  PROVE  Ageing
<1>1. CASE \/ FlushStopped(t) \/ WriteSkip(t) \/ WriteRead(t) \/ WriteReadFails(t)
           \/ WriteRefused(t) \/ WriteAdmit(t) \/ WriteSaveFails(t)
  BY <1>1, NoneAges
  DEF FlushStopped, WriteSkip, WriteRead, WriteReadFails, WriteRefused, WriteAdmit,
      WriteSaveFails
<1>2. CASE WriteNoOp(t) \/ WriteSaved(t)
  BY <1>2, NotedAges DEF WriteNoOp, WriteSaved
<1> QED
  BY <1>1, <1>2, AgainAges, PlanAges, ArmAges DEF FlushStep

\* Every step of a flush.
LEMMA FlushOrdered ==
  ASSUME TypeOK, TypeOK', Posts, Ordered, NEW t \in Threads, FlushStep(t)
  PROVE  Ordered'
<1>1. /\ UNCHANGED <<roster, forgotten, now, pass, try>>
      /\ Follows(Pass) => Follows(Pass)'
  <2>1. UNCHANGED <<forgotten, try>>
    BY DEF FlushStep, FlushStopped, FlushPlan, FlushAgain, FlushArm, WriteSkip, WriteRead,
           WriteReadFails, WriteNoOp, WriteRefused, WriteAdmit, WriteSaved, WriteSaveFails,
           settings
  <2> QED
    BY <2>1, FlushLeavesPass, ThreadKinds
<1>2. \A u \in Threads : job'[u] = job[u] \/ (u = t /\ job'[u] = NoJob)
  BY DEF FlushStep, FlushStopped, FlushPlan, FlushAgain, FlushArm, WriteSkip, WriteRead,
         WriteReadFails, WriteNoOp, WriteRefused, WriteAdmit, WriteSaved, WriteSaveFails,
         Return, TypeOK
<1>3. now' >= now
  BY <1>1 DEF TypeOK
<1>4. /\ Growing /\ Absent' /\ Claims'
      /\ \A a \in Accounts \ forgotten' : acct'[a].weekly = acct[a].weekly
  BY <1>1, <1>3, FlushAges, AgeingGrows DEF Ordered
<1>5. FlightsStay
  <2>1. ~InFlight(t)'
    BY FlushGoes DEF InFlight, Flushing, ReturnsOf
  <2>2. \A u \in Threads \ {t} : pc'[u] = pc[u]
    BY FlushGoes
  <2> QED
    BY <1>1, <1>2, <2>1, <2>2 DEF FlightsStay, InFlight, Target
<1>6. ASSUME NEW j \in pending', j \notin pending
      PROVE  Behind(j.acct, j.seq)'
  <2>1. FlushArm(t)
    BY <1>6
    DEF FlushStep, FlushStopped, FlushPlan, FlushAgain, WriteSkip, WriteRead,
        WriteReadFails, WriteNoOp, WriteRefused, WriteAdmit, WriteSaved, WriteSaveFails
  <2>2. \E a \in Accounts : ValidRetries(t, a) # {} /\ j = RetryJob(a, acct'[a].retrySeq)
    BY <1>6, <2>1 DEF FlushArm
  <2>3. PICK a \in Accounts : ValidRetries(t, a) # {} /\ j = RetryJob(a, acct'[a].retrySeq)
    BY <2>2
  <2>4. ~acct'[a].fetchPending /\ j.acct = a /\ j.seq = acct'[a].retrySeq
    BY <2>1, <2>3, ArmAges DEF Ordered, RetryJob
  <2>5. acct'[a].retrySeq \in Nat
    BY DEF TypeOK, Record
  <2> QED
    BY <2>4, <2>5 DEF Behind
<1>7. JobsBehind'
  BY <1>2, <1>4, <1>6, JobsStay DEF Ordered
<1> QED
  BY <1>4, <1>5, <1>7, OrderStays

\* A fetch neither starts nor takes a callback, and moves one thread.
LEMMA FetchKeepsJobs ==
  ASSUME TypeOK, Posts, NEW t \in Threads, FetchStep(t)
  PROVE  /\ UNCHANGED <<roster, forgotten, now, pass, pending, job>>
         /\ Follows(Pass) => Follows(Pass)'
         /\ \A u \in Threads \ {t} : pc'[u] = pc[u] /\ try'[u] = try[u]
         /\ \A u \in Threads : Target(u)' = Target(u)
<1>1. UNCHANGED <<forgotten, pending, job>> /\ \A u \in Threads \ {t} : try'[u] = try[u]
  BY DEF FetchStep, FetchQuit, FetchExpired, FetchStart, AdmitRestart, AdmitRefused,
         AdmitExpired, AdmitCall, CallReturns, ReadFails, ApplyError, ApplyAnswer,
         settings, EndFetch, FlushAndRetry, TypeOK
<1>2. /\ UNCHANGED <<roster, now, pass>> /\ t # Pass
      /\ \A u \in Threads \ {t} : pc'[u] = pc[u] /\ frame'[u] = frame[u]
  BY FetchLeavesPass
<1>3. Follows(Pass) => Follows(Pass)'
  BY <1>2, ThreadKinds DEF Follows
<1>4. \A u \in Threads : Target(u)' = Target(u)
  BY <1>1 DEF Target
<1> QED
  BY <1>1, <1>2, <1>3, <1>4

\* An attempt goes on with what it carries, or it ends.
LEMMA FetchFlights ==
  ASSUME TypeOK, Posts, NEW t \in Threads, FetchStep(t), ~FetchStart(t)
  PROVE  FlightsStay
<1>1. InFlight(t)' => /\ InFlight(t)
                      /\ try'[t].epoch = try[t].epoch /\ try'[t].seq = try[t].seq
                      /\ try'[t].startedAt = try[t].startedAt
  <2>1. CASE CallReturns(t)
    BY <2>1 DEF CallReturns, InFlight, TypeOK, Tries
  <2>2. CASE AdmitCall(t)
    BY <2>2 DEF AdmitCall, InFlight, TypeOK
  <2>3. CASE EndFetch(t) \/ FlushAndRetry(t)
    BY <2>3 DEF EndFetch, FlushAndRetry, CallFlush, InFlight, TypeOK
  <2> QED
    BY <2>1, <2>2, <2>3
    DEF FetchStep, FetchQuit, FetchExpired, AdmitRestart, AdmitRefused, AdmitExpired,
        ReadFails, ApplyError, ApplyAnswer
<1> QED
  BY <1>1, FetchKeepsJobs DEF FlightsStay, InFlight

\* Every step of a fetch but the start of an attempt and the taking of an answer.
LEMMA FetchOrdered ==
  ASSUME TypeOK, TypeOK', Posts, Ordered, NEW t \in Threads, FetchStep(t),
         ~FetchStart(t), Ageing
  PROVE  Ordered'
<1>1. now' >= now /\ pass'.reserved = pass.reserved
  BY FetchKeepsJobs DEF TypeOK
<1>2. /\ Growing /\ Absent' /\ Claims'
      /\ \A a \in Accounts \ forgotten' : acct'[a].weekly = acct[a].weekly
  BY <1>1, FetchKeepsJobs, AgeingGrows
<1>3. JobsBehind'
  BY <1>2, FetchKeepsJobs, JobsStay DEF Ordered
<1> QED
  BY <1>2, <1>3, FetchFlights, OrderStays

\* The start of an attempt: no other has its number.
LEMMA StartOrdered ==
  ASSUME TypeOK, TypeOK', Posts, Ordered, NEW t \in Threads, FetchStart(t)
  PROVE  Ordered'
<1> DEFINE a == Target(t)
<1>1. FetchStep(t) /\ ~ApplyAnswer(t)
  BY DEF FetchStep, FetchStart, ApplyAnswer
<1>2. now' >= now /\ pass'.reserved = pass.reserved
  BY <1>1, FetchKeepsJobs DEF TypeOK
<1>3. /\ Growing /\ Absent' /\ Claims'
      /\ \A b \in Accounts \ forgotten' : acct'[b].weekly = acct[b].weekly
  BY <1>1, <1>2, FetchAges, FetchKeepsJobs, AgeingGrows
<1>4. JobsBehind'
  BY <1>1, <1>3, FetchKeepsJobs, JobsStay DEF Ordered
<1>5. ASSUME NEW b \in Accounts \ forgotten'
      PROVE  Sane(acct[b])'
  <2>1. b \in Accounts \ forgotten /\ Sane(acct[b]) /\ Advances(acct[b], acct'[b], now)
    BY <1>3 DEF Growing, Ordered
  <2>2. acct[b] \in Record /\ acct'[b] \in Record
    BY DEF TypeOK
  <2>3. acct'[b].weekly <= acct'[b].started
    BY <1>3, <2>1, <2>2 DEF Sane, Advances, Record
  <2> QED
    BY <1>3, <2>1, <2>3, SaneStays
<1>6. /\ a \in Accounts /\ a \in roster /\ acct[a] \in Record
      /\ acct'[a] = [acct[a] EXCEPT !.started = @ + 1]
      /\ try'[t].epoch = acct[a].epoch /\ try'[t].seq = acct[a].started + 1
      /\ try'[t].startedAt = now
  BY DEF FetchStart, Fetchable, TypeOK
<1>7. /\ \A u \in Threads \ {t} : pc'[u] = pc[u] /\ try'[u] = try[u]
      /\ \A u \in Threads : Target(u)' = Target(u)
      /\ forgotten' = forgotten
  BY <1>1, FetchKeepsJobs
<1>8. ASSUME NEW u \in Threads \ {t}, InFlight(u)', NEW b \in Accounts \ forgotten,
             Target(u) = b
      PROVE  Begun(u, acct[b])' /\ try'[u].seq <= acct[b].started
  <2>1. InFlight(u) /\ Begun(u, acct[b]) /\ try'[u] = try[u]
    BY <1>7, <1>8 DEF Ordered, AttemptsBegun, InFlight
  <2>2. Advances(acct[b], acct'[b], now) /\ acct'[b].weekly = acct[b].weekly
    BY <1>3, <1>7 DEF Growing
  <2>3. acct'[b].weekly # try[u].seq
    BY <2>1, <2>2 DEF Begun
  <2>4. Begun(u, acct[b])'
    BY <2>1, <2>2, <2>3, BegunStays
  <2> QED
    BY <2>1, <2>4 DEF Begun
<1>9. a \in Accounts \ forgotten => Begun(t, acct[a])'
  <2> SUFFICES ASSUME a \in Accounts \ forgotten
               PROVE  Begun(t, acct[a])'
    OBVIOUS
  <2>1. Sane(acct[a]) /\ now \in Nat
    BY DEF Ordered, TypeOK
  <2> DEFINE r == acct[a]
             s == acct'[a]
  <2>2. /\ s.epoch = r.epoch /\ s.started = r.started + 1 /\ s.weekly = r.weekly
        /\ s.reset = r.reset /\ s.lapsedAt = r.lapsedAt
        /\ r.epoch \in Nat /\ r.started \in Nat /\ r.weekly \in Nat /\ r.lapsedAt \in Int
    BY <1>6 DEF Record
  <2>3. /\ try'[t].epoch <= s.epoch /\ try'[t].seq <= s.started /\ try'[t].seq # s.weekly
        /\ s.reset = "awaiting" => try'[t].startedAt >= s.lapsedAt
    BY <1>6, <2>1, <2>2 DEF Sane
  <2>4. Target(t)' = Target(t)
    BY <1>7
  <2> QED
    BY <2>3, <2>4 DEF Begun
<1>10. AttemptsBegun'
  <2> SUFFICES ASSUME NEW u \in Threads, InFlight(u)', NEW b \in Accounts \ forgotten',
                      Target(u)' = b
               PROVE  Begun(u, acct[b])'
    BY DEF AttemptsBegun, Begun
  <2>1. Target(u) = b /\ b \in Accounts \ forgotten
    BY <1>7
  <2>2. CASE u = t
    BY <1>7, <1>9, <2>1, <2>2 DEF Begun
  <2>3. CASE u # t
    BY <1>8, <2>1, <2>3
  <2> QED
    BY <2>2, <2>3
<1>11. Distinct'
  <2> SUFFICES ASSUME NEW u \in Threads, NEW v \in Threads, InFlight(u)', InFlight(v)', u # v,
                      NEW b \in Accounts \ forgotten, Target(u) = b, Target(v) = b
               PROVE  try'[u].seq # try'[v].seq
    BY <1>7 DEF Distinct
  <2>1. CASE u # t /\ v # t
    BY <1>7, <2>1 DEF Ordered, Distinct, InFlight
  <2>2. acct[a].started \in Nat /\ \A w \in Threads : try'[w].seq \in Nat
    BY <1>6 DEF TypeOK, Tries, Record
  <2>3. CASE u = t
    BY <1>6, <1>8, <2>2, <2>3
  <2>4. CASE v = t
    BY <1>6, <1>8, <2>2, <2>4
  <2> QED
    BY <2>1, <2>3, <2>4
<1> QED
  BY <1>3, <1>4, <1>5, <1>10, <1>11 DEF Ordered

\* The answer of an attempt that counts, and is the newest weekly one so far.
Taken(t) ==
  LET a == Target(t)
  IN  Current(t, a) /\ try[t].answer = "weekly" /\ ~(try[t].seq < acct[a].weekly)

\* Any other answer is a failure, or nothing.
LEMMA UntakenAges ==
  ASSUME TypeOK, NEW t \in Threads, ApplyAnswer(t), ~Taken(t)
  PROVE  Ageing
<1> DEFINE a == Target(t)
<1>1. acct' = [acct EXCEPT ![a] = AfterAnswer(t, a)]
  BY DEF ApplyAnswer
<1>2. now \in Nat /\ (a \in Accounts => acct[a] \in Record)
  BY DEF TypeOK
<1>3. CASE AfterAnswer(t, a) = acct[a]
  <2>1. UNCHANGED acct
    BY <1>1, <1>3 DEF TypeOK
  <2> QED
    BY <2>1, NoneAges
<1>4. CASE AfterAnswer(t, a) # acct[a]
  <2>1. Current(t, a) /\ AfterAnswer(t, a) = AfterFailure(acct[a], try[t].startedAt, now)
    BY <1>4 DEF AfterAnswer, Taken
  <2>2. a \in roster
    BY <2>1 DEF Current
  <2> HIDE DEF a
  <2> QED
    BY <1>1, <1>2, <2>1, <2>2, AfterFailureAges, OneAges
<1> QED
  BY <1>3, <1>4

\* What taking an answer does: the record's last weekly answer is this attempt's.
LEMMA TakenAdvances ==
  ASSUME TypeOK, NEW t \in Threads, ApplyAnswer(t), Taken(t)
  PROVE  /\ Target(t) \in Accounts /\ Target(t) \in roster
         /\ Advances(acct[Target(t)], acct'[Target(t)], now)
         /\ Unclaimed(acct[Target(t)], acct'[Target(t)])
         /\ acct'[Target(t)].weekly = try[t].seq
         /\ \A b \in Accounts : b # Target(t) => acct'[b] = acct[b]
<1> DEFINE a == Target(t)
<1>1. a \in roster /\ a \in Accounts
  BY DEF Taken, Current, TypeOK
<1>2. /\ now \in Nat /\ acct[a] \in Record
      /\ try[t].seq \in Nat /\ try[t].at \in Int
  BY <1>1 DEF TypeOK, Tries
<1>3. AfterAnswer(t, a) =
        AfterWeekly(acct[a], try[t].seq, try[t].startedAt, try[t].at, cfg.dryRun, now)
  BY DEF Taken, AfterAnswer
<1>4. acct' = [acct EXCEPT ![a] = AfterAnswer(t, a)]
  BY DEF ApplyAnswer
<1>5. acct'[a] = AfterAnswer(t, a) /\ \A b \in Accounts : b # a => acct'[b] = acct[b]
  BY <1>1, <1>4 DEF TypeOK
<1> QED
  BY <1>1, <1>2, <1>3, <1>5, AfterWeeklyAdvances

\* A taken answer.
LEMMA TakenOrdered ==
  ASSUME TypeOK, TypeOK', Posts, Ordered, NEW t \in Threads, ApplyAnswer(t), Taken(t)
  PROVE  Ordered'
<1> DEFINE a == Target(t)
<1>1. /\ a \in Accounts /\ a \in roster
      /\ Advances(acct[a], acct'[a], now) /\ Unclaimed(acct[a], acct'[a])
      /\ acct'[a].weekly = try[t].seq
      /\ \A b \in Accounts : b # a => acct'[b] = acct[b]
  BY TakenAdvances
<1>2. /\ FetchStep(t) /\ InFlight(t) /\ ~InFlight(t)'
  BY DEF FetchStep, ApplyAnswer, InFlight, EndFetch, CallFlush, TypeOK
<1>3. ~FetchStart(t)
  BY DEF ApplyAnswer, FetchStart
<1>4. /\ UNCHANGED <<roster, forgotten, now, pass, pending, job>>
      /\ Follows(Pass) => Follows(Pass)'
  BY <1>2, FetchKeepsJobs
<1>5. FlightsStay
  BY <1>2, <1>3, FetchFlights
<1>6. \A b \in Accounts : Advances(acct[b], acct'[b], now) /\ Unclaimed(acct[b], acct'[b])
  <2>1. \A b \in Accounts : Ages(acct[b], acct[b], now)
    BY BookkeepingAges DEF TypeOK
  <2> QED
    BY <1>1, <2>1 DEF Ages
<1> HIDE DEF a
<1>7. Growing
  BY <1>4, <1>6 DEF Growing, MayClaim, TypeOK
<1>8. Absent' /\ Claims'
  BY <1>1, <1>4, <1>6 DEF Ordered, Absent, Claims, Unclaimed
<1>9. JobsBehind'
  BY <1>4, <1>7, JobsStay DEF Ordered
<1>10. a \notin forgotten => Begun(t, acct[a])
  BY <1>1, <1>2 DEF Ordered, AttemptsBegun, a
<1>11. ASSUME NEW b \in Accounts \ forgotten'
       PROVE  Sane(acct[b])'
  <2>1. b \in Accounts \ forgotten /\ Sane(acct[b]) /\ acct[b] \in Record /\ acct'[b] \in Record
    BY <1>4 DEF Ordered, TypeOK
  <2>2. CASE b = a
    <3>1. try[t].seq <= acct[a].started /\ acct'[a].started >= acct[a].started
      BY <1>1, <1>10, <2>1, <2>2 DEF Begun, Advances
    <3>2. try[t].seq \in Nat /\ acct[a].started \in Nat /\ acct'[a].started \in Nat
      BY <2>1, <2>2 DEF TypeOK, Tries, Record
    <3>3. acct'[b].weekly <= acct'[b].started
      BY <1>1, <2>2, <3>1, <3>2
    <3> QED
      BY <1>7, <2>1, <3>3, SaneStays
  <2>3. CASE b # a
    <3>1. acct'[b].weekly <= acct'[b].started
      BY <1>1, <2>1, <2>3 DEF Sane
    <3> QED
      BY <1>7, <2>1, <3>1, SaneStays
  <2> QED
    BY <2>2, <2>3
<1>12. AttemptsBegun'
  <2> SUFFICES ASSUME NEW u \in Threads, InFlight(u)', NEW b \in Accounts \ forgotten',
                      Target(u)' = b
               PROVE  Begun(u, acct[b])'
    BY DEF AttemptsBegun, Begun
  <2>1. /\ u # t /\ InFlight(u) /\ Target(u) = b /\ b \in Accounts \ forgotten
        /\ try'[u].epoch = try[u].epoch /\ try'[u].seq = try[u].seq
        /\ try'[u].startedAt = try[u].startedAt
    BY <1>2, <1>4, <1>5 DEF FlightsStay
  <2>2. Begun(u, acct[b]) /\ Advances(acct[b], acct'[b], now)
    BY <1>6, <2>1 DEF Ordered, AttemptsBegun
  <2>3. acct'[b].weekly # try[u].seq
    <3>1. CASE b = a
      BY <1>1, <1>2, <2>1, <3>1 DEF Ordered, Distinct, a
    <3>2. CASE b # a
      BY <1>1, <2>1, <2>2, <3>2 DEF Begun
    <3> QED
      BY <3>1, <3>2
  <2> QED
    BY <2>1, <2>2, <2>3, BegunStays
<1>13. Distinct'
  BY <1>4, <1>5 DEF Ordered, Distinct, FlightsStay
<1> QED
  BY <1>8, <1>9, <1>11, <1>12, <1>13 DEF Ordered

\* Every step of a thread.
LEMMA ThreadOrdered ==
  ASSUME TypeOK, TypeOK', Posts, Ordered, NEW t \in Threads, FlushStep(t) \/ FetchStep(t)
  PROVE  Ordered'
<1>1. CASE FetchStep(t) /\ ~FetchStart(t) /\ ~ApplyAnswer(t)
  BY <1>1, FetchAges, FetchOrdered
<1>2. CASE ApplyAnswer(t) /\ ~Taken(t)
  <2>1. FetchStep(t) /\ ~FetchStart(t)
    BY <1>2 DEF FetchStep, ApplyAnswer, FetchStart
  <2> QED
    BY <1>2, <2>1, UntakenAges, FetchOrdered
<1> QED
  BY <1>1, <1>2, FlushOrdered, StartOrdered, TakenOrdered

----------------------------------------------------------------------------
\* Passes.

\* No weekly answer is taken, of accounts whose records were never deleted.
Unheard == \A a \in Accounts \ forgotten' : Unanswered(acct[a], acct'[a])

\* Such a step, of whoever keeps the callbacks and begins no attempt.
LEMMA UnheardOrdered ==
  ASSUME TypeOK, TypeOK', Ordered, Growing, Unheard, Absent', Claims', FlightsStay,
         UNCHANGED <<pending, job>>
  PROVE  Ordered'
<1>1. JobsBehind'
  BY JobsStay DEF Ordered
<1>2. \A a \in Accounts \ forgotten' : acct'[a].weekly = acct[a].weekly
  BY DEF Unheard, Unanswered
<1> QED
  BY <1>1, <1>2, OrderStays

\* Threads that carry on as they were begin no attempt.
LEMMA SameFlights ==
  ASSUME UNCHANGED <<try, job>>, \A t \in Threads : InFlight(t)' => InFlight(t)
  PROVE  FlightsStay
  BY DEF FlightsStay, Target

\* A pass begins none itself.
LEMMA PassFlights ==
  ASSUME TypeOK, PassStep
  PROVE  FlightsStay /\ UNCHANGED <<pending, job, now>>
<1>1. UNCHANGED <<try, job, pending, now>>
  BY DEF PassStep, PassRefused, PassBegin, PassPrune, PassList, PassListSkips,
         PassListFails, PassAbandon, PassDefer, PassRoster, PassFetchAll, PassJoin,
         PassTail, world
<1>2. \A t \in Threads : pc'[t] \in {pc[t], "flush", "prune", "roster", "defer", "idle",
                                     "fetching", "waiting", "fetch"}
  BY DEF PassStep, PassRefused, PassBegin, PassPrune, PassList, PassListSkips,
         PassListFails, PassAbandon, PassDefer, PassRoster, PassFetchAll, PassJoin,
         PassTail, CallFlush, TypeOK
<1> QED
  BY <1>1, <1>2, SameFlights DEF InFlight

\* A claim between two changes.
LEMMA ClaimBetween ==
  ASSUME NEW r \in Record, NEW s \in Record, NEW u \in Record, NEW v \in Record,
         NEW t \in Nat, Ages(r, s, t), Ages(u, v, t),
         Advances(s, u, t), MayClaim(s, u), Unanswered(s, u)
  PROVE  Advances(r, v, t) /\ MayClaim(r, v) /\ Unanswered(r, v)
<1>1. Advances(r, u, t)
  BY DEF Ages, Advances, Record
<1>2. Advances(r, v, t)
  BY <1>1 DEF Ages, Advances, Record
<1>3. MayClaim(r, v)
  BY DEF Ages, Advances, MayClaim, Unclaimed, Record
<1>4. Unanswered(r, v)
  BY DEF Ages, Unanswered
<1> QED
  BY <1>2, <1>3, <1>4

\* Unchanged records, or records that age, of a roster that stays.
LEMMA AgeingUnheard ==
  ASSUME TypeOK, Ageing
  PROVE  Unheard
  BY DEF Ageing, Ages, Unheard

\* A pass that begins finds nothing claimed.
LEMMA BeginGrows ==
  ASSUME TypeOK, Ordered, PassBegin
  PROVE  Growing /\ Unheard /\ Absent' /\ Claims'
<1> DEFINE claimed == {a \in roster : Claimable(a)}
<1>1. /\ acct' = [a \in Accounts |-> IF a \in claimed THEN Reserved(acct[a]) ELSE acct[a]]
      /\ pass' = [pass EXCEPT !.reserved = claimed]
      /\ pc[Pass] = "idle" /\ pc'[Pass] = "prune"
      /\ UNCHANGED <<roster, forgotten, now>> /\ claimed \subseteq roster
  BY ThreadKinds DEF PassBegin, TypeOK, settings, world
<1>2. pass'.reserved = claimed
  BY <1>1 DEF TypeOK
<1>3. \A a \in Accounts : ~acct[a].fetchPending
  BY <1>1, ThreadKinds DEF Ordered, Claims, Follows, Flushing, Requesting
<1> HIDE DEF claimed
<1>4. ASSUME NEW a \in Accounts
      PROVE  /\ Advances(acct[a], acct'[a], now) /\ MayClaim(acct[a], acct'[a])
             /\ Unanswered(acct[a], acct'[a])
  <2>1. acct[a] \in Record
    BY DEF TypeOK
  <2>2. CASE a \in claimed
    BY <1>1, <2>1, <2>2, ReservedTakes
  <2>3. CASE a \notin claimed
    BY <1>1, <2>1, <2>3, BookkeepingAges DEF Ages, MayClaim
  <2> QED
    BY <2>2, <2>3
<1>5. Growing /\ Unheard
  BY <1>1, <1>4 DEF Growing, Unheard, TypeOK
<1>6. Absent'
  BY <1>1 DEF Ordered, Absent
<1>7. Claims'
  BY <1>1, <1>2, <1>3, ThreadKinds DEF Claims, Follows
<1> QED
  BY <1>5, <1>6, <1>7

\* Accounts that are pruned are forgotten; the others stay as they are.
LEMMA PruneGrows ==
  ASSUME TypeOK, Posts, Ordered, PassPrune
  PROVE  Growing /\ Unheard /\ Absent' /\ Claims'
<1>1. /\ roster' \subseteq roster /\ forgotten' = forgotten \cup (roster \ roster')
      /\ acct' = [a \in Accounts |-> IF a \in roster' THEN acct[a] ELSE NewAccount]
      /\ UNCHANGED <<pass, now>>
  BY DEF PassPrune, world
<1>2. Follows(Pass)'
  <2>1. CallFlush(Pass, "none", "list") /\ "list" \in ReturnsOf(Pass)
    BY DEF PassPrune, ReturnsOf
  <2>2. pc'[Pass] = "flush" /\ frame'[Pass].ret = "list"
    BY <2>1, CalledPlaced, ThreadKinds
  <2> QED
    BY <2>2, ThreadKinds DEF Follows, Flushing
<1>3. \A a \in Accounts \ forgotten' : acct'[a] = acct[a]
  BY <1>1 DEF Ordered, Absent
<1>4. \A a \in Accounts : Ages(acct[a], acct[a], now)
  BY BookkeepingAges DEF TypeOK
<1>5. Growing /\ Unheard
  BY <1>1, <1>3, <1>4 DEF Growing, Unheard, Ages, MayClaim, TypeOK
<1>6. Absent'
  BY <1>1 DEF Absent
<1>7. Claims'
  BY <1>1, <1>2 DEF Ordered, Claims, NewAccount
<1> QED
  BY <1>5, <1>6, <1>7

\* Claims that are given back.
LEMMA ReleaseGrows ==
  ASSUME TypeOK, Ordered, PassAbandon \/ PassDefer \/ PassJoin
  PROVE  Growing /\ Unheard /\ Absent' /\ Claims'
<1>1. acct' = ReleasedAll(acct) /\ pass' = NoPass /\ UNCHANGED <<roster, forgotten, now>>
  BY DEF PassAbandon, PassDefer, PassJoin, settings, world
<1>2. ASSUME NEW a \in Accounts
      PROVE  /\ Ages(acct[a], acct'[a], now) /\ ~acct'[a].fetchPending
             /\ a \notin roster => acct'[a] = NewAccount
  <2>1. acct[a] \in Record
    BY DEF TypeOK
  <2>2. CASE a \in pass.reserved
    <3>1. acct'[a] = Released(acct[a])
      BY <1>1, <2>2 DEF ReleasedAll
    <3>2. ~Released(acct[a]).fetchPending
      BY <2>1 DEF Released, Record
    <3> QED
      BY <2>1, <3>1, <3>2, BookkeepingAges, NewStays DEF Ordered, Absent
  <2>3. CASE a \notin pass.reserved
    <3>1. acct'[a] = acct[a]
      BY <1>1, <2>3 DEF ReleasedAll
    <3> QED
      BY <2>1, <2>3, <3>1, BookkeepingAges DEF Ordered, Absent, Claims
  <2> QED
    BY <2>2, <2>3
<1>3. Ageing
  BY <1>2 DEF Ageing, Ordered, Absent
<1>4. Growing /\ Absent' /\ Claims'
  BY <1>1, <1>2, <1>3 DEF Growing, Ageing, Ages, MayClaim, Absent, Claims, NoPass, TypeOK
<1> QED
  BY <1>3, <1>4, AgeingUnheard

\* A pass's tail finds nothing claimed.
LEMMA TailGrows ==
  ASSUME TypeOK, TypeOK', Ordered, PassTail
  PROVE  Growing /\ Unheard /\ Absent' /\ Claims'
<1>1. /\ UNCHANGED <<roster, forgotten, now, pass>>
      /\ acct' = [a \in Accounts |-> WithRecoveryRetries(acct[a])]
      /\ pc[Pass] = "tail"
  BY DEF PassTail, settings, world
<1>2. ~Follows(Pass)
  BY <1>1 DEF Follows, Flushing, Requesting
<1>3. \A a \in Accounts : ~acct[a].fetchPending
  BY <1>2 DEF Ordered, Claims
<1>4. \A a \in Accounts : Ages(acct[a], acct'[a], now)
  BY <1>1, <1>3, StartedAges DEF TypeOK
<1>5. \A a \in Accounts \ roster : acct'[a] = acct[a]
  BY <1>1, NewStays DEF Ordered, Absent
<1>6. Ageing
  BY <1>4, <1>5 DEF Ageing
<1>7. now' >= now
  BY <1>1 DEF TypeOK
<1> QED
  BY <1>1, <1>2, <1>6, <1>7, AgeingGrows, AgeingUnheard

\* What the roster makes of a record that was never deleted.
LEMMA RosterAges ==
  ASSUME TypeOK, Ordered, NEW a \in Accounts,
         a \in roster => \E e \in EntriesKept : e.acct = a
  PROVE  Ages(acct[a], RosterRecord(a), now)
<1>1. acct[a] \in Record /\ now \in Int
  BY DEF TypeOK
<1>2. CASE \E e \in EntriesKept : e.acct = a
  <2> DEFINE chosen == CHOOSE e \in EntriesKept : e.acct = a
  <2>1. chosen.priority \in Int
    <3>1. \A e \in EntriesKept : e.priority \in Int
      BY DEF EntriesKept, RosterEntries, TypeOK
    <3> QED
      BY <1>2, <3>1
  <2>2. RosterRecord(a) = AfterEntry(acct[a], chosen, cfg.sentinel, now)
    BY <1>2 DEF RosterRecord
  <2> HIDE DEF chosen
  <2> QED
    BY <1>1, <2>1, <2>2, EntryAges
<1>3. CASE ~\E e \in EntriesKept : e.acct = a
  <2>1. RosterRecord(a) = acct[a]
    BY <1>3 DEF RosterRecord, Ordered, Absent
  <2> QED
    BY <1>1, <2>1, BookkeepingAges
<1> QED
  BY <1>2, <1>3

\* The roster a pass has validated replaces the old one, and its claims the old ones.
LEMMA RosterGrows ==
  ASSUME TypeOK, TypeOK', Posts, Ordered, PassRoster
  PROVE  Growing /\ Unheard /\ Absent' /\ Claims'
<1> DEFINE kept == {e.acct : e \in EntriesKept}
           targets == {a \in kept : RosterRecord(a).health # "quarantined"}
           claimed == [a \in Accounts |-> Rereserved(RosterRecord(a), a \in targets)]
           unsaved == \E a \in kept : NeedsSentinel(RosterRecord(a), cfg.sentinel)
           expired == \E a \in kept : Expired(claimed[a], now)
<1>1. /\ roster' = kept /\ forgotten' = forgotten \cup (roster \ kept)
      /\ acct' = IF unsaved THEN claimed ELSE AllDemoted(claimed)
      /\ pass' = [entries |-> {}, reserved |-> targets]
      /\ IF unsaved \/ expired THEN CallFlush(Pass, "none", "fetching")
         ELSE pc' = [pc EXCEPT ![Pass] = "fetching"] /\ UNCHANGED frame
      /\ UNCHANGED now
  BY Zenon DEF PassRoster, world
<1>2. \A a \in Accounts :
        /\ RosterRecord(a) \in Record
        /\ claimed[a] = IF a \in targets THEN Reserved(RosterRecord(a))
                        ELSE Released(RosterRecord(a))
        /\ a \in targets => a \in kept
        /\ a \in kept <=> \E e \in EntriesKept : e.acct = a
  BY RosterRecordType DEF Rereserved
<1>3. \A a \in Accounts : acct[a] \in Record /\ acct'[a] \in Record /\ claimed[a] \in Record
  BY <1>2, ReservedType, ReleasedType DEF TypeOK
<1>4. now \in Nat
  BY DEF TypeOK
<1> HIDE DEF kept, targets, claimed, unsaved, expired
<1>5. \A a \in Accounts : acct'[a] \in {claimed[a], Demoted(claimed[a], now)}
  BY <1>1 DEF AllDemoted
<1>6. \A a \in Accounts : Ages(claimed[a], acct'[a], now)
  BY <1>3, <1>5, BookkeepingAges, DemotedAges
<1>7. ASSUME NEW a \in Accounts
      PROVE  /\ Advances(RosterRecord(a), claimed[a], now)
             /\ MayClaim(RosterRecord(a), claimed[a])
             /\ Unanswered(RosterRecord(a), claimed[a])
             /\ claimed[a].fetchPending => a \in targets
  <2>1. CASE a \in targets
    BY <1>2, <2>1, ReservedTakes
  <2>2. CASE a \notin targets
    <3> DEFINE s == RosterRecord(a)
    <3>1. s \in Record /\ claimed[a] = Released(s)
      BY <1>2, <2>2
    <3> HIDE DEF s
    <3>2. ~Released(s).fetchPending /\ Ages(s, Released(s), now)
      <4>1. Ages(s, Released(s), now)
        BY <3>1, BookkeepingAges
      <4> QED
        BY <3>1, <4>1 DEF Released, Record
    <3>3. /\ Advances(s, claimed[a], now) /\ MayClaim(s, claimed[a])
          /\ Unanswered(s, claimed[a]) /\ ~claimed[a].fetchPending
      BY <3>1, <3>2 DEF Ages, MayClaim
    <3> QED
      BY <3>3 DEF s
  <2> QED
    BY <2>1, <2>2
<1>8. ASSUME NEW a \in Accounts \ forgotten'
      PROVE  /\ Advances(acct[a], acct'[a], now) /\ MayClaim(acct[a], acct'[a])
             /\ Unanswered(acct[a], acct'[a])
  <2>1. Ages(acct[a], RosterRecord(a), now)
    BY <1>1, <1>2, RosterAges
  <2> QED
    BY <1>2, <1>3, <1>4, <1>6, <1>7, <2>1, ClaimBetween
<1>9. Growing /\ Unheard
  BY <1>1, <1>4, <1>8 DEF Growing, Unheard
<1>10. Absent'
  <2> SUFFICES ASSUME NEW a \in Accounts, a \notin kept
               PROVE  acct'[a] = NewAccount
    BY <1>1 DEF Absent
  <2>1. RosterRecord(a) = NewAccount
    BY <1>2 DEF RosterRecord
  <2>2. claimed[a] = NewAccount
    BY <1>2, <2>1, NewStays
  <2> QED
    BY <1>5, <2>2, NewStays
<1>11. Follows(Pass)'
  <2>1. CASE CallFlush(Pass, "none", "fetching")
    <3>1. "fetching" \in ReturnsOf(Pass)
      BY DEF ReturnsOf
    <3>2. pc'[Pass] = "flush" /\ frame'[Pass].ret = "fetching"
      BY <2>1, <3>1, CalledPlaced, ThreadKinds
    <3> QED
      BY <3>2, ThreadKinds DEF Follows, Flushing
  <2>2. CASE pc' = [pc EXCEPT ![Pass] = "fetching"] /\ UNCHANGED frame
    BY <2>2, ThreadKinds DEF Follows, TypeOK
  <2> QED
    BY <1>1, <2>1, <2>2
<1>12. Claims'
  BY <1>1, <1>6, <1>7, <1>11 DEF Claims, Ages, Unclaimed
<1> QED
  BY <1>9, <1>10, <1>12

\* Every step of a pass.
LEMMA PassGrows ==
  ASSUME TypeOK, TypeOK', Posts, Ordered, PassStep
  PROVE  Growing /\ Unheard /\ Absent' /\ Claims'
<1>1. CASE PassRefused \/ PassList \/ PassListSkips \/ PassListFails \/ PassFetchAll
  <2>1. /\ UNCHANGED <<acct, roster, forgotten, now>> /\ pass'.reserved = pass.reserved
    BY <1>1 DEF PassRefused, PassList, PassListSkips, PassListFails, PassFetchAll, settings,
         world, TypeOK
  <2>2. Follows(Pass) => Follows(Pass)'
    BY <1>1, ThreadKinds
    DEF PassRefused, PassList, PassListSkips, PassListFails, PassFetchAll, Follows, TypeOK
  <2>3. Ageing /\ now' >= now
    BY <2>1, NoneAges DEF TypeOK
  <2> QED
    BY <2>1, <2>2, <2>3, AgeingGrows, AgeingUnheard
<1> QED
  BY <1>1, BeginGrows, PruneGrows, ReleaseGrows, RosterGrows, TailGrows DEF PassStep

\* And so every step of a pass keeps the order.
LEMMA PassOrdered ==
  ASSUME TypeOK, TypeOK', Posts, Ordered, PassStep
  PROVE  Ordered'
  BY PassGrows, PassFlights, UnheardOrdered

----------------------------------------------------------------------------
\* Callbacks, the clock and everybody else.

\* Callbacks, before they fetch, leave the records as they are.
LEMMA WorkerLeaves ==
  ASSUME TypeOK, Posts, NEW w \in Workers, WorkerStep(w)
  PROVE  /\ UNCHANGED <<acct, roster, forgotten, now, pass, try>>
         /\ Follows(Pass) => Follows(Pass)'
         /\ pending' \subseteq pending
         /\ \A u \in Threads :
              \/ job'[u] \in {job[u], NoJob}
              \/ \E j \in pending : job'[u].acct = j.acct /\ job'[u].seq = j.seq
              \/ job'[u].acct = job[u].acct /\ job'[u].seq = job[u].seq
         /\ \A u \in Threads : InFlight(u)' => InFlight(u) /\ job'[u] = job[u]
<1>1. /\ UNCHANGED <<acct, roster, forgotten, now, pass, try>>
      /\ pending' \subseteq pending
  BY DEF WorkerStep, RetryDropped, RetryBegin, RetryRecheck, DeadlineDropped,
         DeadlineBegin, PollDropped, PollBegin, ProbeChanged, ProbeSame, ProbeFails,
         PollEnd, settings, timers, world, Take
<1>2. w \in Threads /\ w # Pass
  BY ThreadKinds
<1>3. \A u \in Threads \ {w} : pc'[u] = pc[u] /\ frame'[u] = frame[u] /\ job'[u] = job[u]
  BY DEF WorkerStep, RetryDropped, RetryBegin, RetryRecheck, DeadlineDropped,
         DeadlineBegin, PollDropped, PollBegin, ProbeChanged, ProbeSame, ProbeFails,
         PollEnd, CallFlush, TypeOK
<1>4. Follows(Pass) => Follows(Pass)'
  BY <1>2, <1>3, ThreadKinds DEF Follows
<1>5. \/ job'[w] \in {job[w], NoJob}
      \/ \E j \in pending : job'[w].acct = j.acct /\ job'[w].seq = j.seq
      \/ job'[w].acct = job[w].acct /\ job'[w].seq = job[w].seq
  <2>1. job[w] \in Jobs /\ \A j \in pending : j \in Jobs
    BY <1>2 DEF TypeOK
  <2>2. CASE RetryBegin(w)
    BY <1>2, <2>2 DEF RetryBegin, TypeOK
  <2>3. CASE PollBegin(w)
    BY <1>2, <2>1, <2>3 DEF PollBegin, Jobs, TypeOK
  <2>4. CASE ProbeSame(w)
    BY <1>2, <2>1, <2>4 DEF ProbeSame, Jobs, TypeOK
  <2>5. CASE ProbeFails(w)
    BY <1>2, <2>1, <2>5 DEF ProbeFails, Jobs, TypeOK
  <2>6. CASE RetryRecheck(w) \/ ProbeChanged(w) \/ PollEnd(w)
    BY <1>2, <2>6 DEF RetryRecheck, ProbeChanged, PollEnd, TypeOK
  <2>7. CASE RetryDropped(w) \/ DeadlineDropped(w) \/ DeadlineBegin(w) \/ PollDropped(w)
    BY <2>7 DEF RetryDropped, DeadlineDropped, DeadlineBegin, PollDropped
  <2> QED
    BY <2>2, <2>3, <2>4, <2>5, <2>6, <2>7 DEF WorkerStep
<1>6. InFlight(w)' => InFlight(w) /\ job'[w] = job[w]
  BY <1>2 DEF InFlight, WorkerStep, RetryDropped, RetryBegin, RetryRecheck, DeadlineDropped,
         DeadlineBegin, PollDropped, PollBegin, ProbeChanged, ProbeSame, ProbeFails,
         PollEnd, CallFlush, TypeOK
<1>7. \A u \in Threads \ {w} : InFlight(u)' => InFlight(u)
  BY <1>3 DEF InFlight
<1> QED
  BY <1>1, <1>3, <1>4, <1>5, <1>6, <1>7

\* And so they keep the order.
LEMMA WorkerOrdered ==
  ASSUME TypeOK, TypeOK', Posts, Ordered, NEW w \in Workers, WorkerStep(w)
  PROVE  Ordered'
<1>1. Ageing /\ now' >= now
  BY WorkerLeaves, NoneAges DEF TypeOK
<1>2. /\ Growing /\ Absent' /\ Claims'
      /\ \A a \in Accounts \ forgotten' : acct'[a].weekly = acct[a].weekly
  BY <1>1, WorkerLeaves, AgeingGrows
<1>3. JobsBehind'
  BY <1>2, WorkerLeaves, JobsStay DEF Ordered
<1>4. FlightsStay
  BY WorkerLeaves DEF FlightsStay, Target
<1> QED
  BY <1>2, <1>3, <1>4, OrderStays

\* A rung that comes due starts a callback of the ladder as it is.
LEMMA TickOrdered ==
  ASSUME TypeOK, TypeOK', Ordered, Tick
  PROVE  Ordered'
<1>1. /\ UNCHANGED <<roster, forgotten, pass, pc, frame, job, try>>
      /\ now' = now + 1 /\ now \in Nat
      /\ acct' = [a \in Accounts |-> [acct[a] EXCEPT !.ladder = @ \ {now + 1}]]
  BY DEF Tick, settings, TypeOK
<1>2. Ageing
  <2>1. \A a \in Accounts : Ages(acct[a], acct'[a], now)
    BY <1>1, BookkeepingAges DEF TypeOK
  <2>2. \A a \in Accounts \ roster : acct'[a] = acct[a]
    BY <1>1, NewStays DEF Ordered, Absent
  <2> QED
    BY <2>1, <2>2 DEF Ageing
<1>3. /\ Growing /\ Absent' /\ Claims'
      /\ \A a \in Accounts \ forgotten' : acct'[a].weekly = acct[a].weekly
  <2>1. (Follows(Pass) => Follows(Pass)') /\ now' >= now
    BY <1>1 DEF Follows
  <2> QED
    BY <1>1, <1>2, <2>1, AgeingGrows
<1>4. ASSUME NEW j \in pending', j \notin pending
      PROVE  Behind(j.acct, j.seq)'
  <2>1. \/ \E a \in Accounts : now + 1 \in acct[a].ladder /\ j = RetryJob(a, acct[a].retrySeq)
        \/ j = DeadlineJob(deadline.seq)
        \/ j = PollJob(poll.seq)
    BY <1>4 DEF Tick
  <2>2. CASE j = DeadlineJob(deadline.seq) \/ j = PollJob(poll.seq)
    BY <2>2, AccountsAreNumbers DEF Behind, DeadlineJob, PollJob
  <2>3. ASSUME NEW a \in Accounts, now + 1 \in acct[a].ladder,
               j = RetryJob(a, acct[a].retrySeq)
        PROVE  Behind(j.acct, j.seq)'
    <3>1. j.acct = a /\ j.seq = acct[a].retrySeq /\ acct[a] \in Record
      BY <2>3 DEF RetryJob, TypeOK
    <3>2. acct'[a].retrySeq = acct[a].retrySeq /\ acct'[a].fetchPending = acct[a].fetchPending
      BY <1>1, <3>1 DEF Record
    <3>3. a \notin forgotten => ~acct[a].fetchPending
      BY <2>3 DEF Ordered, Sane
    <3>4. acct[a].retrySeq \in Nat
      BY <3>1 DEF Record
    <3> QED
      BY <1>1, <3>1, <3>2, <3>3, <3>4 DEF Behind
  <2> QED
    BY <2>1, <2>2, <2>3
<1>5. JobsBehind'
  BY <1>1, <1>3, <1>4, JobsStay DEF Ordered
<1>6. FlightsStay
  BY <1>1, SameFlights DEF InFlight
<1> QED
  BY <1>3, <1>5, <1>6, OrderStays

\* Reconfiguration, stop, refresh and the host cancel ladders and opt accounts out.
LEMMA OutsideAges ==
  ASSUME TypeOK, AdminStep \/ HostStep \/ UNCHANGED vars
  PROVE  Ageing /\ UNCHANGED <<roster, forgotten, now, pass, pc, frame, try, job, pending>>
<1>1. UNCHANGED <<roster, forgotten, now, pass, pc, frame, try, job, pending>>
  BY DEF AdminStep, Reconfigure, Publish, DisableGeneration, Stop, Refresh, HostStep, vars,
         settings, world
<1>2. \A a \in Accounts :
        /\ acct'[a] \in {acct[a], CancelRetries(acct[a]), OptedOut(acct[a])}
        /\ a \notin roster => acct'[a] = acct[a]
  <2>1. CASE Reconfigure \/ Refresh \/ HostStep \/ UNCHANGED vars
    BY <2>1 DEF Reconfigure, Refresh, HostStep, vars
  <2>2. CASE Publish
    BY <2>2 DEF Publish
  <2>3. CASE DisableGeneration \/ Stop
    BY <2>3 DEF DisableGeneration, Stop, Quieted
  <2> QED
    BY <2>1, <2>2, <2>3 DEF AdminStep
<1>3. \A a \in Accounts : Ages(acct[a], acct'[a], now)
  BY <1>2, BookkeepingAges DEF TypeOK
<1> QED
  BY <1>1, <1>2, <1>3 DEF Ageing

\* And so they keep the order.
LEMMA OutsideOrdered ==
  ASSUME TypeOK, TypeOK', Ordered, AdminStep \/ HostStep \/ UNCHANGED vars
  PROVE  Ordered'
<1>1. Ageing /\ UNCHANGED <<roster, forgotten, now, pass, pc, frame, try, job, pending>>
  BY OutsideAges
<1>2. (Follows(Pass) => Follows(Pass)') /\ now' >= now
  BY <1>1 DEF Follows, TypeOK
<1>3. Growing /\ Absent' /\ Claims' /\ Unheard
  BY <1>1, <1>2, AgeingGrows, AgeingUnheard
<1>4. FlightsStay
  BY <1>1, SameFlights DEF InFlight
<1> QED
  BY <1>1, <1>3, <1>4, UnheardOrdered

\* Every step.
LEMMA NextOrdered ==
  ASSUME TypeOK, TypeOK', Posts, Ordered, [Next]_vars
  PROVE  Ordered'
  BY PassOrdered, ThreadOrdered, WorkerOrdered, TickOrdered, OutsideOrdered
  DEF Next, ThreadStep, CallbackStep, Asleep

\* What callbacks and attempts carry is in order for ever.
LEMMA OrderedHolds == Spec => []Ordered
<1>1. Init => Ordered
  <2> SUFFICES ASSUME Init PROVE Ordered
    OBVIOUS
  <2>1. Absent /\ Claims
    BY DEF Init, Absent, Claims, NewAccount, NoPass
  <2>2. \A a \in Accounts \ forgotten : Sane(acct[a])
    BY DEF Init, Sane, NewAccount
  <2>3. JobsBehind
    BY AccountsAreNumbers DEF Init, JobsBehind, Behind, NoJob
  <2>4. AttemptsBegun /\ Distinct
    BY DEF Init, AttemptsBegun, Distinct, InFlight
  <2> QED
    BY <2>1, <2>2, <2>3, <2>4 DEF Ordered
<1>2. TypeOK /\ TypeOK' /\ Posts /\ Ordered /\ [Next]_vars => Ordered'
  BY NextOrdered
<1> QED
  BY <1>1, <1>2, TypesHold, OwedHolds, PTL DEF Spec

----------------------------------------------------------------------------
\* The properties.

\* Only its own thread moves an attempt on.
LEMMA FlightMoves ==
  ASSUME TypeOK, Posts, [Next]_vars, NEW t \in Threads, InFlight(t), pc'[t] # pc[t]
  PROVE  FetchStep(t)
<1>1. pc[t] \in {"reading", "calling", "apply"} /\ t # Pass
  BY DEF InFlight, Posts, Placed, Flushing, PlacesOf
<1>2. ASSUME PassStep
      PROVE  FALSE
  <2>1. PassFetchAll
    BY <1>1, <1>2
    DEF PassStep, PassRefused, PassBegin, PassPrune, PassList, PassListSkips, PassListFails,
        PassAbandon, PassDefer, PassRoster, PassJoin, PassTail, CallFlush, TypeOK
  <2>2. \A u \in Fetchers : pc[u] = "idle"
    BY <2>1 DEF Posts, PassFetchAll
  <2> QED
    BY <1>1, <2>1, <2>2 DEF PassFetchAll
<1>3. ASSUME NEW u \in Threads, FlushStep(u)
      PROVE  FALSE
  <2>1. pc[u] \in Flushing /\ \A v \in Threads \ {u} : pc'[v] = pc[v]
    BY <1>3, FlushGoes
  <2> QED
    BY <1>1, <2>1 DEF Flushing
<1>4. ASSUME NEW w \in Workers, WorkerStep(w)
      PROVE  FALSE
  BY <1>1, <1>4, WorkerMoves DEF CallFlush, TypeOK
<1>5. ASSUME NEW u \in Threads, FetchStep(u)
      PROVE  u = t
  BY <1>5, FetchKeepsJobs
<1>6. Tick \/ AdminStep \/ HostStep \/ Asleep \/ UNCHANGED vars => UNCHANGED pc
  BY OthersStay DEF vars
<1> QED
  BY <1>2, <1>3, <1>4, <1>5, <1>6 DEF Next, ThreadStep, CallbackStep

\* What is forgotten leaves the roster.
LEMMA ForgottenLeave ==
  ASSUME [Next]_vars
  PROVE  forgotten' \ forgotten \subseteq roster \ roster'
<1>1. CASE PassPrune \/ PassRoster
  BY <1>1 DEF PassPrune, PassRoster
<1>2. CASE ~(PassPrune \/ PassRoster)
  <2>1. UNCHANGED forgotten
    BY <1>2
    DEF Next, PassStep, PassRefused, PassBegin, PassList, PassListSkips, PassListFails,
        PassAbandon, PassDefer, PassFetchAll, PassJoin, PassTail,
        ThreadStep, FlushStep, FlushStopped, FlushPlan, FlushAgain, FlushArm, WriteSkip,
        WriteRead, WriteReadFails, WriteNoOp, WriteRefused, WriteAdmit, WriteSaved,
        WriteSaveFails, FetchStep, FetchQuit, FetchExpired, FetchStart, AdmitRestart,
        AdmitRefused, AdmitExpired, AdmitCall, CallReturns, ReadFails, ApplyError,
        ApplyAnswer, CallbackStep, WorkerStep, RetryDropped, RetryBegin, RetryRecheck,
        DeadlineDropped, DeadlineBegin, PollDropped, PollBegin, ProbeChanged, ProbeSame,
        ProbeFails, PollEnd, Tick, AdminStep, Reconfigure, Publish, DisableGeneration,
        Stop, Refresh, HostStep, Asleep, vars, settings
  <2> QED
    BY <2>1
<1> QED
  BY <1>1, <1>2

\* A step takes an answer, or it takes none from anybody.
LEMMA NextUnheard ==
  ASSUME TypeOK, TypeOK', Posts, Ordered, [Next]_vars
  PROVE  Unheard \/ \E t \in Threads : ApplyAnswer(t) /\ Taken(t)
<1>1. CASE PassStep
  BY <1>1, PassGrows
<1>2. ASSUME NEW t \in Threads, FlushStep(t)
      PROVE  Unheard
  BY <1>2, FlushAges, AgeingUnheard DEF Ordered
<1>3. ASSUME NEW t \in Threads, FetchStep(t)
      PROVE  Unheard \/ (ApplyAnswer(t) /\ Taken(t))
  BY <1>3, FetchAges, UntakenAges, AgeingUnheard
<1>4. ASSUME NEW w \in Workers, WorkerStep(w)
      PROVE  Unheard
  BY <1>4, WorkerLeaves, NoneAges, AgeingUnheard
<1>5. CASE Tick
  <2>1. \A a \in Accounts : Ages(acct[a], acct'[a], now)
    BY <1>5, BookkeepingAges DEF Tick, TypeOK
  <2> QED
    BY <2>1 DEF Unheard, Ages
<1>6. CASE AdminStep \/ HostStep \/ Asleep \/ UNCHANGED vars
  BY <1>6, OutsideAges, AgeingUnheard DEF Asleep
<1> QED
  BY <1>1, <1>2, <1>3, <1>4, <1>5, <1>6 DEF Next, ThreadStep, CallbackStep

\* While a pass owns an account's immediate attempt (fetchPending) no retry callback
\* gets through admission to the provider for it, wherever the claim caught the
\* callback: before its first flush, in it, between its two looks, waiting for a slot
\* or reading the credential.  The claim cancels the ladder, so each carries a number
\* that is too small.
THEOREM SingleOwnerHolds == Spec => SingleOwner
<1>1. ASSUME TypeOK, Posts, Ordered, [Next]_vars, NEW w \in Workers, Admitted(w),
             Target(w) \notin forgotten
      PROVE  ~acct[Target(w)].fetchPending
  <2>1. w \in Threads /\ w \notin Fetchers
    BY ThreadKinds
  <2>2. FetchStep(w)
    BY <1>1, <2>1, FlightMoves DEF Admitted, InFlight
  <2>3. AdmitCall(w)
    BY <1>1, <2>1, <2>2
    DEF Admitted, FetchStep, FetchQuit, FetchExpired, FetchStart, AdmitRestart,
        AdmitRefused, AdmitExpired, CallReturns, ReadFails, ApplyError, ApplyAnswer,
        EndFetch, FlushAndRetry, CallFlush, TypeOK
  <2>4. Current(w, Target(w)) /\ Target(w) = job[w].acct
    BY <2>1, <2>3 DEF AdmitCall, Target
  <2>5. Target(w) \in Accounts \ forgotten /\ acct[Target(w)].retrySeq = job[w].seq
    BY <1>1, <2>1, <2>4 DEF Current, MatchesRetry, OwnedByPass, TypeOK
  <2>6. Behind(job[w].acct, job[w].seq)
    BY <1>1, <2>1 DEF Ordered, JobsBehind
  <2>7. job[w].seq \in Nat
    BY <1>1, <2>1 DEF TypeOK, Jobs
  <2> QED
    BY <2>4, <2>5, <2>6, <2>7 DEF Behind
<1>2. TypeOK /\ Posts /\ Ordered /\ [Next]_vars
        => [\A w \in Workers : Admitted(w) /\ Target(w) \notin forgotten =>
              ~acct[Target(w)].fetchPending]_vars
  BY <1>1
<1> QED
  BY <1>2, TypesHold, OwedHolds, OrderedHolds, PTL DEF Spec, SingleOwner

\* An account whose window has lapsed is ranked again only on the answer to a request
\* that began no earlier than that window's reset, however many attempts of earlier
\* windows, epochs, configurations and ladders are still out (applyObservation and
\* fetchAttemptCurrentLocked).  A demotion begins an epoch, so an attempt that still
\* counts began after it.
THEOREM ConfirmedByNewRequestHolds == Spec => ConfirmedByNewRequest
<1>1. ASSUME TypeOK, TypeOK', Posts, Ordered, Ordered', [Next]_vars,
             NEW a \in Accounts \ forgotten,
             acct[a].reset = "awaiting", acct'[a].reset = "confirmed"
      PROVE  \E t \in Threads : Weekly(t, a) /\ try[t].startedAt >= acct[a].lapsedAt
  <2>1. a \notin forgotten'
    <3>1. a \in forgotten' => acct'[a] = NewAccount
      BY <1>1, ForgottenLeave DEF Ordered, Absent
    <3> QED
      BY <1>1, <3>1 DEF NewAccount
  <2>2. ~Unheard
    BY <1>1, <2>1 DEF Unheard, Unanswered
  <2>3. PICK t \in Threads : ApplyAnswer(t) /\ Taken(t)
    BY <1>1, <2>2, NextUnheard
  <2>4. Target(t) = a
    BY <1>1, <2>3, TakenAdvances
  <2>5. Weekly(t, a) /\ InFlight(t) /\ acct[a].epoch = try[t].epoch
    BY <2>3, <2>4 DEF ApplyAnswer, Taken, Weekly, InFlight, Current
  <2>6. Begun(t, acct[a])
    BY <1>1, <2>4, <2>5 DEF Ordered, AttemptsBegun
  <2> QED
    BY <1>1, <2>5, <2>6 DEF Begun
<1>2. TypeOK /\ TypeOK' /\ Posts /\ Ordered /\ Ordered' /\ [Next]_vars
        => [\A a \in Accounts \ forgotten :
              acct[a].reset = "awaiting" /\ acct'[a].reset = "confirmed" =>
                \E t \in Threads : Weekly(t, a) /\ try[t].startedAt >= acct[a].lapsedAt]_vars
  BY <1>1
<1> QED
  BY <1>2, TypesHold, OwedHolds, OrderedHolds, PTL DEF Spec, ConfirmedByNewRequest

\* The end of an attempt that is not the newest answered.
LEMMA OlderEnds ==
  ASSUME TypeOK, Posts, Ordered, [Next]_vars, NEW t \in Threads,
         InFlight(t), ~InFlight(t)', Target(t) \in roster, Target(t) \notin forgotten,
         try[t].seq < acct[Target(t)].weekly
  PROVE  acct'[Target(t)] \in {acct[Target(t)], Demoted(acct[Target(t)], now)}
<1> DEFINE a == Target(t)
<1>1. FetchStep(t)
  <2>1. pc'[t] # pc[t]
    BY DEF InFlight
  <2> QED
    BY <2>1, FlightMoves
<1>2. a \in Accounts /\ acct[a] \in Record /\ try[t] \in Tries
  BY DEF TypeOK
<1>3. acct[a].started # try[t].seq
  <2>1. acct[a].weekly <= acct[a].started
    BY <1>2 DEF Ordered, Sane
  <2> QED
    BY <1>2, <2>1 DEF Record, Tries
<1>4. CASE AdmitRestart(t) \/ AdmitRefused(t)
  BY <1>4 DEF AdmitRestart, AdmitRefused
<1>5. CASE AdmitExpired(t)
  BY <1>2, <1>5 DEF AdmitExpired, Demoted, TypeOK
<1>6. CASE ReadFails(t) \/ ApplyError(t)
  BY <1>3, <1>6 DEF ReadFails, ApplyError, AfterFailedTry
<1>7. CASE ApplyAnswer(t)
  <2>1. AfterAnswer(t, a) = acct[a]
    BY <1>3 DEF AfterAnswer
  <2> QED
    BY <1>2, <1>7, <2>1 DEF ApplyAnswer, TypeOK
<1>8. ~(FetchQuit(t) \/ FetchExpired(t) \/ FetchStart(t) \/ AdmitCall(t) \/ CallReturns(t))
  BY DEF FetchQuit, FetchExpired, FetchStart, AdmitCall, CallReturns, InFlight, TypeOK
<1> QED
  BY <1>1, <1>4, <1>5, <1>6, <1>7, <1>8 DEF FetchStep

\* Of the attempts of one record that overlap the one started last has the last word:
\* the last weekly answer never gets older, only a newer one changes the reset an
\* account is ranked by, and an older attempt that ends after it changes nothing
\* (latestStartedFetchSeq and latestWeeklyObservationSeq).
THEOREM NewestAnswerStandsHolds == Spec => NewestAnswerStands
<1>1. ASSUME TypeOK, TypeOK', Posts, Ordered, [Next]_vars,
             NEW a \in (roster \cap roster') \ forgotten
      PROVE  /\ acct'[a].weekly >= acct[a].weekly
             /\ acct'[a].resetAt \notin {acct[a].resetAt, NoTime} =>
                  acct'[a].weekly > acct[a].weekly
             /\ \A t \in Threads :
                  InFlight(t) /\ Target(t) = a /\ ~InFlight(t)' /\ try[t].seq < acct[a].weekly =>
                    acct'[a] \in {acct[a], Demoted(acct[a], now)}
  <2>1. a \in Accounts \ forgotten' /\ a \in Accounts \ forgotten
    BY <1>1, ForgottenLeave DEF TypeOK
  <2>2. acct[a] \in Record /\ acct[a].weekly \in Nat
    BY <1>1, <2>1 DEF TypeOK, Record
  <2>3. CASE Unheard \/ acct'[a] = acct[a]
    <3>1. acct'[a].weekly = acct[a].weekly /\ acct'[a].resetAt \in {acct[a].resetAt, NoTime}
      BY <2>1, <2>3 DEF Unheard, Unanswered
    <3> QED
      BY <1>1, <2>2, <3>1, OlderEnds
  <2>4. ASSUME NEW t \in Threads, ApplyAnswer(t), Taken(t), Target(t) = a
        PROVE  acct'[a].weekly > acct[a].weekly
    <3>1. acct'[a].weekly = try[t].seq /\ ~(try[t].seq < acct[a].weekly)
      BY <1>1, <2>4, TakenAdvances DEF Taken
    <3>2. Begun(t, acct[a])
      BY <1>1, <2>1, <2>4 DEF Ordered, AttemptsBegun, ApplyAnswer, InFlight
    <3>3. try[t].seq \in Nat
      BY <1>1 DEF TypeOK, Tries
    <3> QED
      BY <2>2, <3>1, <3>2, <3>3 DEF Begun
  <2>5. CASE \E t \in Threads : ApplyAnswer(t) /\ Taken(t) /\ Target(t) = a
    <3>1. acct'[a].weekly > acct[a].weekly
      BY <2>4, <2>5
    <3>2. acct'[a].weekly \in Nat
      BY <1>1, <2>1 DEF TypeOK, Record
    <3> QED
      BY <1>1, <2>2, <3>1, <3>2, OlderEnds
  <2>6. CASE \E t \in Threads : ApplyAnswer(t) /\ Taken(t) /\ Target(t) # a
    <3>1. acct'[a] = acct[a]
      BY <1>1, <2>1, <2>6, TakenAdvances
    <3> QED
      BY <2>3, <3>1
  <2> QED
    BY <1>1, <2>3, <2>5, <2>6, NextUnheard
<1>2. TypeOK /\ TypeOK' /\ Posts /\ Ordered /\ [Next]_vars
        => [\A a \in (roster \cap roster') \ forgotten :
              /\ acct'[a].weekly >= acct[a].weekly
              /\ acct'[a].resetAt \notin {acct[a].resetAt, NoTime} =>
                   acct'[a].weekly > acct[a].weekly
              /\ \A t \in Threads :
                   InFlight(t) /\ Target(t) = a /\ ~InFlight(t)' /\ try[t].seq < acct[a].weekly =>
                     acct'[a] \in {acct[a], Demoted(acct[a], now)}]_vars
  BY <1>1
<1> QED
  BY <1>2, TypesHold, OwedHolds, OrderedHolds, PTL DEF Spec, NewestAnswerStands
=============================================================================
