-------------------------- MODULE CredentialProofs --------------------------
(***************************************************************************)
(* The engine refines Credential, for any accounts, configurations and     *)
(* bounds.  Of a record only its health and its reset matter: most         *)
(* operators leave them alone, and the others move them as Credential      *)
(* allows.  The one fact a step needs of its past is that an account out   *)
(* of the roster is a new one.                                             *)
(***************************************************************************)
EXTENDS EngineTypes

----------------------------------------------------------------------------
\* One record.

Alike(r, s) == s.health = r.health /\ s.reset = r.reset /\ s.resetAt = r.resetAt

Moves(r, s, t) ==
  \/ Alike(r, s)
  \/ r.health # "healthy" /\ s.health = r.health
  \/ /\ r.health # "quarantined" /\ s.health = "healthy"
     /\ HasFutureReset(s, t)
  \/ /\ r.health = "healthy" /\ s.health = "healthy"
     /\ s.reset = "awaiting" /\ s.resetAt <= t

\* What looks alike moves alike.
LEMMA MovesAlike ==
  ASSUME NEW r, NEW s, NEW u, NEW t,
         \/ Moves(r, s, t) /\ Alike(s, u)
         \/ Alike(r, s) /\ Moves(s, u, t)
  PROVE  Moves(r, u, t)
  BY DEF Moves, Alike, HasFutureReset, HasKnownReset

\* Bookkeeping of retries, claims, intents and priorities leaves a record alike.
LEMMA BookkeepingAlike ==
  ASSUME NEW r \in Record
  PROVE  /\ Alike(r, r)
         /\ Alike(r, CancelRetries(r))
         /\ \A t \in Nat : Alike(r, StartRetries(r, t))
         /\ Alike(r, Reserved(r))
         /\ Alike(r, Released(r))
         /\ Alike(r, OptedOut(r))
         /\ Alike(r, Collected(r))
         /\ \A d, p, n, t : \A b \in BOOLEAN : Alike(r, AfterWrite(r, d, b, p, t))
         /\ \A d : Alike(r, [r EXCEPT !.desired = d])
         /\ \A d : Alike(r, [r EXCEPT !.ladder = d])
         /\ \A d : Alike(r, [r EXCEPT !.needsImmediate = d])
         /\ Alike(r, [r EXCEPT !.started = @ + 1])
         /\ Alike(r, [r EXCEPT !.unwritten = FALSE])
         /\ Alike(r, [r EXCEPT !.wantRetry = FALSE])
  BY DEF Alike, CancelRetries, StartRetries, Reserved, Released, OptedOut, Collected,
         AfterWrite, Record

\* A demotion of an account whose reset has passed.
LEMMA EnterAwaitingMoves ==
  ASSUME NEW r \in Record, NEW t \in Nat, r.health = "healthy" => r.resetAt <= t
  PROVE  Moves(r, EnterAwaiting(r), t) /\ Moves(r, CrossedDeadline(r), t)
  BY DEF Moves, Alike, EnterAwaiting, CrossedDeadline, Record, Healths

\* Demotion at the deadline.
LEMMA DemotedMoves ==
  ASSUME NEW r \in Record, NEW t \in Nat
  PROVE  Moves(r, Demoted(r, t), t)
  BY EnterAwaitingMoves, BookkeepingAlike DEF Demoted, Expired, Moves

\* A failed attempt.
LEMMA AfterFailureMoves ==
  ASSUME NEW r \in Record, NEW s, NEW t \in Nat, r.health # "quarantined"
  PROVE  Moves(r, AfterFailure(r, s, t), t)
<1>1. CASE Crossed(r, s, t)
  BY <1>1, EnterAwaitingMoves DEF AfterFailure, Crossed, Expired
<1>2. CASE ~Crossed(r, s, t) /\ ~HasKnownReset(r)
  BY <1>2, BookkeepingAlike DEF AfterFailure, Degraded, Moves
<1>3. CASE ~Crossed(r, s, t) /\ HasKnownReset(r) /\ r.resetAt > t
  BY <1>3 DEF AfterFailure, Degraded, Moves, HasFutureReset, HasKnownReset, Record, Healths
<1>4. CASE ~Crossed(r, s, t) /\ HasKnownReset(r) /\ ~(r.resetAt > t)
  <2>1. r.resetAt \in Int
    BY DEF Record
  <2> QED
    BY <1>4, <2>1, EnterAwaitingMoves DEF AfterFailure, Degraded
<1> QED
  BY <1>1, <1>2, <1>3, <1>4

\* A weekly answer.
LEMMA AfterWeeklyMoves ==
  ASSUME NEW r \in Record, NEW seq \in Nat, NEW s, NEW at \in Int, NEW dry, NEW t \in Nat,
         r.health # "quarantined"
  PROVE  Moves(r, AfterWeekly(r, seq, s, at, dry, t), t)
<1> DEFINE b == [r EXCEPT !.weekly = seq]
           c == [b EXCEPT !.resetAt = at]
<1>1. b \in Record /\ Alike(r, b)
  BY Zenon DEF Record, Alike
<1>2. c \in Record /\ c.resetAt = at /\ c.health = r.health
  BY Zenon, <1>1 DEF Record
<1>3. AfterWeekly(r, seq, s, at, dry, t) =
        IF Crossed(b, s, t) THEN CrossedDeadline(b)
        ELSE IF at <= t THEN EnterAwaiting(c)
        ELSE IF MayConfirm(b, s, dry) THEN Confirmed(b, at)
        ELSE b
  BY DEF AfterWeekly
<1> HIDE DEF b, c
<1>4. CASE Crossed(b, s, t)
  <2>1. Moves(b, CrossedDeadline(b), t)
    BY <1>1, <1>4, EnterAwaitingMoves DEF Crossed, Expired
  <2> QED
    BY <1>1, <1>3, <1>4, <2>1, MovesAlike
<1>5. CASE ~Crossed(b, s, t) /\ at <= t
  <2>1. EnterAwaiting(c).health = c.health /\ EnterAwaiting(c).reset = "awaiting"
        /\ EnterAwaiting(c).resetAt = c.resetAt
    BY <1>2 DEF EnterAwaiting, Record
  <2> QED
    BY <1>2, <1>3, <1>5, <2>1 DEF Moves
<1>6. CASE ~Crossed(b, s, t) /\ ~(at <= t) /\ MayConfirm(b, s, dry)
  <2>1. Confirmed(b, at).health = "healthy" /\ Confirmed(b, at).reset = "confirmed"
        /\ Confirmed(b, at).resetAt = at
    BY <1>1 DEF Confirmed, CancelRetries, Record
  <2> QED
    BY <1>3, <1>6, <2>1 DEF Moves, HasFutureReset, HasKnownReset
<1>7. CASE ~Crossed(b, s, t) /\ ~(at <= t) /\ ~MayConfirm(b, s, dry)
  BY <1>1, <1>3, <1>7 DEF Moves
<1> QED
  BY <1>4, <1>5, <1>6, <1>7

\* A roster entry: nothing, quarantine, or recovery from it.
LEMMA AfterEntryMoves ==
  ASSUME NEW r \in Record, NEW e, NEW sentinel, NEW t
  PROVE  LET s == AfterEntry(r, e, sentinel, t)
         IN  \/ Alike(r, s)
             \/ s.health = "quarantined"
             \/ r.health = "quarantined" /\ s.health = "recovering"
<1> DEFINE p == IF e.priority = 0 THEN NoPriority ELSE e.priority
           b == [r EXCEPT !.current = p]
           c == IF e.bad THEN Quarantined(b)
                ELSE IF b.health = "quarantined" /\ Evidence(b.sentinelAt, e.touched)
                     THEN Recovered(b, t)
                     ELSE b
           d == IF NeedsSentinel(c, sentinel) THEN [c EXCEPT !.sentinelReady = FALSE] ELSE c
<1>1. AfterEntry(r, e, sentinel, t) = d
  BY DEF AfterEntry
<1>2. /\ Alike(r, b)
      /\ DOMAIN b = DOMAIN r
  BY DEF Alike, Record
<1>3. \/ Alike(r, c)
      \/ c.health = "quarantined"
      \/ r.health = "quarantined" /\ c.health = "recovering"
  <2>1. Quarantined(b).health = "quarantined"
    BY DEF Quarantined, CancelRetries, Record
  <2>2. Recovered(b, t).health = "recovering"
    BY DEF Recovered, Record
  <2> QED
    BY <1>2, <2>1, <2>2 DEF Alike
<1>4. Alike(c, d)
  <2>1. c.health = d.health /\ c.reset = d.reset /\ c.resetAt = d.resetAt
    BY DEF Quarantined, CancelRetries, Recovered, Record
  <2> QED
    BY <2>1 DEF Alike
<1> QED
  BY <1>1, <1>3, <1>4 DEF Alike

----------------------------------------------------------------------------
\* All of them.

\* An account out of the roster is a new one, for all its owner can tell.
Forgotten ==
  \A a \in Accounts \ roster : acct[a].health = "healthy" /\ acct[a].reset = "unknown"

\* A step that keeps the roster and the clock, and moves the accounts of the roster.
Lawful ==
  /\ roster' = roster
  /\ now' = now
  /\ \A a \in Accounts : /\ Moves(acct[a], acct'[a], now)
                         /\ a \notin roster => Alike(acct[a], acct'[a])

\* Such a step is a change that owners know of.
LEMMA LawfulLives ==
  ASSUME TypeOK, TypeOK', Forgotten, Lawful
  PROVE  Owner!Next /\ Forgotten'
<1>1. Forgotten'
  BY DEF Forgotten, Lawful, Alike
<1>2. ASSUME NEW a \in Accounts
      PROVE  Owner!Lives(a)
  <2>1. acct[a] \in Record /\ acct'[a] \in Record
    BY DEF TypeOK
  <2>2. Moves(acct[a], acct'[a], now) /\ (a \notin roster => Alike(acct[a], acct'[a]))
    BY DEF Lawful
  <2>3. roster' = roster /\ now' = now /\ now \in Nat
    BY DEF Lawful, TypeOK
  <2> QED
    BY <2>1, <2>2, <2>3
    DEF Owner!Lives, Owner!Appears, Owner!Vanishes, Owner!IsRanked, Owner!Expires,
        Owner!IsQuarantined, Owner!Recovers, Owner!Rests, Owner!Becomes, Owner!Never,
        Life, Until, NoTime, Moves, Alike, HasFutureReset, HasKnownReset, Record,
        Healths, ResetStates
<1> QED
  BY <1>1, <1>2 DEF Owner!Next, Owner!Change, Lawful

\* Records that stay as they are.
LEMMA SameLawful ==
  ASSUME TypeOK, UNCHANGED <<roster, now, acct>>
  PROVE  Lawful
  BY DEF Lawful, Moves, Alike

\* Every record stays alike.
LEMMA AlikeLawful ==
  ASSUME UNCHANGED <<roster, now>>, \A a \in Accounts : Alike(acct[a], acct'[a])
  PROVE  Lawful
  BY DEF Lawful, Moves

\* One record of the roster moves.
LEMMA OneLawful ==
  ASSUME TypeOK, UNCHANGED <<roster, now>>, NEW x, NEW r,
         acct' = [acct EXCEPT ![x] = r],
         x \in roster => Moves(acct[x], r, now),
         x \in Accounts \ roster => Alike(acct[x], r)
  PROVE  Lawful
<1>1. \A a \in Accounts : acct'[a] = IF a = x THEN r ELSE acct[a]
  BY DEF TypeOK
<1> QED
  BY <1>1 DEF Lawful, Moves, Alike

\* Demotion moves records, and leaves those alone that are not ranked.
LEMMA AllDemotedMoves ==
  ASSUME TypeOK, NEW a \in Accounts, NEW records \in Records
  PROVE  /\ Moves(records[a], AllDemoted(records)[a], now)
         /\ records[a].reset = "unknown" \/ records[a].health # "healthy"
              => AllDemoted(records)[a] = records[a]
<1>1. records[a] \in Record /\ now \in Nat
  BY DEF Records, TypeOK
<1> QED
  BY <1>1, DemotedMoves DEF AllDemoted, Demoted, Expired, HasKnownReset

\* The first critical section of a flush: demotion, then bookkeeping.
LEMMA FlushPlanLawful ==
  ASSUME TypeOK, Forgotten, NEW t \in Threads, FlushPlan(t)
  PROVE  Lawful
<1> DEFINE demoted == AllDemoted(acct)
           ranked == Ranked(demoted)
           collected == IF frame[t].mode = "none" THEN {}
                        ELSE {a \in roster : Collects(ranked[a])}
<1>1. demoted \in Records
  BY AllDemotedType DEF Records, TypeOK
<1>2. ranked \in Records
  BY <1>1, RankedType
<1>3. \A a \in Accounts : Alike(demoted[a], ranked[a])
  <2> HIDE DEF demoted
  <2> QED
    BY <1>1, BookkeepingAlike DEF Ranked, Records
<1>4. acct' = [a \in Accounts |-> IF a \in collected THEN Collected(ranked[a]) ELSE ranked[a]]
  BY DEF FlushPlan
<1>5. \A a \in Accounts : /\ Moves(acct[a], demoted[a], now)
                          /\ a \notin roster => Alike(acct[a], demoted[a])
  <2>1. acct \in Records
    BY DEF Records, TypeOK
  <2> QED
    BY <2>1, AllDemotedMoves DEF Forgotten, Alike
<1> HIDE DEF demoted, ranked, collected
<1>6. \A a \in Accounts : Alike(ranked[a], acct'[a])
  BY <1>2, <1>4, BookkeepingAlike DEF Records
<1>7. \A a \in Accounts : Alike(demoted[a], acct'[a])
  BY <1>3, <1>6 DEF Alike
<1>8. \A a \in Accounts : /\ Moves(acct[a], acct'[a], now)
                          /\ a \notin roster => Alike(acct[a], acct'[a])
  BY <1>5, <1>7, MovesAlike DEF Alike
<1> QED
  BY <1>8 DEF Lawful, FlushPlan, world

\* The last one.
LEMMA FlushArmLawful ==
  ASSUME TypeOK, Forgotten, NEW t \in Threads, FlushArm(t) \/ FlushAgain(t)
  PROVE  Lawful
<1> DEFINE settled == Settled(acct, t)
           armed == {a \in Accounts : ValidRetries(t, a) # {}}
<1>1. acct \in Records
  BY DEF Records, TypeOK
<1>2. settled \in Records
  BY <1>1, SettledType
<1>3. \A a \in Accounts : Alike(acct[a], settled[a])
  BY <1>1, BookkeepingAlike DEF Settled, Records
<1> HIDE DEF settled, armed
<1>4. CASE FlushArm(t)
  <2>1. acct' = [a \in Accounts |->
                   IF a \in armed
                   THEN [StartRetries(settled[a], now) EXCEPT !.wantRetry = FALSE]
                   ELSE settled[a]]
    BY <1>4 DEF FlushArm, settled, armed
  <2>2. \A a \in Accounts : Alike(settled[a], acct'[a])
    <3> SUFFICES ASSUME NEW a \in Accounts PROVE Alike(settled[a], acct'[a])
      OBVIOUS
    <3>1. settled[a] \in Record /\ now \in Nat
      BY <1>2 DEF Records, TypeOK
    <3>2. StartRetries(settled[a], now) \in Record
      BY <3>1, StartRetriesType
    <3>3. Alike(settled[a], StartRetries(settled[a], now))
      BY <3>1, BookkeepingAlike
    <3>4. Alike(StartRetries(settled[a], now),
                [StartRetries(settled[a], now) EXCEPT !.wantRetry = FALSE])
      BY <3>2, BookkeepingAlike
    <3>5. Alike(settled[a], settled[a])
      BY DEF Alike
    <3> QED
      BY <2>1, <3>3, <3>4, <3>5 DEF Alike
  <2>3. \A a \in Accounts : Alike(acct[a], acct'[a])
    BY <1>3, <2>2 DEF Alike
  <2> QED
    BY <1>4, <2>3, AlikeLawful DEF FlushArm, world
<1>5. CASE FlushAgain(t)
  <2>1. acct' = AllDemoted(settled)
    BY <1>5 DEF FlushAgain, settled
  <2>2. \A a \in Accounts :
          /\ Moves(settled[a], acct'[a], now)
          /\ settled[a].reset = "unknown" => acct'[a] = settled[a]
    BY <1>2, <2>1, AllDemotedMoves
  <2>3. \A a \in Accounts : /\ Moves(acct[a], acct'[a], now)
                            /\ a \notin roster => Alike(acct[a], acct'[a])
    BY <1>3, <2>2, MovesAlike DEF Forgotten, Alike
  <2> QED
    BY <1>5, <2>3 DEF Lawful, FlushAgain, world
<1> QED
  BY <1>4, <1>5

\* Noting a priority.
LEMMA NotedLawful ==
  ASSUME TypeOK, UNCHANGED <<roster, now>>, NEW i, NEW saved \in BOOLEAN, acct' = Noted(i, saved)
  PROVE  Lawful
<1>1. CASE i.acct \in roster
  <2>1. acct[i.acct] \in Record
    BY <1>1 DEF TypeOK
  <2>2. Alike(acct[i.acct], AfterWrite(acct[i.acct], i.desired, saved, cfg.sentinel, now))
    BY <2>1, BookkeepingAlike
  <2>3. acct' = [acct EXCEPT ![i.acct] =
                   AfterWrite(acct[i.acct], i.desired, saved, cfg.sentinel, now)]
    BY <1>1 DEF Noted
  <2> QED
    BY <2>2, <2>3, OneLawful DEF Moves
<1>2. CASE i.acct \notin roster
  BY <1>2, SameLawful DEF Noted
<1> QED
  BY <1>1, <1>2

\* All of a flush.
LEMMA FlushStepLawful ==
  ASSUME TypeOK, Forgotten, NEW t \in Threads, FlushStep(t)
  PROVE  Lawful
<1>1. CASE FlushStopped(t) \/ WriteSkip(t) \/ WriteRead(t) \/ WriteReadFails(t)
           \/ WriteRefused(t) \/ WriteAdmit(t) \/ WriteSaveFails(t)
  BY <1>1, SameLawful
  DEF FlushStopped, WriteSkip, WriteRead, WriteReadFails, WriteRefused, WriteAdmit,
      WriteSaveFails, world
<1>2. CASE WriteNoOp(t) \/ WriteSaved(t)
  BY <1>2, NotedLawful DEF WriteNoOp, WriteSaved, world
<1> QED
  BY <1>1, <1>2, FlushPlanLawful, FlushArmLawful DEF FlushStep

----------------------------------------------------------------------------
\* Fetches.

\* A failed attempt.
LEMMA AfterFailedTryLawful ==
  ASSUME TypeOK, UNCHANGED <<roster, now>>, NEW t \in Threads, NEW a,
         acct' = AfterFailedTry(t, a)
  PROVE  Lawful
<1>1. CASE Current(t, a) /\ acct[a].started = try[t].seq
  <2>1. a \in roster /\ acct[a] \in Record /\ acct[a].health # "quarantined" /\ now \in Nat
    BY <1>1 DEF Current, TypeOK
  <2>2. Moves(acct[a], AfterFailure(acct[a], try[t].startedAt, now), now)
    BY <2>1, AfterFailureMoves
  <2>3. acct' = [acct EXCEPT ![a] = AfterFailure(acct[a], try[t].startedAt, now)]
    BY <1>1 DEF AfterFailedTry
  <2> QED
    BY <2>1, <2>2, <2>3, OneLawful
<1>2. CASE ~(Current(t, a) /\ acct[a].started = try[t].seq)
  BY <1>2, SameLawful DEF AfterFailedTry
<1> QED
  BY <1>1, <1>2

\* An answer.
LEMMA ApplyAnswerLawful ==
  ASSUME TypeOK, NEW t \in Threads, ApplyAnswer(t)
  PROVE  Lawful
<1> DEFINE a == Target(t)
<1>1. acct' = [acct EXCEPT ![a] = AfterAnswer(t, a)] /\ UNCHANGED <<roster, now>>
  BY DEF ApplyAnswer, world
<1> HIDE DEF a
<1>2. CASE Current(t, a)
  <2>1. a \in roster /\ acct[a] \in Record /\ acct[a].health # "quarantined" /\ now \in Nat
    BY <1>2 DEF Current, TypeOK
  <2>2. try[t].seq \in Nat /\ try[t].at \in Int
    BY DEF TypeOK, Tries
  <2>3. Moves(acct[a], AfterFailure(acct[a], try[t].startedAt, now), now)
    BY <2>1, AfterFailureMoves
  <2>4. Moves(acct[a], AfterWeekly(acct[a], try[t].seq, try[t].startedAt, try[t].at,
                                   cfg.dryRun, now), now)
    BY <2>1, <2>2, AfterWeeklyMoves
  <2>5. Moves(acct[a], AfterAnswer(t, a), now)
    <3>1. Moves(acct[a], acct[a], now)
      BY DEF Moves, Alike
    <3> QED
      BY <2>3, <2>4, <3>1 DEF AfterAnswer
  <2> QED
    BY <1>1, <2>1, <2>5, OneLawful
<1>3. CASE ~Current(t, a)
  BY <1>1, <1>3, OneLawful DEF AfterAnswer, Moves, Alike
<1> QED
  BY <1>2, <1>3

\* Every step of a fetch.
LEMMA FetchStepLawful ==
  ASSUME TypeOK, NEW t \in Threads, FetchStep(t)
  PROVE  Lawful
<1>1. CASE FetchQuit(t) \/ AdmitRestart(t) \/ AdmitRefused(t) \/ CallReturns(t)
  BY <1>1, SameLawful DEF FetchQuit, AdmitRestart, AdmitRefused, CallReturns, world
<1>2. CASE FetchExpired(t) \/ AdmitExpired(t)
  <2> DEFINE a == Target(t)
  <2>1. /\ acct' = [acct EXCEPT ![a] = EnterAwaiting(acct[a])] /\ UNCHANGED <<roster, now>>
        /\ a \in roster /\ Expired(acct[a], now)
    BY <1>2 DEF FetchExpired, AdmitExpired, Fetchable, Current, world
  <2>2. acct[a] \in Record /\ now \in Nat
    BY <2>1 DEF TypeOK
  <2>3. Moves(acct[a], EnterAwaiting(acct[a]), now)
    BY <2>1, <2>2, EnterAwaitingMoves DEF Expired
  <2> QED
    BY <2>1, <2>3, OneLawful
<1>3. CASE FetchStart(t)
  <2> DEFINE a == Target(t)
  <2>1. UNCHANGED <<roster, now>> /\ a \in Accounts
    BY <1>3 DEF FetchStart, Fetchable, TypeOK, world
  <2>2. acct' = [acct EXCEPT ![a] = [acct[a] EXCEPT !.started = @ + 1]]
    BY <1>3, <2>1 DEF FetchStart, TypeOK
  <2>3. Alike(acct[a], [acct[a] EXCEPT !.started = @ + 1])
    BY <2>1, BookkeepingAlike DEF TypeOK
  <2> QED
    BY <2>1, <2>2, <2>3, OneLawful DEF Moves
<1>4. CASE AdmitCall(t)
  <2> DEFINE a == Target(t)
             owed == acct[a].needsImmediate /\ acct[a].reset # "awaiting"
  <2>1. UNCHANGED <<roster, now>> /\ a \in Accounts
    BY <1>4 DEF AdmitCall, Current, TypeOK, world
  <2>2. acct' = [acct EXCEPT ![a] = [acct[a] EXCEPT !.needsImmediate = owed]]
    BY <1>4, <2>1 DEF AdmitCall, TypeOK
  <2>3. Alike(acct[a], [acct[a] EXCEPT !.needsImmediate = owed])
    BY <2>1, BookkeepingAlike DEF TypeOK
  <2> QED
    BY <2>1, <2>2, <2>3, OneLawful DEF Moves
<1>5. CASE ReadFails(t) \/ ApplyError(t)
  BY <1>5, AfterFailedTryLawful DEF ReadFails, ApplyError, world
<1> QED
  BY <1>1, <1>2, <1>3, <1>4, <1>5, ApplyAnswerLawful DEF FetchStep

----------------------------------------------------------------------------
\* Passes, callbacks and everybody else.

\* The steps of a pass that keep the roster.
LEMMA PassStepLawful ==
  ASSUME TypeOK, PassStep, ~PassPrune, ~PassRoster
  PROVE  Lawful
<1>1. \A a \in Accounts : acct[a] \in Record /\ now \in Nat
  BY DEF TypeOK
<1>2. CASE PassRefused \/ PassList \/ PassListSkips \/ PassListFails \/ PassFetchAll
  BY <1>2, SameLawful
  DEF PassRefused, PassList, PassListSkips, PassListFails, PassFetchAll, world
<1>3. CASE PassBegin
  <2>1. UNCHANGED <<roster, now>>
    BY <1>3 DEF PassBegin, world
  <2>2. \A a \in Accounts : acct'[a] \in {acct[a], Reserved(acct[a])}
    BY <1>3 DEF PassBegin
  <2>3. \A a \in Accounts : Alike(acct[a], acct'[a])
    BY <1>1, <2>2, BookkeepingAlike
  <2> QED
    BY <2>1, <2>3, AlikeLawful
<1>4. CASE PassAbandon \/ PassDefer \/ PassJoin
  <2>1. UNCHANGED <<roster, now>> /\ acct' = ReleasedAll(acct)
    BY <1>4 DEF PassAbandon, PassDefer, PassJoin, world
  <2>2. \A a \in Accounts : Alike(acct[a], acct'[a])
    BY <1>1, <2>1, BookkeepingAlike DEF ReleasedAll
  <2> QED
    BY <2>1, <2>2, AlikeLawful
<1>5. CASE PassTail
  <2>1. UNCHANGED <<roster, now>> /\ acct' = [a \in Accounts |-> WithRecoveryRetries(acct[a])]
    BY <1>5 DEF PassTail, world
  <2>2. ASSUME NEW a \in Accounts
        PROVE  Alike(acct[a], WithRecoveryRetries(acct[a]))
    <3>1. StartRetries(acct[a], now) \in Record /\ Alike(acct[a], StartRetries(acct[a], now))
      BY <1>1, BookkeepingAlike, StartRetriesType
    <3>2. Alike(StartRetries(acct[a], now),
                [StartRetries(acct[a], now) EXCEPT !.wantRetry = FALSE])
      BY <3>1, BookkeepingAlike
    <3>3. Alike(acct[a], [StartRetries(acct[a], now) EXCEPT !.wantRetry = FALSE])
      BY <3>1, <3>2 DEF Alike
    <3>4. Alike(acct[a], acct[a]) /\ Alike(acct[a], [acct[a] EXCEPT !.wantRetry = FALSE])
      BY <1>1, BookkeepingAlike
    <3> QED
      BY <3>3, <3>4 DEF WithRecoveryRetries
  <2> QED
    BY <2>1, <2>2, AlikeLawful
<1> QED
  BY <1>2, <1>3, <1>4, <1>5 DEF PassStep

\* The callbacks read records and never write them.
LEMMA WorkerStepLawful ==
  ASSUME TypeOK, NEW w \in Workers, WorkerStep(w)
  PROVE  Lawful
  BY SameLawful
  DEF WorkerStep, RetryDropped, RetryBegin, RetryRecheck, DeadlineDropped, DeadlineBegin,
      PollDropped, PollBegin, ProbeChanged, ProbeSame, ProbeFails, PollEnd, world

\* Reconfiguration, stop and refresh cancel retries and intents only.
LEMMA AdminStepLawful ==
  ASSUME TypeOK, AdminStep
  PROVE  Lawful
<1>1. \A a \in Accounts : acct[a] \in Record
  BY DEF TypeOK
<1>2. ASSUME Quieted, UNCHANGED <<roster, now>>
      PROVE  Lawful
  <2>1. \A a \in Accounts : acct'[a] \in {acct[a], CancelRetries(acct[a])}
    BY <1>2 DEF Quieted
  <2>2. \A a \in Accounts : Alike(acct[a], acct'[a])
    BY <1>1, <2>1, BookkeepingAlike
  <2> QED
    BY <1>2, <2>2, AlikeLawful
<1>3. CASE Reconfigure \/ Refresh
  BY <1>3, SameLawful DEF Reconfigure, Refresh
<1>4. CASE Publish
  <2>1. UNCHANGED <<roster, now>>
    BY <1>4 DEF Publish, world
  <2>2. \A a \in Accounts : acct'[a] \in {acct[a], OptedOut(acct[a])}
    BY <1>4 DEF Publish
  <2>3. \A a \in Accounts : Alike(acct[a], acct'[a])
    BY <1>1, <2>2, BookkeepingAlike
  <2> QED
    BY <2>1, <2>3, AlikeLawful
<1>5. CASE DisableGeneration
  BY <1>2, <1>5, SameLawful DEF DisableGeneration, world
<1>6. CASE Stop
  BY <1>2, <1>6 DEF Stop
<1> QED
  BY <1>3, <1>4, <1>5, <1>6 DEF AdminStep

\* What the host does reaches a record only through a pass.
LEMMA HostStepLawful ==
  ASSUME TypeOK, HostStep
  PROVE  Lawful
  BY SameLawful DEF HostStep

----------------------------------------------------------------------------
\* The steps that do not keep the roster or the clock.

\* Opted-out accounts vanish.
LEMMA PruneLives ==
  ASSUME TypeOK, Forgotten, PassPrune
  PROVE  Owner!Next /\ Forgotten'
<1>1. /\ roster' \subseteq roster /\ now' = now
      /\ acct' = [a \in Accounts |-> IF a \in roster' THEN acct[a] ELSE NewAccount]
  BY DEF PassPrune, world
<1>2. Forgotten'
  BY <1>1 DEF Forgotten, NewAccount
<1>3. ASSUME NEW a \in Accounts
      PROVE  Owner!Lives(a)
  BY <1>1 DEF Owner!Lives, Owner!Vanishes, Owner!Rests, Owner!Becomes, Owner!Never, Life,
              Until, NoTime
<1> QED
  BY <1>1, <1>2, <1>3 DEF Owner!Next, Owner!Change

\* A roster is applied: accounts appear, vanish, are quarantined or recover, and what
\* has expired meanwhile is demoted.
LEMMA RosterLives ==
  ASSUME TypeOK, TypeOK', Forgotten, PassRoster
  PROVE  Owner!Next /\ Forgotten'
<1> DEFINE kept == {e.acct : e \in EntriesKept}
           targets == {a \in kept : RosterRecord(a).health # "quarantined"}
           claimed == [a \in Accounts |-> Rereserved(RosterRecord(a), a \in targets)]
<1>1. /\ roster' = kept /\ now' = now
      /\ acct' = claimed \/ acct' = AllDemoted(claimed)
  BY DEF PassRoster, world
<1>2. \A a \in Accounts : claimed[a] \in {Reserved(RosterRecord(a)), Released(RosterRecord(a))}
  BY DEF Rereserved
<1>3. claimed \in Records
  BY RosterRecordType, ReservedType, ReleasedType DEF Rereserved, Records
<1> HIDE DEF targets, claimed
<1>4. \A a \in Accounts : Alike(RosterRecord(a), claimed[a])
  BY <1>2, RosterRecordType, BookkeepingAlike
<1>5. \A a \in Accounts : /\ Moves(claimed[a], acct'[a], now)
                          /\ claimed[a].reset = "unknown" \/ claimed[a].health # "healthy"
                               => acct'[a] = claimed[a]
  <2>1. \A a \in Accounts : Moves(claimed[a], claimed[a], now)
    BY DEF Moves, Alike
  <2> QED
    BY <1>1, <1>3, <2>1, AllDemotedMoves
<1>6. ASSUME NEW a \in Accounts \ kept
      PROVE  acct'[a].health = "healthy" /\ acct'[a].reset = "unknown"
  <2>1. RosterRecord(a) = NewAccount
    BY <1>6 DEF RosterRecord
  <2> QED
    BY <1>4, <1>5, <2>1 DEF NewAccount, Alike
<1>7. ASSUME NEW a \in kept, a \in Accounts
      PROVE  \/ Alike(acct[a], claimed[a])
             \/ claimed[a].health = "quarantined"
             \/ acct[a].health = "quarantined" /\ claimed[a].health = "recovering"
  <2> DEFINE e == CHOOSE x \in EntriesKept : x.acct = a
  <2>1. RosterRecord(a) = AfterEntry(acct[a], e, cfg.sentinel, now)
    BY <1>7 DEF RosterRecord
  <2> HIDE DEF e
  <2>2. acct[a] \in Record
    BY <1>7 DEF TypeOK
  <2>3. LET s == RosterRecord(a)
        IN  \/ Alike(acct[a], s)
            \/ s.health = "quarantined"
            \/ acct[a].health = "quarantined" /\ s.health = "recovering"
    BY <2>1, <2>2, AfterEntryMoves
  <2> QED
    BY <1>4, <1>7, <2>3 DEF Alike
<1>8. ASSUME NEW a \in Accounts
      PROVE  Owner!Lives(a)
  <2>1. acct[a] \in Record /\ acct'[a] \in Record /\ claimed[a] \in Record /\ now \in Nat
    BY <1>3 DEF TypeOK, Records
  <2>2. CASE a \notin kept
    BY <1>1, <2>2
    DEF Owner!Lives, Owner!Vanishes, Owner!Becomes, Owner!Never, Life, Until, NoTime
  <2>3. CASE a \in kept /\ a \notin roster
    <3>1. acct[a].health = "healthy" /\ acct[a].reset = "unknown"
      BY <2>3 DEF Forgotten
    <3>2. \/ claimed[a].health = "healthy" /\ claimed[a].reset = "unknown"
          \/ claimed[a].health = "quarantined"
      BY <1>7, <2>3, <3>1 DEF Alike
    <3>3. \/ acct'[a].health = "healthy" /\ acct'[a].reset = "unknown"
          \/ acct'[a].health = "quarantined"
      BY <1>5, <3>2
    <3> QED
      BY <1>1, <2>3, <3>3
      DEF Owner!Lives, Owner!Appears, Owner!Becomes, Owner!Never, Life, Until, NoTime
  <2>4. CASE a \in kept /\ a \in roster
    <3>1. \/ Moves(acct[a], acct'[a], now)
          \/ acct'[a].health = "quarantined"
          \/ acct[a].health = "quarantined" /\ acct'[a].health = "recovering"
      <4>1. CASE Alike(acct[a], claimed[a])
        BY <1>5, <4>1, MovesAlike
      <4>2. CASE claimed[a].health # "healthy" /\ ~Alike(acct[a], claimed[a])
        BY <1>5, <1>7, <2>4, <4>2
      <4> QED
        BY <1>7, <2>4, <4>1, <4>2
    <3> QED
      BY <1>1, <2>1, <2>4, <3>1
      DEF Owner!Lives, Owner!IsRanked, Owner!Expires, Owner!IsQuarantined, Owner!Recovers,
          Owner!Rests, Owner!Becomes, Owner!Never, Life, Until, NoTime, Moves, Alike,
          HasFutureReset, HasKnownReset, Record, Healths, ResetStates
  <2> QED
    BY <2>2, <2>3, <2>4
<1>9. Forgotten'
  BY <1>1, <1>6 DEF Forgotten
<1> QED
  BY <1>1, <1>8, <1>9 DEF Owner!Next, Owner!Change

\* Time goes by, and nothing else.
LEMMA TickLives ==
  ASSUME TypeOK, Forgotten, Tick
  PROVE  Owner!Next /\ Forgotten'
<1>1. /\ roster' = roster /\ now' = now + 1
      /\ acct' = [a \in Accounts |-> [acct[a] EXCEPT !.ladder = @ \ {now + 1}]]
  BY DEF Tick
<1>2. \A a \in Accounts : Alike(acct[a], acct'[a])
  BY <1>1, BookkeepingAlike DEF TypeOK
<1>3. \A a \in Accounts : Life(a)' = Life(a) /\ Until(a)' = Until(a)
  BY <1>1, <1>2 DEF Life, Until, Alike
<1>4. Forgotten'
  BY <1>1, <1>2 DEF Forgotten, Alike
<1>5. Owner!Tick
  BY <1>1, <1>3 DEF Owner!Tick
<1> QED
  BY <1>4, <1>5 DEF Owner!Next

----------------------------------------------------------------------------
\* The theorem.

\* A step keeps the forgotten new, and the lives lawful.
LEMMA NextLawful ==
  ASSUME TypeOK, TypeOK', Forgotten, [Next]_vars
  PROVE  [Owner!Next]_(Owner!vars) /\ Forgotten'
<1>1. CASE PassStep
  BY <1>1, PassStepLawful, LawfulLives, PruneLives, RosterLives
<1>2. CASE ThreadStep
  BY <1>2, FlushStepLawful, FetchStepLawful, LawfulLives DEF ThreadStep
<1>3. CASE CallbackStep
  BY <1>3, WorkerStepLawful, LawfulLives DEF CallbackStep
<1>4. CASE Tick
  BY <1>4, TickLives
<1>5. CASE AdminStep
  BY <1>5, AdminStepLawful, LawfulLives
<1>6. CASE HostStep
  BY <1>6, HostStepLawful, LawfulLives
<1>7. CASE UNCHANGED vars
  <2>1. Lawful
    BY <1>7, SameLawful DEF vars
  <2> QED
    BY <2>1, LawfulLives
<1> QED
  BY <1>1, <1>2, <1>3, <1>4, <1>5, <1>6, <1>7 DEF Next, Asleep

\* An account out of the roster is a new one.
LEMMA ForgottenHolds == Spec => []Forgotten
<1>1. Init => Forgotten
  BY DEF Init, Forgotten, NewAccount
<1> QED
  BY <1>1, NextLawful, TypesHold, PTL DEF Spec

\* The engine implements Credential: under any schedule of passes, callbacks,
\* reconfigurations, faults and late answers, no account is ranked by a reset that
\* has passed, and none leaves quarantine but through recovery.
THEOREM LivesByTheRulesHolds == Spec => LivesByTheRules
<1>1. Init => Owner!Init
  BY DEF Init, Owner!Init, Owner!Never, Life, Until, NoTime, NewAccount
<1> QED
  BY <1>1, NextLawful, ForgottenHolds, TypesHold, PTL DEF Spec, LivesByTheRules, Owner!Spec
=============================================================================
