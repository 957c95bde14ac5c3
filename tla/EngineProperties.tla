-------------------------- MODULE EngineProperties --------------------------
(***************************************************************************)
(* What must hold of Engine.                                               *)
(***************************************************************************)
EXTENDS Engine

Places ==
  {"idle", "flush", "write", "admit", "saving", "arm",
   "fetch", "reading", "calling", "apply",
   "prune", "list", "roster", "defer", "fetching", "waiting", "tail",
   "recheck", "probe"}

Frames ==
  [ret : Places, mode : {"none", "immediate", "delayed"}, plan : SUBSET Items,
   retries : SUBSET RetrySchedules, demoted : SUBSET (Accounts \X Nat)]

Tries ==
  [epoch : Nat, seq : Nat, configSeq : Nat, startedAt : Nat,
   answer : {"weekly", "none", "error"}, at : Int]

Jobs ==
  [kind : {"none", "retry", "deadline", "poll"}, acct : Accounts \cup {0},
   seq : Nat, probes : SUBSET Probes]

Runtimes == [bad : BOOLEAN, touched : Nat, by : {"host", "plugin"}]

RosterEntries ==
  [acct : Accounts, bad : BOOLEAN, touched : Nat, by : {"host", "plugin"}, priority : Int]

ItemsFound ==
  [acct : Accounts, desired : Int, health : Healths, seq : Nat, found : Int]

\* Every variable holds a value of its kind.
TypeOK ==
  /\ now \in Nat
  /\ cfg \in Configs \cup {InitialConfig}
  /\ configSeq \in Nat
  /\ stopped \in BOOLEAN
  /\ roster \subseteq Accounts
  /\ acct \in [Accounts -> Record]
  /\ deadline \in [seq : Nat, at : Int]
  /\ poll \in [seq : Nat, at : Int]
  /\ nextPass \in Int
  /\ passes \in Nat
  /\ pending \subseteq Jobs
  /\ pc \in [Threads -> Places]
  /\ frame \in [Threads -> Frames]
  /\ try \in [Threads -> Tries]
  /\ job \in [Threads -> Jobs]
  /\ pass \in [entries : SUBSET RosterEntries, reserved : SUBSET Accounts]
  /\ item \in ItemsFound \cup {NoItem}
  /\ writeMu \in Threads \cup {Nobody}
  /\ slots \subseteq Threads
  /\ admin \in [at : {"idle", "publish"}, disabling : SUBSET Nat, overtaken : BOOLEAN]
  /\ forgotten \subseteq Accounts
  /\ disk \in [Accounts -> Int]
  /\ host \in [Accounts -> Runtimes]
  /\ listed \subseteq Accounts
  /\ budget \in Budgets

----------------------------------------------------------------------------
\* The barriers.

\* A save in flight is one the configuration in force, in live mode, allows:
\* neither Reconfigure nor Stop can return with a stale save to follow, though
\* the item was planned, revalidated and read long before.
SaveAuthorized ==
  \A t \in Threads : pc[t] = "saving" =>
    /\ item.seq = configSeq
    /\ ~stopped
    /\ ~cfg.dryRun
    /\ Manages(cfg, item.acct)

\* A provider call in flight belongs to the configuration in force and to a
\* provider it manages: no opted-out call starts or survives a Reconfigure.
CallAuthorized ==
  \A t \in Threads : pc[t] = "calling" =>
    /\ try[t].configSeq = configSeq
    /\ Manages(cfg, Target(t))

\* What is being saved fits the account's health now: a rank only for a healthy
\* account, the sentinel only for one that is not, never for one that has
\* left the roster.
SaveFitsHealth ==
  \A t \in Threads : pc[t] = "saving" =>
    LET r == acct[item.acct]
    IN  /\ item.acct \in roster
        /\ r.health = item.health
        /\ IF r.health = "healthy" THEN item.desired >= cfg.floor
           ELSE item.desired = cfg.sentinel

----------------------------------------------------------------------------
\* One account's life, as module Credential tells it.

Life(a) ==
  IF a \notin roster THEN "absent"
  ELSE IF acct[a].health # "healthy" THEN acct[a].health
  ELSE IF acct[a].reset = "unknown" THEN "unknown"
  ELSE IF acct[a].reset = "awaiting" THEN "expired"
  ELSE "ranked"

Until(a) == IF Life(a) \in {"ranked", "expired"} THEN acct[a].resetAt ELSE NoTime

Owner == INSTANCE Credential WITH
  Credentials <- Accounts, clock <- now,
  life <- [a \in Accounts |-> Life(a)], until <- [a \in Accounts |-> Until(a)]

\* Whatever passes, callbacks, retries, late answers and lost saves do, in whatever
\* order, each account lives as Credential says: above all it is never ranked by a
\* reset that has passed, and never leaves quarantine but through recovery.
LivesByTheRules == Owner!Spec

----------------------------------------------------------------------------
\* Promotions.

\* No callback has failed yet.
Faultless == budget.fault = Budget.fault

Weekly(t, a) == pc[t] = "apply" /\ Target(t) = a /\ try[t].answer = "weekly"

\* An account whose window has expired is ranked again only on the answer to a
\* request that began at or after that window's reset, unless its record has been
\* deleted and made again (ObsoleteFailsClosed says what may then happen).
ConfirmedByNewRequest ==
  [][\A a \in Accounts \ forgotten :
       acct[a].reset = "awaiting" /\ acct'[a].reset = "confirmed" =>
         \E t \in Threads : Weekly(t, a) /\ try[t].startedAt >= acct[a].lapsedAt]_vars

\* The file holds this priority, or none if the operator has been at the files.
Unedited == budget.edit = Budget.edit

Stands(a, priority) == disk[a] = priority \/ (~Unedited /\ disk[a] = NoPriority)

\* An account leaves recovery only on a request begun in this recovery, and in
\* live mode only with the sentinel in its file, whatever was being written, answered
\* or listed meanwhile (an operator may have edited it away, nobody else).
PromotedBehindSentinel ==
  [][\A a \in roster \cap roster' :
       acct[a].health = "recovering" /\ acct'[a].health = "healthy" =>
         /\ cfg.dryRun \/ Stands(a, cfg.sentinel)
         /\ \E t \in Threads : Weekly(t, a) /\ try[t].startedAt >= acct[a].recoveredAt]_vars

SelfRecovers(a) ==
  /\ a \in roster \cap roster'
  /\ acct[a].health = "quarantined" /\ acct'[a].health = "recovering"
  /\ \E e \in pass.entries : e.acct = a /\ e.by = "plugin"

\* An account never leaves quarantine on a runtime record that is active only
\* because this plugin's own save rebuilt it.
NoSelfRecovery == [][\A a \in Accounts : ~SelfRecovers(a)]_vars

\* Nothing outside the engine has meddled: no callback failed, no operator at a file.
Undisturbed == Faultless /\ Unedited

MayWrite == ~stopped /\ ~cfg.dryRun

\* It never does while nothing has meddled and the first configuration is in force: the
\* sentinel's save has been noted, with its time, before any list can show the record it
\* rebuilt, whatever passes, flushes and callbacks run meanwhile.
NoSelfRecoveryUndisturbed ==
  [][Undisturbed /\ MayWrite /\ configSeq = 0 => \A a \in Accounts : ~SelfRecovers(a)]_vars

\* An account in quarantine whose sentinel this plugin has saved is not saved again
\* until the operator has been at the files, however many flushes have planned it.
SentinelSavedOnce ==
  [][\A t \in Threads :
       /\ pc[t] = "admit" /\ pc'[t] = "saving"
       /\ acct[item.acct].health = "quarantined" /\ acct[item.acct].sentinelAt # NoTime
       => ~Unedited]_vars

----------------------------------------------------------------------------
\* Attempts that overlap: a rung of the ladder fires while the last one's request
\* is still out.

InFlight(t) == pc[t] \in {"reading", "calling", "apply"}

\* Of two attempts of one record in flight at once the one started last has the last
\* word: when the older one ends after it, answered or failed, it changes nothing
\* (or finds the newer window expired, too), and the reset an account is ranked by
\* is always that of its newest weekly answer.
NewestAnswerStands ==
  [][\A a \in (roster \cap roster') \ forgotten :
       /\ acct'[a].weekly >= acct[a].weekly
       /\ acct'[a].resetAt \notin {acct[a].resetAt, NoTime} =>
            acct'[a].weekly > acct[a].weekly
       /\ \A t \in Threads :
            InFlight(t) /\ Target(t) = a /\ ~InFlight(t)' /\ try[t].seq < acct[a].weekly =>
              acct'[a] \in {acct[a], Demoted(acct[a], now)}]_vars

\* An attempt changes only the record that began it, never one made again for
\* the same auth index after the first was forgotten.
ObsoleteFailsClosed ==
  [][\A t \in Threads :
       InFlight(t) /\ ~InFlight(t)' /\ try[t].seq > acct[Target(t)].started =>
         acct'[Target(t)] = acct[Target(t)]]_vars

----------------------------------------------------------------------------
\* Provider traffic.

Admitted(t) == pc[t] = "reading" /\ pc'[t] = "calling"

\* While a full pass owns an account's immediate attempt no retry callback
\* reaches the provider for it, unless the callback may be that of a record that
\* has been deleted.
SingleOwner ==
  [][\A w \in Workers : Admitted(w) /\ Target(w) \notin forgotten =>
       ~acct[Target(w)].fetchPending]_vars

\* A request for an account demoted at its deadline reaches the provider only
\* once the demotion is written: not while no write pass planned since has run
\* and the file still ranks the account above its demoted priority.
DemotionBeforeTraffic ==
  [][\A t \in Threads : Admitted(t) =>
       LET a == Target(t)
       IN  ~(/\ acct[a].health = "healthy"
             /\ acct[a].reset = "awaiting"
             /\ acct[a].unwritten
             /\ disk[a] > acct[a].desired)]_vars

----------------------------------------------------------------------------
\* When nothing runs and nothing is about to run.

Quiet == Idle /\ ~stopped

\* The exact-deadline timer stands at the earliest usable reset, and no expired
\* reset is left ranked.
DeadlineArmed ==
  Quiet => /\ deadline.at = EarliestReset(acct)
           /\ \A a \in roster : ~Expired(acct[a], now)

\* While an account is quarantined or recovering the health poll is armed.
PollArmed == Quiet /\ Unhealthy(acct) => poll.at > now

\* It is, unless a configuration was enabled while an older one was still being
\* disabled: whatever passes, polls that overlap them, probes that fail, stops and
\* other reconfigurations do, none leaves an unhealthy account unwatched.
PollArmedUnlessOvertaken == ~admin.overtaken => PollArmed

\* Nobody's intent to retry is lost: an account that needs a fresh answer has
\* retries ahead (the last rung lies beyond Horizon in the instances that check
\* this), and no reservation or intent is left behind by a pass.
NoLostRetry ==
  Quiet => \A a \in roster :
    /\ ~acct[a].fetchPending
    /\ ~acct[a].wantAwaiting
    /\ ~acct[a].wantRetry
    /\ NeedsRetry(acct[a]) /\ acct[a].health # "quarantined" => acct[a].ladder # {}

\* The engine that the configuration in force enables runs, and its next pass is
\* armed, whatever older generations were still being disabled; only Stop silences
\* it.
EnabledRuns ==
  Idle /\ cfg.enabled /\ budget.stop = Budget.stop => ~stopped /\ nextPass > now

\* The priorities wanted are those of the records as they are: every change of
\* an account was followed by a flush.
RanksCurrent ==
  Quiet => \A a \in roster : acct[a].desired = DesiredPriority(acct, a)

\* A full pass has applied a roster and its writes are to come or under way.
Flushing == {"flush", "write", "admit", "saving", "arm"}

Applying ==
  \/ pc[Pass] \in {"fetching", "waiting"}
  \/ pc[Pass] \in Flushing /\ frame[Pass].ret # "list"

\* A configuration has been published and no pass has yet written what it asks for.
Unapplied ==
  /\ configSeq # 0
  /\ \/ passes > 0
     \/ pc[Pass] = "prune"
     \/ pc[Pass] \in Flushing /\ frame[Pass].ret = "list"

\* From the end of the pass that found it so, an account that is not healthy has the
\* sentinel in its file, at every moment and not only at rest: no flush that planned
\* earlier, no save in flight, no late answer puts a rank back.
SentinelStands ==
  Undisturbed /\ MayWrite /\ ~Unapplied /\ ~Applying =>
    \A a \in roster : acct[a].health # "healthy" => disk[a] = cfg.sentinel

Alone(a) == \A b \in Accounts \ {a} : ProviderOf[b] # ProviderOf[a]

\* At rest the file of an account that nobody contests the rank of, because it is
\* demoted or the only one of its provider, holds the priority wanted.
Uncontested ==
  Quiet /\ Undisturbed /\ ~cfg.dryRun =>
    \A a \in roster :
      acct[a].health # "healthy" \/ Alone(a) => disk[a] = acct[a].desired

\* The files hold the priorities wanted, when no callback has failed.
Converged ==
  Quiet /\ ~cfg.dryRun /\ Faultless => \A a \in roster : disk[a] = acct[a].desired

----------------------------------------------------------------------------
\* Fairness: goroutines are scheduled, mutexes are granted, and the host's
\* callbacks and the provider's requests, which have timeouts, return.

FairSpec ==
  /\ Spec
  /\ WF_vars(PassStep)
  /\ \A t \in Threads : WF_vars(FlushStep(t)) /\ WF_vars(FetchStep(t))
  /\ \A w \in Workers : WF_vars(WorkerStep(w))
  /\ WF_vars(Tick)
  /\ WF_vars(Publish)
  /\ WF_vars(DisableGeneration)

\* An expired window leaves the rank pool, whatever the provider does.
ExpiredLeaves ==
  \A a \in Accounts :
    (a \in roster /\ Expired(acct[a], now))
      ~> (stopped \/ a \notin roster \/ ~Expired(acct[a], now))

\* Every requested pass ends.
PassesEnd == (passes > 0) ~> (passes = 0 /\ pc[Pass] = "idle")
=============================================================================
