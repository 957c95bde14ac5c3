---------------------------- MODULE EngineState ----------------------------
(***************************************************************************)
(* The state of one reset-priority engine (internal/engine/engine.go), the *)
(* host it runs in, and the vocabulary the engine's actions share.         *)
(*                                                                         *)
(* An action is one critical section of Engine.mu together with the        *)
(* acquisition of an outer lock before it and its release after it: nothing *)
(* another goroutine can see happens in between.  Host callbacks and       *)
(* provider calls are the gaps between two actions of one thread.          *)
(*                                                                         *)
(* Threads: Pass is the goroutine inside Reconcile (reconcileMu lets one   *)
(* in), Fetcher(a) the goroutine fetchAll starts for account a, Worker(i)  *)
(* a goroutine that runs a timer callback or an immediate retry.           *)
(***************************************************************************)
EXTENDS Account, Ranking

CONSTANTS
  Accounts,        \* auth indexes, numbered from 1 in the order of their file names
  ProviderOf,      \* Accounts -> provider
  NumWorkers,      \* goroutines running callbacks at one time (a bound)
  Configs,         \* the configurations that may be published
  InitialConfig,
  MaxFetches,      \* maxConcurrentFetches
  PollInterval,    \* healthPollInterval
  ReconcileInterval,
  Answers,         \* the resets a provider may report, besides none and error
  Horizon,         \* the last instant (a bound)
  Budget           \* how often each outside event may happen (a bound)

Config ==
  [enabled : BOOLEAN, dryRun : BOOLEAN, managed : SUBSET {ProviderOf[a] : a \in Accounts},
   sentinel : Nat, floor : Nat, step : Nat]

Budgets == [config : Nat, stop : Nat, refresh : Nat, fault : Nat,
            health : Nat, edit : Nat]

ASSUME AccountsAreNumbers == Accounts \subseteq Nat \ {0} /\ IsFiniteSet(Accounts)
ASSUME ConfigsAreValid ==
  /\ Configs \subseteq Config
  /\ InitialConfig \in Config
  /\ \A c \in Configs \cup {InitialConfig} : c.sentinel < c.floor /\ c.step > 0
ASSUME BoundsAreNumbers ==
  /\ NumWorkers \in Nat /\ MaxFetches \in Nat \ {0}
  /\ PollInterval \in Nat \ {0} /\ ReconcileInterval \in Nat \ {0}
  /\ Answers \subseteq Nat /\ Horizon \in Nat /\ Budget \in Budgets

Pass == <<"pass", 0>>
Fetcher(a) == <<"fetch", a>>
Worker(i) == <<"work", i>>
Nobody == <<"nobody", 0>>

Fetchers == {Fetcher(a) : a \in Accounts}
Workers == {Worker(i) : i \in 1 .. NumWorkers}
Threads == {Pass} \cup Fetchers \cup Workers

VARIABLES
  now,        \* the clock
  cfg, configSeq, stopped,
  roster,     \* the keys of e.accounts
  acct,       \* their records (NewAccount where there is none)
  deadline,   \* [seq, at]: deadlineSeq, nextDeadlineAt (NoTime: no timer)
  poll,       \* [seq, at]: healthPollSeq and when its timer is due
  nextPass,   \* when the interval timer is due
  passes,     \* calls of Reconcile not yet inside
  pending,    \* callbacks started, still to take Engine.mu for the first time
  pc,         \* where each thread is
  frame,      \* each thread's flushInternal frame
  try,        \* each thread's fetchAttempt, and the answer it got
  job,        \* the callback each worker runs
  pass,       \* Reconcile's locals
  item,       \* the write item in hand; writeMu's holder has it
  writeMu,    \* the holder of writeMu
  slots,      \* the threads that hold a slot of fetchSem
  admin,      \* [at, disabling, overtaken]: a Reconfigure at its barriers, the
              \* generations whose Reconfigure is in stopDisabledGeneration, and
              \* (history) whether one was enabled over one of those
  forgotten,  \* (history) the accounts whose record was ever deleted
  disk,       \* the physical priority of each auth file
  host,       \* the host's runtime record of each auth
  listed,     \* the auths host.auth.list returns
  budget

vars == <<now, cfg, configSeq, stopped, roster, acct, deadline, poll, nextPass,
          passes, pending, pc, frame, try, job, pass, item, writeMu, slots,
          admin, forgotten, disk, host, listed, budget>>

\* Groups of variables an action leaves alone together.
settings == <<cfg, configSeq, stopped, admin, forgotten>>
timers == <<poll, nextPass>>
world == <<now, disk, host, listed, budget>>

----------------------------------------------------------------------------
\* Values.

Items ==
  [acct : Accounts, desired : Int, health : Healths, seq : Nat]

NoItem == [acct |-> 0, desired |-> NoPriority, health |-> "healthy", seq |-> 0,
           found |-> NoPriority]

RetrySchedules ==
  [acct : Accounts, epoch : Nat, retrySeq : Nat, immediate : BOOLEAN]

Probes == [acct : Accounts, health : Healths, sentinelAt : Int]

NoFrame == [ret |-> "idle", mode |-> "none", plan |-> {}, retries |-> {},
            demoted |-> {}]

NoTry == [epoch |-> 0, seq |-> 0, configSeq |-> 0, startedAt |-> 0,
          answer |-> "none", at |-> NoTime]

NoJob == [kind |-> "none", acct |-> 0, seq |-> 0, probes |-> {}]

NoPass == [entries |-> {}, reserved |-> {}]

RetryJob(a, seq) == [kind |-> "retry", acct |-> a, seq |-> seq, probes |-> {}]
DeadlineJob(seq) == [kind |-> "deadline", acct |-> 0, seq |-> seq, probes |-> {}]
PollJob(seq) == [kind |-> "poll", acct |-> 0, seq |-> seq, probes |-> {}]

----------------------------------------------------------------------------
\* Conditions the actions share.

Manages(c, a) == ProviderOf[a] \in c.managed

\* The account a fetching thread works for, and the sequence it must match.
Target(t) == IF t \in Fetchers THEN t[2] ELSE job[t].acct

OwnedByPass(t) == t \in Fetchers

MatchesRetry(t, a) == OwnedByPass(t) \/ acct[a].retrySeq = job[t].seq

Free(t) == writeMu \in {Nobody, t}

\* ProviderCallMu and saveMu are held exactly in these places.
CallInFlight == \E t \in Threads : pc[t] = "calling"
SaveInFlight == \E t \in Threads : pc[t] = "saving"

\* A waiting writer of the RWMutex lets no new reader in.
CallsBarred == admin.at = "publish"

\* Start flushInternal in a mode, to come back to a place.
CallFlush(t, mode, ret) ==
  /\ pc' = [pc EXCEPT ![t] = "flush"]
  /\ frame' = [frame EXCEPT ![t] = [NoFrame EXCEPT !.mode = mode, !.ret = ret]]

Spend(what) == budget[what] > 0 /\ budget' = [budget EXCEPT ![what] = @ - 1]
=============================================================================
