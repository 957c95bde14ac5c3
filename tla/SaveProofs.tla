----------------------------- MODULE SaveProofs -----------------------------
(***************************************************************************)
(* The two barriers of the engine and what is saved behind them, for any   *)
(* number of accounts, callbacks, configurations and instants.             *)
(*                                                                         *)
(* A save is admitted by a thread that holds writeMu, under the settings   *)
(* in force; Publish waits for it, and Stop and stopDisabledGeneration     *)
(* wait for writeMu.  A call is admitted under the settings in force, and  *)
(* Publish waits for it; the other two may stop the engine during a call,  *)
(* but they change neither the configuration nor its sequence.             *)
(*                                                                         *)
(* A rank planned under the configuration in force fits the health it was  *)
(* planned for; an item in hand comes from a plan; a save is admitted only *)
(* for the health the account has; and while it is in flight nothing       *)
(* changes an account's health or removes it from the roster, because the  *)
(* steps that do so need writeMu.                                          *)
(*                                                                         *)
(* From this follows what stands in the file of an account that returns    *)
(* from recovery, and that a quarantine's sentinel is saved once (at the   *)
(* end of the module).                                                     *)
(***************************************************************************)
EXTENDS EngineTypes

\* Where a thread may go when its flush returns.
Returns == {"idle", "list", "fetching", "tail", "fetch", "recheck"}

\* The threads' variables are functions, and a flush returns to such a place.
Shape ==
  /\ pc = [t \in Threads |-> pc[t]]
  /\ try = [t \in Threads |-> try[t]]
  /\ job = [t \in Threads |-> job[t]]
  /\ frame = [t \in Threads |-> frame[t]]
  /\ \A t \in Threads : "ret" \in DOMAIN frame[t] /\ frame[t].ret \in Returns

\* Between its read and the end of its save a thread holds writeMu.
Locked == \A t \in Threads : pc[t] \in {"admit", "saving"} => writeMu = t

IInv == Shape /\ Locked /\ SaveAuthorized /\ CallAuthorized

\* The absence of a holder is no holder.
LEMMA NobodyIsNoThread == Nobody \notin Threads
  BY DEF Nobody, Threads, Pass, Fetchers, Fetcher, Workers, Worker

\* No thread is given a place in the middle of a save or of a call.
Harmless(q) == q \notin {"admit", "saving", "calling"}

----------------------------------------------------------------------------
\* Steps that admit nothing.

\* A step that only moves threads out of the critical places, and leaves the
\* settings in force, the item and the lock alone, keeps the invariant.
LEMMA MovesAway ==
  ASSUME IInv, Shape', UNCHANGED <<cfg, configSeq, stopped, item, writeMu>>,
         \A t \in Threads :
           \/ Harmless(pc'[t])
           \/ pc'[t] = pc[t] /\ try'[t] = try[t] /\ job'[t] = job[t]
  PROVE  IInv'
<1>1. Locked'
  BY DEF IInv, Locked, Harmless
<1>2. SaveAuthorized'
  BY DEF IInv, SaveAuthorized, Harmless, Manages
<1>3. CallAuthorized'
  BY DEF IInv, CallAuthorized, Harmless, Manages, Target
<1> QED
  BY <1>1, <1>2, <1>3 DEF IInv

\* What CallFlush does to the shape of the threads.
LEMMA FlushCalled ==
  ASSUME Shape, NEW t \in Threads, NEW mode, NEW ret \in Returns, CallFlush(t, mode, ret)
  PROVE  /\ pc' = [u \in Threads |-> IF u = t THEN "flush" ELSE pc[u]]
         /\ frame' = [u \in Threads |-> frame'[u]]
         /\ \A u \in Threads : "ret" \in DOMAIN frame'[u] /\ frame'[u].ret \in Returns
<1> DEFINE f == [NoFrame EXCEPT !.mode = mode, !.ret = ret]
<1>1. "ret" \in DOMAIN f /\ f.ret = ret
  BY DEF NoFrame
<1>2. pc' = [pc EXCEPT ![t] = "flush"] /\ frame' = [frame EXCEPT ![t] = f]
  BY DEF CallFlush
<1> HIDE DEF f
<1>3. frame'[t] = f /\ \A u \in Threads \ {t} : frame'[u] = frame[u]
  BY <1>2 DEF Shape
<1>4. frame' = [u \in Threads |-> frame'[u]]
  BY <1>2 DEF Shape
<1>5. pc' = [u \in Threads |-> IF u = t THEN "flush" ELSE pc[u]]
  BY <1>2 DEF Shape
<1> QED
  BY <1>1, <1>3, <1>4, <1>5 DEF Shape

\* What the return from a flush does to it.
LEMMA FlushReturned ==
  ASSUME Shape, NEW t \in Threads, Return(t)
  PROVE  /\ pc' = [u \in Threads |-> IF u = t THEN frame[t].ret ELSE pc[u]]
         /\ job' = [u \in Threads |-> job'[u]]
         /\ \A u \in Threads \ {t} : job'[u] = job[u]
         /\ frame' = [u \in Threads |-> frame'[u]]
         /\ \A u \in Threads : "ret" \in DOMAIN frame'[u] /\ frame'[u].ret \in Returns
  BY DEF Return, Shape, NoFrame, Returns

\* The full pass is one of the threads.
LEMMA PassIsThread == Pass \in Threads
  BY DEF Threads

----------------------------------------------------------------------------
\* flushInternal and performWrites.

\* The end of an item is the lock's holder's, whether it goes on or gives it back.
LEMMA ItemDone ==
  ASSUME IInv, NEW t \in Threads, NEW i, NextItem(t, i), Free(t),
         pc[t] \in {"write", "admit", "saving"}, UNCHANGED <<settings, try, job>>
  PROVE  IInv'
<1>1. Shape'
  BY DEF NextItem, IInv, Shape
<1>2. \A u \in Threads \ {t} : pc'[u] = pc[u] /\ pc[u] \notin {"admit", "saving"}
  BY NobodyIsNoThread DEF NextItem, IInv, Shape, Locked, Free
<1>3. pc'[t] \in {"write", "arm"}
  BY DEF NextItem, IInv, Shape
<1>4. Locked' /\ SaveAuthorized'
  BY <1>2, <1>3 DEF Locked, SaveAuthorized
<1>5. CallAuthorized'
  BY <1>2, <1>3 DEF IInv, CallAuthorized, Manages, Target, settings
<1> QED
  BY <1>1, <1>4, <1>5 DEF IInv

\* Every step of flushInternal and performWrites.
LEMMA FlushStepKeeps ==
  ASSUME IInv, NEW t \in Threads, FlushStep(t)
  PROVE  IInv'
<1>1. CASE FlushStopped(t)
  BY <1>1, FlushReturned, MovesAway
  DEF FlushStopped, IInv, Shape, Returns, Harmless, settings
<1>2. CASE FlushArm(t)
  BY <1>2, FlushReturned, MovesAway
  DEF FlushArm, IInv, Shape, Returns, Harmless, settings
<1>3. CASE FlushPlan(t)
  BY <1>3, MovesAway DEF FlushPlan, IInv, Shape, Harmless, settings
<1>4. CASE FlushAgain(t)
  BY <1>4, MovesAway DEF FlushAgain, IInv, Shape, Harmless, settings
<1>5. CASE WriteSkip(t) \/ WriteReadFails(t)
  <2>1. Free(t) /\ pc[t] = "write" /\ \E i \in frame[t].plan : NextItem(t, i)
    BY <1>5 DEF WriteSkip, WriteReadFails
  <2>2. UNCHANGED <<settings, try, job>>
    BY <1>5 DEF WriteSkip, WriteReadFails
  <2> QED
    BY <2>1, <2>2, ItemDone
<1>6. CASE WriteNoOp(t) \/ WriteRefused(t) \/ WriteSaved(t) \/ WriteSaveFails(t)
  <2>1. pc[t] \in {"admit", "saving"} /\ NextItem(t, Plain(item))
    BY <1>6 DEF WriteNoOp, WriteRefused, WriteSaved, WriteSaveFails
  <2>2. UNCHANGED <<settings, try, job>>
    BY <1>6 DEF WriteNoOp, WriteRefused, WriteSaved, WriteSaveFails
  <2>3. Free(t)
    BY <2>1 DEF IInv, Locked, Free
  <2> QED
    BY <2>1, <2>2, <2>3, ItemDone
<1>7. CASE WriteRead(t)
  BY <1>7, NobodyIsNoThread
  DEF WriteRead, IInv, Shape, Locked, SaveAuthorized, CallAuthorized, Free, Manages,
      Target, settings
<1>8. CASE WriteAdmit(t)
  BY <1>8
  DEF WriteAdmit, IInv, Shape, Locked, SaveAuthorized, CallAuthorized, AdmitsSave,
      ItemCurrent, Manages, Target, settings
<1> QED
  BY <1>1, <1>2, <1>3, <1>4, <1>5, <1>6, <1>7, <1>8 DEF FlushStep

----------------------------------------------------------------------------
\* fetchOneInternal.

\* What the end of an attempt does to the shape of the threads.
LEMMA TryEnded ==
  ASSUME Shape, NEW t \in Threads, try' = [try EXCEPT ![t] = NoTry]
  PROVE  /\ \A u \in Threads \ {t} : try'[u] = try[u]
         /\ try' = [u \in Threads |-> try'[u]]
  BY DEF Shape

\* What the end of a fetch does to it.
LEMMA FetchEnded ==
  ASSUME Shape, NEW t \in Threads, EndFetch(t)
  PROVE  /\ \A u \in Threads \ {t} : pc'[u] = pc[u] /\ try'[u] = try[u]
         /\ pc' = [u \in Threads |-> pc'[u]] /\ pc'[t] \in {"idle", "flush"}
         /\ try' = [u \in Threads |-> try'[u]]
         /\ frame' = [u \in Threads |-> frame'[u]]
         /\ \A u \in Threads : "ret" \in DOMAIN frame'[u] /\ frame'[u].ret \in Returns
<1>1. CASE OwnedByPass(t)
  BY <1>1, TryEnded DEF EndFetch, Shape
<1>2. CASE ~OwnedByPass(t)
  <2>1. CallFlush(t, "delayed", "idle") /\ "idle" \in Returns
    BY <1>2 DEF EndFetch, Returns
  <2>2. /\ pc' = [u \in Threads |-> IF u = t THEN "flush" ELSE pc[u]]
        /\ frame' = [u \in Threads |-> frame'[u]]
        /\ \A u \in Threads : "ret" \in DOMAIN frame'[u] /\ frame'[u].ret \in Returns
    BY <2>1, FlushCalled
  <2> QED
    BY <2>2, TryEnded DEF EndFetch
<1> QED
  BY <1>1, <1>2

\* What a flush on the way back to the loop does to it.
LEMMA FetchRetries ==
  ASSUME Shape, NEW t \in Threads, FlushAndRetry(t)
  PROVE  /\ \A u \in Threads \ {t} : pc'[u] = pc[u] /\ try'[u] = try[u]
         /\ pc' = [u \in Threads |-> pc'[u]] /\ pc'[t] = "flush"
         /\ try' = [u \in Threads |-> try'[u]]
         /\ frame' = [u \in Threads |-> frame'[u]]
         /\ \A u \in Threads : "ret" \in DOMAIN frame'[u] /\ frame'[u].ret \in Returns
<1>1. CallFlush(t, "none", "fetch") /\ "fetch" \in Returns
  BY DEF FlushAndRetry, Returns
<1>2. /\ pc' = [u \in Threads |-> IF u = t THEN "flush" ELSE pc[u]]
      /\ frame' = [u \in Threads |-> frame'[u]]
      /\ \A u \in Threads : "ret" \in DOMAIN frame'[u] /\ frame'[u].ret \in Returns
  BY <1>1, FlushCalled
<1> QED
  BY <1>2, TryEnded DEF FlushAndRetry

\* Every step of a fetch; AdmitCall is the one that admits.
LEMMA FetchStepKeeps ==
  ASSUME IInv, NEW t \in Threads, FetchStep(t)
  PROVE  IInv'
<1>1. CASE FetchQuit(t) \/ AdmitRefused(t) \/ ReadFails(t) \/ ApplyError(t) \/ ApplyAnswer(t)
  <2>1. EndFetch(t) /\ UNCHANGED <<cfg, configSeq, stopped, item, writeMu, job>>
    BY <1>1 DEF FetchQuit, AdmitRefused, ReadFails, ApplyError, ApplyAnswer, settings
  <2> QED
    BY <2>1, FetchEnded, MovesAway DEF IInv, Shape, Harmless
<1>2. CASE FetchExpired(t) \/ AdmitRestart(t) \/ AdmitExpired(t)
  <2>1. FlushAndRetry(t) /\ UNCHANGED <<cfg, configSeq, stopped, item, writeMu, job>>
    BY <1>2 DEF FetchExpired, AdmitRestart, AdmitExpired, settings
  <2> QED
    BY <2>1, FetchRetries, MovesAway DEF IInv, Shape, Harmless
<1>3. CASE FetchStart(t)
  BY <1>3, MovesAway DEF FetchStart, IInv, Shape, Harmless, settings
<1>4. CASE CallReturns(t)
  BY <1>4, MovesAway DEF CallReturns, IInv, Shape, Harmless, settings
<1>5. CASE AdmitCall(t)
  BY <1>5
  DEF AdmitCall, Current, IInv, Shape, Locked, SaveAuthorized, CallAuthorized, Manages,
      Target, settings
<1> QED
  BY <1>1, <1>2, <1>3, <1>4, <1>5 DEF FetchStep

----------------------------------------------------------------------------
\* Reconcile, and the callbacks.

\* Every step of a full pass.
LEMMA PassStepKeeps ==
  ASSUME IInv, PassStep
  PROVE  IInv'
<1> USE PassIsThread
<1>1. CASE PassPrune \/ PassDefer \/ PassJoin
  <2>1. \E mode \in {"none", "immediate", "delayed"}, ret \in Returns : CallFlush(Pass, mode, ret)
    BY <1>1 DEF PassPrune, PassDefer, PassJoin, Returns
  <2>2. UNCHANGED <<cfg, configSeq, stopped, item, writeMu, try, job>>
    BY <1>1 DEF PassPrune, PassDefer, PassJoin, settings
  <2> QED
    BY <2>1, <2>2, FlushCalled, MovesAway DEF IInv, Shape, Harmless
<1>2. CASE PassRoster
  <2>1. \/ CallFlush(Pass, "none", "fetching")
        \/ pc' = [pc EXCEPT ![Pass] = "fetching"] /\ UNCHANGED frame
    BY <1>2 DEF PassRoster
  <2>2. UNCHANGED <<cfg, configSeq, stopped, item, writeMu, try, job>>
    BY <1>2 DEF PassRoster, settings
  <2>3. CASE CallFlush(Pass, "none", "fetching")
    BY <2>2, <2>3, FlushCalled, MovesAway DEF IInv, Shape, Harmless, Returns
  <2>4. CASE pc' = [pc EXCEPT ![Pass] = "fetching"] /\ UNCHANGED frame
    BY <2>2, <2>4, MovesAway DEF IInv, Shape, Harmless
  <2> QED
    BY <2>1, <2>3, <2>4
<1>3. CASE PassFetchAll
  BY <1>3, MovesAway DEF PassFetchAll, IInv, Shape, Harmless, settings
<1>4. CASE \/ PassRefused \/ PassBegin \/ PassList \/ PassListSkips \/ PassListFails
           \/ PassAbandon \/ PassTail
  <2>1. \/ UNCHANGED pc
        \/ \E q \in {"prune", "roster", "defer", "idle"} : pc' = [pc EXCEPT ![Pass] = q]
    BY <1>4 DEF PassRefused, PassBegin, PassList, PassListSkips, PassListFails,
                PassAbandon, PassTail
  <2>2. UNCHANGED <<cfg, configSeq, stopped, item, writeMu, try, job, frame>>
    BY <1>4 DEF PassRefused, PassBegin, PassList, PassListSkips, PassListFails,
                PassAbandon, PassTail, settings
  <2> QED
    BY <2>1, <2>2, MovesAway DEF IInv, Shape, Harmless
<1> QED
  BY <1>1, <1>2, <1>3, <1>4 DEF PassStep

\* Every step of a callback before it flushes or fetches.
LEMMA WorkerStepKeeps ==
  ASSUME IInv, NEW w \in Workers, WorkerStep(w)
  PROVE  IInv'
<1>1. w \in Threads
  BY DEF Threads
<1>2. UNCHANGED <<cfg, configSeq, stopped, item, writeMu, try>>
  BY DEF WorkerStep, RetryDropped, RetryBegin, RetryRecheck, DeadlineDropped,
         DeadlineBegin, PollDropped, PollBegin, ProbeChanged, ProbeSame, ProbeFails, PollEnd,
      settings
<1>3. CASE RetryBegin(w) \/ DeadlineBegin(w)
  <2>1. \E ret \in Returns : CallFlush(w, "immediate", ret)
    BY <1>3 DEF RetryBegin, DeadlineBegin, Returns
  <2>2. job' = [u \in Threads |-> job'[u]] /\ \A u \in Threads \ {w} : job'[u] = job[u]
    BY <1>3 DEF RetryBegin, DeadlineBegin, IInv, Shape
  <2> QED
    BY <1>1, <1>2, <2>1, <2>2, FlushCalled, MovesAway DEF IInv, Shape, Harmless
<1>4. CASE \/ RetryDropped(w) \/ DeadlineDropped(w) \/ PollDropped(w)
  BY <1>2, <1>4, MovesAway
  DEF RetryDropped, DeadlineDropped, PollDropped, IInv, Shape
<1>5. CASE RetryRecheck(w) \/ PollBegin(w) \/ ProbeChanged(w) \/ PollEnd(w)
  BY <1>1, <1>2, <1>5, MovesAway
  DEF RetryRecheck, PollBegin, ProbeChanged, PollEnd, IInv, Shape, Harmless
<1>6. CASE ProbeSame(w) \/ ProbeFails(w)
  BY <1>1, <1>2, <1>6, MovesAway DEF ProbeSame, ProbeFails, IInv, Shape, Harmless
<1> QED
  BY <1>3, <1>4, <1>5, <1>6 DEF WorkerStep

----------------------------------------------------------------------------
\* Reconfigure, Stop, and what happens outside.

\* Publish changes the settings, with no save and no call in flight.
LEMMA PublishKeeps ==
  ASSUME IInv, Publish
  PROVE  IInv'
<1>1. UNCHANGED <<pc, try, job, frame, item, writeMu>>
  BY DEF Publish
<1>2. \A t \in Threads : pc[t] # "saving" /\ pc[t] # "calling"
  BY DEF Publish, PublishMayEnter, CallInFlight, SaveInFlight
<1> QED
  BY <1>1, <1>2 DEF IInv, Shape, Locked, SaveAuthorized, CallAuthorized

\* Stop and stopDisabledGeneration may stop the engine, with no save in flight.
LEMMA StopKeeps ==
  ASSUME IInv, DisableGeneration \/ Stop
  PROVE  IInv'
<1>1. UNCHANGED <<cfg, configSeq, pc, try, job, frame, item, writeMu>>
  BY DEF DisableGeneration, Stop
<1>2. \A t \in Threads : pc[t] # "saving"
  BY NobodyIsNoThread DEF DisableGeneration, Stop, StopMayEnter, IInv, Locked
<1> QED
  BY <1>1, <1>2
  DEF IInv, Shape, Locked, SaveAuthorized, CallAuthorized, Manages, Target

\* Time, configuration, stop and the host.
LEMMA OutsideKeeps ==
  ASSUME IInv, Tick \/ Reconfigure \/ Refresh \/ HostStep \/ UNCHANGED vars
  PROVE  IInv'
<1>1. UNCHANGED <<cfg, configSeq, stopped, pc, try, job, frame, item, writeMu>>
  BY DEF Tick, Reconfigure, Refresh, HostStep, vars, settings
<1> QED
  BY <1>1 DEF IInv, Shape, Locked, SaveAuthorized, CallAuthorized, Manages, Target

----------------------------------------------------------------------------
\* The invariant is inductive.
THEOREM Invariance == Spec => []IInv
<1>1. Init => IInv
  BY DEF Init, IInv, Shape, NoFrame, Returns, Locked, SaveAuthorized, CallAuthorized
<1>2. IInv /\ [Next]_vars => IInv'
  BY FlushStepKeeps, FetchStepKeeps, PassStepKeeps, WorkerStepKeeps, PublishKeeps,
     StopKeeps, OutsideKeeps
  DEF Next, ThreadStep, CallbackStep, AdminStep, Asleep
<1> QED
  BY <1>1, <1>2, PTL DEF Spec

\* No save in flight is stale, dry, stopped or opted out.
THEOREM SaveAuthorizedHolds == Spec => []SaveAuthorized
<1>1. IInv => SaveAuthorized
  BY DEF IInv
<1> QED
  BY <1>1, Invariance, PTL

\* No provider call in flight belongs to an older configuration.
THEOREM CallAuthorizedHolds == Spec => []CallAuthorized
<1>1. IInv => CallAuthorized
  BY DEF IInv
<1> QED
  BY <1>1, Invariance, PTL

----------------------------------------------------------------------------
\* What is saved.

\* A priority that suits the health it was computed for; the only account of a provider
\* is ranked at the floor.
Suits(c, a, health, priority) ==
  IF health = "healthy" THEN priority >= c.floor /\ (Alone(a) => priority = c.floor)
  ELSE priority = c.sentinel

Fits(c, i) == Suits(c, i.acct, i.health, i.desired)

\* An item is no newer than the n-th configuration c, and if no older it fits.
Sound(c, n, i) == i.seq <= n /\ (i.seq = n => Fits(c, i))

PlansSound == \A t \in Threads : \A i \in frame[t].plan : Sound(cfg, configSeq, i)

ItemSound ==
  \A t \in Threads : pc[t] \in {"admit", "saving"} => Sound(cfg, configSeq, item)

\* A save in flight is for an account of the roster, with the health it has.
SavesKnown ==
  \A t \in Threads : pc[t] = "saving" =>
    item.acct \in roster /\ acct[item.acct].health = item.health

SInv == PlansSound /\ ItemSound /\ SavesKnown

----------------------------------------------------------------------------
\* What a step may do to the plans, the item, the saves and the healths.

\* A plan shrinks, or is made afresh from the records as they are.
PlanStep ==
  \A t \in Threads :
    \/ frame'[t].plan \subseteq frame[t].plan
    \/ /\ frame'[t].plan = WritePlan(Ranked(AllDemoted(acct)))
       /\ UNCHANGED <<cfg, configSeq>>

\* The item in hand stays, or is taken from the plan, with what its file holds.
ItemStep ==
  \A t \in Threads : pc'[t] \in {"admit", "saving"} =>
    \/ /\ pc[t] \in {"admit", "saving"} /\ item' = item
       /\ pc'[t] = "admit" => pc[t] = "admit"
    \/ /\ Plain(item') \in frame[t].plan /\ UNCHANGED <<cfg, configSeq>>
       /\ item'.found = disk'[item'.acct]

\* A save goes on, or is admitted.
SaveStep ==
  \A t \in Threads : pc'[t] = "saving" =>
    item' = item /\ (pc[t] = "saving" \/ WriteAdmit(t))

\* During a save no account loses its place or changes its health.
HealthStep ==
  SaveInFlight => \A a \in roster : a \in roster' /\ acct'[a].health = acct[a].health

\* The priority ranked for an account fits its health.
LEMMA DesiredFits ==
  ASSUME TypeOK, NEW records \in Records, NEW a \in Accounts
  PROVE  Suits(cfg, a, records[a].health, DesiredPriority(records, a))
<1> DEFINE f == [b \in Accounts |-> EntryOf(records, b)]
           G == GroupOf(records, a)
           E == {EntryOf(records, b) : b \in G}
<1>1. G \in SUBSET Accounts
  BY DEF GroupOf, TypeOK
<1>2. E = {f[b] : b \in G}
  BY <1>1
<1>3. Standing(EntryOf(records, a), E) \in Nat
  <2> HIDE DEF f, G
  <2> QED
    BY <1>1, <1>2, StandingType
<1>4. cfg.floor \in Nat /\ cfg.step \in Nat
  BY ConfigsAreValid DEF TypeOK, Config
<1>5. \A n \in Nat : cfg.floor + cfg.step * n >= cfg.floor
  BY <1>4
<1>6. ASSUME Alone(a)
      PROVE  Standing(EntryOf(records, a), E) = 0
  <2>1. G \subseteq {a}
    BY <1>1, <1>6 DEF Alone, GroupOf
  <2>2. E \subseteq {EntryOf(records, a)}
    BY <2>1
  <2>3. ~Precedes(EntryOf(records, a), EntryOf(records, a))
    <3>1. ASSUME NEW n \in Int
          PROVE  ~(n < n)
      OBVIOUS
    <3>2. records[a].resetAt \in Int /\ a \in Int
      BY AccountsAreNumbers DEF Records, Record
    <3> QED
      BY <3>1, <3>2 DEF Precedes, EntryOf
  <2>4. Followers(EntryOf(records, a), E) = {}
    BY <2>2, <2>3 DEF Followers
  <2> QED
    BY <2>4, FS_EmptySet DEF Standing
<1>7. cfg.floor + cfg.step * 0 = cfg.floor
  BY <1>4
<1> HIDE DEF E, f, G
<1>8. DesiredPriority(records, a) =
        IF records[a].health = "healthy"
        THEN cfg.floor + cfg.step * Standing(EntryOf(records, a), E)
        ELSE cfg.sentinel
  BY DEF DesiredPriority, Priority, E, G
<1> QED
  BY <1>3, <1>5, <1>6, <1>7, <1>8 DEF Suits

\* Every item of a fresh plan is sound.
LEMMA FreshPlanSound ==
  ASSUME TypeOK, NEW i \in WritePlan(Ranked(AllDemoted(acct)))
  PROVE  Sound(cfg, configSeq, i)
<1> DEFINE records == AllDemoted(acct)
<1>1. records \in Records
  BY AllDemotedType DEF TypeOK, Records
<1> HIDE DEF records
<1>2. PICK a \in roster :
        i = [acct |-> a, desired |-> Ranked(records)[a].desired,
             health |-> Ranked(records)[a].health, seq |-> configSeq]
  BY DEF WritePlan, records
<1>3. a \in Accounts
  BY DEF TypeOK
<1>4. /\ Ranked(records)[a].desired = DesiredPriority(records, a)
      /\ Ranked(records)[a].health = records[a].health
  BY <1>1, <1>3 DEF Ranked, Records, Record
<1>5. i.seq = configSeq /\ configSeq \in Nat
  BY <1>2 DEF TypeOK
<1>6. /\ i.desired = DesiredPriority(records, a) /\ i.health = records[a].health
      /\ i.acct = a
  BY <1>2, <1>4
<1>7. Fits(cfg, i)
  BY <1>1, <1>3, <1>6, DesiredFits DEF Fits
<1> QED
  BY <1>5, <1>7 DEF Sound

\* A configuration published later leaves an item sound.
LEMMA SoundLater ==
  ASSUME TypeOK, NEW i, i.seq \in Nat, Sound(cfg, configSeq, i),
         UNCHANGED <<cfg, configSeq>> \/ configSeq' = configSeq + 1
  PROVE  Sound(cfg', configSeq', i)
<1>1. CASE UNCHANGED <<cfg, configSeq>>
  BY <1>1
<1>2. CASE configSeq' = configSeq + 1
  <2>1. i.seq < configSeq'
    BY <1>2 DEF Sound, TypeOK
  <2> QED
    BY <2>1, <1>2 DEF Sound, TypeOK
<1> QED
  BY <1>1, <1>2

\* Such steps keep the invariant.
LEMMA StepsKeep ==
  ASSUME TypeOK, SInv, PlanStep, ItemStep, SaveStep, HealthStep,
         UNCHANGED <<cfg, configSeq>> \/ configSeq' = configSeq + 1
  PROVE  SInv'
<1>1. ASSUME NEW t \in Threads, NEW i \in frame'[t].plan
      PROVE  Sound(cfg', configSeq', i)
  <2>1. CASE frame'[t].plan \subseteq frame[t].plan
    <3>1. i \in frame[t].plan
      BY <2>1
    <3>2. i.seq \in Nat
      BY <3>1 DEF TypeOK, Frames, Items
    <3>3. Sound(cfg, configSeq, i)
      BY <3>1 DEF SInv, PlansSound
    <3> QED
      BY <3>2, <3>3, SoundLater
  <2>2. CASE /\ frame'[t].plan = WritePlan(Ranked(AllDemoted(acct)))
             /\ UNCHANGED <<cfg, configSeq>>
    BY <2>2, FreshPlanSound
  <2> QED
    BY <2>1, <2>2 DEF PlanStep
<1>2. ASSUME NEW t \in Threads, pc'[t] \in {"admit", "saving"}
      PROVE  Sound(cfg', configSeq', item')
  <2>1. CASE pc[t] \in {"admit", "saving"} /\ item' = item
    <3>1. Sound(cfg, configSeq, item)
      BY <2>1 DEF SInv, ItemSound
    <3>2. item.seq \in Nat
      BY DEF TypeOK, ItemsFound, NoItem
    <3> QED
      BY <2>1, <3>1, <3>2, SoundLater
  <2>2. CASE Plain(item') \in frame[t].plan /\ UNCHANGED <<cfg, configSeq>>
    <3>1. Sound(cfg, configSeq, Plain(item'))
      BY <2>2 DEF SInv, PlansSound
    <3>2. Sound(cfg, configSeq, item')
      BY <3>1 DEF Sound, Fits, Plain
    <3> QED
      BY <2>2, <3>2
  <2> QED
    BY <1>2, <2>1, <2>2 DEF ItemStep
<1>3. ASSUME NEW t \in Threads, pc'[t] = "saving"
      PROVE  item'.acct \in roster' /\ acct'[item'.acct].health = item'.health
  <2>1. CASE pc[t] = "saving"
    <3>1. item.acct \in roster /\ acct[item.acct].health = item.health
      BY <2>1 DEF SInv, SavesKnown
    <3>2. item.acct \in roster' /\ acct'[item.acct].health = acct[item.acct].health
      BY <2>1, <3>1 DEF HealthStep, SaveInFlight
    <3> QED
      BY <1>3, <3>1, <3>2 DEF SaveStep
  <2>2. CASE WriteAdmit(t)
    BY <2>2 DEF WriteAdmit, AdmitsSave, ItemCurrent
  <2> QED
    BY <1>3, <2>1, <2>2 DEF SaveStep
<1>4. PlansSound'
  BY <1>1 DEF PlansSound
<1>5. ItemSound'
  BY <1>2 DEF ItemSound
<1>6. SavesKnown'
  BY <1>3 DEF SavesKnown
<1> QED
  BY <1>4, <1>5, <1>6 DEF SInv

----------------------------------------------------------------------------
\* What leaves a health alone.

\* Of the changes of a record, those that need no writeMu keep its health.
LEMMA SameHealth ==
  ASSUME NEW r \in Record, NEW t \in Nat
  PROVE  /\ Demoted(r, t).health = r.health
         /\ EnterAwaiting(r).health = r.health
         /\ \A s : AfterFailure(r, s, t).health = r.health
         /\ StartRetries(r, t).health = r.health
         /\ CancelRetries(r).health = r.health
         /\ Reserved(r).health = r.health
         /\ Released(r).health = r.health
         /\ OptedOut(r).health = r.health
         /\ Collected(r).health = r.health
         /\ \A p, saved, sentinel : AfterWrite(r, p, saved, sentinel, t).health = r.health
<1>1. EnterAwaiting(r).health = r.health
  BY DEF EnterAwaiting, Record
<1>2. Demoted(r, t).health = r.health
  BY <1>1 DEF Demoted
<1>3. CrossedDeadline(r).health = r.health
  BY <1>1, EnterAwaitingType DEF CrossedDeadline, Record
<1>4. Degraded(r, t).health = r.health
  BY <1>1 DEF Degraded, Record
<1>5. \A s : AfterFailure(r, s, t).health = r.health
  BY <1>3, <1>4 DEF AfterFailure
<1>6. CancelRetries(r).health = r.health
  BY DEF CancelRetries, Record
<1>7. StartRetries(r, t).health = r.health
  BY <1>6, CancelRetriesType DEF StartRetries, Record
<1>8. Reserved(r).health = r.health
  BY <1>6, CancelRetriesType DEF Reserved, Record
<1>9. Released(r).health = r.health
  BY DEF Released, Record
<1>10. OptedOut(r).health = r.health
  BY <1>6, CancelRetriesType DEF OptedOut, Record
<1>11. Collected(r).health = r.health
  BY DEF Collected, Record
<1>12. \A p, saved, sentinel : AfterWrite(r, p, saved, sentinel, t).health = r.health
  BY DEF AfterWrite, Record
<1> QED
  BY <1>1, <1>2, <1>5, <1>6, <1>7, <1>8, <1>9, <1>10, <1>11, <1>12

\* Every account keeps its place and its health.
HealthsKept == \A a \in roster : a \in roster' /\ acct'[a].health = acct[a].health

Steps == PlanStep /\ ItemStep /\ SaveStep /\ HealthStep

\* Nobody saves while nobody has writeMu.
LEMMA NoSaveUnlocked ==
  ASSUME IInv, writeMu = Nobody
  PROVE  HealthStep
  BY NobodyIsNoThread DEF IInv, Locked, HealthStep, SaveInFlight

\* A step that moves threads elsewhere, and forgets plans at most.
LEMMA MovesElsewhere ==
  ASSUME UNCHANGED item, HealthsKept \/ HealthStep,
         \A t \in Threads : pc'[t] \notin {"admit", "saving"} \/ pc'[t] = pc[t],
         \A t \in Threads : frame'[t].plan \subseteq frame[t].plan
  PROVE  Steps
  BY DEF Steps, PlanStep, ItemStep, SaveStep, HealthStep, HealthsKept

\* A flush that is called, or returns, has no plan.
LEMMA NoPlan ==
  ASSUME TypeOK, NEW t \in Threads,
         Return(t) \/ \E mode \in Modes, ret \in Places : CallFlush(t, mode, ret)
  PROVE  \A u \in Threads : frame'[u].plan \subseteq frame[u].plan
<1>1. NoFrame.plan = {}
  BY DEF NoFrame
<1>2. CASE Return(t)
  BY <1>1, <1>2 DEF Return, TypeOK
<1>3. CASE \E mode \in Modes, ret \in Places : CallFlush(t, mode, ret)
  <2>1. PICK mode \in Modes, ret \in Places : CallFlush(t, mode, ret)
    BY <1>3
  <2>2. [NoFrame EXCEPT !.mode = mode, !.ret = ret].plan = {}
    BY DEF NoFrame
  <2> QED
    BY <2>1, <2>2 DEF CallFlush, TypeOK
<1> QED
  BY <1>2, <1>3

\* Where a flush goes when it is called or returns.
LEMMA FlushPlaces ==
  ASSUME TypeOK, IInv, NEW t \in Threads,
         Return(t) \/ \E mode \in Modes, ret \in Places : CallFlush(t, mode, ret)
  PROVE  \A u \in Threads : pc'[u] \notin {"admit", "saving"} \/ pc'[u] = pc[u]
  BY DEF Return, CallFlush, IInv, Shape, Returns

----------------------------------------------------------------------------
\* flushInternal and performWrites.

\* The end of an item.
LEMMA ItemEnds ==
  ASSUME TypeOK, IInv, NEW t \in Threads, NEW i, NextItem(t, i), Free(t),
         HealthsKept
  PROVE  Steps
<1>1. \A u \in Threads \ {t} : pc'[u] = pc[u] /\ pc[u] \notin {"admit", "saving"}
  BY NobodyIsNoThread DEF NextItem, IInv, Shape, Locked, Free
<1>2. pc'[t] \in {"write", "arm"}
  BY DEF NextItem, TypeOK
<1>3. frame'[t].plan = frame[t].plan \ {i}
  BY DEF NextItem, TypeOK, Frames
<1>4. \A u \in Threads : frame'[u].plan \subseteq frame[u].plan
  BY <1>3 DEF NextItem, TypeOK
<1> QED
  BY <1>1, <1>2, <1>4 DEF Steps, PlanStep, ItemStep, SaveStep, HealthStep, HealthsKept

\* A physical priority that is noted changes no health.
LEMMA NotedHealth ==
  ASSUME TypeOK, NEW i, NEW saved, acct' = Noted(i, saved), UNCHANGED roster
  PROVE  HealthsKept
<1>1. \A a \in Accounts : acct[a] \in Record
  BY DEF TypeOK
<1>2. now \in Nat /\ roster \subseteq Accounts
  BY DEF TypeOK
<1> QED
  BY <1>1, <1>2, SameHealth DEF Noted, HealthsKept, TypeOK

\* Every step of flushInternal and performWrites.
LEMMA FlushSteps ==
  ASSUME TypeOK, IInv, NEW t \in Threads, FlushStep(t)
  PROVE  Steps
<1>1. acct \in Records /\ now \in Nat /\ roster \subseteq Accounts
  BY DEF TypeOK, Records
<1>2. \A records \in Records : \A a \in Accounts :
         AllDemoted(records)[a].health = records[a].health
  BY <1>1, SameHealth DEF AllDemoted, Records
<1>3. \A records \in Records : \A a \in Accounts :
         Settled(records, t)[a].health = records[a].health
  BY DEF Settled, Records, Record
<1>4. \A records \in Records : \A a \in Accounts :
         Ranked(records)[a].health = records[a].health
  BY DEF Ranked, Records, Record
<1>5. Settled(acct, t) \in Records /\ AllDemoted(acct) \in Records
  BY <1>1, SettledType, AllDemotedType
<1>6. CASE FlushStopped(t)
  <2>1. HealthsKept
    BY <1>6 DEF FlushStopped, HealthsKept
  <2> QED
    BY <1>6, <2>1, NoPlan, FlushPlaces, MovesElsewhere DEF FlushStopped
<1>7. CASE FlushArm(t)
  <2> DEFINE armed == {a \in Accounts : ValidRetries(t, a) # {}}
             settled == Settled(acct, t)
  <2>1. acct' = [a \in Accounts |->
                   IF a \in armed
                   THEN [StartRetries(settled[a], now) EXCEPT !.wantRetry = FALSE]
                   ELSE settled[a]]
    BY <1>7 DEF FlushArm
  <2> HIDE DEF armed
  <2>2. \A a \in Accounts : [StartRetries(settled[a], now) EXCEPT !.wantRetry = FALSE].health
                              = settled[a].health
    <3>1. \A a \in Accounts : /\ StartRetries(settled[a], now) \in Record
                              /\ StartRetries(settled[a], now).health = settled[a].health
      BY <1>1, <1>5, StartRetriesType, SameHealth DEF Records
    <3> QED
      BY <3>1 DEF Record
  <2>3. HealthsKept
    <3>1. UNCHANGED roster
      BY <1>7 DEF FlushArm
    <3> QED
      BY <1>1, <1>3, <2>1, <2>2, <3>1 DEF HealthsKept
  <2> QED
    BY <1>7, <2>3, NoPlan, FlushPlaces, MovesElsewhere DEF FlushArm
<1>8. CASE FlushPlan(t)
  <2> DEFINE ranked == Ranked(AllDemoted(acct))
             collected == IF frame[t].mode = "none" THEN {}
                          ELSE {a \in roster : Collects(ranked[a])}
  <2>1. acct' = [a \in Accounts |->
                   IF a \in collected THEN Collected(ranked[a]) ELSE ranked[a]]
    BY <1>8 DEF FlushPlan
  <2>2. ranked \in Records
    BY <1>5, RankedType
  <2>3. \A a \in Accounts : ranked[a].health = acct[a].health
    BY <1>1, <1>2, <1>4, <1>5
  <2>4. \A u \in Threads : \/ frame'[u].plan = WritePlan(ranked)
                           \/ frame'[u].plan = frame[u].plan
    <3> DEFINE planned == WritePlan(ranked)
               held == frame[t].retries \cup {ScheduleOf(a, ranked[a]) : a \in collected}
               lapsed == {<<a, ranked[a].epoch>> :
                            a \in {b \in roster : ranked[b].reset = "awaiting"}}
    <3>1. frame' = [frame EXCEPT ![t].plan = planned, ![t].retries = held,
                                 ![t].demoted = lapsed]
      BY <1>8 DEF FlushPlan
    <3>2. frame \in [Threads -> Frames]
      BY DEF TypeOK
    <3> HIDE DEF planned, held, lapsed
    <3>3. frame'[t].plan = planned /\ \A u \in Threads \ {t} : frame'[u] = frame[u]
      BY <3>1, <3>2 DEF Frames
    <3> QED
      BY <3>3 DEF planned
  <2>5. UNCHANGED <<cfg, configSeq, roster, item>>
    BY <1>8 DEF FlushPlan, settings
  <2>6. PlanStep
    BY <2>4, <2>5 DEF PlanStep
  <2>7. \A u \in Threads : pc'[u] \notin {"admit", "saving"} \/ pc'[u] = pc[u]
    BY <1>8 DEF FlushPlan, TypeOK
  <2> HIDE DEF ranked, collected
  <2>8. HealthsKept
    <3>1. \A a \in Accounts : Collected(ranked[a]).health = ranked[a].health
      BY <1>1, <2>2, SameHealth DEF Records
    <3>2. \A a \in Accounts : acct'[a].health = ranked[a].health
      BY <2>1, <3>1
    <3> QED
      BY <1>1, <2>3, <2>5, <3>2 DEF HealthsKept
  <2> QED
    BY <2>5, <2>6, <2>7, <2>8 DEF Steps, ItemStep, SaveStep, HealthStep, HealthsKept
<1>9. CASE FlushAgain(t)
  <2>1. HealthsKept
    BY <1>1, <1>2, <1>3, <1>5, <1>9 DEF FlushAgain, HealthsKept
  <2>2. \A u \in Threads : pc'[u] \notin {"admit", "saving"} \/ pc'[u] = pc[u]
    BY <1>9 DEF FlushAgain, TypeOK
  <2> QED
    BY <1>9, <2>1, <2>2, MovesElsewhere DEF FlushAgain
<1>10. CASE WriteSkip(t) \/ WriteReadFails(t)
  <2>1. Free(t) /\ (\E i : NextItem(t, i)) /\ UNCHANGED <<acct, roster>>
    BY <1>10 DEF WriteSkip, WriteReadFails
  <2> QED
    BY <2>1, ItemEnds DEF HealthsKept
<1>11. CASE WriteNoOp(t) \/ WriteRefused(t) \/ WriteSaved(t) \/ WriteSaveFails(t)
  <2>1. pc[t] \in {"admit", "saving"} /\ NextItem(t, Plain(item)) /\ UNCHANGED roster
    BY <1>11 DEF WriteNoOp, WriteRefused, WriteSaved, WriteSaveFails
  <2>2. Free(t)
    BY <2>1 DEF IInv, Locked, Free
  <2>3. UNCHANGED acct \/ \E saved : acct' = Noted(item, saved)
    BY <1>11 DEF WriteNoOp, WriteRefused, WriteSaved, WriteSaveFails
  <2>4. HealthsKept
    BY <2>1, <2>3, NotedHealth DEF HealthsKept
  <2> QED
    BY <2>1, <2>2, <2>4, ItemEnds
<1>12. CASE WriteRead(t)
  <2>1. \A u \in Threads \ {t} : pc'[u] = pc[u] /\ pc[u] \notin {"admit", "saving"}
    BY <1>12, NobodyIsNoThread DEF WriteRead, IInv, Shape, Locked, Free
  <2>2. pc'[t] = "admit"
    BY <1>12 DEF WriteRead, TypeOK
  <2>3. Plain(item') \in frame[t].plan
    <3>1. PICK i \in frame[t].plan :
            item' = [acct |-> i.acct, desired |-> i.desired, health |-> i.health,
                     seq |-> i.seq, found |-> disk[i.acct]]
      BY <1>12 DEF WriteRead
    <3>2. i \in Items
      BY DEF TypeOK, Frames
    <3>3. Plain(item') = i
      BY <3>1, <3>2 DEF Plain, Items
    <3> QED
      BY <3>3
  <2>4. item'.found = disk'[item'.acct]
    BY <1>12 DEF WriteRead, world
  <2> QED
    BY <1>12, <2>1, <2>2, <2>3, <2>4
    DEF WriteRead, Steps, PlanStep, ItemStep, SaveStep, HealthStep, settings
<1>13. CASE WriteAdmit(t)
  <2>1. \A u \in Threads : pc'[u] = pc[u] \/ u = t
    BY <1>13 DEF WriteAdmit, TypeOK
  <2> QED
    BY <1>13, <2>1
    DEF WriteAdmit, AdmitsSave, ItemCurrent, Steps, PlanStep, ItemStep, SaveStep, HealthStep
<1> QED
  BY <1>6, <1>7, <1>8, <1>9, <1>10, <1>11, <1>12, <1>13 DEF FlushStep

----------------------------------------------------------------------------
\* fetchOneInternal.

\* One record is replaced by one of the same health.
LEMMA OneHealth ==
  ASSUME TypeOK, UNCHANGED roster, NEW a, NEW r,
         a \in Accounts => r.health = acct[a].health,
         acct' = [acct EXCEPT ![a] = r]
  PROVE  HealthsKept
  BY DEF HealthsKept, TypeOK

\* A failed attempt changes no health.
LEMMA FailureHealth ==
  ASSUME TypeOK, UNCHANGED roster, NEW t \in Threads, NEW a, acct' = AfterFailedTry(t, a)
  PROVE  HealthsKept
<1>1. now \in Nat /\ \A b \in Accounts : acct[b] \in Record
  BY DEF TypeOK
<1>2. a \in Accounts =>
        AfterFailure(acct[a], try[t].startedAt, now).health = acct[a].health
  BY <1>1, SameHealth
<1> QED
  BY <1>2, OneHealth DEF AfterFailedTry, HealthsKept

\* A fetch that returns or starts afresh goes to a harmless place without a plan.
LEMMA FetchMoves ==
  ASSUME TypeOK, NEW t \in Threads, EndFetch(t) \/ FlushAndRetry(t)
  PROVE  /\ \A u \in Threads : pc'[u] \notin {"admit", "saving"} \/ pc'[u] = pc[u]
         /\ \A u \in Threads : frame'[u].plan \subseteq frame[u].plan
<1>1. CASE UNCHANGED frame /\ pc' = [pc EXCEPT ![t] = "idle"]
  BY <1>1 DEF TypeOK
<1>2. CASE \E mode \in Modes, ret \in Places : CallFlush(t, mode, ret)
  <2>1. \A u \in Threads : pc'[u] \notin {"admit", "saving"} \/ pc'[u] = pc[u]
    BY <1>2 DEF CallFlush, TypeOK
  <2> QED
    BY <1>2, <2>1, NoPlan
<1> QED
  BY <1>1, <1>2 DEF EndFetch, FlushAndRetry, Modes, Places

\* Every step of a fetch.
LEMMA FetchSteps ==
  ASSUME TypeOK, IInv, NEW t \in Threads, FetchStep(t)
  PROVE  Steps
<1>1. now \in Nat /\ \A a \in Accounts : acct[a] \in Record
  BY DEF TypeOK
<1>2. UNCHANGED <<roster, item>>
  BY DEF FetchStep, FetchQuit, FetchExpired, FetchStart, AdmitRestart, AdmitRefused,
         AdmitExpired, AdmitCall, CallReturns, ReadFails, ApplyError, ApplyAnswer
<1>3. CASE FetchQuit(t) \/ AdmitRestart(t) \/ AdmitRefused(t)
  <2>1. UNCHANGED acct /\ (EndFetch(t) \/ FlushAndRetry(t))
    BY <1>3 DEF FetchQuit, AdmitRestart, AdmitRefused
  <2> QED
    BY <1>2, <2>1, FetchMoves, MovesElsewhere DEF HealthsKept
<1>4. CASE FetchExpired(t) \/ AdmitExpired(t)
  <2>1. acct' = [acct EXCEPT ![Target(t)] = EnterAwaiting(acct[Target(t)])]
    BY <1>4 DEF FetchExpired, AdmitExpired
  <2>2. HealthsKept
    BY <1>1, <1>2, <2>1, OneHealth, SameHealth
  <2>3. FlushAndRetry(t)
    BY <1>4 DEF FetchExpired, AdmitExpired
  <2> QED
    BY <1>2, <2>2, <2>3, FetchMoves, MovesElsewhere
<1>5. CASE FetchStart(t) \/ AdmitCall(t) \/ CallReturns(t)
  <2>1. \A u \in Threads : pc'[u] \notin {"admit", "saving"} \/ pc'[u] = pc[u]
    BY <1>5 DEF FetchStart, AdmitCall, CallReturns, TypeOK
  <2>2. HealthsKept
    BY <1>1, <1>2, <1>5 DEF FetchStart, AdmitCall, CallReturns, HealthsKept, TypeOK, Record
  <2>3. UNCHANGED frame
    BY <1>5 DEF FetchStart, AdmitCall, CallReturns
  <2> QED
    BY <1>2, <2>1, <2>2, <2>3, MovesElsewhere
<1>6. CASE ReadFails(t) \/ ApplyError(t)
  <2>1. EndFetch(t) /\ acct' = AfterFailedTry(t, Target(t))
    BY <1>6 DEF ReadFails, ApplyError
  <2> QED
    BY <1>2, <2>1, FailureHealth, FetchMoves, MovesElsewhere
<1>7. CASE ApplyAnswer(t)
  <2>1. EndFetch(t) /\ writeMu = Nobody
    BY <1>7 DEF ApplyAnswer, MayApply
  <2> QED
    BY <1>2, <2>1, NoSaveUnlocked, FetchMoves, MovesElsewhere
<1> QED
  BY <1>3, <1>4, <1>5, <1>6, <1>7 DEF FetchStep

----------------------------------------------------------------------------
\* Reconcile.

\* Giving claims back changes no health.
LEMMA ReleasedHealth ==
  ASSUME TypeOK, UNCHANGED roster, acct' = ReleasedAll(acct)
  PROVE  HealthsKept
<1>1. \A a \in Accounts : Released(acct[a]).health = acct[a].health
  BY SameHealth DEF TypeOK
<1> QED
  BY <1>1 DEF ReleasedAll, HealthsKept, TypeOK

\* Every step of a full pass.
LEMMA PassSteps ==
  ASSUME TypeOK, IInv, PassStep
  PROVE  Steps
<1>1. now \in Nat /\ roster \subseteq Accounts /\ \A a \in Accounts : acct[a] \in Record
  BY DEF TypeOK
<1>2. UNCHANGED item
  BY DEF PassStep, PassRefused, PassBegin, PassPrune, PassList, PassListSkips,
         PassListFails, PassAbandon, PassDefer, PassRoster, PassFetchAll, PassJoin, PassTail
<1>3. CASE PassPrune \/ PassRoster
  <2>1. writeMu = Nobody
    BY <1>3 DEF PassPrune, PassRoster
  <2>2. \/ \E mode \in Modes, ret \in Places : CallFlush(Pass, mode, ret)
        \/ pc' = [pc EXCEPT ![Pass] = "fetching"] /\ UNCHANGED frame
    BY <1>3, PassPlaces DEF PassPrune, PassRoster
  <2>3. CASE \E mode \in Modes, ret \in Places : CallFlush(Pass, mode, ret)
    BY <1>2, <2>1, <2>3, NoSaveUnlocked, NoPlan, FlushPlaces, PassPlaces, MovesElsewhere
  <2>4. CASE pc' = [pc EXCEPT ![Pass] = "fetching"] /\ UNCHANGED frame
    <3>1. \A u \in Threads : pc'[u] \notin {"admit", "saving"} \/ pc'[u] = pc[u]
      BY <2>4 DEF TypeOK
    <3> QED
      BY <1>2, <2>1, <2>4, <3>1, NoSaveUnlocked, MovesElsewhere
  <2> QED
    BY <2>2, <2>3, <2>4
<1>4. CASE PassDefer \/ PassJoin
  <2>1. \E mode \in Modes, ret \in Places : CallFlush(Pass, mode, ret)
    BY <1>4, PassPlaces DEF PassDefer, PassJoin
  <2>2. HealthsKept
    BY <1>4, ReleasedHealth DEF PassDefer, PassJoin
  <2> QED
    BY <1>2, <2>1, <2>2, NoPlan, FlushPlaces, PassPlaces, MovesElsewhere
<1>5. CASE PassFetchAll
  <2>1. \A u \in Threads : pc'[u] \notin {"admit", "saving"} \/ pc'[u] = pc[u]
    BY <1>5 DEF PassFetchAll
  <2> QED
    BY <1>2, <1>5, <2>1, MovesElsewhere DEF PassFetchAll, HealthsKept
<1>6. CASE \/ PassRefused \/ PassBegin \/ PassList \/ PassListSkips \/ PassListFails
           \/ PassAbandon \/ PassTail
  <2>1. \/ UNCHANGED pc
        \/ \E q \in {"prune", "roster", "defer", "idle"} : pc' = [pc EXCEPT ![Pass] = q]
    BY <1>6 DEF PassRefused, PassBegin, PassList, PassListSkips, PassListFails,
                PassAbandon, PassTail
  <2>2. \A u \in Threads : pc'[u] \notin {"admit", "saving"} \/ pc'[u] = pc[u]
    BY <2>1 DEF TypeOK
  <2>3. UNCHANGED <<roster, frame>>
    BY <1>6 DEF PassRefused, PassBegin, PassList, PassListSkips, PassListFails,
                PassAbandon, PassTail
  <2>4. CASE PassBegin
    <3>1. \A a \in Accounts : Reserved(acct[a]).health = acct[a].health
      BY <1>1, SameHealth
    <3>2. HealthsKept
      BY <1>1, <2>3, <2>4, <3>1 DEF PassBegin, HealthsKept
    <3> QED
      BY <1>2, <2>2, <2>3, <3>2, MovesElsewhere
  <2>5. CASE PassAbandon
    BY <1>2, <2>2, <2>3, <2>5, ReleasedHealth, MovesElsewhere DEF PassAbandon
  <2>6. CASE PassTail
    <3>1. \A a \in Accounts : WithRecoveryRetries(acct[a]).health = acct[a].health
      <4>1. \A a \in Accounts : /\ StartRetries(acct[a], now) \in Record
                                /\ StartRetries(acct[a], now).health = acct[a].health
        BY <1>1, StartRetriesType, SameHealth
      <4> QED
        BY <1>1, <4>1 DEF WithRecoveryRetries, Record
    <3>2. HealthsKept
      BY <1>1, <2>3, <2>6, <3>1 DEF PassTail, HealthsKept
    <3> QED
      BY <1>2, <2>2, <2>3, <3>2, MovesElsewhere
  <2>7. CASE PassRefused \/ PassList \/ PassListSkips \/ PassListFails
    <3>1. UNCHANGED acct
      BY <2>7 DEF PassRefused, PassList, PassListSkips, PassListFails
    <3> QED
      BY <1>2, <2>2, <2>3, <3>1, MovesElsewhere DEF HealthsKept
  <2> QED
    BY <1>6, <2>4, <2>5, <2>6, <2>7
<1> QED
  BY <1>3, <1>4, <1>5, <1>6 DEF PassStep

----------------------------------------------------------------------------
\* Callbacks and the world outside.

\* Every step of a worker.
LEMMA WorkerSteps ==
  ASSUME TypeOK, IInv, NEW w \in Workers, WorkerStep(w)
  PROVE  Steps
<1>1. w \in Threads
  BY DEF Threads
<1>2. UNCHANGED <<roster, acct, item>>
  BY DEF WorkerStep, RetryDropped, RetryBegin, RetryRecheck, DeadlineDropped,
         DeadlineBegin, PollDropped, PollBegin, ProbeChanged, ProbeSame, ProbeFails, PollEnd
<1>3. CASE RetryBegin(w) \/ DeadlineBegin(w)
  <2>1. \E mode \in Modes, ret \in Places : CallFlush(w, mode, ret)
    BY <1>3, PassPlaces DEF RetryBegin, DeadlineBegin
  <2> QED
    BY <1>1, <1>2, <2>1, NoPlan, FlushPlaces, MovesElsewhere DEF HealthsKept
<1>4. CASE ~(RetryBegin(w) \/ DeadlineBegin(w))
  <2>1. UNCHANGED frame /\ \/ UNCHANGED pc
                           \/ \E q \in {"fetch", "idle", "probe"} : pc' = [pc EXCEPT ![w] = q]
    BY <1>4 DEF WorkerStep, RetryDropped, RetryRecheck, DeadlineDropped,
                PollDropped, PollBegin, ProbeChanged, ProbeSame, ProbeFails, PollEnd
  <2>2. \A u \in Threads : pc'[u] \notin {"admit", "saving"} \/ pc'[u] = pc[u]
    BY <2>1 DEF TypeOK
  <2> QED
    BY <1>2, <2>1, <2>2, MovesElsewhere DEF HealthsKept
<1> QED
  BY <1>3, <1>4

\* Time, the settings and the host.
LEMMA OutsideSteps ==
  ASSUME TypeOK, IInv, Tick \/ AdminStep \/ HostStep \/ UNCHANGED vars
  PROVE  Steps
<1>1. roster \subseteq Accounts /\ \A a \in Accounts : acct[a] \in Record
  BY DEF TypeOK
<1>2. UNCHANGED <<roster, pc, frame, item>>
  BY DEF Tick, AdminStep, Reconfigure, Publish, DisableGeneration, Stop, Refresh,
         HostStep, vars
<1>3. \A a \in Accounts : /\ CancelRetries(acct[a]).health = acct[a].health
                          /\ OptedOut(acct[a]).health = acct[a].health
  <2>1. 0 \in Nat
    OBVIOUS
  <2> QED
    BY Zenon, <1>1, <2>1, SameHealth
<1>4. HealthsKept
  <2>1. CASE Tick
    <3>1. \A a \in Accounts : acct'[a] = [acct[a] EXCEPT !.ladder = @ \ {now + 1}]
      BY <2>1 DEF Tick
    <3> QED
      BY <1>1, <1>2, <3>1 DEF HealthsKept, Record
  <2>2. CASE Publish
    BY <1>1, <1>2, <1>3, <2>2 DEF Publish, HealthsKept
  <2>3. CASE DisableGeneration \/ Stop
    BY <1>1, <1>2, <1>3, <2>3 DEF DisableGeneration, Stop, Quieted, HealthsKept
  <2>4. CASE UNCHANGED acct
    BY <1>2, <2>4 DEF HealthsKept
  <2> QED
    BY <2>1, <2>2, <2>3, <2>4 DEF AdminStep, Reconfigure, Refresh, HostStep, vars
<1> QED
  BY <1>2, <1>4, MovesElsewhere

----------------------------------------------------------------------------
\* The theorem.

\* A step leaves the configuration alone or publishes a later one.
LEMMA LaterSettings ==
  ASSUME [Next]_vars
  PROVE  UNCHANGED <<cfg, configSeq>> \/ configSeq' = configSeq + 1
<1>1. CASE Publish
  BY <1>1 DEF Publish
<1>2. CASE PassStep
  BY <1>2 DEF PassStep, PassRefused, PassBegin, PassPrune, PassList, PassListSkips,
    PassListFails, PassAbandon, PassDefer, PassRoster, PassFetchAll, PassJoin, PassTail,
    settings
<1>3. CASE ThreadStep
  <2>1. PICK t \in Threads : FlushStep(t) \/ FetchStep(t)
    BY <1>3 DEF ThreadStep
  <2>2. CASE FlushStep(t)
    BY <2>2 DEF FlushStep, FlushStopped, FlushPlan, FlushAgain, FlushArm, WriteSkip,
      WriteRead, WriteReadFails, WriteNoOp, WriteRefused, WriteAdmit, WriteSaved,
      WriteSaveFails, settings
  <2>3. CASE FetchStep(t)
    BY <2>3 DEF FetchStep, FetchQuit, FetchExpired, FetchStart, AdmitRestart,
      AdmitRefused, AdmitExpired, AdmitCall, CallReturns, ReadFails, ApplyError,
      ApplyAnswer, settings
  <2> QED
    BY <2>1, <2>2, <2>3
<1>4. CASE CallbackStep
  BY <1>4 DEF CallbackStep, WorkerStep, RetryDropped, RetryBegin, RetryRecheck,
    DeadlineDropped, DeadlineBegin, PollDropped, PollBegin, ProbeChanged, ProbeSame,
    ProbeFails, PollEnd, settings
<1>5. CASE Tick \/ Reconfigure \/ DisableGeneration \/ Stop \/ Refresh \/ HostStep
  BY <1>5 DEF Tick, Reconfigure, DisableGeneration, Stop, Refresh, HostStep, settings
<1>6. CASE UNCHANGED vars
  BY <1>6 DEF vars
<1> QED
  BY <1>1, <1>2, <1>3, <1>4, <1>5, <1>6 DEF Next, AdminStep, Asleep

\* Every step is such a step.
LEMMA NextSteps ==
  ASSUME TypeOK, IInv, [Next]_vars
  PROVE  Steps
  BY FlushSteps, FetchSteps, PassSteps, WorkerSteps, OutsideSteps
  DEF Next, ThreadStep, CallbackStep, Asleep

\* Every step keeps it.
LEMMA NextKeeps ==
  ASSUME TypeOK, IInv, SInv, [Next]_vars
  PROVE  SInv'
  BY NextSteps, LaterSettings, StepsKeep DEF Steps

\* A rank is only ever being saved for a healthy account of the roster, and the
\* sentinel for one that is not: no answer, roster or reconfiguration that
\* comes during a save makes it wrong.
THEOREM SaveFitsHealthHolds == Spec => []SaveFitsHealth
<1>1. Init => SInv
  BY DEF Init, SInv, PlansSound, ItemSound, SavesKnown, NoFrame
<1>2. TypeOK /\ IInv /\ SInv /\ [Next]_vars => SInv'
  BY NextKeeps
<1>3. IInv /\ SInv => SaveFitsHealth
  BY DEF IInv, SaveAuthorized, SInv, ItemSound, SavesKnown, Sound, Fits, Suits, SaveFitsHealth
<1> QED
  BY <1>1, <1>2, <1>3, TypesHold, Invariance, PTL DEF Spec

----------------------------------------------------------------------------
\* Behind the sentinel: a recovering account that is ready to be confirmed has the
\* sentinel in its file.  A save makes it ready, or finds it so; until it is
\* confirmed every other save for it writes the sentinel again, because what is saved
\* fits its health; and from the read of a file to the end of its save nobody but an
\* operator touches the file.

\* Every configuration has the same sentinel: when it changes, an account stays ready by
\* the old one until the next pass compares.
OneSentinel == \A c \in Configs : c.sentinel = InitialConfig.sentinel

\* An account whose file has been demoted, as far as its record knows.
Behind(r) ==
  \/ r.health = "recovering" /\ r.sentinelReady
  \/ r.health = "quarantined" /\ r.sentinelAt # NoTime

BInv ==
  /\ budget.edit <= Budget.edit
  /\ cfg.sentinel = InitialConfig.sentinel
  /\ \A a \in Accounts : Behind(acct[a]) => Stands(a, cfg.sentinel)
  /\ \A t \in Threads : pc[t] = "admit" =>
       item.acct \in Accounts /\ Stands(item.acct, item.found)

\* A record's health stays, and what it knows and wants of its file.
Same(r, s) ==
  /\ s.health = r.health
  /\ s.current = r.current /\ s.desired = r.desired
  /\ s.sentinelReady = r.sentinelReady
  /\ s.sentinelAt = r.sentinelAt

AllSame == \A a \in Accounts : Same(acct[a], acct'[a])

\* A write pass notes what it wrote, or found.
Writes(t) == WriteNoOp(t) \/ WriteSaved(t)

\* Of the changes of a record, those that are nothing to them.
LEMMA SameRecords ==
  ASSUME NEW r \in Record, NEW t \in Nat
  PROVE  /\ Same(r, EnterAwaiting(r)) /\ Same(r, CrossedDeadline(r))
         /\ Same(r, Demoted(r, t))
         /\ \A s : Same(r, AfterFailure(r, s, t))
         /\ Same(r, CancelRetries(r))
         /\ Same(r, StartRetries(r, t))
         /\ Same(r, [StartRetries(r, t) EXCEPT !.wantRetry = FALSE])
         /\ Same(r, Reserved(r))
         /\ Same(r, Released(r))
         /\ Same(r, OptedOut(r))
         /\ Same(r, Collected(r))
<1>1. Same(r, EnterAwaiting(r)) /\ Same(r, CrossedDeadline(r))
  BY DEF Same, EnterAwaiting, CrossedDeadline, Record
<1>2. Same(r, Demoted(r, t))
  BY <1>1 DEF Demoted, Same
<1>3. \A s : Same(r, AfterFailure(r, s, t))
  <2>1. Same(r, Degraded(r, t))
    BY <1>1 DEF Degraded, Same, Record
  <2> QED
    BY <1>1, <2>1 DEF AfterFailure
<1>4. /\ Same(r, CancelRetries(r)) /\ Same(r, StartRetries(r, t))
      /\ Same(r, [StartRetries(r, t) EXCEPT !.wantRetry = FALSE])
  BY DEF Same, StartRetries, CancelRetries, Record
<1>5. Same(r, Reserved(r))
  BY DEF Same, Reserved, CancelRetries, Record
<1>6. Same(r, Released(r)) /\ Same(r, Collected(r))
  BY DEF Same, Released, Collected, Record
<1>7. Same(r, OptedOut(r))
  BY DEF Same, OptedOut, CancelRetries, Record
<1> QED
  BY <1>1, <1>2, <1>3, <1>4, <1>5, <1>6, <1>7

\* One record is replaced by one that is the same.
LEMMA OneSame ==
  ASSUME TypeOK, NEW x, NEW r, acct' = [acct EXCEPT ![x] = r],
         x \in Accounts => Same(acct[x], r)
  PROVE  AllSame
  BY DEF AllSame, Same, TypeOK

\* Ranking changes only what is wanted: the priority its health and rank give each account.
LEMMA PlanKeeps ==
  ASSUME TypeOK, NEW t \in Threads, FlushPlan(t), NEW a \in Accounts
  PROVE  /\ acct'[a].health = acct[a].health /\ acct'[a].current = acct[a].current
         /\ acct'[a].sentinelReady = acct[a].sentinelReady
         /\ acct'[a].sentinelAt = acct[a].sentinelAt
         /\ a \in roster => Suits(cfg, a, acct[a].health, acct'[a].desired)
<1> DEFINE demoted == AllDemoted(acct)
           ranked == Ranked(demoted)
           collected == IF frame[t].mode = "none" THEN {}
                        ELSE {b \in roster : Collects(ranked[b])}
<1>1. acct \in Records /\ now \in Nat
  BY DEF TypeOK, Records
<1>2. demoted \in Records /\ Same(acct[a], demoted[a])
  BY <1>1, AllDemotedType, SameRecords DEF AllDemoted, Records
<1>3. /\ acct' = [b \in Accounts |->
                   IF b \in collected THEN Collected(ranked[b]) ELSE ranked[b]]
      /\ UNCHANGED <<cfg, roster>>
  BY DEF FlushPlan, settings
<1> HIDE DEF demoted
<1>4. ranked \in Records
  BY <1>2, RankedType
<1>5. /\ ranked[a].health = demoted[a].health /\ ranked[a].current = demoted[a].current
      /\ ranked[a].sentinelReady = demoted[a].sentinelReady
      /\ ranked[a].sentinelAt = demoted[a].sentinelAt
      /\ a \in roster => ranked[a].desired = DesiredPriority(demoted, a)
  <2>1. demoted[a] \in Record
    BY <1>2 DEF Records
  <2> QED
    BY <2>1 DEF Ranked, Record
<1>6. a \in roster => Suits(cfg, a, demoted[a].health, ranked[a].desired)
  BY <1>2, <1>5, DesiredFits
<1> HIDE DEF ranked, collected
<1>7. Same(ranked[a], acct'[a])
  BY <1>1, <1>3, <1>4, SameRecords DEF Same, Records
<1> QED
  BY <1>2, <1>5, <1>6, <1>7 DEF Same

\* The rest of a flush, but for what it notes.
LEMMA FlushSame ==
  ASSUME TypeOK, NEW t \in Threads, FlushStep(t), ~Writes(t), ~FlushPlan(t)
  PROVE  AllSame
<1>1. acct \in Records /\ now \in Nat
  BY DEF TypeOK, Records
<1>2. CASE FlushArm(t) \/ FlushAgain(t)
  <2> DEFINE settled == Settled(acct, t)
             armed == {a \in Accounts : ValidRetries(t, a) # {}}
  <2>1. settled \in Records
    BY <1>1, SettledType
  <2>2. \A a \in Accounts : Same(acct[a], settled[a])
    BY <1>1 DEF Settled, Same, Records, Record
  <2>3. \/ acct' = [a \in Accounts |->
                      IF a \in armed
                      THEN [StartRetries(settled[a], now) EXCEPT !.wantRetry = FALSE]
                      ELSE settled[a]]
        \/ acct' = AllDemoted(settled)
    BY <1>2 DEF FlushArm, FlushAgain
  <2> HIDE DEF settled, armed
  <2>4. ASSUME NEW a \in Accounts
        PROVE  Same(settled[a], acct'[a])
    <3>1. settled[a] \in Record
      BY <2>1 DEF Records
    <3>2. /\ Same(settled[a], settled[a])
          /\ Same(settled[a], [StartRetries(settled[a], now) EXCEPT !.wantRetry = FALSE])
          /\ Same(settled[a], Demoted(settled[a], now))
      BY <1>1, <3>1, SameRecords DEF Same
    <3>3. acct'[a] \in {settled[a], Demoted(settled[a], now),
                        [StartRetries(settled[a], now) EXCEPT !.wantRetry = FALSE]}
      BY <2>3 DEF AllDemoted
    <3> QED
      BY <3>2, <3>3
  <2> QED
    BY <2>2, <2>4 DEF AllSame, Same
<1>3. CASE FlushStopped(t) \/ WriteSkip(t) \/ WriteRead(t) \/ WriteReadFails(t)
           \/ WriteRefused(t) \/ WriteAdmit(t) \/ WriteSaveFails(t)
  BY <1>3
  DEF FlushStopped, WriteSkip, WriteRead, WriteReadFails, WriteRefused, WriteAdmit,
      WriteSaveFails, AllSame, Same
<1> QED
  BY <1>2, <1>3 DEF FlushStep, Writes

\* A fetch until it takes its answer.
LEMMA FetchSame ==
  ASSUME TypeOK, NEW t \in Threads, FetchStep(t), ~ApplyAnswer(t)
  PROVE  AllSame
<1> DEFINE a == Target(t)
<1>1. now \in Nat /\ \A b \in Accounts : acct[b] \in Record
  BY DEF TypeOK
<1>2. CASE FetchQuit(t) \/ AdmitRestart(t) \/ AdmitRefused(t) \/ CallReturns(t)
  BY <1>2 DEF FetchQuit, AdmitRestart, AdmitRefused, CallReturns, AllSame, Same
<1>3. CASE FetchExpired(t) \/ AdmitExpired(t)
  <2>1. acct' = [acct EXCEPT ![a] = EnterAwaiting(acct[a])]
    BY <1>3 DEF FetchExpired, AdmitExpired
  <2> QED
    BY <1>1, <2>1, SameRecords, OneSame
<1>4. CASE FetchStart(t) \/ AdmitCall(t)
  <2>1. \A r \in Record : \A d : Same(r, [r EXCEPT !.started = @ + 1])
                               /\ Same(r, [r EXCEPT !.needsImmediate = d])
    BY DEF Same, Record
  <2>2. \/ acct' = [acct EXCEPT ![a] = [acct[a] EXCEPT !.started = @ + 1]]
        \/ \E d : acct' = [acct EXCEPT ![a] = [acct[a] EXCEPT !.needsImmediate = d]]
    <3>1. a \in Accounts
      BY <1>4 DEF FetchStart, AdmitCall, Fetchable, Current, TypeOK
    <3> QED
      BY <1>4, <3>1 DEF FetchStart, AdmitCall, TypeOK
  <2> QED
    BY <1>1, <2>1, <2>2, OneSame
<1>5. CASE ReadFails(t) \/ ApplyError(t)
  <2>1. acct' = AfterFailedTry(t, a)
    BY <1>5 DEF ReadFails, ApplyError
  <2>2. \/ acct' = acct
        \/ acct' = [acct EXCEPT ![a] = AfterFailure(acct[a], try[t].startedAt, now)]
    BY <2>1 DEF AfterFailedTry
  <2>3. a \in Accounts => Same(acct[a], AfterFailure(acct[a], try[t].startedAt, now))
    BY <1>1, SameRecords
  <2> QED
    BY <2>2, <2>3, OneSame DEF AllSame, Same
<1> QED
  BY <1>2, <1>3, <1>4, <1>5 DEF FetchStep

\* A pass, but for the two steps that change the roster.
LEMMA PassSame ==
  ASSUME TypeOK, PassStep, ~PassPrune, ~PassRoster
  PROVE  AllSame
<1>1. now \in Nat /\ \A b \in Accounts : acct[b] \in Record
  BY DEF TypeOK
<1>2. CASE PassRefused \/ PassList \/ PassListSkips \/ PassListFails \/ PassFetchAll
  BY <1>2 DEF PassRefused, PassList, PassListSkips, PassListFails, PassFetchAll, AllSame, Same
<1>3. CASE PassBegin
  BY <1>1, <1>3, SameRecords DEF PassBegin, AllSame, Same
<1>4. CASE PassAbandon \/ PassDefer \/ PassJoin
  <2>1. acct' = ReleasedAll(acct)
    BY <1>4 DEF PassAbandon, PassDefer, PassJoin
  <2> QED
    BY <1>1, <2>1, SameRecords DEF ReleasedAll, AllSame, Same
<1>5. CASE PassTail
  <2>1. \A a \in Accounts : Same(acct[a], WithRecoveryRetries(acct[a]))
    <3>1. \A a \in Accounts : Same(acct[a], [acct[a] EXCEPT !.wantRetry = FALSE])
      BY <1>1 DEF Same, Record
    <3> QED
      BY <1>1, <3>1, SameRecords DEF WithRecoveryRetries, Same
  <2> QED
    BY <1>5, <2>1 DEF PassTail, AllSame
<1> QED
  BY <1>2, <1>3, <1>4, <1>5 DEF PassStep

\* Time, callbacks, settings and the host.
LEMMA OtherSame ==
  ASSUME TypeOK, CallbackStep \/ Tick \/ AdminStep \/ HostStep \/ UNCHANGED vars
  PROVE  AllSame
<1>1. now \in Nat /\ \A b \in Accounts : acct[b] \in Record
  BY DEF TypeOK
<1>2. CASE CallbackStep
  BY <1>2
  DEF CallbackStep, WorkerStep, RetryDropped, RetryBegin, RetryRecheck, DeadlineDropped,
      DeadlineBegin, PollDropped, PollBegin, ProbeChanged, ProbeSame, ProbeFails, PollEnd,
      AllSame, Same
<1>3. CASE Tick
  BY <1>1, <1>3 DEF Tick, AllSame, Same, Record
<1>4. CASE Publish
  BY <1>1, <1>4, SameRecords DEF Publish, AllSame, Same
<1>5. CASE DisableGeneration \/ Stop
  BY <1>1, <1>5, SameRecords DEF DisableGeneration, Stop, Quieted, AllSame, Same
<1>6. CASE Reconfigure \/ Refresh \/ HostStep \/ UNCHANGED vars
  BY <1>6 DEF Reconfigure, Refresh, HostStep, vars, AllSame, Same
<1> QED
  BY <1>2, <1>3, <1>4, <1>5, <1>6 DEF AdminStep

\* A roster entry makes nobody ready, and promotes nobody.
LEMMA EntryKeeps ==
  ASSUME NEW r \in Record, NEW e, NEW sentinel, NEW t
  PROVE  LET s == AfterEntry(r, e, sentinel, t)
         IN  /\ Behind(s) => Behind(r)
             /\ r.health = "recovering" => s.health # "healthy"
<1> DEFINE p == IF e.priority = 0 THEN NoPriority ELSE e.priority
           b == [r EXCEPT !.current = p]
           c == IF e.bad THEN Quarantined(b)
                ELSE IF b.health = "quarantined" /\ Evidence(b.sentinelAt, e.touched)
                     THEN Recovered(b, t)
                     ELSE b
<1>1. /\ b.health = r.health /\ b.sentinelReady = r.sentinelReady
      /\ b.sentinelAt = r.sentinelAt /\ DOMAIN b = DOMAIN r
  BY DEF Record
<1>2. {"health", "sentinelReady", "sentinelAt"} \subseteq DOMAIN b
  BY <1>1 DEF Record
<1> HIDE DEF b
<1>3. /\ Quarantined(b).health = "quarantined"
      /\ \/ Quarantined(b).sentinelAt = NoTime
         \/ b.health = "quarantined" /\ Quarantined(b).sentinelAt = b.sentinelAt
  BY <1>1, <1>2 DEF Quarantined, CancelRetries, Record
<1>4. Recovered(b, t).health = "recovering" /\ ~Recovered(b, t).sentinelReady
  BY <1>1, <1>2 DEF Recovered, Record
<1>5. /\ Behind(c) => Behind(r)
      /\ r.health = "recovering" => c.health # "healthy"
  BY <1>1, <1>3, <1>4 DEF Behind
<1>6. AfterEntry(r, e, sentinel, t)
        = IF NeedsSentinel(c, sentinel) THEN [c EXCEPT !.sentinelReady = FALSE] ELSE c
  BY DEF AfterEntry, b
<1> HIDE DEF c
<1>7. /\ [c EXCEPT !.sentinelReady = FALSE].health = c.health
      /\ [c EXCEPT !.sentinelReady = FALSE].sentinelAt = c.sentinelAt
      /\ [c EXCEPT !.sentinelReady = FALSE].sentinelReady => c.sentinelReady
  OBVIOUS
<1> QED
  BY <1>5, <1>6, <1>7 DEF Behind

\* The roster's steps make nobody ready, and promote none of those that stay.
LEMMA RosterKeeps ==
  ASSUME TypeOK, PassPrune \/ PassRoster, NEW a \in Accounts
  PROVE  /\ Behind(acct'[a]) => Behind(acct[a])
         /\ a \in roster' /\ acct[a].health = "recovering" => acct'[a].health # "healthy"
<1>1. ~Behind(NewAccount)
  BY DEF Behind, NewAccount
<1>2. CASE PassPrune
  BY <1>1, <1>2 DEF PassPrune
<1>3. CASE PassRoster
  <2> DEFINE kept == {e.acct : e \in EntriesKept}
             targets == {b \in kept : RosterRecord(b).health # "quarantined"}
             claimed == [b \in Accounts |-> Rereserved(RosterRecord(b), b \in targets)]
  <2>1. /\ roster' = kept
        /\ acct' = claimed \/ acct' = AllDemoted(claimed)
    BY <1>3 DEF PassRoster
  <2>2. RosterRecord(a) \in Record /\ now \in Nat
    BY RosterRecordType DEF TypeOK
  <2>3. claimed[a] \in {Reserved(RosterRecord(a)), Released(RosterRecord(a))}
    BY DEF Rereserved
  <2>4. claimed[a] \in Record /\ Same(RosterRecord(a), claimed[a])
    BY <2>2, <2>3, SameRecords, ReservedType, ReleasedType
  <2> HIDE DEF claimed, targets
  <2>5. Same(claimed[a], Demoted(claimed[a], now)) /\ Same(claimed[a], claimed[a])
    BY <2>2, <2>4, SameRecords DEF Same
  <2>6. Same(claimed[a], acct'[a])
    BY <2>1, <2>5 DEF AllDemoted
  <2>7. /\ Behind(RosterRecord(a)) => Behind(acct[a])
        /\ a \in kept /\ acct[a].health = "recovering" => RosterRecord(a).health # "healthy"
    <3>1. acct[a] \in Record
      BY DEF TypeOK
    <3>2. CASE \E e \in EntriesKept : e.acct = a
      <4> DEFINE e == CHOOSE x \in EntriesKept : x.acct = a
      <4>1. RosterRecord(a) = AfterEntry(acct[a], e, cfg.sentinel, now)
        BY <3>2 DEF RosterRecord
      <4> HIDE DEF e
      <4> QED
        BY <3>1, <4>1, EntryKeeps
    <3>3. CASE ~ \E e \in EntriesKept : e.acct = a
      BY <1>1, <3>3 DEF RosterRecord
    <3> QED
      BY <3>2, <3>3
  <2> QED
    BY <2>1, <2>4, <2>6, <2>7 DEF Same, Behind
<1> QED
  BY <1>2, <1>3

\* A weekly answer makes nobody ready, and promotes only whom it may.
LEMMA WeeklyKeeps ==
  ASSUME NEW r \in Record, NEW seq \in Nat, NEW s, NEW at \in Int, NEW dry, NEW t
  PROVE  LET u == AfterWeekly(r, seq, s, at, dry, t)
         IN  /\ Behind(u) => Behind(r)
             /\ r.health = "recovering" /\ u.health = "healthy" => MayConfirm(r, s, dry)
<1> DEFINE b == [r EXCEPT !.weekly = seq]
           c == [b EXCEPT !.resetAt = at]
<1>1. b \in Record /\ Same(r, b) /\ b.recoveredAt = r.recoveredAt
  BY Zenon DEF Record, Same
<1>2. c \in Record /\ Same(r, c)
  BY Zenon, <1>1 DEF Record, Same
<1>3. AfterWeekly(r, seq, s, at, dry, t) =
        IF Crossed(b, s, t) THEN CrossedDeadline(b)
        ELSE IF at <= t THEN EnterAwaiting(c)
        ELSE IF MayConfirm(b, s, dry) THEN Confirmed(b, at)
        ELSE b
  BY DEF AfterWeekly
<1> HIDE DEF b, c
<1>4. Same(b, CrossedDeadline(b)) /\ Same(c, EnterAwaiting(c))
  BY <1>1, <1>2 DEF Same, EnterAwaiting, CrossedDeadline, Record
<1>5. Confirmed(b, at).health = "healthy"
  BY <1>1 DEF Confirmed, CancelRetries, Record
<1>6. MayConfirm(b, s, dry) => MayConfirm(r, s, dry)
  BY <1>1 DEF MayConfirm, SentinelPending, Same
<1> QED
  BY <1>1, <1>2, <1>3, <1>4, <1>5, <1>6 DEF Same, Behind

\* An answer makes nobody ready, and promotes its own account at most, in this recovery
\* and when it is ready.
LEMMA AnswerKeeps ==
  ASSUME TypeOK, NEW t \in Threads, ApplyAnswer(t), NEW a \in Accounts
  PROVE  /\ Behind(acct'[a]) => Behind(acct[a])
         /\ acct[a].health = "recovering" /\ acct'[a].health = "healthy" =>
              Weekly(t, a) /\ MayConfirm(acct[a], try[t].startedAt, cfg.dryRun)
<1>1. acct[a] \in Record /\ now \in Nat /\ try[t].seq \in Nat /\ try[t].at \in Int
  BY DEF TypeOK, Tries
<1>2. acct'[a] = IF a = Target(t) THEN AfterAnswer(t, a) ELSE acct[a]
  BY DEF ApplyAnswer, TypeOK
<1>3. CASE acct'[a] = acct[a]
  BY <1>3
<1>4. CASE a = Target(t) /\ try[t].answer = "weekly"
           /\ acct'[a] = AfterWeekly(acct[a], try[t].seq, try[t].startedAt, try[t].at,
                                     cfg.dryRun, now)
  BY <1>1, <1>4, WeeklyKeeps DEF ApplyAnswer, Weekly
<1>5. CASE acct'[a] = AfterFailure(acct[a], try[t].startedAt, now)
  BY <1>1, <1>5, SameRecords DEF Same, Behind
<1> QED
  BY <1>2, <1>3, <1>4, <1>5 DEF AfterAnswer

\* A write that is noted makes ready only by the sentinel, and promotes nobody.
LEMMA WriteKeeps ==
  ASSUME TypeOK, NEW t \in Threads, Writes(t), NEW a \in Accounts
  PROVE  /\ Behind(acct'[a]) =>
              Behind(acct[a]) \/ (a = item.acct /\ item.desired = cfg.sentinel)
         /\ acct'[a].health = acct[a].health
<1>1. PICK saved : acct' = Noted(item, saved)
  BY DEF Writes, WriteNoOp, WriteSaved
<1>2. acct[a] \in Record
  BY DEF TypeOK
<1>3. \/ acct'[a] = acct[a]
      \/ /\ a = item.acct
         /\ acct'[a] = AfterWrite(acct[a], item.desired, saved, cfg.sentinel, now)
  BY <1>1 DEF Noted, TypeOK
<1>4. LET s == AfterWrite(acct[a], item.desired, saved, cfg.sentinel, now)
      IN  /\ s.health = acct[a].health
          /\ s.sentinelAt # acct[a].sentinelAt => item.desired = cfg.sentinel
          /\ s.sentinelReady => acct[a].sentinelReady \/ item.desired = cfg.sentinel
  BY <1>2 DEF AfterWrite, Record
<1> QED
  BY <1>3, <1>4 DEF Behind

\* Nobody becomes ready but by a write.
LEMMA NextReady ==
  ASSUME TypeOK, [Next]_vars, NEW a \in Accounts, Behind(acct'[a])
  PROVE  \/ Behind(acct[a])
         \/ \E t \in Threads : Writes(t) /\ a = item.acct /\ item.desired = cfg.sentinel
<1>1. AllSame => Behind(acct[a])
  BY DEF AllSame, Same, Behind
<1>2. CASE PassStep
  BY <1>1, <1>2, PassSame, RosterKeeps
<1>3. ASSUME NEW t \in Threads, FlushStep(t)
      PROVE  Behind(acct[a]) \/ (Writes(t) /\ a = item.acct /\ item.desired = cfg.sentinel)
  BY <1>1, <1>3, FlushSame, PlanKeeps, WriteKeeps DEF Behind
<1>4. ASSUME NEW t \in Threads, FetchStep(t)
      PROVE  Behind(acct[a])
  BY <1>1, <1>4, FetchSame, AnswerKeeps
<1>5. CASE CallbackStep \/ Tick \/ AdminStep \/ HostStep \/ Asleep \/ UNCHANGED vars
  BY <1>1, <1>5, OtherSame DEF Asleep
<1> QED
  BY <1>2, <1>3, <1>4, <1>5 DEF Next, ThreadStep

\* No account that stays is promoted but by an answer.
LEMMA NextPromotes ==
  ASSUME TypeOK, [Next]_vars, NEW a \in roster \cap roster',
         acct[a].health = "recovering", acct'[a].health = "healthy"
  PROVE  \E t \in Threads :
           Weekly(t, a) /\ MayConfirm(acct[a], try[t].startedAt, cfg.dryRun)
<1>1. a \in Accounts
  BY DEF TypeOK
<1>2. ~AllSame
  BY <1>1 DEF AllSame, Same
<1>3. CASE PassStep
  BY <1>1, <1>2, <1>3, PassSame, RosterKeeps
<1>4. ASSUME NEW t \in Threads, FlushStep(t)
      PROVE  FALSE
  BY <1>1, <1>2, <1>4, FlushSame, PlanKeeps, WriteKeeps
<1>5. ASSUME NEW t \in Threads, FetchStep(t)
      PROVE  Weekly(t, a) /\ MayConfirm(acct[a], try[t].startedAt, cfg.dryRun)
  BY <1>1, <1>2, <1>5, FetchSame, AnswerKeeps
<1>6. CASE CallbackStep \/ Tick \/ AdminStep \/ HostStep \/ Asleep \/ UNCHANGED vars
  BY <1>2, <1>6, OtherSame DEF Asleep
<1> QED
  BY <1>3, <1>4, <1>5, <1>6 DEF Next, ThreadStep

\* A file stays as it is, loses its priority to the operator, or is saved.
FileStep(a) ==
  \/ disk'[a] = disk[a]
  \/ disk'[a] = NoPriority /\ budget'.edit < budget.edit
  \/ \E t \in Threads : pc[t] = "saving" /\ a = item.acct /\ disk'[a] = item.desired

Untouched == UNCHANGED disk /\ budget'.edit <= budget.edit

\* What is spent on something else is not spent on edits.
LEMMA SpendElsewhere ==
  ASSUME TypeOK, NEW what \in {"fault", "config", "stop", "refresh", "health"},
         UNCHANGED budget \/ Spend(what)
  PROVE  budget'.edit <= budget.edit
  BY DEF Spend, TypeOK, Budgets

\* Every step but a save's end and an operator's leaves the files alone.
LEMMA NextFiles ==
  ASSUME TypeOK, [Next]_vars
  PROVE  /\ budget'.edit <= budget.edit
         /\ \A a \in Accounts : FileStep(a)
<1>1. Untouched => budget'.edit <= budget.edit /\ \A a \in Accounts : FileStep(a)
  BY DEF Untouched, FileStep
<1>2. CASE PassStep
  <2>1. UNCHANGED disk /\ (UNCHANGED budget \/ Spend("fault"))
    BY <1>2 DEF PassStep, PassRefused, PassBegin, PassPrune, PassList, PassListSkips,
      PassListFails, PassAbandon, PassDefer, PassRoster, PassFetchAll, PassJoin, PassTail,
      world
  <2> QED
    BY <1>1, <2>1, SpendElsewhere DEF Untouched
<1>3. ASSUME NEW t \in Threads, FlushStep(t)
      PROVE  budget'.edit <= budget.edit /\ \A a \in Accounts : FileStep(a)
  <2>1. CASE WriteSaved(t) \/ WriteSaveFails(t)
    <3>1. UNCHANGED disk \/ disk' = [disk EXCEPT ![item.acct] = item.desired]
      BY <2>1 DEF WriteSaved, WriteSaveFails, Persisted
    <3>2. UNCHANGED budget \/ Spend("fault")
      BY <2>1 DEF WriteSaved, WriteSaveFails
    <3>3. pc[t] = "saving"
      BY <2>1 DEF WriteSaved, WriteSaveFails
    <3> QED
      BY <3>1, <3>2, <3>3, SpendElsewhere DEF FileStep, TypeOK
  <2>2. CASE ~(WriteSaved(t) \/ WriteSaveFails(t))
    <3>1. UNCHANGED disk /\ (UNCHANGED budget \/ Spend("fault"))
      BY <1>3, <2>2 DEF FlushStep, FlushStopped, FlushPlan, FlushAgain, FlushArm, WriteSkip,
        WriteRead, WriteReadFails, WriteNoOp, WriteRefused, WriteAdmit, world
    <3> QED
      BY <1>1, <3>1, SpendElsewhere DEF Untouched
  <2> QED
    BY <2>1, <2>2
<1>4. ASSUME NEW t \in Threads, FetchStep(t)
      PROVE  Untouched
  <2>1. UNCHANGED disk /\ (UNCHANGED budget \/ Spend("fault"))
    BY <1>4 DEF FetchStep, FetchQuit, FetchExpired, FetchStart, AdmitRestart, AdmitRefused,
      AdmitExpired, AdmitCall, CallReturns, ReadFails, ApplyError, ApplyAnswer, world
  <2> QED
    BY <2>1, SpendElsewhere DEF Untouched
<1>5. CASE CallbackStep
  <2>1. UNCHANGED disk /\ (UNCHANGED budget \/ Spend("fault"))
    BY <1>5 DEF CallbackStep, WorkerStep, RetryDropped, RetryBegin, RetryRecheck,
      DeadlineDropped, DeadlineBegin, PollDropped, PollBegin, ProbeChanged, ProbeSame,
      ProbeFails, PollEnd, world
  <2> QED
    BY <1>1, <2>1, SpendElsewhere DEF Untouched
<1>6. CASE Tick \/ AdminStep \/ Asleep \/ UNCHANGED vars
  <2>1. /\ UNCHANGED disk
        /\ UNCHANGED budget \/ Spend("config") \/ Spend("stop") \/ Spend("refresh")
    BY <1>6 DEF Tick, AdminStep, Reconfigure, Publish, DisableGeneration, Stop, Refresh,
      Asleep, vars, world
  <2> QED
    BY <1>1, <2>1, SpendElsewhere DEF Untouched
<1>7. CASE HostStep
  <2>1. PICK b \in Accounts : \/ (HostFails(b) \/ HostRecovers(b)) /\ Spend("health")
                              \/ (OperatorEdits(b) \/ Relisted(b)) /\ Spend("edit")
    BY <1>7 DEF HostStep
  <2>2. CASE (HostFails(b) \/ HostRecovers(b)) /\ Spend("health")
    BY <1>1, <2>2, SpendElsewhere DEF HostFails, HostRecovers, Untouched
  <2>3. CASE (OperatorEdits(b) \/ Relisted(b)) /\ Spend("edit")
    <3>1. budget.edit \in Nat /\ budget'.edit = budget.edit - 1
      BY <2>3 DEF Spend, TypeOK, Budgets
    <3>2. UNCHANGED disk \/ disk' = [disk EXCEPT ![b] = NoPriority]
      BY <2>3 DEF OperatorEdits, Relisted
    <3>3. budget'.edit < budget.edit /\ budget'.edit <= budget.edit
      BY <3>1
    <3> QED
      BY <3>1, <3>2, <3>3 DEF FileStep, TypeOK
  <2> QED
    BY <2>1, <2>2, <2>3
<1> QED
  BY <1>1, <1>2, <1>3, <1>4, <1>5, <1>6, <1>7 DEF Next, ThreadStep

\* With one sentinel, every configuration in force has it.
LEMMA SentinelStays ==
  ASSUME OneSentinel, TypeOK
  PROVE  cfg.sentinel = InitialConfig.sentinel
  BY DEF OneSentinel, TypeOK

\* What stands in a file stays there, unless it is saved.
LEMMA StandsOn ==
  ASSUME TypeOK, TypeOK', BInv, [Next]_vars, NEW a \in Accounts, NEW p,
         Stands(a, p), disk'[a] \in {disk[a], NoPriority},
         disk'[a] # disk[a] => budget'.edit < budget.edit
  PROVE  Stands(a, p)'
<1>1. budget.edit \in Nat /\ budget'.edit \in Nat /\ Budget.edit \in Nat
  BY BoundsAreNumbers DEF TypeOK, Budgets
<1>2. budget'.edit <= budget.edit /\ budget.edit <= Budget.edit
  BY NextFiles DEF BInv
<1>3. Unedited' => Unedited /\ disk'[a] = disk[a]
  BY <1>1, <1>2 DEF Unedited
<1> QED
  BY <1>3 DEF Stands

\* Every step keeps it.
LEMMA NextBehind ==
  ASSUME OneSentinel, TypeOK, TypeOK', IInv, SInv, SInv', BInv, [Next]_vars
  PROVE  BInv'
<1>1. budget'.edit <= Budget.edit
  <2>1. budget.edit \in Nat /\ budget'.edit \in Nat /\ Budget.edit \in Nat
    BY BoundsAreNumbers DEF TypeOK, Budgets
  <2> QED
    BY <2>1, NextFiles DEF BInv
<1>2. cfg'.sentinel = InitialConfig.sentinel /\ cfg'.sentinel = cfg.sentinel
  BY SentinelStays DEF OneSentinel, TypeOK
<1>3. ASSUME NEW a \in Accounts, disk'[a] = disk[a] \/ ~SaveInFlight, NEW p, Stands(a, p)
      PROVE  Stands(a, p)'
  <2>1. FileStep(a)
    BY NextFiles
  <2>2. disk'[a] = disk[a] \/ (disk'[a] = NoPriority /\ budget'.edit < budget.edit)
    BY <1>3, <2>1 DEF FileStep, SaveInFlight
  <2> QED
    BY <1>3, <2>2, StandsOn
<1>4. ASSUME NEW a \in Accounts, Behind(acct'[a])
      PROVE  Stands(a, cfg.sentinel)'
  <2>1. CASE \E t \in Threads : pc[t] = "saving" /\ a = item.acct /\ disk'[a] = item.desired
    <3>1. a \in roster /\ acct[a].health = item.health /\ Fits(cfg, item)
      BY <2>1 DEF SInv, SavesKnown, ItemSound, Sound, IInv, SaveAuthorized
    <3>2. acct'[a].health = acct[a].health
      BY <2>1, <3>1, NextSteps DEF Steps, HealthStep, SaveInFlight
    <3>3. item.desired = cfg.sentinel
      BY <1>4, <3>1, <3>2 DEF Behind, Fits, Suits
    <3> QED
      BY <1>2, <2>1, <3>3 DEF Stands
  <2>2. CASE /\ ~ \E t \in Threads : pc[t] = "saving" /\ a = item.acct /\ disk'[a] = item.desired
             /\ Stands(a, cfg.sentinel)
    <3>1. FileStep(a)
      BY NextFiles
    <3>2. disk'[a] = disk[a] \/ (disk'[a] = NoPriority /\ budget'.edit < budget.edit)
      BY <2>2, <3>1 DEF FileStep
    <3>3. cfg'.sentinel = cfg.sentinel
      BY <1>2
    <3>4. \A p : Stands(a, p) => Stands(a, p)'
      BY <3>2, StandsOn
    <3> QED
      BY <2>2, <3>3, <3>4 DEF Stands
  <2>3. CASE /\ ~ \E t \in Threads : pc[t] = "saving" /\ a = item.acct /\ disk'[a] = item.desired
             /\ ~Stands(a, cfg.sentinel)
    <3>1. PICK t \in Threads : Writes(t) /\ a = item.acct /\ item.desired = cfg.sentinel
      BY <1>4, <2>3, NextReady DEF BInv
    <3>2. WriteNoOp(t)
      <4>1. WriteSaved(t) => pc[t] = "saving" /\ disk'[a] = item.desired
        BY <3>1 DEF WriteSaved, Persisted, TypeOK
      <4> QED
        BY <2>3, <3>1, <4>1 DEF Writes
    <3>3. Stands(a, cfg.sentinel)
      BY <3>1, <3>2 DEF WriteNoOp, BInv
    <3> QED
      BY <2>3, <3>3
  <2> QED
    BY <2>1, <2>2, <2>3
<1>5. ASSUME NEW t \in Threads, pc'[t] = "admit"
      PROVE  item'.acct \in Accounts /\ Stands(item.acct, item.found)'
  <2>1. ItemStep
    BY NextSteps DEF Steps
  <2>2. CASE Plain(item') \in frame[t].plan /\ item'.found = disk'[item'.acct]
    <3>1. Plain(item') \in Items
      BY <2>2 DEF TypeOK, Frames
    <3> QED
      BY <2>2, <3>1 DEF Stands, Plain, Items
  <2>3. CASE item' = item /\ pc[t] = "admit"
    <3>1. item.acct \in Accounts /\ Stands(item.acct, item.found)
      BY <2>3 DEF BInv
    <3>2. ~SaveInFlight
      BY <2>3 DEF IInv, Locked, SaveInFlight
    <3> QED
      BY <1>3, <2>3, <3>1, <3>2 DEF Stands
  <2> QED
    BY <1>5, <2>1, <2>2, <2>3 DEF ItemStep
<1> QED
  BY <1>1, <1>2, <1>4, <1>5 DEF BInv

\* It holds of every behaviour with one sentinel.
LEMMA BehindHolds ==
  ASSUME OneSentinel
  PROVE  Spec => [](TypeOK /\ IInv /\ SInv /\ BInv)
<1>1. Init => SInv
  BY DEF Init, SInv, PlansSound, ItemSound, SavesKnown, NoFrame
<1>2. TypeOK /\ IInv /\ SInv /\ [Next]_vars => SInv'
  BY NextKeeps
<1>3. Init => BInv
  <2>1. ~Behind(NewAccount) /\ Budget.edit \in Nat
    BY BoundsAreNumbers DEF Behind, NewAccount, Budgets
  <2> QED
    BY <2>1 DEF Init, BInv
<1>4. TypeOK /\ TypeOK' /\ IInv /\ SInv /\ SInv' /\ BInv /\ [Next]_vars => BInv'
  BY NextBehind
<1> QED
  BY <1>1, <1>2, <1>3, <1>4, TypesHold, Invariance, PTL DEF Spec

\* A recovering account returns to the ranks only on a weekly answer to a request begun in
\* this recovery, and in live mode only with the sentinel in its file, unless the operator
\* has removed it (applyObservation, updateCurrentPriority, applyRosterLocked): no late
\* answer, overlapping flush, stale listing or save that failed halfway gets it there.
THEOREM PromotedBehindSentinelHolds ==
  ASSUME OneSentinel
  PROVE  Spec => PromotedBehindSentinel
<1>1. ASSUME TypeOK, BInv, [Next]_vars, NEW a \in roster \cap roster',
             acct[a].health = "recovering", acct'[a].health = "healthy"
      PROVE  /\ cfg.dryRun \/ Stands(a, cfg.sentinel)
             /\ \E t \in Threads : Weekly(t, a) /\ try[t].startedAt >= acct[a].recoveredAt
  <2>1. PICK t \in Threads :
          Weekly(t, a) /\ MayConfirm(acct[a], try[t].startedAt, cfg.dryRun)
    BY <1>1, NextPromotes
  <2>2. a \in Accounts
    BY <1>1 DEF TypeOK
  <2>3. try[t].startedAt >= acct[a].recoveredAt /\ (cfg.dryRun \/ Behind(acct[a]))
    BY <1>1, <2>1 DEF MayConfirm, SentinelPending, Behind
  <2> QED
    BY <1>1, <2>1, <2>2, <2>3 DEF BInv
<1>2. TypeOK /\ BInv /\ [Next]_vars
        => [\A a \in roster \cap roster' :
              acct[a].health = "recovering" /\ acct'[a].health = "healthy" =>
                /\ cfg.dryRun \/ Stands(a, cfg.sentinel)
                /\ \E t \in Threads :
                     Weekly(t, a) /\ try[t].startedAt >= acct[a].recoveredAt]_vars
  BY <1>1
<1> QED
  BY <1>2, BehindHolds, PTL DEF Spec, PromotedBehindSentinel

\* The sentinel of a quarantine is saved once (README.md, "one write per quarantine"): a
\* record that knows the time of the save has the sentinel in its file, so that another
\* flush that planned it finds it there.
THEOREM SentinelSavedOnceHolds ==
  ASSUME OneSentinel
  PROVE  Spec => SentinelSavedOnce
<1>1. ASSUME TypeOK, IInv, SInv, BInv, [Next]_vars, NEW t \in Threads,
             pc[t] = "admit", pc'[t] = "saving",
             acct[item.acct].health = "quarantined", acct[item.acct].sentinelAt # NoTime
      PROVE  ~Unedited
  <2>1. WriteAdmit(t)
    BY <1>1, NextSteps DEF Steps, SaveStep
  <2>2. AdmitsSave(item) /\ item.found # item.desired /\ item.seq = configSeq
    BY <2>1 DEF WriteAdmit, AdmitsSave, ItemCurrent
  <2>3. item.desired = cfg.sentinel
    BY <1>1, <2>2 DEF AdmitsSave, ItemCurrent, SInv, ItemSound, Sound, Fits, Suits
  <2>4. item.acct \in Accounts /\ Stands(item.acct, item.found)
    BY <1>1 DEF BInv
  <2>5. Stands(item.acct, cfg.sentinel)
    BY <1>1, <2>4 DEF BInv, Behind
  <2> QED
    BY <2>2, <2>3, <2>4, <2>5 DEF Stands
<1>2. TypeOK /\ IInv /\ SInv /\ BInv /\ [Next]_vars
        => [\A t \in Threads :
              /\ pc[t] = "admit" /\ pc'[t] = "saving"
              /\ acct[item.acct].health = "quarantined" /\ acct[item.acct].sentinelAt # NoTime
              => ~Unedited]_vars
  BY <1>1
<1> QED
  BY <1>2, BehindHolds, PTL DEF Spec, SentinelSavedOnce
=============================================================================
