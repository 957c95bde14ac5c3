----------------------------- MODULE Reconcile -----------------------------
(***************************************************************************)
(* Reconcile (internal/engine/engine.go): one full pass.  reconcileMu lets *)
(* one goroutine in; the others are counted in passes.                     *)
(*                                                                         *)
(*   "prune"     about to remove accounts of opted-out providers           *)
(*   "list"      inside host.auth.list and the validation reads            *)
(*   "roster"    about to apply the validated roster                       *)
(*   "defer"     the roster could not be validated                         *)
(*   "fetching"  about to start fetchAll's goroutines                      *)
(*   "waiting"   waiting for them                                          *)
(*   "tail"      about to arm the pass's timers                            *)
(***************************************************************************)
EXTENDS Fetch

----------------------------------------------------------------------------
\* The accounts a pass may claim before it has seen the roster.
Claimable(a) == Manages(cfg, a) /\ acct[a].health # "quarantined"

PassRefused ==
  /\ pc[Pass] = "idle"
  /\ passes > 0
  /\ stopped
  /\ passes' = passes - 1
  /\ UNCHANGED <<settings, timers, world, roster, acct, deadline, pending, pc, frame,
                 try, job, pass, item, writeMu, slots>>

PassBegin ==
  LET claimed == {a \in roster : Claimable(a)}
  IN  /\ pc[Pass] = "idle"
      /\ passes > 0
      /\ ~stopped
      /\ passes' = passes - 1
      /\ acct' = [a \in Accounts |-> IF a \in claimed THEN Reserved(acct[a]) ELSE acct[a]]
      /\ pass' = [pass EXCEPT !.reserved = claimed]
      /\ pc' = [pc EXCEPT ![Pass] = "prune"]
      /\ UNCHANGED <<settings, timers, world, roster, deadline, pending, frame, try, job,
                     item, writeMu, slots>>

\* Opted-out accounts go before anything is ranked or written.
PassPrune ==
  /\ pc[Pass] = "prune"
  /\ writeMu = Nobody
  /\ roster' = {a \in roster : Manages(cfg, a)}
  /\ acct' = [a \in Accounts |-> IF a \in roster' THEN acct[a] ELSE NewAccount]
  /\ forgotten' = forgotten \cup (roster \ roster')
  /\ CallFlush(Pass, "none", "list")
  /\ UNCHANGED <<cfg, configSeq, stopped, admin, timers, world, deadline, passes, pending,
                 try, job, pass, item, writeMu, slots>>

----------------------------------------------------------------------------
\* host.auth.list and validateRoster.

ListedPriority(a) == IF disk[a] = NoPriority THEN 0 ELSE disk[a]

EntryFor(a) ==
  [acct |-> a, bad |-> host[a].bad, touched |-> host[a].touched, by |-> host[a].by,
   priority |-> ListedPriority(a)]

Candidates == {a \in listed : Manages(cfg, a)}

PassList ==
  /\ pc[Pass] = "list"
  /\ pass' = [pass EXCEPT !.entries = {EntryFor(a) : a \in Candidates}]
  /\ pc' = [pc EXCEPT ![Pass] = "roster"]
  /\ UNCHANGED <<settings, timers, world, roster, acct, deadline, passes, pending,
                 frame, try, job, item, writeMu, slots>>

\* A new account that cannot be read is skipped.
PassListSkips ==
  /\ pc[Pass] = "list"
  /\ \E b \in Candidates \ roster :
       pass' = [pass EXCEPT !.entries = {EntryFor(a) : a \in Candidates \ {b}}]
  /\ pc' = [pc EXCEPT ![Pass] = "roster"]
  /\ Spend("fault")
  /\ UNCHANGED <<settings, timers, now, disk, host, listed, roster, acct, deadline,
                 passes, pending, frame, try, job, item, writeMu, slots>>

\* The list failed, or a known account could not be read: defer the whole.
PassListFails ==
  /\ pc[Pass] = "list"
  /\ pc' = [pc EXCEPT ![Pass] = "defer"]
  /\ Spend("fault")
  /\ UNCHANGED <<settings, timers, now, disk, host, listed, roster, acct, deadline,
                 passes, pending, frame, try, job, pass, item, writeMu, slots>>

----------------------------------------------------------------------------
\* Applying the roster.

ReleasedAll(records) ==
  [a \in Accounts |-> IF a \in pass.reserved THEN Released(records[a]) ELSE records[a]]

\* Stopped meanwhile: the deferred release, and no_op.
PassAbandon ==
  /\ \/ pc[Pass] \in {"defer", "tail"}
     \/ pc[Pass] = "roster" /\ writeMu = Nobody
  /\ stopped
  /\ acct' = ReleasedAll(acct)
  /\ pass' = NoPass
  /\ pc' = [pc EXCEPT ![Pass] = "idle"]
  /\ UNCHANGED <<settings, timers, world, roster, deadline, passes, pending, frame, try,
                 job, item, writeMu, slots>>

\* No fetch can be trusted: give the claims back, then demote, write and retry.
PassDefer ==
  /\ pc[Pass] = "defer"
  /\ ~stopped
  /\ acct' = ReleasedAll(acct)
  /\ pass' = NoPass
  /\ CallFlush(Pass, "immediate", "tail")
  /\ UNCHANGED <<settings, timers, world, roster, deadline, passes, pending, try, job,
                 item, writeMu, slots>>

EntriesKept == {e \in pass.entries : Manages(cfg, e.acct)}

\* applyRosterLocked: an account without an entry is forgotten.
RosterRecord(a) ==
  IF \E e \in EntriesKept : e.acct = a
  THEN AfterEntry(acct[a], CHOOSE e \in EntriesKept : e.acct = a, cfg.sentinel, now)
  ELSE NewAccount

\* replaceReconcileFetchReservationsLocked, for one account.
Rereserved(r, wanted) == IF wanted THEN Reserved(r) ELSE Released(r)

PassRoster ==
  LET kept == {e.acct : e \in EntriesKept}
      targets == {a \in kept : RosterRecord(a).health # "quarantined"}
      claimed == [a \in Accounts |-> Rereserved(RosterRecord(a), a \in targets)]
      unsaved == \E a \in kept : NeedsSentinel(RosterRecord(a), cfg.sentinel)
      expired == \E a \in kept : Expired(claimed[a], now)
  IN  /\ pc[Pass] = "roster"
      /\ writeMu = Nobody
      /\ ~stopped
      /\ roster' = kept
      /\ forgotten' = forgotten \cup (roster \ kept)
      /\ acct' = IF unsaved THEN claimed ELSE AllDemoted(claimed)
      /\ pass' = [entries |-> {}, reserved |-> targets]
      /\ IF unsaved \/ expired THEN CallFlush(Pass, "none", "fetching")
         ELSE pc' = [pc EXCEPT ![Pass] = "fetching"] /\ UNCHANGED frame
      /\ UNCHANGED <<cfg, configSeq, stopped, admin, timers, world, deadline, passes,
                     pending, try, job, item, writeMu, slots>>

----------------------------------------------------------------------------
\* fetchAll.

PassFetchAll ==
  /\ pc[Pass] = "fetching"
  /\ pc' = [t \in Threads |->
              IF t = Pass THEN "waiting"
              ELSE IF t \in Fetchers /\ t[2] \in pass.reserved THEN "fetch"
              ELSE pc[t]]
  /\ UNCHANGED <<settings, timers, world, roster, acct, deadline, passes, pending,
                 frame, try, job, pass, item, writeMu, slots>>

PassJoin ==
  /\ pc[Pass] = "waiting"
  /\ \A t \in Fetchers : pc[t] = "idle"
  /\ acct' = ReleasedAll(acct)
  /\ pass' = NoPass
  /\ CallFlush(Pass, "delayed", "tail")
  /\ UNCHANGED <<settings, timers, world, roster, deadline, passes, pending, try, job,
                 item, writeMu, slots>>

----------------------------------------------------------------------------
\* The tail.

Unhealthy(records) == \E a \in roster : records[a].health # "healthy"

\* scheduleHealthPollLocked: a countdown that runs is never restarted.
PollRestartedForQuarantine(records) ==
  IF \A a \in roster : records[a].health # "quarantined"
  THEN [seq |-> poll.seq + 1, at |-> NoTime]
  ELSE IF poll.at # NoTime THEN poll
  ELSE [seq |-> poll.seq + 1, at |-> now + PollInterval]

PollRestarted(records) ==
  IF ~Unhealthy(records) THEN [seq |-> poll.seq + 1, at |-> NoTime]
  ELSE IF poll.at # NoTime THEN poll
  ELSE [seq |-> poll.seq + 1, at |-> now + PollInterval]

\* scheduleRecoveryRetriesLocked, for one account.
WithRecoveryRetries(r) ==
  IF ~r.wantRetry THEN r
  ELSE IF r.health # "recovering" THEN [r EXCEPT !.wantRetry = FALSE]
  ELSE [StartRetries(r, now) EXCEPT !.wantRetry = FALSE]

PassTail ==
  /\ pc[Pass] = "tail"
  /\ ~stopped
  /\ acct' = [a \in Accounts |-> WithRecoveryRetries(acct[a])]
  /\ nextPass' = now + ReconcileInterval
  /\ poll' = PollRestarted(acct)
  /\ pc' = [pc EXCEPT ![Pass] = "idle"]
  /\ UNCHANGED <<settings, world, roster, deadline, passes, pending, frame, try, job,
                 pass, item, writeMu, slots>>

----------------------------------------------------------------------------
PassStep ==
  \/ PassRefused \/ PassBegin \/ PassPrune
  \/ PassList \/ PassListSkips \/ PassListFails
  \/ PassAbandon \/ PassDefer \/ PassRoster
  \/ PassFetchAll \/ PassJoin \/ PassTail
=============================================================================
