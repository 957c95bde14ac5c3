------------------------------- MODULE Roster -------------------------------
(***************************************************************************)
(* validateRoster and what applyRosterLocked makes of its result           *)
(* (internal/engine/engine.go): which credentials of the host's list a     *)
(* full pass takes under management.  Each unambiguous candidate is read   *)
(* back through the host, one after the other; a doubtful answer about an  *)
(* account already managed defers the whole roster, one about a new        *)
(* account skips only that.  Module Reconcile takes all this as one step   *)
(* with three outcomes.                                                    *)
(***************************************************************************)
EXTENDS Naturals, Sequences, FiniteSets, SequencesExt

CONSTANTS
  Entries,      \* what the host may list: records with the fields below
  MaxListed     \* the length of its list (a bound)

ASSUME EntriesAreEntries ==
  \A e \in Entries : {"index", "name", "path", "usable"} \subseteq DOMAIN e

(***************************************************************************)
(* usable: the provider is managed, the entry is physical (source "file",  *)
(* not runtime-only) and has an index, a name and a path.                  *)
(*                                                                         *)
(* "good": the document is this entry's (or does not say whose it is) and  *)
(* has credentials.  "other": it answers for another index or name.        *)
(* "bare": it is this entry's, and no OAuth credential.                    *)
(***************************************************************************)
Answers == {"good", "other", "bare", "error"}

VARIABLES
  managed,     \* the keys of e.accounts
  list,        \* host.auth.list's answer, a sequence of entries
  known,       \* validateRoster's copy of managed
  answers,     \* what each candidate read so far has answered
  state        \* "idle", "reading", "validated" or "deferred"

rosterVars == <<managed, list, known, answers, state>>

RosterInit ==
  /\ managed = {}
  /\ list = <<>>
  /\ known = {}
  /\ answers = <<>>
  /\ state = "idle"

----------------------------------------------------------------------------
\* Candidates, and those that share an identity.

Usable(e) == e.usable

Candidates == SelectSeq(list, Usable)

Shares(d, e) == d.index = e.index \/ d.name = e.name \/ d.path = e.path

AmbiguousAfter(i) ==
  \E j \in 1 .. i - 1 : Shares(Candidates[i], Candidates[j])

\* All candidates count, also those that come later or will not be readable.
Ambiguous(i) ==
  \E j \in DOMAIN Candidates \ {i} : Shares(Candidates[i], Candidates[j])

\* The candidate to be read next is at this place.
Turn == Len(answers) + 1

DoubtfulError(answer) == answer = "error"

\* Answers that say nothing for good about an account.
Doubtful(answer) == answer \in {"error", "other"}

----------------------------------------------------------------------------
\* validateRoster.

List ==
  /\ state = "idle"
  /\ list' \in BoundedSeq(Entries, MaxListed)
  /\ known' = managed
  /\ answers' = <<>>
  /\ state' = "reading"
  /\ UNCHANGED managed

SkipAmbiguous ==
  /\ state = "reading"
  /\ Turn \in DOMAIN Candidates
  /\ Ambiguous(Turn)
  /\ answers' = Append(answers, "ambiguous")
  /\ UNCHANGED <<managed, list, known, state>>

DefersForAny(i, answer) == Doubtful(answer)

Defers(i, answer) == Doubtful(answer) /\ Candidates[i].index \in known

Read ==
  /\ state = "reading"
  /\ Turn \in DOMAIN Candidates
  /\ ~Ambiguous(Turn)
  /\ \E answer \in Answers :
       /\ answers' = Append(answers, answer)
       /\ state' = IF Defers(Turn, answer) THEN "deferred" ELSE "reading"
  /\ UNCHANGED <<managed, list, known>>

ReadAll ==
  /\ state = "reading"
  /\ Turn \notin DOMAIN Candidates
  /\ state' = "validated"
  /\ UNCHANGED <<managed, list, known, answers>>

----------------------------------------------------------------------------
\* The pass goes on.

Validated == {Candidates[i] : i \in {j \in DOMAIN answers : answers[j] = "good"}}

\* The pass's locals go with it.
Ends == state' = "idle" /\ list' = <<>> /\ known' = {} /\ answers' = <<>>

\* applyRosterLocked: what is not on the validated roster is forgotten.
Applied == {e.index : e \in Validated}

Apply ==
  /\ state = "validated"
  /\ managed' = Applied
  /\ Ends

\* The prior roster is kept as one transaction.
Defer ==
  /\ state = "deferred"
  /\ Ends
  /\ UNCHANGED managed

RosterNext == List \/ SkipAmbiguous \/ Read \/ ReadAll \/ Apply \/ Defer

RosterSpec == RosterInit /\ [][RosterNext]_rosterVars

----------------------------------------------------------------------------
\* Properties.

Positions(a) == {i \in DOMAIN Candidates : Candidates[i].index = a}

\* An account leaves management only for a reason that is conclusive: the host does
\* not list its file any more, its identity has become ambiguous, or its document,
\* read whole and its own, is no OAuth credential.  No failed or mismatched read of
\* it, or of any other account, contracts the roster.
LeavesForCause ==
  [][\A a \in managed \ managed' :
       \A i \in Positions(a) : Ambiguous(i) \/ answers[i] = "bare"]_rosterVars

\* A pass is deferred only for an account it already manages: a new file that cannot
\* be read never keeps the others from being ranked.
NewNeverDefers ==
  state = "deferred" => Candidates[Len(answers)].index \in managed

\* Two entries that share an index, a name or a path are both kept out, in whatever
\* order they are listed: a rank is written through an index into a name, and either
\* might be the other's file.
NoSharedFile ==
  state = "validated" =>
    \A e \in Validated : Cardinality({i \in DOMAIN Candidates : Shares(e, Candidates[i])}) = 1
=============================================================================
