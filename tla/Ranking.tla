------------------------------ MODULE Ranking ------------------------------
(***************************************************************************)
(* The order Rank sorts one provider group by, and the priorities it       *)
(* promises (internal/engine/ranker.go).  An entry is a rankable account:  *)
(* its stable key, its weekly reset and whether that reset is usable.      *)
(* Keys are numbers, in the order of the file names they stand for.        *)
(* RankLoop holds the loop that computes the priorities and shows that it  *)
(* computes these.                                                         *)
(***************************************************************************)
EXTENDS Integers, FiniteSets

Entry == [key : Nat, at : Int, future : BOOLEAN]

PrecedesLatest(e, f) ==
  \/ e.future /\ ~f.future
  \/ e.future /\ f.future /\ e.at > f.at
  \/ /\ e.future = f.future
     /\ e.future => e.at = f.at
     /\ e.key < f.key

\* The comparator of sort.SliceStable.
Precedes(e, f) ==
  \/ e.future /\ ~f.future
  \/ e.future /\ f.future /\ e.at < f.at
  \/ /\ e.future = f.future
     /\ e.future => e.at = f.at
     /\ e.key < f.key

Followers(e, entries) == {f \in entries : Precedes(e, f)}

\* N - 1 - rank: how many entries sort after this one.
Standing(e, entries) == Cardinality(Followers(e, entries))

\* priority = floor + step * (N - 1 - rank), short of the int ceiling.
Priority(e, entries, floor, step) == floor + step * Standing(e, entries)
=============================================================================
