----------------------------- MODULE RankGroups -----------------------------
(***************************************************************************)
(* Every group of a few accounts, reached one change at a time: an account *)
(* joins, leaves, learns a reset, or sees it expire.                       *)
(***************************************************************************)
EXTENDS RankLoop

CONSTANTS Keys, Resets, Floors, Steps

ASSUME GroupsAreOfInts ==
  /\ Keys \subseteq Nat /\ Resets \subseteq Int
  /\ Floors \subseteq 0 .. MaxInt /\ Steps \subseteq 1 .. MaxInt

VARIABLES entries, floor, step

group == <<entries, floor, step>>

GroupInit == entries = {} /\ floor \in Floors /\ step \in Steps

WithEntry(e) == {f \in entries : f.key # e.key} \cup {e}

Set(k) ==
  \E at \in Resets, future \in BOOLEAN :
    entries' = WithEntry([key |-> k, at |-> at, future |-> future])

Leave(k) == entries' = {f \in entries : f.key # k}

GroupNext == (\E k \in Keys : Set(k) \/ Leave(k)) /\ UNCHANGED <<floor, step>>

GroupSpec == GroupInit /\ [][GroupNext]_group

----------------------------------------------------------------------------
Clamped(n) == IF n > MaxInt THEN MaxInt ELSE n

\* The loop's priorities are floor + step * (N - 1 - rank), held at the int
\* ceiling where that passes it, for every group, floor and step.
RankIsPriority ==
  \A e \in entries :
    Rank(entries, floor, step)[e] = Clamped(Priority(e, entries, floor, step))

RankOf(k) == Rank(entries, floor, step)[CHOOSE e \in entries : e.key = k]

\* What a later reset, or one that is no longer usable, does to the order.
Later(e, f) == f.key = e.key /\ (~f.future \/ (e.future /\ f.at >= e.at))

\* When one account's reset moves later or expires, that account does not rise
\* and nobody else falls: one account's window never costs another its rank.
LaterLowersOnlyItself ==
  [][\A e \in entries, f \in entries' :
       Later(e, f) /\ entries' \ {f} = entries \ {e} =>
         /\ RankOf(e.key)' <= RankOf(e.key)
         /\ \A o \in entries \ {e} : RankOf(o.key)' >= RankOf(o.key)]_group
=============================================================================
