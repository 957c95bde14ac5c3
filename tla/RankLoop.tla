------------------------------ MODULE RankLoop ------------------------------
(***************************************************************************)
(* Rank as the code computes it (internal/engine/ranker.go): sort, then    *)
(* build the priorities from the last entry upward with saturating sums.   *)
(***************************************************************************)
EXTENDS Ranking

\* The greatest native int.
CONSTANT MaxInt

ASSUME MaxIntIsPositive == MaxInt \in Nat \ {0}

MinInt == -MaxInt - 1

\* The sum as the machine computes it without a guard.
WrappingAdd(a, b) ==
  MinInt + ((a + b - MinInt) % (MaxInt - MinInt + 1))

SaturatingAdd(a, b) ==
  IF b > 0 /\ a > MaxInt - b THEN MaxInt
  ELSE IF b < 0 /\ a < MinInt - b THEN MinInt
  ELSE a + b

\* The sequence sort.SliceStable makes of a group; entries of one group have
\* different keys, so there is one.
Sorted(entries) ==
  CHOOSE s \in [1 .. Cardinality(entries) -> entries] :
    \A i, j \in DOMAIN s : i < j => Precedes(s[i], s[j])

\* The loop over the positions, the last one first.
Priorities(n, floor, step) ==
  LET priority[i \in 1 .. n] ==
        IF i = n THEN floor ELSE SaturatingAdd(priority[i + 1], step)
  IN  priority

Rank(entries, floor, step) ==
  LET ordered == Sorted(entries)
  IN  [e \in entries |->
         Priorities(Cardinality(entries), floor, step)[
           CHOOSE i \in DOMAIN ordered : ordered[i] = e]]
=============================================================================
