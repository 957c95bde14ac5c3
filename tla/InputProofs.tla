---------------------------- MODULE InputProofs ----------------------------
(***************************************************************************)
(* Two of the parts that decide on data, for every size of it.             *)
(*                                                                         *)
(* Ranking: distinct accounts of a group never share a priority, the       *)
(* account whose weekly window expires sooner is always served first, and  *)
(* none reaches below the floor, where the quarantine sentinel is.         *)
(*                                                                         *)
(* Roster: whatever the host lists and answers, what enters management is  *)
(* unambiguous and what leaves it does so for a conclusive reason.         *)
(***************************************************************************)
EXTENDS RankGroups, Roster, WeeklyWindow, Settings, FiniteSetTheorems, WellFoundedInduction, TLAPS

----------------------------------------------------------------------------
\* Ranking.

\* The comparator is a strict order, total on entries with different keys.
LEMMA PrecedesIsTransitive ==
  ASSUME NEW e \in Entry, NEW f \in Entry, NEW g \in Entry,
         Precedes(e, f), Precedes(f, g)
  PROVE  Precedes(e, g)
  BY DEF Precedes, Entry

\* No entry sorts before itself.
LEMMA PrecedesIsIrreflexive ==
  ASSUME NEW e \in Entry
  PROVE  ~Precedes(e, e)
  BY DEF Precedes, Entry

\* Of two entries with different keys one sorts before the other.
LEMMA PrecedesIsTotal ==
  ASSUME NEW e \in Entry, NEW f \in Entry, e.key # f.key
  PROVE  Precedes(e, f) \/ Precedes(f, e)
  BY DEF Precedes, Entry

\* The followers of an entry are a part of the group that misses the entry.
LEMMA StandingIsBounded ==
  ASSUME NEW S \in SUBSET Entry, IsFiniteSet(S), NEW e \in S
  PROVE  Standing(e, S) \in Nat /\ Standing(e, S) < Cardinality(S)
<1>1. Followers(e, S) \subseteq S \ {e}
  BY PrecedesIsIrreflexive DEF Followers
<1>2. IsFiniteSet(S \ {e}) /\ Cardinality(S \ {e}) = Cardinality(S) - 1
  BY FS_RemoveElement
<1>3. Cardinality(Followers(e, S)) <= Cardinality(S \ {e})
  BY <1>1, <1>2, FS_Subset
<1>4. IsFiniteSet(Followers(e, S))
  BY <1>1, <1>2, FS_Subset
<1> QED
  BY <1>2, <1>3, <1>4, FS_CardinalityType DEF Standing

\* Whoever follows the later of two entries follows the earlier one too.
LEMMA StandingDescends ==
  ASSUME NEW S \in SUBSET Entry, IsFiniteSet(S), NEW e \in S, NEW f \in S,
         Precedes(e, f)
  PROVE  Standing(f, S) < Standing(e, S)
<1>1. Followers(f, S) \subseteq Followers(e, S) \ {f}
  BY PrecedesIsTransitive, PrecedesIsIrreflexive DEF Followers
<1>2. f \in Followers(e, S) /\ Followers(e, S) \subseteq S
  BY DEF Followers
<1>3. IsFiniteSet(Followers(e, S))
  BY <1>2, FS_Subset
<1>4. /\ IsFiniteSet(Followers(e, S) \ {f})
      /\ Cardinality(Followers(e, S) \ {f}) = Cardinality(Followers(e, S)) - 1
  BY <1>2, <1>3, FS_RemoveElement
<1>5. Cardinality(Followers(f, S)) <= Cardinality(Followers(e, S) \ {f})
  BY <1>1, <1>4, FS_Subset
<1>6. Cardinality(Followers(e, S)) \in Nat /\ Cardinality(Followers(f, S)) \in Nat
  BY <1>1, <1>3, <1>4, FS_Subset, FS_CardinalityType
<1> QED
  BY <1>4, <1>5, <1>6 DEF Standing

\* A higher standing is a higher priority.
LEMMA MoreStepsAreHigher ==
  ASSUME NEW low \in Int, NEW gap \in Nat \ {0}, NEW m \in Nat, NEW n \in Nat, m < n
  PROVE  low + gap * m < low + gap * n
<1>1. PICK d \in Nat \ {0} : n = m + d
  <2>1. n - m \in Nat \ {0} /\ n = m + (n - m)
    OBVIOUS
  <2> QED
    BY <2>1
<1>2. gap * n = gap * m + gap * d
  BY <1>1
<1>3. gap * d > 0
  OBVIOUS
<1>4. gap * m \in Int /\ gap * d \in Int
  OBVIOUS
<1> QED
  BY <1>2, <1>3, <1>4

\* An account ahead of another in its group has the strictly higher priority.
THEOREM EarlierIsHigher ==
  ASSUME NEW S \in SUBSET Entry, IsFiniteSet(S), NEW e \in S, NEW f \in S,
         NEW low \in Int, NEW gap \in Nat \ {0}, Precedes(e, f)
  PROVE  Priority(f, S, low, gap) < Priority(e, S, low, gap)
  BY StandingDescends, StandingIsBounded, MoreStepsAreHigher DEF Priority

\* Accounts with different keys never share a priority.
THEOREM PrioritiesAreDistinct ==
  ASSUME NEW S \in SUBSET Entry, IsFiniteSet(S), NEW e \in S, NEW f \in S,
         NEW low \in Int, NEW gap \in Nat \ {0}, e.key # f.key
  PROVE  Priority(e, S, low, gap) # Priority(f, S, low, gap)
<1>1. Priority(e, S, low, gap) \in Int /\ Priority(f, S, low, gap) \in Int
  BY StandingIsBounded DEF Priority
<1> QED
  BY <1>1, PrecedesIsTotal, EarlierIsHigher

\* Every priority of a group of N lies between the floor and N - 1 steps above:
\* below the floor there is room for the sentinel alone.
THEOREM PrioritiesAreBounded ==
  ASSUME NEW S \in SUBSET Entry, IsFiniteSet(S), NEW e \in S,
         NEW low \in Int, NEW gap \in Nat \ {0}
  PROVE  /\ low <= Priority(e, S, low, gap)
         /\ Priority(e, S, low, gap) <= low + gap * (Cardinality(S) - 1)
<1>1. Standing(e, S) \in Nat /\ Standing(e, S) < Cardinality(S)
  BY StandingIsBounded
<1>2. Cardinality(S) \in Nat
  BY FS_CardinalityType
<1>3. low <= low + gap * Standing(e, S)
  BY <1>1
<1>4. CASE Standing(e, S) = Cardinality(S) - 1
  BY <1>1, <1>2, <1>3, <1>4 DEF Priority
<1>5. CASE Standing(e, S) < Cardinality(S) - 1
  <2>1. low + gap * Standing(e, S) < low + gap * (Cardinality(S) - 1)
    BY <1>1, <1>2, <1>5, MoreStepsAreHigher
  <2> QED
    BY <1>1, <1>2, <1>3, <2>1 DEF Priority
<1> QED
  BY <1>1, <1>2, <1>4, <1>5

----------------------------------------------------------------------------
\* The loop of Rank.

\* A finite set that is not empty has a member no other comes before: of the sets of
\* those before a member the least is empty.
LEMMA MinimalExists ==
  ASSUME NEW D, IsFiniteSet(D), D # {}, NEW B,
         \A x \in D : <<x, x>> \notin B,
         \A x, y, z \in D : <<x, y>> \in B /\ <<y, z>> \in B => <<x, z>> \in B
  PROVE  \E m \in D : \A d \in D : <<d, m>> \notin B
<1> DEFINE Earlier(m) == {d \in D : <<d, m>> \in B}
           T == {Earlier(m) : m \in D}
           R == StrictSubsetOrdering(D)
<1>1. IsWellFoundedOn(R, FiniteSubsetsOf(D))
  BY FS_StrictSubsetOrderingWellFounded
<1>2. T \subseteq FiniteSubsetsOf(D)
  <2>1. T \subseteq SUBSET D
    OBVIOUS
  <2>2. FiniteSubsetsOf(D) = SUBSET D
    BY FS_FiniteSubsetsOfFinite
  <2> HIDE DEF T
  <2> QED
    BY <2>1, <2>2
<1>3. T # {}
  <2>1. PICK m \in D : TRUE
    OBVIOUS
  <2>2. Earlier(m) \in T
    BY Zenon
  <2> QED
    BY Zenon, <2>2
<1>4. PICK x \in T : \A y \in T : <<y, x>> \notin R
  <2> HIDE DEF T, R
  <2> QED
    BY Zenon, <1>1, <1>2, <1>3, WFMin
<1>5. PICK m \in D : x = Earlier(m)
  BY <1>4
<1>6. ASSUME NEW d \in D, <<d, m>> \in B
      PROVE  FALSE
  <2>1. Earlier(d) \subseteq Earlier(m)
    BY <1>6
  <2>2. d \in Earlier(m) /\ d \notin Earlier(d)
    BY <1>6
  <2>3. <<Earlier(d), x>> \in R
    BY <1>5, <2>1, <2>2 DEF StrictSubsetOrdering
  <2> QED
    BY <1>4, <2>3
<1> QED
  BY <1>6

\* A finite group of entries with different keys.
IsGroup(S) ==
  /\ S \in SUBSET Entry
  /\ IsFiniteSet(S)
  /\ \A e, f \in S : e.key = f.key => e = f

\* The standings in a group of N are 0, 1, ..., N - 1, one entry at each.
LEMMA StandingsAreFilled ==
  ASSUME NEW S, IsGroup(S), NEW k \in 0 .. Cardinality(S) - 1
  PROVE  \E e \in S : Standing(e, S) = k
<1> DEFINE T == 0 .. Cardinality(S) - 1
           f == [e \in S |-> Standing(e, S)]
<1>1. Cardinality(S) \in Nat
  BY FS_CardinalityType DEF IsGroup
<1>2. IsFiniteSet(T) /\ Cardinality(T) = Cardinality(S)
  BY <1>1, FS_Interval
<1>3. \A e \in S : Standing(e, S) \in T
  BY <1>1, StandingIsBounded DEF IsGroup
<1>4. \A e, d \in S : Standing(e, S) = Standing(d, S) => e = d
  BY <1>3, StandingDescends, PrecedesIsTotal DEF IsGroup
<1>5. f \in Injection(S, T)
  BY <1>3, <1>4 DEF Injection, IsInjective
<1>6. f \in Surjection(S, T)
  BY <1>1, <1>2, <1>5, FS_Injection DEF IsGroup
<1> QED
  BY <1>6 DEF Surjection

\* Sorting gives each entry of the group once, in order.
LEMMA SortedIsInOrder ==
  ASSUME NEW S, IsGroup(S)
  PROVE  /\ Sorted(S) \in [1 .. Cardinality(S) -> S]
         /\ \A i, j \in 1 .. Cardinality(S) : i < j => Precedes(Sorted(S)[i], Sorted(S)[j])
<1> DEFINE n == Cardinality(S)
           w == [i \in 1 .. n |-> CHOOSE e \in S : Standing(e, S) = n - i]
<1>1. n \in Nat
  BY FS_CardinalityType DEF IsGroup
<1>2. \A i \in 1 .. n : w[i] \in S /\ Standing(w[i], S) = n - i
  BY <1>1, StandingsAreFilled
<1>3. ASSUME NEW i \in 1 .. n, NEW j \in 1 .. n, i < j
      PROVE  Precedes(w[i], w[j])
  <2>1. /\ w[i] \in S /\ w[j] \in S
        /\ Standing(w[j], S) < Standing(w[i], S)
        /\ Standing(w[j], S) \in Int /\ Standing(w[i], S) \in Int
    BY <1>1, <1>2, <1>3
  <2> HIDE DEF w
  <2>2. w[i].key # w[j].key
    BY <2>1 DEF IsGroup
  <2>3. ~Precedes(w[j], w[i])
    BY <2>1, StandingDescends DEF IsGroup
  <2> QED
    BY <2>1, <2>2, <2>3, PrecedesIsTotal DEF IsGroup
<1>4. w \in [1 .. n -> S]
  BY <1>2
<1>5. \A i, j \in DOMAIN w : i < j => Precedes(w[i], w[j])
  BY <1>3
<1> HIDE DEF w
<1>6. \E s \in [1 .. n -> S] : \A i, j \in DOMAIN s : i < j => Precedes(s[i], s[j])
  BY <1>4, <1>5
<1> QED
  BY <1>6 DEF Sorted

\* The entry at a position has as many after it as there are positions.
LEMMA SortedStanding ==
  ASSUME NEW S, IsGroup(S), NEW i \in 1 .. Cardinality(S)
  PROVE  Standing(Sorted(S)[i], S) = Cardinality(S) - i
<1> DEFINE n == Cardinality(S)
           s == Sorted(S)
           F == Followers(s[i], S)
           g == [j \in i + 1 .. n |-> s[j]]
<1>1. n \in Nat /\ IsFiniteSet(1 .. n) /\ Cardinality(1 .. n) = n
  BY FS_CardinalityType, FS_Interval DEF IsGroup
<1>2. /\ s \in [1 .. n -> S]
      /\ \A j, k \in 1 .. n : j < k => Precedes(s[j], s[k])
  BY SortedIsInOrder
<1> HIDE DEF s
<1>3. \A j, k \in 1 .. n : j < k => s[j] # s[k] /\ ~Precedes(s[k], s[j])
  BY <1>2, PrecedesIsIrreflexive, PrecedesIsTransitive DEF IsGroup
<1>4. \A j, k \in 1 .. n : s[j] = s[k] => j = k
  BY <1>3
<1>5. s \in Injection(1 .. n, S)
  BY <1>2, <1>4 DEF Injection, IsInjective
<1>6. s \in Surjection(1 .. n, S)
  BY <1>1, <1>5, FS_Injection DEF IsGroup
<1>7. \A j \in i + 1 .. n : s[j] \in F
  BY <1>1, <1>2 DEF Followers
<1>8. \A e \in F : \E j \in i + 1 .. n : s[j] = e
  <2> TAKE e \in F
  <2>1. PICK j \in 1 .. n : s[j] = e
    BY <1>6 DEF Surjection, Followers
  <2>2. Precedes(s[i], s[j])
    BY <2>1 DEF Followers
  <2>3. s[i] \in Entry
    BY <1>2 DEF IsGroup
  <2>4. ~(j < i) /\ j # i
    BY <1>3, <2>2, <2>3, PrecedesIsIrreflexive
  <2> QED
    BY <1>1, <2>1, <2>4
<1>9. g \in Bijection(i + 1 .. n, F)
  <2>1. g \in [i + 1 .. n -> F]
    BY <1>7
  <2>2. \A j, k \in i + 1 .. n : g[j] = g[k] => j = k
    BY <1>1, <1>4
  <2>3. \A e \in F : \E j \in i + 1 .. n : g[j] = e
    BY <1>8
  <2> QED
    BY <2>1, <2>2, <2>3 DEF Bijection, Injection, IsInjective, Surjection
<1>10. IsFiniteSet(i + 1 .. n) /\ Cardinality(i + 1 .. n) = n - i
  BY <1>1, FS_Interval
<1>11. Cardinality(F) = Cardinality(i + 1 .. n)
  BY <1>9, <1>10, FS_Bijection DEF ExistsBijection
<1> QED
  BY <1>10, <1>11 DEF Standing, s

\* Adding a step below the ceiling is adding it and clamping.
LEMMA SaturatingAddClamps ==
  ASSUME NEW x \in Int, NEW gap \in Nat \ {0}
  PROVE  SaturatingAdd(Clamped(x), gap) = Clamped(x + gap)
<1>1. CASE x > MaxInt
  BY <1>1, MaxIntIsPositive DEF SaturatingAdd, Clamped, MinInt
<1>2. CASE x <= MaxInt
  BY <1>2, MaxIntIsPositive DEF SaturatingAdd, Clamped, MinInt
<1> QED
  BY <1>1, <1>2, MaxIntIsPositive

\* Each pass through the loop adds one step more.
LEMMA OneStepMore ==
  ASSUME NEW n \in Nat, NEW i \in 1 .. n - 1, NEW low \in Int, NEW gap \in Nat \ {0}
  PROVE  low + gap * (n - i) = (low + gap * (n - (i + 1))) + gap
<1>1. n - i = (n - (i + 1)) + 1
  OBVIOUS
<1> QED
  BY <1>1

\* The loop fills position i of n with the floor and n - i steps, held at the ceiling.
LEMMA LoopIsClosed ==
  ASSUME NEW n \in Nat, NEW low \in Int, low <= MaxInt, NEW gap \in Nat \ {0},
         NEW i \in 1 .. n
  PROVE  Priorities(n, low, gap)[i] = Clamped(low + gap * (n - i))
<1> DEFINE Pr == Priorities(n, low, gap)
           Next(f, k) == IF k = n THEN low ELSE SaturatingAdd(f[k + 1], gap)
           g == [k \in 1 .. n |-> Clamped(low + gap * (n - k))]
<1>1. \A k \in 1 .. n : g[k] = Next(g, k)
  <2> TAKE k \in 1 .. n
  <2>1. CASE k = n
    <3>1. gap * (n - k) = 0
      BY <2>1
    <3> QED
      BY <2>1, <3>1, MaxIntIsPositive DEF Clamped
  <2>2. CASE k # n
    <3>1. k \in 1 .. n - 1 /\ k + 1 \in 1 .. n
      BY <2>2
    <3>2. low + gap * (n - (k + 1)) \in Int
      OBVIOUS
    <3>3. Clamped((low + gap * (n - (k + 1))) + gap) = SaturatingAdd(g[k + 1], gap)
      BY <3>1, <3>2, SaturatingAddClamps
    <3> QED
      BY <2>2, <3>1, <3>3, OneStepMore
  <2> QED
    BY <2>1, <2>2
<1>2. g = [k \in 1 .. n |-> Next(g, k)]
  BY <1>1
<1>3. Pr = [k \in 1 .. n |-> Next(Pr, k)]
  <2> HIDE DEF g
  <2> QED
    BY <1>2 DEF Priorities
<1>4. \A k \in 1 .. n : Pr[k] = Next(Pr, k)
  BY <1>3
<1> HIDE DEF Pr
<1> DEFINE Wrong == {k \in 1 .. n : Pr[k] # g[k]}
           B == {p \in (1 .. n) \X (1 .. n) : p[1] > p[2]}
<1>5. Wrong = {}
  <2> SUFFICES ASSUME Wrong # {} PROVE FALSE
    <3> HIDE DEF Wrong
    <3> QED
      OBVIOUS
  <2>1. IsFiniteSet(Wrong)
    <3>1. Wrong \in SUBSET (1 .. n) /\ IsFiniteSet(1 .. n)
      BY FS_Interval
    <3> HIDE DEF Wrong
    <3> QED
      BY <3>1, FS_Subset
  <2>2. \A x \in Wrong : <<x, x>> \notin B
    OBVIOUS
  <2>3. \A x, y, z \in Wrong : <<x, y>> \in B /\ <<y, z>> \in B => <<x, z>> \in B
    OBVIOUS
  <2>4. PICK m \in Wrong : \A d \in Wrong : <<d, m>> \notin B
    <3> HIDE DEF Wrong, B
    <3> QED
      BY <2>1, <2>2, <2>3, MinimalExists
  <2>5. m # n
    <3>1. Pr[m] # g[m] /\ m \in 1 .. n
      OBVIOUS
    <3>2. Pr[m] = Next(Pr, m) /\ g[m] = Next(g, m)
      <4> HIDE DEF g, Next
      <4> QED
        BY <1>1, <1>4, <3>1
    <3> QED
      BY <3>1, <3>2
  <2>6. m + 1 \in 1 .. n /\ m + 1 \notin Wrong
    <3>1. m \in 1 .. n /\ m + 1 \in 1 .. n
      BY <2>5
    <3>2. <<m + 1, m>> \in B
      BY <3>1
    <3> HIDE DEF Wrong, B
    <3> QED
      BY <2>4, <3>1, <3>2
  <2>7. Next(Pr, m) = Next(g, m)
    BY <2>5, <2>6
  <2> QED
    BY <1>1, <1>4, <2>7
<1> QED
  BY <1>5 DEF Pr

\* Rank gives each entry of a group its priority, held at the ceiling.
LEMMA RankOfGroup ==
  ASSUME NEW S, IsGroup(S), NEW low \in Int, low <= MaxInt, NEW gap \in Nat \ {0},
         NEW e \in S
  PROVE  Rank(S, low, gap)[e] = Clamped(Priority(e, S, low, gap))
<1> DEFINE n == Cardinality(S)
           s == Sorted(S)
           i == CHOOSE j \in DOMAIN s : s[j] = e
<1>1. n \in Nat
  BY FS_CardinalityType DEF IsGroup
<1>2. s \in [1 .. n -> S]
  BY SortedIsInOrder
<1>3. \E j \in 1 .. n : s[j] = e
  <2>1. PICK j \in 1 .. n : Standing(e, S) = n - j
    <3>1. Standing(e, S) \in Nat /\ Standing(e, S) < n
      BY StandingIsBounded DEF IsGroup
    <3>2. n - Standing(e, S) \in 1 .. n /\ Standing(e, S) = n - (n - Standing(e, S))
      BY <1>1, <3>1
    <3> QED
      BY <3>2
  <2>2. s[j] \in S /\ Standing(s[j], S) = Standing(e, S)
    BY <1>2, <2>1, SortedStanding
  <2>3. Standing(e, S) \in Int
    BY StandingIsBounded DEF IsGroup
  <2>4. s[j] = e
    <3> HIDE DEF s
    <3> QED
      BY <2>2, <2>3, StandingDescends, PrecedesIsTotal DEF IsGroup
  <2> QED
    BY <2>4
<1>4. i \in 1 .. n /\ s[i] = e
  <2> HIDE DEF s
  <2> QED
    BY <1>2, <1>3
<1>5. Rank(S, low, gap)[e] = Priorities(n, low, gap)[i]
  BY DEF Rank
<1>6. Standing(e, S) = n - i
  <2> HIDE DEF i
  <2> QED
    BY <1>4, SortedStanding
<1> HIDE DEF i
<1> QED
  BY <1>1, <1>4, <1>5, <1>6, LoopIsClosed DEF Priority

\* The groups of RankGroups are groups.
GroupInv == IsGroup(entries) /\ floor \in Floors /\ step \in Steps

\* Accounts join and leave one at a time, each under its own key.
LEMMA GroupInvHolds == GroupSpec => []GroupInv
<1>1. GroupInit => GroupInv
  BY FS_EmptySet DEF GroupInit, GroupInv, IsGroup
<1>2. GroupInv /\ [GroupNext]_group => GroupInv'
  <2> SUFFICES ASSUME GroupInv, [GroupNext]_group
               PROVE  GroupInv'
    OBVIOUS
  <2>1. ASSUME NEW k \in Keys, Set(k), UNCHANGED <<floor, step>>
        PROVE  GroupInv'
    <3>1. PICK at \in Resets, future \in BOOLEAN :
            entries' = WithEntry([key |-> k, at |-> at, future |-> future])
      BY <2>1 DEF Set
    <3> DEFINE e == [key |-> k, at |-> at, future |-> future]
               others == {f \in entries : f.key # e.key}
    <3>2. e \in Entry /\ others \in SUBSET Entry
      BY GroupsAreOfInts DEF Entry, GroupInv, IsGroup
    <3>3. entries' = others \cup {e}
      BY <3>1 DEF WithEntry
    <3>4. IsFiniteSet(others)
      BY FS_Subset DEF GroupInv, IsGroup
    <3>5. \A f \in others : f.key # e.key /\ f \in entries
      OBVIOUS
    <3> HIDE DEF e, others
    <3>6. IsFiniteSet(entries')
      BY <3>3, <3>4, FS_AddElement
    <3>7. \A f, g \in entries' : f.key = g.key => f = g
      BY <3>3, <3>5 DEF GroupInv, IsGroup
    <3> QED
      BY <2>1, <3>2, <3>3, <3>6, <3>7 DEF GroupInv, IsGroup
  <2>2. ASSUME NEW k \in Keys, Leave(k), UNCHANGED <<floor, step>>
        PROVE  GroupInv'
    <3>1. entries' \in SUBSET entries
      BY <2>2 DEF Leave
    <3>2. IsFiniteSet(entries')
      BY <3>1, FS_Subset DEF GroupInv, IsGroup
    <3> QED
      BY <2>2, <3>1, <3>2 DEF GroupInv, IsGroup
  <2>3. CASE UNCHANGED group
    BY <2>3 DEF group, GroupInv, IsGroup
  <2> QED
    BY <2>1, <2>2, <2>3 DEF GroupNext
<1> QED
  BY <1>1, <1>2, PTL DEF GroupSpec

\* The values a group is ranked with.
LEMMA GroupValues ==
  ASSUME GroupInv
  PROVE  floor \in Int /\ floor <= MaxInt /\ step \in Nat \ {0}
  BY GroupsAreOfInts, MaxIntIsPositive DEF GroupInv

\* The loop of Rank computes floor + step * (N - 1 - rank), held at the int ceiling, for
\* any number of accounts, any resets, floors and steps.
THEOREM RankIsPriorityHolds == GroupSpec => []RankIsPriority
<1>1. GroupInv => RankIsPriority
  BY GroupValues, RankOfGroup DEF RankIsPriority, GroupInv
<1> QED
  BY <1>1, GroupInvHolds, PTL

\* What RankOf says of an entry's key is what Rank says of the entry.
LEMMA RankOfEntry ==
  ASSUME GroupInv, NEW e \in entries
  PROVE  RankOf(e.key) = Clamped(Priority(e, entries, floor, step))
<1>1. (CHOOSE f \in entries : f.key = e.key) = e
  BY DEF GroupInv, IsGroup
<1>2. Rank(entries, floor, step)[e] = Clamped(Priority(e, entries, floor, step))
  BY GroupValues, RankOfGroup DEF GroupInv
<1> QED
  BY <1>1, <1>2 DEF RankOf

\* No more followers, no higher a priority.
LEMMA ClampedPrioritiesFollowStanding ==
  ASSUME NEW S, NEW R, NEW e, NEW f, NEW low \in Int, NEW gap \in Nat \ {0},
         Standing(e, S) \in Nat, Standing(f, R) \in Nat, Standing(e, S) <= Standing(f, R)
  PROVE  Clamped(Priority(e, S, low, gap)) <= Clamped(Priority(f, R, low, gap))
<1> DEFINE m == Standing(e, S)
           n == Standing(f, R)
<1>1. low + gap * m <= low + gap * n
  <2>1. CASE m = n
    BY <2>1
  <2>2. CASE m < n
    <3> HIDE DEF m, n
    <3>1. m \in Nat /\ n \in Nat
      BY DEF m, n
    <3>2. gap * m \in Int /\ gap * n \in Int
      BY <3>1
    <3>3. low + gap * m < low + gap * n
      BY <2>2, <3>1, MoreStepsAreHigher
    <3> QED
      BY <3>2, <3>3
  <2> QED
    BY <2>1, <2>2
<1>2. low + gap * m \in Int /\ low + gap * n \in Int
  OBVIOUS
<1> QED
  BY <1>1, <1>2, MaxIntIsPositive DEF Priority, Clamped

\* An entry that moves later has no more followers than before, and every other
\* entry no fewer.
LEMMA LaterStandings ==
  ASSUME NEW S, IsGroup(S), NEW R, IsGroup(R), NEW e \in S, NEW f \in R,
         Later(e, f), R \ {f} = S \ {e}
  PROVE  /\ Standing(f, R) <= Standing(e, S)
         /\ \A o \in S \ {e} : Standing(o, S) <= Standing(o, R)
<1>1. /\ \A o \in S : IsFiniteSet(Followers(o, S)) /\ o \in Entry
      /\ \A o \in R : IsFiniteSet(Followers(o, R)) /\ o \in Entry
  BY FS_Subset DEF Followers, IsGroup
<1>2. Standing(f, R) <= Standing(e, S)
  <2>1. \A x \in Entry : Precedes(f, x) => Precedes(e, x)
    BY <1>1 DEF Later, Precedes, Entry
  <2>2. Followers(f, R) \in SUBSET Followers(e, S)
    BY <1>1, <2>1, PrecedesIsIrreflexive DEF Followers
  <2> QED
    BY <1>1, <2>2, FS_Subset DEF Standing
<1>3. ASSUME NEW o \in S \ {e}
      PROVE  Standing(o, S) <= Standing(o, R)
  <2> DEFINE A == Followers(o, S)
             B == Followers(o, R)
             C == A \ {e}
  <2>1. o \in R \ {f} /\ o \in Entry /\ IsFiniteSet(A) /\ IsFiniteSet(B)
    BY <1>1
  <2>2. C \subseteq B /\ f \notin C
    BY DEF Followers
  <2>3. Precedes(o, e) => Precedes(o, f)
    BY <1>1, <2>1 DEF Later, Precedes, Entry
  <2>4. IsFiniteSet(C) /\ Cardinality(C) = IF e \in A THEN Cardinality(A) - 1 ELSE Cardinality(A)
    BY <2>1, FS_RemoveElement
  <2>5. Cardinality(A) \in Nat /\ Cardinality(B) \in Nat /\ Cardinality(C) \in Nat
    BY <2>1, <2>4, FS_CardinalityType
  <2>6. CASE e \in A
    <3>1. C \cup {f} \in SUBSET B
      BY <2>1, <2>2, <2>3, <2>6 DEF Followers
    <3>2. Cardinality(C \cup {f}) = Cardinality(C) + 1
      BY <2>2, <2>4, FS_AddElement
    <3>3. Cardinality(C \cup {f}) <= Cardinality(B)
      BY <2>1, <3>1, FS_Subset
    <3> QED
      BY <2>4, <2>5, <2>6, <3>2, <3>3 DEF Standing
  <2>7. CASE e \notin A
    <3>1. Cardinality(C) <= Cardinality(B)
      BY <2>1, <2>2, FS_Subset
    <3> QED
      BY <2>4, <2>5, <2>7, <3>1 DEF Standing
  <2> QED
    BY <2>6, <2>7
<1> QED
  BY <1>2, <1>3

\* When one account's reset moves later or expires, that account does not rise and
\* nobody else falls, in any group.
THEOREM LaterLowersOnlyItselfHolds == GroupSpec => LaterLowersOnlyItself
<1> DEFINE OnlyItself ==
      \A e \in entries, f \in entries' :
        Later(e, f) /\ entries' \ {f} = entries \ {e} =>
          /\ RankOf(e.key)' <= RankOf(e.key)
          /\ \A o \in entries \ {e} : RankOf(o.key)' >= RankOf(o.key)
<1>1. GroupInv =>
        \A o \in entries : RankOf(o.key) = Clamped(Priority(o, entries, floor, step))
  BY RankOfEntry
<1>2. ASSUME GroupInv, GroupInv', [GroupNext]_group
      PROVE  OnlyItself
  <2> SUFFICES ASSUME NEW e \in entries, NEW f \in entries',
                      Later(e, f), entries' \ {f} = entries \ {e}
               PROVE  /\ RankOf(e.key)' <= RankOf(e.key)
                      /\ \A o \in entries \ {e} : RankOf(o.key)' >= RankOf(o.key)
    OBVIOUS
  <2>1. floor' = floor /\ step' = step
    BY <1>2 DEF GroupNext, group
  <2>2. /\ \A o \in entries : RankOf(o.key) = Clamped(Priority(o, entries, floor, step))
        /\ (\A o \in entries : RankOf(o.key) = Clamped(Priority(o, entries, floor, step)))'
    BY <1>2, <1>1, PTL
  <2>3. \A o \in entries' : RankOf(o.key)' = Clamped(Priority(o, entries', floor, step))
    BY <2>1, <2>2
  <2>4. /\ \A o \in entries : Standing(o, entries) \in Nat
        /\ \A o \in entries' : Standing(o, entries') \in Nat
    BY <1>2, StandingIsBounded DEF GroupInv, IsGroup
  <2>5. /\ Standing(f, entries') <= Standing(e, entries)
        /\ \A o \in entries \ {e} : Standing(o, entries) <= Standing(o, entries')
    BY <1>2, LaterStandings DEF GroupInv
  <2>6. floor \in Int /\ step \in Nat \ {0}
    BY <1>2, GroupValues
  <2>7. f.key = e.key
    BY DEF Later
  <2>8. RankOf(e.key)' <= RankOf(e.key)
    BY <2>2, <2>3, <2>4, <2>5, <2>6, <2>7, ClampedPrioritiesFollowStanding
  <2>9. ASSUME NEW o \in entries \ {e}
        PROVE  RankOf(o.key)' >= RankOf(o.key)
    <3>1. o \in entries'
      OBVIOUS
    <3> QED
      BY <2>2, <2>3, <2>4, <2>5, <2>6, <3>1, ClampedPrioritiesFollowStanding
  <2> QED
    BY <2>8, <2>9
<1>3. GroupInv /\ GroupInv' /\ [GroupNext]_group => [OnlyItself]_group
  BY <1>2
<1> QED
  BY <1>3, GroupInvHolds, PTL DEF GroupSpec, LaterLowersOnlyItself

----------------------------------------------------------------------------
\* Roster.

\* The candidates are numbered from one on.
LEMMA CandidatesAreNumbered ==
  ASSUME list \in Seq(Entries)
  PROVE  /\ Len(Candidates) \in Nat
         /\ DOMAIN Candidates = 1 .. Len(Candidates)
  BY DEF Candidates

\* What each variable holds.
RosterType ==
  /\ list \in Seq(Entries)
  /\ answers \in Seq(Answers \cup {"ambiguous"})
  /\ state \in {"idle", "reading", "validated", "deferred"}

\* Answers are to the first of the candidates, in their order.
AnswersAreRead == DOMAIN answers \subseteq DOMAIN Candidates

\* Those that share an identity, and only those, have not been read.
AmbiguousAreSkipped ==
  \A i \in DOMAIN answers : answers[i] = "ambiguous" <=> Ambiguous(i)

\* While the pass goes on no answer about a managed account was doubtful; when it is
\* deferred, the last one was.
DoubtDefers ==
  /\ state # "idle" => known = managed
  /\ state # "deferred" =>
       \A i \in DOMAIN answers : Doubtful(answers[i]) => Candidates[i].index \notin known
  /\ state = "deferred" => Candidates[Len(answers)].index \in known

\* The invariant; a roster is validated only when every candidate has been read.
RosterInv ==
  /\ RosterType
  /\ AnswersAreRead
  /\ AmbiguousAreSkipped
  /\ DoubtDefers
  /\ state = "validated" => DOMAIN Candidates \subseteq DOMAIN answers

\* One more answer, of the candidate whose turn it is.
LEMMA OneMoreAnswer ==
  ASSUME RosterType, AnswersAreRead, UNCHANGED list, Turn \in DOMAIN Candidates,
         NEW answer \in Answers \cup {"ambiguous"}, answers' = Append(answers, answer)
  PROVE  /\ answers' \in Seq(Answers \cup {"ambiguous"})
         /\ Len(answers') = Turn
         /\ DOMAIN answers' = DOMAIN answers \cup {Turn}
         /\ Turn \notin DOMAIN answers
         /\ answers'[Turn] = answer
         /\ \A i \in DOMAIN answers : answers'[i] = answers[i]
         /\ AnswersAreRead'
<1>1. Candidates' = Candidates
  BY DEF Candidates
<1> QED
  BY <1>1 DEF RosterType, AnswersAreRead, Turn

\* Nothing is ambiguous or not, but by the list.
LEMMA SameCandidates ==
  ASSUME UNCHANGED list
  PROVE  Candidates' = Candidates /\ \A i : Ambiguous(i)' <=> Ambiguous(i)
<1>1. Candidates' = Candidates
  BY DEF Candidates
<1> QED
  BY <1>1 DEF Ambiguous

\* Every step keeps the invariant.
LEMMA RosterStepKeeps ==
  ASSUME RosterInv, [RosterNext]_rosterVars
  PROVE  RosterInv'
<1>1. CASE List
  <2>1. /\ list' \in Seq(Entries) /\ answers' = <<>> /\ known' = managed'
        /\ state' = "reading"
    BY <1>1 DEF List, BoundedSeq, SeqOf
  <2>2. DOMAIN answers' = {}
    BY <2>1
  <2>3. RosterType'
    BY <2>1 DEF RosterType
  <2> QED
    BY <2>1, <2>2, <2>3 DEF RosterInv, AnswersAreRead, AmbiguousAreSkipped, DoubtDefers
<1>2. CASE SkipAmbiguous
  <2>1. /\ UNCHANGED <<managed, list, known, state>> /\ state = "reading"
        /\ Ambiguous(Turn) /\ Turn \in DOMAIN Candidates
        /\ answers' = Append(answers, "ambiguous")
    BY <1>2 DEF SkipAmbiguous
  <2>2. ~Doubtful("ambiguous")
    BY DEF Doubtful
  <2> QED
    BY <2>1, <2>2, OneMoreAnswer, SameCandidates
    DEF RosterInv, RosterType, AmbiguousAreSkipped, DoubtDefers
<1>3. CASE Read
  <2>1. PICK answer \in Answers :
          /\ answers' = Append(answers, answer)
          /\ state' = IF Defers(Turn, answer) THEN "deferred" ELSE "reading"
    BY <1>3 DEF Read
  <2>2. /\ UNCHANGED <<managed, list, known>> /\ state = "reading"
        /\ ~Ambiguous(Turn) /\ Turn \in DOMAIN Candidates
    BY <1>3 DEF Read
  <2>3. answer # "ambiguous"
    BY DEF Answers
  <2>4. /\ Len(answers') = Turn
        /\ DOMAIN answers' = DOMAIN answers \cup {Turn}
        /\ answers'[Turn] = answer
        /\ \A i \in DOMAIN answers : answers'[i] = answers[i]
        /\ AnswersAreRead'
        /\ RosterType'
    BY <2>1, <2>2, OneMoreAnswer DEF RosterInv, RosterType
  <2>5. AmbiguousAreSkipped'
    BY <2>2, <2>3, <2>4, SameCandidates DEF RosterInv, AmbiguousAreSkipped
  <2>6. DoubtDefers'
    BY <2>1, <2>2, <2>4, SameCandidates DEF RosterInv, DoubtDefers, Defers
  <2> QED
    BY <2>1, <2>4, <2>5, <2>6 DEF RosterInv
<1>4. CASE ReadAll
  <2>1. DOMAIN Candidates \subseteq DOMAIN answers
    BY <1>4, CandidatesAreNumbered DEF ReadAll, RosterInv, RosterType, Turn
  <2> QED
    BY <1>4, <2>1, SameCandidates
    DEF ReadAll, RosterInv, RosterType, AnswersAreRead, AmbiguousAreSkipped, DoubtDefers
<1>5. CASE Apply \/ Defer
  <2>1. Ends
    BY <1>5 DEF Apply, Defer
  <2>2. DOMAIN answers' = {} /\ state' = "idle"
    BY <2>1 DEF Ends
  <2>3. RosterType'
    BY <2>1 DEF Ends, RosterType
  <2> QED
    BY <2>2, <2>3 DEF RosterInv, AnswersAreRead, AmbiguousAreSkipped, DoubtDefers
<1>6. CASE UNCHANGED rosterVars
  BY <1>6, SameCandidates DEF rosterVars, RosterInv, RosterType, AnswersAreRead,
     AmbiguousAreSkipped, DoubtDefers
<1> QED
  BY <1>1, <1>2, <1>3, <1>4, <1>5, <1>6 DEF RosterNext

----------------------------------------------------------------------------
\* The invariant is inductive.
THEOREM RosterInvariance == RosterSpec => []RosterInv
<1>1. RosterInit => RosterInv
  BY DEF RosterInit, RosterInv, RosterType, AnswersAreRead, AmbiguousAreSkipped, DoubtDefers
<1> QED
  BY <1>1, RosterStepKeeps, PTL DEF RosterSpec

\* Only an account that is already managed defers a pass.
THEOREM NewNeverDefersHolds == RosterSpec => []NewNeverDefers
<1>1. RosterInv => NewNeverDefers
  BY DEF RosterInv, DoubtDefers, NewNeverDefers
<1> QED
  BY <1>1, RosterInvariance, PTL

\* No validated entry shares an identity with any candidate of the list.
THEOREM NoSharedFileHolds == RosterSpec => []NoSharedFile
<1>1. ASSUME RosterInv, NEW e \in Validated
      PROVE  Cardinality({i \in DOMAIN Candidates : Shares(e, Candidates[i])}) = 1
  <2>1. PICK i \in DOMAIN answers : answers[i] = "good" /\ e = Candidates[i]
    BY DEF Validated
  <2>2. i \in DOMAIN Candidates /\ ~Ambiguous(i)
    BY <1>1, <2>1 DEF RosterInv, AnswersAreRead, AmbiguousAreSkipped
  <2>3. {j \in DOMAIN Candidates : Shares(e, Candidates[j])} = {i}
    BY <2>1, <2>2 DEF Ambiguous, Shares
  <2> QED
    BY <2>3, FS_Singleton
<1>2. RosterInv => NoSharedFile
  BY <1>1 DEF NoSharedFile
<1> QED
  BY <1>2, RosterInvariance, PTL

\* Every account that leaves management does so for a conclusive reason.
THEOREM LeavesForCauseHolds == RosterSpec => LeavesForCause
<1>1. ASSUME RosterInv, RosterNext, NEW a \in managed \ managed', NEW i \in Positions(a)
      PROVE  Ambiguous(i) \/ answers[i] = "bare"
  <2>1. state = "validated" /\ managed' = Applied
    BY <1>1 DEF RosterNext, List, SkipAmbiguous, Read, ReadAll, Apply, Defer
  <2>2. i \in DOMAIN answers /\ Candidates[i].index = a
    BY <1>1, <2>1 DEF RosterInv, Positions
  <2>3. answers[i] # "good"
    BY <2>1, <2>2 DEF Applied, Validated
  <2>4. ~Doubtful(answers[i])
    BY <1>1, <2>1, <2>2 DEF RosterInv, DoubtDefers
  <2>5. answers[i] \in Answers \cup {"ambiguous"}
    BY <1>1, <2>2 DEF RosterInv, RosterType
  <2> QED
    BY <1>1, <2>2, <2>3, <2>4, <2>5 DEF Doubtful, Answers, RosterInv, AmbiguousAreSkipped
<1>2. RosterInv /\ [RosterNext]_rosterVars =>
        [\A a \in managed \ managed' :
           \A i \in Positions(a) : Ambiguous(i) \/ answers[i] = "bare"]_rosterVars
  BY <1>1
<1> QED
  BY <1>2, RosterInvariance, PTL DEF RosterSpec, LeavesForCause

----------------------------------------------------------------------------
\* Settings.

\* A quotient times its divisor fits, and so does whatever is less.
LEMMA ProductFits ==
  ASSUME NEW m \in Nat, NEW d \in Nat \ {0}, NEW n \in Int, n <= m \div d
  PROVE  n * d <= m
<1> DEFINE q == m \div d
<1>1. q \in Nat /\ q * d <= m
  OBVIOUS
<1> HIDE DEF q
<1>2. PICK r \in Nat : q = n + r
  <2>1. q - n \in Nat /\ q = n + (q - n)
    BY <1>1 DEF q
  <2> QED
    BY <2>1
<1>3. q * d = n * d + r * d
  BY <1>2
<1>4. r * d \in Nat /\ n * d \in Int /\ q * d \in Int
  BY <1>1
<1> QED
  BY <1>1, <1>3, <1>4

\* A duration that fits comes out of the conversion as it was written.
LEMMA TicksAreWritten ==
  ASSUME NEW v, v.unit \in {"ticks", "seconds"}, v.n \in Int, Fits(v)
  PROVE  /\ Ticks(v) \in MinDuration .. MaxDuration
         /\ Ticks(v) = IF v.unit = "ticks" THEN v.n ELSE v.n * Second
<1>1. CASE v.unit = "ticks"
  BY <1>1 DEF Fits, Ticks
<1>2. CASE v.unit = "seconds"
  <2> DEFINE n == v.n
             x == n * Second
             size == MaxDuration - MinDuration + 1
  <2>1. MaxDuration \in Nat /\ MinDuration \in Int /\ -MinDuration = MaxDuration + 1
    BY DurationsAreNumbers DEF MinDuration
  <2>2. n <= MaxDuration \div Second /\ -n <= (-MinDuration) \div Second
    <3>1. n \in Truncated(MinDuration, Second) .. Truncated(MaxDuration, Second)
      BY <1>2 DEF Fits
    <3>2. /\ Truncated(MaxDuration, Second) = MaxDuration \div Second
          /\ Truncated(MinDuration, Second) = -((-MinDuration) \div Second)
      BY <2>1 DEF Truncated
    <3>3. /\ MaxDuration \div Second \in Int
          /\ (-MinDuration) \div Second \in Int
      BY <2>1, DurationsAreNumbers
    <3> QED
      BY <3>1, <3>2, <3>3
  <2>3. x \in MinDuration .. MaxDuration
    <3>1. x <= MaxDuration
      BY <2>1, <2>2, DurationsAreNumbers, ProductFits
    <3>2. (-n) * Second <= -MinDuration
      BY <2>1, <2>2, DurationsAreNumbers, ProductFits
    <3>3. (-n) * Second = -x /\ x \in Int
      BY DurationsAreNumbers
    <3> QED
      BY <2>1, <3>1, <3>2, <3>3
  <2>4. Wrapped(x) = x
    <3>1. size \in Nat \ {0} /\ x - MinDuration \in 0 .. size - 1
      BY <2>1, <2>3
    <3>2. (x - MinDuration) % size = x - MinDuration
      <4> HIDE DEF x, size
      <4> QED
        BY <3>1
    <3> QED
      BY <2>1, <2>3, <3>2 DEF Wrapped
  <2> QED
    BY <1>2, <2>3, <2>4 DEF Ticks
<1> QED
  BY <1>1, <1>2

\* Only values that may be written are.
SubtreeIsWritten ==
  \A k \in DOMAIN subtree : k \in SettingKeys /\ subtree[k] \in SettingValues(k)

\* A subtree that decodes has numbers at its durations and priorities.
LEMMA DecodedValues ==
  ASSUME SubtreeIsWritten, Decodes
  PROVE  /\ \A k \in DOMAIN subtree \cap PriorityFields : subtree[k] \in Int
         /\ \A k \in DOMAIN subtree \cap DurationFields :
              /\ Ticks(subtree[k]) \in MinDuration .. MaxDuration
              /\ Ticks(subtree[k]) = Written(k)
<1>1. \A k \in DOMAIN subtree : subtree[k] \in SettingValues(k) \ {Bad}
  BY DEF SubtreeIsWritten, Decodes
<1>2. \A k \in DOMAIN subtree \cap PriorityFields : subtree[k] \in Int
  BY <1>1, ValuesAreTyped DEF SubtreeIsWritten
<1>3. ASSUME NEW k \in DOMAIN subtree \cap DurationFields
      PROVE  /\ Ticks(subtree[k]) \in MinDuration .. MaxDuration
             /\ Ticks(subtree[k]) = Written(k)
  <2>1. subtree[k].unit \in {"ticks", "seconds"} /\ subtree[k].n \in Int
    BY <1>1, <1>3, ValuesAreTyped DEF SubtreeIsWritten
  <2>2. Fits(subtree[k])
    BY <1>3 DEF Decodes
  <2> QED
    BY <2>1, <2>2, TicksAreWritten DEF Written
<1> QED
  BY <1>2, <1>3

\* What Parse makes of a subtree that decodes, once it validates, the engine may run.
LEMMA ParsedMayRun ==
  ASSUME SubtreeIsWritten, Decodes, Validates(Parsed)
  PROVE  /\ Parsed.sentinel \in Nat /\ Parsed.floor \in Nat /\ Parsed.sentinel < Parsed.floor
         /\ Parsed.step \in Nat \ {0}
         /\ Parsed.interval \in 1 .. MaxDuration /\ Parsed.timeout \in 1 .. MaxDuration
<1>1. Parsed.floor \in Int /\ Parsed.step \in Int
  BY DecodedValues, DefaultsAreNumbers DEF Parsed, Or, PriorityFields
<1>2. Parsed.sentinel \in 0 .. Parsed.floor - 1 /\ Parsed.step > 0
  BY DEF Validates
<1>3. Parsed.interval > 0 /\ Parsed.timeout > 0
  BY DEF Validates
<1>4. \A key \in DurationFields : \A default \in 1 .. MaxDuration :
        Lasting(key, default) \in MinDuration .. MaxDuration
  BY DecodedValues, DurationsAreNumbers DEF Lasting, MinDuration
<1>5. \A key \in DurationFields : \A default \in MinDuration .. MaxDuration :
        Lasting(key, default) \in MinDuration .. MaxDuration
  BY DecodedValues DEF Lasting
<1>6. /\ Parsed.interval \in MinDuration .. MaxDuration
      /\ Parsed.timeout \in MinDuration .. MaxDuration
  BY <1>4, <1>5, DefaultsAreNumbers DEF Parsed, DurationFields
<1>7. MaxDuration \in Int /\ MinDuration \in Int
  BY DurationsAreNumbers DEF MinDuration
<1> QED
  BY <1>1, <1>2, <1>3, <1>6, <1>7

SettingsInv == SubtreeIsWritten /\ EngineMayRunIt

\* One key at a time is written, and only what validates comes into force.
LEMMA SettingsInvHolds == SettingsSpec => []SettingsInv
<1>1. SettingsInit => SettingsInv
  BY DefaultsAreNumbers DEF SettingsInit, SettingsInv, SubtreeIsWritten, EngineMayRunIt
<1>2. SettingsInv /\ [SettingsNext]_settingsVars => SettingsInv'
  <2> SUFFICES ASSUME SettingsInv, [SettingsNext]_settingsVars
               PROVE  SettingsInv'
    OBVIOUS
  <2>1. ASSUME NEW key \in SettingKeys, NEW value \in SettingValues(key), Write(key, value)
        PROVE  SettingsInv'
    BY <2>1 DEF Write, SettingsInv, SubtreeIsWritten, EngineMayRunIt
  <2>2. ASSUME NEW key \in SettingKeys, Erase(key)
        PROVE  SettingsInv'
    BY <2>2 DEF Erase, SettingsInv, SubtreeIsWritten, EngineMayRunIt
  <2>3. CASE Reconfigure
    <3>1. CASE Decodes /\ Validates(Parsed)
      BY <2>3, <3>1, ParsedMayRun DEF Reconfigure, SettingsInv, SubtreeIsWritten, EngineMayRunIt
    <3>2. CASE ~(Decodes /\ Validates(Parsed))
      BY <2>3, <3>2 DEF Reconfigure, SettingsInv, SubtreeIsWritten, EngineMayRunIt
    <3> QED
      BY <3>1, <3>2
  <2>4. CASE UNCHANGED settingsVars
    BY <2>4 DEF settingsVars, SettingsInv, SubtreeIsWritten, EngineMayRunIt
  <2> QED
    BY <2>1, <2>2, <2>3, <2>4 DEF SettingsNext
<1> QED
  BY <1>1, <1>2, PTL DEF SettingsSpec

\* Whatever keys are written, with whatever values, the configuration in force is one
\* the engine is made for: EngineState's assumption about configurations.
THEOREM EngineMayRunItHolds == SettingsSpec => []EngineMayRunIt
  BY SettingsInvHolds, PTL DEF SettingsInv

\* An interval or timeout that comes into force lasts exactly as long as what is
\* written, in whatever width: no number of seconds wraps round.
THEOREM LastsAsWrittenHolds == SettingsSpec => LastsAsWritten
<1> DEFINE Lasts ==
      Reconfigure /\ reply' = "ok" =>
        /\ "reconcile-interval" \in DOMAIN subtree =>
             config'.interval = Written("reconcile-interval")
        /\ "request-timeout" \in DOMAIN subtree =>
             config'.timeout = Written("request-timeout")
<1>1. SettingsInv => Lasts
  <2> SUFFICES ASSUME SettingsInv, Reconfigure, reply' = "ok"
               PROVE  /\ "reconcile-interval" \in DOMAIN subtree =>
                           config'.interval = Written("reconcile-interval")
                      /\ "request-timeout" \in DOMAIN subtree =>
                           config'.timeout = Written("request-timeout")
    OBVIOUS
  <2>1. Decodes /\ config' = Parsed
    BY DEF Reconfigure
  <2>2. \A k \in DOMAIN subtree \cap DurationFields : Ticks(subtree[k]) = Written(k)
    BY <2>1, DecodedValues DEF SettingsInv
  <2> QED
    BY <2>1, <2>2 DEF Parsed, Lasting, DurationFields
<1>2. SettingsInv => [Lasts]_settingsVars
  BY <1>1
<1> QED
  BY <1>2, SettingsInvHolds, PTL DEF SettingsSpec, LastsAsWritten

----------------------------------------------------------------------------
\* WeeklyWindow.

\* Every field has a value of its kind.
WindowInv ==
  \A p \in Places : \A k \in DOMAIN root[p] :
    k \in DurationKeys \cup ResetKeys /\ root[p][k] \in FieldValues(k)

\* A field is declared, retracted, or moves with its window.
LEMMA WindowInvHolds == WindowSpec => [](root = [p \in Places |-> root[p]] /\ WindowInv)
<1> DEFINE Inv == root = [p \in Places |-> root[p]] /\ WindowInv
<1>1. WindowInit => Inv
  BY DEF WindowInit, WindowInv
<1>2. Inv /\ [WindowNext]_windowVars => Inv'
  <2> SUFFICES ASSUME Inv, [WindowNext]_windowVars
               PROVE  Inv'
    OBVIOUS
  <2>1. ASSUME NEW place \in Places, NEW key \in DurationKeys \cup ResetKeys,
               NEW value \in FieldValues(key), Declare(place, key, value)
        PROVE  Inv'
    BY <2>1 DEF Declare, WithField, WindowInv
  <2>2. ASSUME NEW place \in Places, NEW key \in DurationKeys \cup ResetKeys,
               Retract(place, key)
        PROVE  Inv'
    BY <2>2 DEF Retract, WindowInv
  <2>3. ASSUME NEW place \in Places, NEW other \in Places, Exchange(place, other)
        PROVE  Inv'
    BY <2>3 DEF Exchange, WindowInv
  <2>4. CASE UNCHANGED windowVars
    BY <2>4 DEF windowVars, WindowInv
  <2> QED
    BY <2>1, <2>2, <2>3, <2>4 DEF WindowNext
<1> QED
  BY <1>1, <1>2, PTL DEF WindowSpec

\* The candidates' order has no cycles.
LEMMA BeforeIsOrder ==
  ASSUME NEW p \in Places, NEW q \in Places, NEW r \in Places
  PROVE  ~Before(p, p) /\ (Before(p, q) /\ Before(q, r) => Before(p, r))
<1>1. \A x \in ToSet(Envelopes) : Position(x, Envelopes) \in Int
  BY DEF Position, Envelopes, ToSet
<1>2. \A x \in ToSet(WindowKeys) : Position(x, WindowKeys) \in Int
  BY DEF Position, WindowKeys, ToSet
<1>3. \A x \in Places : x[1] \in ToSet(Envelopes) /\ x[2] \in ToSet(WindowKeys)
  BY PlacesAreCandidates
<1> QED
  BY <1>1, <1>2, <1>3 DEF Before

\* So some place of any is the first.
LEMMA FirstExists ==
  ASSUME NEW found \in SUBSET Places, found # {}
  PROVE  FirstOf(found) \in found
<1> DEFINE B == {pair \in Places \X Places : Before(pair[1], pair[2])}
<1>1. IsFiniteSet(found)
  BY PlacesAreCandidates, FS_Subset
<1>2. \A x, y \in found : <<x, y>> \in B <=> Before(x, y)
  OBVIOUS
<1>3. \A x \in found : <<x, x>> \notin B
  BY <1>2, BeforeIsOrder
<1>4. \A x, y, z \in found : <<x, y>> \in B /\ <<y, z>> \in B => <<x, z>> \in B
  BY <1>2, BeforeIsOrder
<1>5. \E m \in found : \A d \in found : <<d, m>> \notin B
  <2> HIDE DEF B
  <2> QED
    BY <1>1, <1>3, <1>4, MinimalExists
<1>6. \E m \in found : \A d \in found : ~Before(d, m)
  BY <1>2, <1>5
<1> QED
  BY <1>6 DEF FirstOf

\* The places where a reset is found.
Found == {p \in Places : IsWeekly(root[p]) /\ ResetAt(root[p]) # None}

\* What is found is found at the first of them.
LEMMA FindsAtFirst ==
  /\ FindWeeklyReset # None <=> Found # {}
  /\ Found # {} => /\ FirstOf(Found) \in Found
                   /\ FindWeeklyReset = ResetAt(root[FirstOf(Found)])
<1>1. Found \in SUBSET Places
  BY DEF Found
<1>2. FindWeeklyReset = IF Found = {} THEN None ELSE ResetAt(root[FirstOf(Found)])
  BY DEF FindWeeklyReset, Found
<1>3. Found # {} => FirstOf(Found) \in Found
  BY <1>1, FirstExists
<1>4. \A p \in Found : ResetAt(root[p]) # None
  BY DEF Found
<1> QED
  BY <1>2, <1>3, <1>4

\* firstParsed returns an accepted value of one of its spellings, if there is any.
LEMMA ParsedIsAccepted ==
  ASSUME NEW window, NEW one, NEW two, NEW A \in SUBSET Int
  PROVE  LET parsed == FirstParsed(window, <<one, two>>, A)
         IN  /\ parsed = None <=> \A k \in {one, two} : ~Parses(window, k, A)
             /\ parsed # None => \E k \in {one, two} : Parses(window, k, A) /\ parsed = window[k]
<1>1. \A k \in {one, two} : Parses(window, k, A) => window[k] # None
  BY FieldsAreNumbers DEF Parses
<1>2. <<one, two>>[1] = one /\ <<one, two>>[2] = two
  OBVIOUS
<1> QED
  BY <1>1, <1>2 DEF FirstParsed

\* What the parsers accept are numbers.
LEMMA AcceptedAreNumbers ==
  /\ Whole \in SUBSET Int /\ Plausible \in SUBSET Int /\ Offsets \in SUBSET Int
  /\ Unusable \notin Whole /\ Unusable \notin Plausible /\ Unusable \notin Offsets
  BY FieldsAreNumbers DEF Whole, Plausible, Offsets

\* The spellings of a field.
LEMMA Spellings ==
  /\ ToSet(SecondsKeys) = {"limit_window_seconds", "limitWindowSeconds"}
  /\ ToSet(MinutesKeys) = {"window_minutes", "windowMinutes"}
  /\ ToSet(AbsoluteKeys) = {"reset_at", "resetAt"}
  /\ ToSet(RelativeKeys) = {"reset_after_seconds", "resetAfterSeconds"}
  BY DEF ToSet, SecondsKeys, MinutesKeys, AbsoluteKeys, RelativeKeys

\* A declaration of a length is read exactly when one that can be is there.
LEMMA LengthsAreRead ==
  ASSUME WindowInv, NEW p \in Places
  PROVE  LET seconds == FirstParsed(root[p], SecondsKeys, Whole)
             minutes == FirstParsed(root[p], MinutesKeys, Whole)
         IN  /\ seconds = None <=> Declared(root[p], SecondsKeys) = {}
             /\ seconds # None => seconds \in Declared(root[p], SecondsKeys)
             /\ minutes = None <=> Declared(root[p], MinutesKeys) = {}
             /\ minutes # None => minutes \in Declared(root[p], MinutesKeys)
<1> DEFINE w == root[p]
<1>1. \A k \in DurationKeys : Parses(w, k, Whole) <=> k \in DOMAIN w /\ w[k] # Unusable
  BY AcceptedAreNumbers DEF Parses, WindowInv, FieldValues, Whole
<1>2. /\ {"limit_window_seconds", "limitWindowSeconds"} \subseteq DurationKeys
      /\ {"window_minutes", "windowMinutes"} \subseteq DurationKeys
  BY Spellings DEF DurationKeys
<1> HIDE DEF w
<1>3. LET seconds == FirstParsed(w, SecondsKeys, Whole)
      IN  /\ seconds = None <=> Declared(w, SecondsKeys) = {}
          /\ seconds # None => seconds \in Declared(w, SecondsKeys)
  <2>1. SecondsKeys = <<"limit_window_seconds", "limitWindowSeconds">>
    BY DEF SecondsKeys
  <2> QED
    BY <1>1, <1>2, <2>1, ParsedIsAccepted, AcceptedAreNumbers, Spellings DEF Declared
<1>4. LET minutes == FirstParsed(w, MinutesKeys, Whole)
      IN  /\ minutes = None <=> Declared(w, MinutesKeys) = {}
          /\ minutes # None => minutes \in Declared(w, MinutesKeys)
  <2>1. MinutesKeys = <<"window_minutes", "windowMinutes">>
    BY DEF MinutesKeys
  <2> QED
    BY <1>1, <1>2, <2>1, ParsedIsAccepted, AcceptedAreNumbers, Spellings DEF Declared
<1> QED
  BY <1>3, <1>4 DEF w

\* A reset is read exactly when a usable one is there.
LEMMA ResetsAreRead ==
  ASSUME NEW w
  PROVE  /\ ResetAt(w) = None <=> UsableResets(w) = {}
         /\ ResetAt(w) # None => ResetAt(w) \in UsableResets(w)
<1> DEFINE absolute == FirstParsed(w, AbsoluteKeys, Plausible)
           relative == FirstParsed(w, RelativeKeys, Offsets)
<1>1. /\ absolute = None <=> Declared(w, AbsoluteKeys) \cap Plausible = {}
      /\ absolute # None => absolute \in Declared(w, AbsoluteKeys) \cap Plausible
  <2>1. AbsoluteKeys = <<"reset_at", "resetAt">>
    BY DEF AbsoluteKeys
  <2> QED
    BY <2>1, ParsedIsAccepted, AcceptedAreNumbers, Spellings DEF Declared, Parses
<1>2. /\ relative = None <=> Declared(w, RelativeKeys) \cap Offsets = {}
      /\ relative # None => relative \in Declared(w, RelativeKeys) \cap Offsets
  <2>1. RelativeKeys = <<"reset_after_seconds", "resetAfterSeconds">>
    BY DEF RelativeKeys
  <2> QED
    BY <2>1, ParsedIsAccepted, AcceptedAreNumbers, Spellings DEF Declared, Parses
<1>3. ResetAt(w) = IF absolute # None THEN absolute ELSE relative
  BY DEF ResetAt
<1> HIDE DEF absolute, relative
<1> QED
  BY <1>1, <1>2, <1>3 DEF UsableResets

\* A window that is taken for the weekly one says so.
LEMMA WeeklySaysSo ==
  ASSUME WindowInv, NEW p \in Places, IsWeekly(root[p])
  PROVE  MayBeAWeek(root[p])
<1>1. WeeklyWindowSeconds # None /\ WeeklyWindowMinutes # None
  BY FieldsAreNumbers DEF WeeklyWindowSeconds, WeeklyWindowMinutes
<1> QED
  BY <1>1, LengthsAreRead DEF IsWeekly, MayBeAWeek

\* A deadline is always one that a window declares which says a week, in seconds if it
\* has a length in seconds and else in minutes, in any answer of the provider.
THEOREM OnlyOfAWeekHolds == WindowSpec => []OnlyOfAWeek
<1>1. WindowInv => OnlyOfAWeek
  <2> SUFFICES ASSUME WindowInv, FindWeeklyReset # None
               PROVE  \E p \in Places :
                        MayBeAWeek(root[p]) /\ FindWeeklyReset \in UsableResets(root[p])
    BY DEF OnlyOfAWeek
  <2>1. PICK p \in Found : FindWeeklyReset = ResetAt(root[p])
    BY FindsAtFirst
  <2>2. p \in Places /\ IsWeekly(root[p]) /\ ResetAt(root[p]) # None
    BY DEF Found
  <2> QED
    BY <2>1, <2>2, WeeklySaysSo, ResetsAreRead
<1> QED
  BY <1>1, WindowInvHolds, PTL

\* A window that says nothing but a week and has a usable reset is enough, whatever else
\* the answer holds.
THEOREM WeekIsFoundHolds == WindowSpec => []WeekIsFound
<1>1. WindowInv => WeekIsFound
  <2> SUFFICES ASSUME WindowInv,
                      NEW p \in Places, SaysAWeek(root[p]), UsableResets(root[p]) # {}
               PROVE  FindWeeklyReset # None
    BY DEF WeekIsFound
  <2>1. ResetAt(root[p]) # None
    BY ResetsAreRead
  <2>2. IsWeekly(root[p])
    BY LengthsAreRead DEF SaysAWeek, IsWeekly
  <2> QED
    BY <2>1, <2>2, FindsAtFirst DEF Found
<1> QED
  BY <1>1, WindowInvHolds, PTL

\* Windows with the same readable fields are read alike.
LEMMA ReadAlike ==
  ASSUME NEW v, NEW w, Readable(v) = Readable(w)
  PROVE  (IsWeekly(v) <=> IsWeekly(w)) /\ ResetAt(v) = ResetAt(w)
<1>1. ASSUME NEW one, NEW two, NEW A \in SUBSET Int, Unusable \notin A
      PROVE  FirstParsed(v, <<one, two>>, A) = FirstParsed(w, <<one, two>>, A)
  <2>1. ASSUME NEW x, NEW y, Readable(x) = Readable(y), NEW k, Parses(x, k, A)
        PROVE  Parses(y, k, A) /\ y[k] = x[k]
    <3>1. <<k, x[k]>> \in Readable(y)
      BY <1>1, <2>1 DEF Readable, Parses
    <3> QED
      BY <2>1, <3>1 DEF Readable, Parses
  <2>2. \A k : /\ Parses(v, k, A) <=> Parses(w, k, A)
               /\ Parses(v, k, A) => v[k] = w[k]
    BY <2>1
  <2>3. <<one, two>>[1] = one /\ <<one, two>>[2] = two
    OBVIOUS
  <2> QED
    BY <2>2, <2>3 DEF FirstParsed
<1>2. /\ FirstParsed(v, SecondsKeys, Whole) = FirstParsed(w, SecondsKeys, Whole)
      /\ FirstParsed(v, MinutesKeys, Whole) = FirstParsed(w, MinutesKeys, Whole)
  BY <1>1, AcceptedAreNumbers DEF SecondsKeys, MinutesKeys
<1>3. /\ FirstParsed(v, AbsoluteKeys, Plausible) = FirstParsed(w, AbsoluteKeys, Plausible)
      /\ FirstParsed(v, RelativeKeys, Offsets) = FirstParsed(w, RelativeKeys, Offsets)
  BY <1>1, AcceptedAreNumbers DEF AbsoluteKeys, RelativeKeys
<1> QED
  BY <1>2, <1>3 DEF IsWeekly, ResetAt

\* A change that concerns only windows of another length, in whichever unit, or of none,
\* or fields that cannot be read, never moves the deadline.
THEOREM DeadlineStandsHolds == WindowSpec => DeadlineStands
<1> DEFINE Stands ==
      (\A p \in Places : Foreign(p) \/ Unreadable(p)) => FindWeeklyReset' = FindWeeklyReset
<1>1. WindowInv => \A p \in Places : IsWeekly(root[p]) => MayBeAWeek(root[p])
  BY WeeklySaysSo
<1>2. FindWeeklyReset = IF Found = {} THEN None ELSE ResetAt(root[FirstOf(Found)])
  BY DEF FindWeeklyReset, Found
<1>3. Found # {} => FirstOf(Found) \in Found
  BY FindsAtFirst
<1>4. ASSUME WindowInv, WindowInv',
             (\A p \in Places : IsWeekly(root[p]) => MayBeAWeek(root[p]))',
             (FindWeeklyReset = IF Found = {} THEN None ELSE ResetAt(root[FirstOf(Found)]))',
             \A p \in Places : Foreign(p) \/ Unreadable(p)
      PROVE  FindWeeklyReset' = FindWeeklyReset
  <2>1. \A p \in Places : Unreadable(p) =>
          (IsWeekly(root[p]) <=> IsWeekly(root'[p])) /\ ResetAt(root[p]) = ResetAt(root'[p])
    BY ReadAlike DEF Unreadable
  <2>2. \A p \in Places : Foreign(p) => ~IsWeekly(root[p]) /\ ~IsWeekly(root'[p])
    BY <1>1, <1>4 DEF Foreign
  <2>3. Found' = {p \in Places : IsWeekly(root'[p]) /\ ResetAt(root'[p]) # None}
    BY DEF Found
  <2>4. Found' = Found
    BY <1>4, <2>1, <2>2, <2>3 DEF Found
  <2>5. \A p \in Found : ResetAt(root'[p]) = ResetAt(root[p])
    BY <1>4, <2>1, <2>2 DEF Found
  <2>6. FindWeeklyReset' =
          IF Found' = {} THEN None ELSE ResetAt(root'[FirstOf(Found')])
    BY <1>4
  <2> QED
    BY <1>2, <1>3, <2>4, <2>5, <2>6
<1>5. WindowInv /\ WindowInv'
        /\ (\A p \in Places : IsWeekly(root[p]) => MayBeAWeek(root[p]))'
        /\ (FindWeeklyReset = IF Found = {} THEN None ELSE ResetAt(root[FirstOf(Found)]))'
        => [Stands]_windowVars
  BY <1>4
<1> HIDE DEF Stands
<1>6. WindowSpec => [][Stands]_windowVars
  BY <1>1, <1>2, <1>5, WindowInvHolds, PTL
<1> QED
  BY <1>6 DEF Stands, DeadlineStands
=============================================================================
