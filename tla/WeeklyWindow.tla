---------------------------- MODULE WeeklyWindow ----------------------------
(***************************************************************************)
(* findWeeklyReset (internal/providers/codex.go): which of the limit       *)
(* windows in a Codex usage answer is the weekly one, and when it resets.  *)
(* Providers move windows about, spell a field two ways, and send fields   *)
(* that cannot be read; the answer below changes by one field at a time,   *)
(* and the properties say which changes may move the deadline that is      *)
(* found.  Instants are in seconds from the observation.                   *)
(***************************************************************************)
EXTENDS Integers, FiniteSets, SequencesExt

CONSTANTS
  Places,       \* where a window may be: pairs of an envelope and a key
  Durations,    \* the numbers a duration field may declare
  Instants,     \* the numbers a reset field may declare
  Unusable,     \* a value of a wrong type, or a length that is not whole
  None,         \* nothing usable, no weekly reset
  MaxFields     \* the fields of an answer (a bound)

ASSUME FieldsAreNumbers ==
  /\ Durations \cup Instants \subseteq Int
  /\ Unusable \notin Int /\ None \notin Int
  /\ MaxFields \in Nat

WeeklyWindowSeconds == 604800
WeeklyWindowMinutes == 10080

\* resetAtPlausibilitySlack.
Slack == 3600

SecondsKeys  == <<"limit_window_seconds", "limitWindowSeconds">>
MinutesKeys  == <<"window_minutes", "windowMinutes">>
AbsoluteKeys == <<"reset_at", "resetAt">>
RelativeKeys == <<"reset_after_seconds", "resetAfterSeconds">>

DurationKeys == ToSet(SecondsKeys) \cup ToSet(MinutesKeys)
ResetKeys    == ToSet(AbsoluteKeys) \cup ToSet(RelativeKeys)

FieldValues(key) == {Unusable} \cup (IF key \in DurationKeys THEN Durations ELSE Instants)

\* root[place] has the fields that are present in the window at that place; a window
\* with none is as good as no window.
VARIABLE root

windowVars == <<root>>

----------------------------------------------------------------------------
\* firstParsed, for each of its three parsers: the value of the first spelling that has
\* one the parser accepts.

Parses(window, key, acceptable) == key \in DOMAIN window /\ window[key] \in acceptable

\* A spelling that is present hides the other.
FirstPresent(window, keys, acceptable) ==
  LET key == IF keys[1] \in DOMAIN window THEN keys[1] ELSE keys[2]
  IN  IF Parses(window, key, acceptable) THEN window[key] ELSE None

FirstParsed(window, keys, acceptable) ==
  IF Parses(window, keys[1], acceptable) THEN window[keys[1]]
  ELSE IF Parses(window, keys[2], acceptable) THEN window[keys[2]]
  ELSE None

\* exactInteger.
Whole == Durations

\* parseAbsolute, with plausibleResetAt.
Plausible ==
  {t \in Instants : t \in -(WeeklyWindowSeconds + Slack) .. WeeklyWindowSeconds + Slack}

\* parseResetAfterSeconds.
Offsets == {t \in Instants : t \in 0 .. WeeklyWindowSeconds}

----------------------------------------------------------------------------
\* One list of lengths for both units.
IsWeeklyInEitherUnit(window) ==
  LET seconds == FirstParsed(window, SecondsKeys, Whole)
      minutes == FirstParsed(window, MinutesKeys, Whole)
  IN  (IF seconds # None THEN seconds ELSE minutes) \in {WeeklyWindowSeconds, WeeklyWindowMinutes}

\* isWeeklyWindow: the first usable declaration decides, seconds before minutes.

IsWeekly(window) ==
  LET seconds == FirstParsed(window, SecondsKeys, Whole)
      minutes == FirstParsed(window, MinutesKeys, Whole)
  IN  \/ seconds = WeeklyWindowSeconds
      \/ seconds = None /\ minutes = WeeklyWindowMinutes

\* windowResetAt.
ResetAt(window) ==
  LET absolute == FirstParsed(window, AbsoluteKeys, Plausible)
      relative == FirstParsed(window, RelativeKeys, Offsets)
  IN  IF absolute # None THEN absolute ELSE relative

----------------------------------------------------------------------------
\* candidateWindows: the envelopes in their order, then the top level; in each, the
\* keys in theirs.

Envelopes == <<"rate_limit", "rateLimit", "rate_limits", "rateLimits", "top">>

WindowKeys ==
  <<"primary_window", "primaryWindow", "secondary_window", "secondaryWindow",
    "primary", "secondary">>

ASSUME PlacesAreCandidates ==
  /\ Places \subseteq ToSet(Envelopes) \X ToSet(WindowKeys)
  /\ IsFiniteSet(Places)

\* The place's turn in an envelope, and its envelope's.
Position(name, names) == CHOOSE i \in DOMAIN names : names[i] = name

Before(p, q) ==
  LET i == Position(p[1], Envelopes)
      j == Position(q[1], Envelopes)
  IN  i < j \/ (i = j /\ Position(p[2], WindowKeys) < Position(q[2], WindowKeys))

FirstOf(places) == CHOOSE p \in places : \A q \in places : ~Before(q, p)

\* It ends at the first weekly window.
FindWeeklyResetInFirst ==
  LET weekly == {p \in Places : IsWeekly(root[p])}
  IN  IF weekly = {} THEN None ELSE ResetAt(root[FirstOf(weekly)])

\* A weekly window without a usable reset does not end the search.
FindWeeklyReset ==
  LET found == {p \in Places : IsWeekly(root[p]) /\ ResetAt(root[p]) # None}
  IN  IF found = {} THEN None ELSE ResetAt(root[FirstOf(found)])

----------------------------------------------------------------------------
\* What the provider may change from one answer to the next.

Fields(r) == UNION {{<<p, k>> : k \in DOMAIN r[p]} : p \in Places}

WindowInit == root = [p \in Places |-> <<>>]

WithField(window, key, value) ==
  [k \in DOMAIN window \cup {key} |-> IF k = key THEN value ELSE window[k]]

Declare(place, key, value) ==
  /\ key \notin DOMAIN root[place]
  /\ Cardinality(Fields(root)) < MaxFields
  /\ root' = [root EXCEPT ![place] = WithField(@, key, value)]

Retract(place, key) ==
  /\ key \in DOMAIN root[place]
  /\ root' = [root EXCEPT ![place] = [k \in DOMAIN @ \ {key} |-> @[k]]]

Exchange(place, other) ==
  /\ root[place] # root[other]
  /\ root' = [root EXCEPT ![place] = root[other], ![other] = root[place]]

WindowNext ==
  \/ \E place \in Places, key \in DurationKeys \cup ResetKeys :
       Retract(place, key) \/ \E value \in FieldValues(key) : Declare(place, key, value)
  \/ \E place, other \in Places : Exchange(place, other)

WindowSpec == WindowInit /\ [][WindowNext]_windowVars

----------------------------------------------------------------------------
\* Properties.

Declared(window, keys) == {window[k] : k \in DOMAIN window \cap ToSet(keys)} \ {Unusable}

\* Every declaration of the window that can be read says a week, and one does.
SaysAWeek(window) ==
  /\ Declared(window, SecondsKeys) \subseteq {WeeklyWindowSeconds}
  /\ Declared(window, MinutesKeys) \subseteq {WeeklyWindowMinutes}
  /\ Declared(window, SecondsKeys) \cup Declared(window, MinutesKeys) # {}

\* Some readable declaration says a week, in seconds if any are in seconds: the five-hour
\* window never does, in either unit, nor one with 10080 seconds or 604800 minutes.
MayBeAWeek(window) ==
  LET seconds == Declared(window, SecondsKeys)
  IN  \/ WeeklyWindowSeconds \in seconds
      \/ seconds = {} /\ WeeklyWindowMinutes \in Declared(window, MinutesKeys)

UsableResets(window) ==
  (Declared(window, AbsoluteKeys) \cap Plausible)
    \cup (Declared(window, RelativeKeys) \cap Offsets)

\* The deadline is always of a window that may be the weekly one, and one that window
\* declares: no contradicting alias, wrong unit, millisecond epoch or position ever
\* promotes another window's reset into a rank.
OnlyOfAWeek ==
  FindWeeklyReset # None =>
    \E p \in Places : MayBeAWeek(root[p]) /\ FindWeeklyReset \in UsableResets(root[p])

\* A window that says nothing but a week and has one usable reset is enough, whatever
\* else the answer has in it: no other spelling, unreadable field or earlier window
\* keeps the account from its deadline.
WeekIsFound ==
  (\E p \in Places : SaysAWeek(root[p]) /\ UsableResets(root[p]) # {}) => FindWeeklyReset # None

\* A change of the answer that only concerns windows of another length or of none, or
\* fields that cannot be read, never moves the deadline.
Foreign(p) == ~MayBeAWeek(root[p]) /\ ~MayBeAWeek(root'[p])

Readable(window) == {<<k, window[k]>> : k \in {f \in DOMAIN window : window[f] # Unusable}}

Unreadable(p) == Readable(root[p]) = Readable(root'[p])

DeadlineStands ==
  [][(\A p \in Places : Foreign(p) \/ Unreadable(p)) => FindWeeklyReset' = FindWeeklyReset]_windowVars
=============================================================================
