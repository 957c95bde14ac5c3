------------------------------ MODULE MCInputs ------------------------------
(***************************************************************************)
(* Small instances of the four parts that turn what comes from outside     *)
(* into what the engine works with, each checked alone: a behavior is one  *)
(* part's, chosen at the start, and the other parts rest.  RankGroups      *)
(* takes its constants' values from the configuration file.                *)
(***************************************************************************)
EXTENDS RankGroups, Roster, WeeklyWindow, Settings

\* Roster: an entry, one that shares its index, one its name, one its path, one that
\* shares nothing, and one that is only in memory.
Listing(i, n, p) == [index |-> i, name |-> n, path |-> p, usable |-> TRUE]

Listed ==
  {Listing(1, "a", "a"), Listing(1, "b", "b"), Listing(2, "a", "c"), Listing(3, "d", "a"),
   Listing(2, "e", "e"), [Listing(1, "a", "a") EXCEPT !.usable = FALSE]}

\* WeeklyWindow: two places in two envelopes, a week in seconds and in minutes and five
\* hours in minutes, an instant that either reset field can carry, one only an absolute
\* field can, and one that neither can.
TwoPlaces == {<<"rate_limit", "secondary_window">>, <<"top", "primary">>}

WeekOrFiveHours == {604800, 10080, 300}

ThreeInstants == {600000, 608400, 608401}

\* Settings: eight bits of a duration, ten ticks to a second, so that 12 seconds fit
\* and 26 would wrap round to a short duration; priorities about the default floor of 5
\* and sentinel of 0.
AllKeys ==
  {"enabled", "dry-run", "reconcile-interval", "refresh-interval", "request-timeout",
   "priority-floor", "priority-step", "quarantine-priority", "providers",
   "manage-claude", "manage-codex"}

Seconds(n) == [unit |-> "seconds", n |-> n]
InTicks(n) == [unit |-> "ticks", n |-> n]

ValuesAt(key) ==
  CASE key \in DurationFields ->
         {Seconds(0), Seconds(12), Seconds(26), InTicks(127)}
    [] key \in {"priority-floor", "quarantine-priority"} -> {-1, 0, 5, 6, Bad}
    [] key = "priority-step" -> {0, 1, Bad}
    [] key = "providers" -> {{}, {"codex"}, {"claude", "gemini"}}
    [] OTHER -> BOOLEAN

DefaultConfig ==
  [enabled |-> FALSE, interval |-> 100, timeout |-> 20, sentinel |-> 0, floor |-> 5,
   step |-> 5, managed |-> {"claude", "codex"}, dryRun |-> FALSE]

----------------------------------------------------------------------------
VARIABLE part   \* the part this behavior is of

inputs == <<part, group, rosterVars, windowVars, settingsVars>>

Init ==
  /\ part \in {"ranking", "roster", "window", "settings"}
  /\ GroupInit /\ RosterInit /\ WindowInit /\ SettingsInit
  /\ part # "ranking" => floor = 1 /\ step = 1

Next ==
  /\ \/ part = "ranking" /\ GroupNext /\ UNCHANGED <<rosterVars, windowVars, settingsVars>>
     \/ part = "roster" /\ RosterNext /\ UNCHANGED <<group, windowVars, settingsVars>>
     \/ part = "window" /\ WindowNext /\ UNCHANGED <<group, rosterVars, settingsVars>>
     \/ part = "settings" /\ SettingsNext /\ UNCHANGED <<group, rosterVars, windowVars>>
  /\ UNCHANGED part

Spec == Init /\ [][Next]_inputs
=============================================================================
