----------------------------- MODULE Residence -----------------------------
(***************************************************************************)
(* What the plugin promises the process it lives in, said without its      *)
(* gates and counters: visitors (the host's calls) come while it is open;  *)
(* only those who are there bring in more work; once it is closed the work *)
(* and the visitors it has may finish; and it is released when nobody is   *)
(* left, after which nothing of it ever runs again.                        *)
(***************************************************************************)
CONSTANTS Visitors, Crew

VARIABLES
  phase,     \* "open", "closing" or "released"
  visiting,  \* the visitors inside
  working    \* the crew at work

vars == <<phase, visiting, working>>

Init == phase = "open" /\ visiting = {} /\ working = {}

Enter(v) ==
  /\ phase = "open"
  /\ visiting' = visiting \cup {v}
  /\ UNCHANGED <<phase, working>>

Leave(v) ==
  /\ visiting' = visiting \ {v}
  /\ UNCHANGED <<phase, working>>

\* Work ends at any time, and begins only from within.
Work ==
  /\ working' \subseteq Crew
  /\ working' \subseteq working \/ visiting \cup working # {}
  /\ UNCHANGED <<phase, visiting>>

Close ==
  /\ phase = "open"
  /\ phase' = "closing"
  /\ UNCHANGED <<visiting, working>>

Release ==
  /\ phase = "closing"
  /\ visiting = {} /\ working = {}
  /\ phase' = "released"
  /\ UNCHANGED <<visiting, working>>

Next ==
  \/ \E v \in Visitors : Enter(v) \/ Leave(v)
  \/ Work \/ Close \/ Release

Spec == Init /\ [][Next]_vars
=============================================================================
