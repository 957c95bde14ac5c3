----------------------------- MODULE Credential -----------------------------
(***************************************************************************)
(* Credentials as their owner sees them: in which order their lives may    *)
(* go.  A credential is ranked by a reset that lies ahead, expires when    *)
(* that has come, leaves quarantine only through recovery, and recovery    *)
(* only by a reset that lies ahead.  Nothing is said of passes, retries,   *)
(* locks or timers; several credentials may change in one step.            *)
(***************************************************************************)
EXTENDS Integers

CONSTANT Credentials

VARIABLES
  life,    \* "absent", "unknown", "ranked", "expired", "quarantined", "recovering"
  until,   \* the reset each is ranked by, or was until it expired (else Never)
  clock

Never == -1

vars == <<life, until, clock>>

Init ==
  /\ life = [c \in Credentials |-> "absent"]
  /\ until = [c \in Credentials |-> Never]
  /\ clock = 0

----------------------------------------------------------------------------
\* What may happen to one credential.

Becomes(c, l, r) == life'[c] = l /\ until'[c] = r

Appears(c) ==
  /\ life[c] = "absent"
  /\ Becomes(c, "unknown", Never) \/ Becomes(c, "quarantined", Never)

Vanishes(c) == Becomes(c, "absent", Never)

IsRanked(c) ==
  /\ life[c] \in {"unknown", "ranked", "expired", "recovering"}
  /\ until'[c] > clock
  /\ life'[c] = "ranked"

Expires(c) ==
  /\ life[c] \in {"unknown", "ranked", "expired"}
  /\ until'[c] <= clock
  /\ life'[c] = "expired"

IsQuarantined(c) == life[c] # "absent" /\ Becomes(c, "quarantined", Never)

Recovers(c) == life[c] = "quarantined" /\ Becomes(c, "recovering", Never)

Rests(c) == Becomes(c, life[c], until[c])

Lives(c) ==
  \/ Appears(c) \/ Vanishes(c) \/ IsRanked(c) \/ Expires(c)
  \/ IsQuarantined(c) \/ Recovers(c) \/ Rests(c)

----------------------------------------------------------------------------
Change ==
  /\ \A c \in Credentials : Lives(c)
  /\ UNCHANGED clock

Tick ==
  /\ clock' = clock + 1
  /\ UNCHANGED <<life, until>>

Next == Change \/ Tick

Spec == Init /\ [][Next]_vars
=============================================================================
