------------------------------ MODULE Settings ------------------------------
(***************************************************************************)
(* The plugin's part of the host's configuration and what becomes of it:   *)
(* config.Parse (internal/config/config.go) and handleLifecycle            *)
(* (internal/plugin/runtime.go), which sends the parsed configuration to   *)
(* the engine or answers invalid_config.  The operator edits the subtree   *)
(* one key at a time; the engine's other modules assume of every           *)
(* configuration what is shown of it here.                                 *)
(*                                                                         *)
(* A time.Duration is a two's-complement number of ticks, Second of them   *)
(* to a second; the program's are 64 bits of nanoseconds.                  *)
(***************************************************************************)
EXTENDS Integers, FiniteSets

CONSTANTS
  SettingKeys,       \* the keys an operator writes
  SettingValues(_),  \* what may be written at a key
  Bad,               \* a value of a wrong type: a float, a word that is no duration
  Second,            \* time.Second
  MaxDuration,       \* the longest time.Duration
  Defaults,          \* a configuration
  MaxKeys            \* how many keys are written at once (a bound)

Flag == [claude |-> "manage-claude", codex |-> "manage-codex"]

Providers == DOMAIN Flag

DurationFields == {"reconcile-interval", "refresh-interval", "request-timeout"}

PriorityFields == {"quarantine-priority", "priority-floor", "priority-step"}

\* Two's complement: as many durations below zero as from zero on.
MinDuration == -MaxDuration - 1

ASSUME DurationsAreNumbers == Second \in Nat \ {0} /\ MaxDuration \in Nat \ {0}

ASSUME ValuesAreTyped ==
  \A k \in SettingKeys : \A v \in SettingValues(k) \ {Bad} :
    /\ k \in DurationFields => v.unit \in {"ticks", "seconds"} /\ v.n \in Int
    /\ k \in PriorityFields => v \in Int

ASSUME DefaultsAreNumbers ==
  /\ Defaults.interval \in 1 .. MaxDuration /\ Defaults.timeout \in 1 .. MaxDuration
  /\ Defaults.sentinel \in Nat /\ Defaults.floor \in Nat /\ Defaults.step \in Nat \ {0}
  /\ Defaults.sentinel < Defaults.floor
  /\ Defaults.managed = Providers /\ ~Defaults.enabled /\ ~Defaults.dryRun

VARIABLES
  subtree,   \* the keys that are written, and their values
  config,    \* the configuration in force (Defaults before the first)
  reply      \* what plugin.register or plugin.reconfigure last answered

settingsVars == <<subtree, config, reply>>

SettingsInit ==
  /\ subtree = <<>>
  /\ config = Defaults
  /\ reply = "none"

----------------------------------------------------------------------------
\* duration.UnmarshalYAML: a string is a number of ticks, an integer of seconds.

Truncated(n, d) == IF n >= 0 THEN n \div d ELSE -((-n) \div d)

Wrapped(ticks) ==
  ((ticks - MinDuration) % (MaxDuration - MinDuration + 1)) + MinDuration

FitsAnything(v) == TRUE

Fits(v) ==
  IF v.unit = "ticks" THEN v.n \in MinDuration .. MaxDuration
  ELSE v.n \in Truncated(MinDuration, Second) .. Truncated(MaxDuration, Second)

Ticks(v) == IF v.unit = "ticks" THEN v.n ELSE Wrapped(v.n * Second)

\* yaml.Unmarshal, and the names in the list of providers.
Decodes ==
  \A k \in DOMAIN subtree :
    /\ subtree[k] # Bad
    /\ k \in DurationFields => Fits(subtree[k])
    /\ k = "providers" => subtree[k] \subseteq Providers

----------------------------------------------------------------------------
\* Parse.

Or(key, default) == IF key \in DOMAIN subtree THEN subtree[key] ELSE default

Lasting(key, default) == IF key \in DOMAIN subtree THEN Ticks(subtree[key]) ELSE default

\* An explicit flag wins over the list of providers.
Managed ==
  {p \in Providers : Or(Flag[p], p \in Or("providers", Defaults.managed))}

Parsed ==
  [enabled  |-> Or("enabled", Defaults.enabled),
   interval |-> Lasting("reconcile-interval",
                        Lasting("refresh-interval", Defaults.interval)),
   timeout  |-> Lasting("request-timeout", Defaults.timeout),
   sentinel |-> Or("quarantine-priority", Defaults.sentinel),
   floor    |-> Or("priority-floor", Defaults.floor),
   step     |-> Or("priority-step", Defaults.step),
   managed  |-> Managed,
   dryRun   |-> Or("dry-run", Defaults.dryRun)]

\* The sentinel is compared with a floor that is written, and with no default.
ValidatesAsWritten(c) ==
  /\ c.interval > 0 /\ c.timeout > 0 /\ c.step > 0 /\ c.floor > 0 /\ c.sentinel >= 0
  /\ "priority-floor" \in DOMAIN subtree => c.sentinel < c.floor

\* validate.
Validates(c) ==
  /\ c.interval > 0 /\ c.timeout > 0
  /\ c.step > 0 /\ c.floor > 0
  /\ c.sentinel \in 0 .. c.floor - 1

----------------------------------------------------------------------------
Write(key, value) ==
  /\ Cardinality(DOMAIN subtree \cup {key}) <= MaxKeys
  /\ subtree' = [k \in DOMAIN subtree \cup {key} |-> IF k = key THEN value ELSE subtree[k]]
  /\ UNCHANGED <<config, reply>>

Erase(key) ==
  /\ subtree' = [k \in DOMAIN subtree \ {key} |-> subtree[k]]
  /\ UNCHANGED <<config, reply>>

\* handleLifecycle: a subtree that is refused changes nothing.
Reconfigure ==
  /\ IF Decodes /\ Validates(Parsed)
     THEN config' = Parsed /\ reply' = "ok"
     ELSE config' = config /\ reply' = "invalid_config"
  /\ UNCHANGED subtree

SettingsNext ==
  \/ \E key \in SettingKeys :
       Erase(key) \/ \E value \in SettingValues(key) : Write(key, value)
  \/ Reconfigure

SettingsSpec == SettingsInit /\ [][SettingsNext]_settingsVars

----------------------------------------------------------------------------
\* Properties.

\* Whatever is written, over defaults that are never written, the configuration in
\* force is one the engine is made for: a sentinel below every rank, ranks that differ,
\* timers that do not spin.  (EngineState's ConfigsAreValid.)
EngineMayRunIt ==
  /\ config.sentinel \in Nat /\ config.floor \in Nat /\ config.sentinel < config.floor
  /\ config.step \in Nat \ {0}
  /\ config.interval \in 1 .. MaxDuration /\ config.timeout \in 1 .. MaxDuration

\* An interval or timeout that comes into force lasts exactly as long as what is
\* written: no number of seconds wraps round into a short one.
Written(key) ==
  IF subtree[key].unit = "ticks" THEN subtree[key].n ELSE subtree[key].n * Second

LastsAsWritten ==
  [][Reconfigure /\ reply' = "ok" =>
       /\ "reconcile-interval" \in DOMAIN subtree =>
            config'.interval = Written("reconcile-interval")
       /\ "request-timeout" \in DOMAIN subtree =>
            config'.timeout = Written("request-timeout")]_settingsVars
=============================================================================
