-------------------------- MODULE TelemetryConsent --------------------------
(***************************************************************************)
(* packages/telemetry/src: the module-level functions of index.ts and the  *)
(* Telemetry class of telemetry.ts both keep the user's consent under the  *)
(* same key of localStorage, and a copy of it in memory.                   *)
(*                                                                         *)
(* The storage can be usable, "full" (it can be read and removed from, but *)
(* a write throws), or blocked.  index.ts probes it with a write first,    *)
(* telemetry.ts does not.  Event names and properties are left out.        *)
(***************************************************************************)
EXTENDS Naturals

CONSTANTS
  Clients,        \* instances of the Telemetry class
  MaxDecisions    \* bound: consents given or revoked

ASSUME TelemetryAssumption == MaxDecisions \in Nat

Module    == "index"
Instances == Clients \cup {Module}
Access    == {"usable", "full", "blocked"}

VARIABLES
  access, persisted,   \* localStorage, and whether it holds 'true'
  consent,             \* state.enabled, and consent of each Telemetry instance
  sinks,               \* the instances with a sink
  loaded,              \* the instances that exist in the page
  decisions,
  \* History: the last decision that the storage took, the consent an
  \* instance read when it was made, and what it was told since.
  lastTaken, basis, told

telemetryVars ==
  <<access, persisted, consent, sinks, loaded, decisions, lastTaken, basis, told>>

TelemetryTypeOK ==
  /\ access \in Access /\ persisted \in BOOLEAN
  /\ consent \in [Instances -> BOOLEAN]
  /\ sinks \subseteq Instances /\ loaded \subseteq Instances
  /\ decisions \in 0..MaxDecisions
  /\ lastTaken \in BOOLEAN
  /\ basis \in [Instances -> BOOLEAN]
  /\ told \in [Instances -> {"nothing", "yes", "no"}]

-----------------------------------------------------------------------------
\* getStorage of index.ts and of telemetry.ts.
Usable(i) == IF i = Module THEN access = "usable" ELSE access # "blocked"

\* readPersistedConsent, readConsent.
Read(i) == Usable(i) /\ persisted

\* Mutation: only a consent is written, not its revocation.
WritesConsent(i, granted) == Usable(i) /\ granted /\ access # "full"
\* setItem throws on a full storage, removeItem does not.
Writes(i, granted) == Usable(i) /\ (granted => access # "full")

\* What an instance that starts over takes from the storage.
Restarts(i) ==
  /\ consent' = [consent EXCEPT ![i] = Read(i)]
  /\ basis' = [basis EXCEPT ![i] = lastTaken]
  /\ told' = [told EXCEPT ![i] = "nothing"]
  /\ \/ sinks' = sinks \cup {i}
     \/ sinks' = sinks \ {i}

configureTelemetry ==
  /\ Restarts(Module)
  /\ UNCHANGED <<access, persisted, loaded, decisions, lastTaken>>

\* new Telemetry(options).
NewTelemetry(c) ==
  /\ c \in Clients \ loaded
  /\ loaded' = loaded \cup {c}
  /\ Restarts(c)
  /\ UNCHANGED <<access, persisted, decisions, lastTaken>>

\* setConsent of both files; enableTelemetry and disableTelemetry with
\* persistConsent.
SetConsent(i, granted) ==
  /\ i \in loaded /\ decisions < MaxDecisions
  /\ decisions' = decisions + 1
  /\ consent' = [consent EXCEPT ![i] = granted]
  /\ told' = [told EXCEPT ![i] = IF granted THEN "yes" ELSE "no"]
  /\ persisted' = IF Writes(i, granted) THEN granted ELSE persisted
  /\ lastTaken' =
       IF access = "usable" \/ (i # Module /\ access = "full" /\ ~granted)
       THEN granted ELSE lastTaken
  /\ UNCHANGED <<access, sinks, loaded, basis>>

\* The browser's settings, private mode or quota.
AccessChanges(a) ==
  /\ a # access /\ access' = a
  /\ UNCHANGED <<persisted, consent, sinks, loaded, decisions, lastTaken, basis, told>>

\* The page is loaded anew: what is in memory is lost, and the module is not
\* configured.
PageLoads ==
  /\ consent' = [i \in Instances |-> FALSE]
  /\ sinks' = {} /\ loaded' = {Module}
  /\ told' = [i \in Instances |-> "nothing"]
  /\ UNCHANGED <<access, persisted, decisions, lastTaken, basis>>

\* trackEvent and track call the sink.
Sends(i) == i \in loaded /\ consent[i] /\ i \in sinks

TelemetryInit ==
  /\ access = "usable" /\ persisted = FALSE
  /\ consent = [i \in Instances |-> FALSE] /\ sinks = {} /\ loaded = {Module}
  /\ decisions = 0 /\ lastTaken = FALSE
  /\ basis = [i \in Instances |-> FALSE] /\ told = [i \in Instances |-> "nothing"]

TelemetryNext ==
  \/ configureTelemetry \/ PageLoads
  \/ \E c \in Clients : NewTelemetry(c)
  \/ \E i \in Instances, granted \in BOOLEAN : SetConsent(i, granted)
  \/ \E a \in Access : AccessChanges(a)

-----------------------------------------------------------------------------

\* Nothing is sent against a decision: an instance that sends was told yes,
\* or was told nothing and started when the last decision that the storage
\* took, from whichever of the two files and in whichever page, was yes.
OnlyWithConsent ==
  \A i \in Instances : Sends(i) =>
    told[i] = "yes" \/ (told[i] = "nothing" /\ basis[i])
=============================================================================
