-------------------------- MODULE EffectiveConfig --------------------------
(***************************************************************************)
(* The configuration Central sets for a store (internal/effectiveconfig).  *)
(* The loop of the service and every POST /config/refresh run Refresh:     *)
(* they read the ETag of the stored snapshot, ask Central for a            *)
(* configuration that has another one, store it, and note the success.     *)
(* Each is a statement or a request of its own, and any number of them may *)
(* be under way.  An ETag is the configuration it names.                   *)
(*                                                                         *)
(* A refresh that a crash ends before it stores its answer is one that     *)
(* fails.                                                                  *)
(***************************************************************************)
EXTENDS Naturals

CONSTANTS
  Config,     \* configurations
  NoConfig,   \* no snapshot yet
  Refresher,  \* the loop and the requests
  Loop,       \* the loop
  MaxPublish, MaxConfigFaults  \* bounds: changes at Central, failed refreshes

ASSUME ConfigAssumption ==
  /\ NoConfig \notin Config
  /\ Loop \in Refresher
  /\ {MaxPublish, MaxConfigFaults} \subseteq Nat

VARIABLES
  central,       \* the configuration Central has
  snapshot,      \* effective_config_snapshot
  lastEtag,      \* last_etag of effective_config_sync_state
  refresh,       \* the refreshes
  publishes, configFaults

configVars == <<central, snapshot, lastEtag, refresh, publishes, configFaults>>

Stored == Config \union {NoConfig}

\* etag: the one it asks with; got: Central's answer.
Refresh == [at : {"idle", "asked", "save", "record"}, etag : Stored, got : Stored]

Resting == [at |-> "idle", etag |-> NoConfig, got |-> NoConfig]

ConfigInit ==
  /\ central \in Config
  /\ snapshot = NoConfig
  /\ lastEtag = NoConfig
  /\ refresh = [r \in Refresher |-> Resting]
  /\ publishes = 0 /\ configFaults = 0

Publish(c) ==
  /\ publishes < MaxPublish
  /\ publishes' = publishes + 1
  /\ central' = c
  /\ UNCHANGED <<snapshot, lastEtag, refresh, configFaults>>

\* Mutant of CurrentETag: the ETag of the last success.
CurrentETagOfSuccess == lastEtag

CurrentETag == snapshot

StartRefresh(r) ==
  /\ refresh[r].at = "idle"
  /\ refresh' = [refresh EXCEPT ![r] = [Resting EXCEPT !.at = "asked", !.etag = CurrentETag]]
  /\ UNCHANGED <<central, snapshot, lastEtag, publishes, configFaults>>

\* Central answers 304 if it has nothing else than what was named.
Answer(r) ==
  /\ refresh[r].at = "asked"
  /\ refresh' =
       IF refresh[r].etag = central
       THEN [refresh EXCEPT ![r].at = "record", ![r].got = central]
       ELSE [refresh EXCEPT ![r].at = "save", ![r].got = central]
  /\ UNCHANGED <<central, snapshot, lastEtag, publishes, configFaults>>

\* Save replaces whatever snapshot is there.
Save(r) ==
  /\ refresh[r].at = "save"
  /\ snapshot' = refresh[r].got
  /\ refresh' = [refresh EXCEPT ![r].at = "record"]
  /\ UNCHANGED <<central, lastEtag, publishes, configFaults>>

RecordSuccess(r) ==
  /\ refresh[r].at = "record"
  /\ lastEtag' = refresh[r].got
  /\ refresh' = [refresh EXCEPT ![r] = Resting]
  /\ UNCHANGED <<central, snapshot, publishes, configFaults>>

\* The request, an answer or a statement fails; last_error is left out.
FailRefresh(r) ==
  /\ refresh[r].at # "idle"
  /\ configFaults < MaxConfigFaults
  /\ configFaults' = configFaults + 1
  /\ refresh' = [refresh EXCEPT ![r] = Resting]
  /\ UNCHANGED <<central, snapshot, lastEtag, publishes>>

\* What a refresh that was started does next.
Proceed(r) == Answer(r) \/ Save(r) \/ RecordSuccess(r)

ConfigNext ==
  \/ \E c \in Config : Publish(c)
  \/ \E r \in Refresher : StartRefresh(r) \/ Proceed(r) \/ FailRefresh(r)

-----------------------------------------------------------------------------
ConfigTypeOK ==
  /\ central \in Config
  /\ snapshot \in Stored /\ lastEtag \in Stored
  /\ refresh \in [Refresher -> Refresh]
  /\ publishes \in 0..MaxPublish /\ configFaults \in 0..MaxConfigFaults

\* However refreshes overlap, once Central stops changing its configuration and
\* requests stop failing, the store comes to have it and keeps it.
ConfigConverges == <>[](snapshot = central)

=============================================================================
