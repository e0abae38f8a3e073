---------------------------- MODULE CoordinatorSetup ----------------------------
(***************************************************************************)
(* The coordinator's key, its configuration and its public name: the first *)
(* run (CoordinatorSetup.svelte, HostWorkspace.svelte), the settings       *)
(* (CoordinatorSettings.svelte), unlocking and replacing a saved key       *)
(* (PassphrasePrompt.svelte), and what they call in the coordinator's      *)
(* store, the configuration, the key storage and the publisher of profiles.*)
(*                                                                         *)
(* Encrypting a key, decrypting one and asking relays take time; the calls *)
(* that await them go on with the state as it is then.  A write of the     *)
(* configuration may fail (the browser's quota).  Keys are numbered in the *)
(* order in which they are generated.  Left out: passphrases that do not   *)
(* match, relay URLs that are not valid, the presence and the badge, and   *)
(* what starting does besides taking over the settings                     *)
(* (CoordinatorLifecycle).                                                 *)
(***************************************************************************)
EXTENDS Integers

CONSTANTS
  Names,       \* coordinator names
  Default,     \* the name of a coordinator that nobody has named
  MaxKeys,     \* bound: keys generated
  MaxEdits,    \* bound: changes of the configuration
  MaxFailures, \* bound: writes of the configuration that fail
  MaxReloads   \* bound: reloads of the page

ASSUME SetupAssumption ==
  /\ Default \in Names
  /\ MaxKeys \in Nat \ {0}
  /\ {MaxEdits, MaxFailures, MaxReloads} \subseteq Nat

VARIABLES
  key, keys,  \* keyManager's key, 0 while locked; how many there have been
  gone,       \* the keys that destroy() has overwritten
  enabled,    \* persistenceEnabled
  saved,      \* the key in localStorage and the dialog that put it there
  config,     \* the configuration in memory
  stored,     \* the configuration in localStorage
  revision,   \* runtimeRevision
  status, runs, applied, \* what the coordinator runs; appliedConfigRevision
  editing,    \* editMode
  flow,       \* completeCoordinatorSetup: where it waits and what it was given
  saving, removing, unlocking,  \* what the other dialogs wait for
  profile,    \* profilePublicationState
  publishing, \* the publication under way
  published,  \* the key and the name that relays acknowledged last
  failures, reloads

secret == <<key, keys, gone>>
identity == <<secret, enabled, saved>>
settings == <<config, stored, revision, failures>>
running == <<status, runs, applied>>
dialogs == <<saving, removing, unlocking>>
publication == <<profile, publishing, published>>
vars == <<identity, settings, running, editing, flow, dialogs, publication, reloads>>

Keys == 1..MaxKeys
Stopping == {"stopping", "restarting", "destroying"}  \* for stop, restart and destroy
NoKey == [key |-> 0, by |-> "none"]
Saves == {NoKey} \union [key : Keys, by : {"setup", "settings"}]
Values == {0, 1}     \* relays, announcement and quota, which only a start reads
Fresh == [done |-> FALSE, name |-> Default, value |-> 0]
NoConfig == [done |-> "none", name |-> Default, value |-> 0]
Idle == [at |-> "none", persist |-> FALSE, was |-> FALSE, key |-> 0, name |-> Default]
Quiet == [at |-> "none", key |-> 0, name |-> Default]
Nothing == [key |-> 0, name |-> Default]

TypeOK ==
  /\ key \in 0..MaxKeys /\ keys \in Keys /\ gone \subseteq Keys /\ enabled \in BOOLEAN /\ saved \in Saves
  /\ config \in [done : BOOLEAN, name : Names, value : Values]
  /\ stored \in [done : {"none", "unset", "no", "yes"}, name : Names, value : Values]
  /\ revision \in Nat /\ applied \in Nat \union {-1}
  /\ status \in {"idle", "starting", "connecting", "running"} \union Stopping
  /\ runs \in [done : BOOLEAN, name : Names, value : Values]
  /\ flow.at \in {"none", "saving", "clearing", "undoing", "publishing"}
  /\ {saving, unlocking} \subseteq 0..MaxKeys /\ removing \in BOOLEAN
  /\ profile \in {"idle", "publishing", "published", "failed"}

-----------------------------------------------------------------------------
(* The configuration. *)

Written(c) == [done |-> IF c.done THEN "yes" ELSE "no", name |-> c.name, value |-> c.value]

\* A configuration from before there was a setup counts as set up when the
\* coordinator was given a name.
Loaded(s) == [done |-> s.done = "yes" \/ (s.done = "unset" /\ s.name # Default),
              name |-> s.name, value |-> s.value]

\* Loading writes a migrated configuration back.
Migrated(s) == IF s.done = "unset" /\ s.name # Default THEN Written(Loaded(s)) ELSE s

\* A setter changes the memory first; then the write may fail.
Commit(c, restart) ==
  /\ revision < MaxEdits
  /\ config' = c
  /\ revision' = IF restart THEN revision + 1 ELSE revision
  /\ \/ stored' = Written(c) /\ UNCHANGED failures
     \/ failures < MaxFailures /\ failures' = failures + 1 /\ UNCHANGED stored

\* completeFirstRunSetup writes first: a failure changes nothing.
FirstRun(c) ==
  /\ revision < MaxEdits
  /\ stored' = Written(c) /\ config' = c /\ revision' = revision + 1
  /\ UNCHANGED failures

FirstRunFails ==
  /\ failures < MaxFailures /\ failures' = failures + 1
  /\ UNCHANGED <<config, stored, revision>>

\* Mutant: a startup does not close the settings.
OnlyStopping == status \in Stopping

Transitioning == status \in {"starting", "connecting"} \union Stopping
Editable == editing /\ ~Transitioning

\* The rail with the settings and the lifecycle controls is not there in the
\* first run (a first run beside a remote room is left out).
Rail == key # 0 /\ config.done

-----------------------------------------------------------------------------
(* The key. *)

Locked == key = 0

\* What is encrypted is the key that was current when saving began.
Stores(k, by) == saved' = [key |-> k, by |-> by] /\ enabled' = TRUE

\* disablePersistence clears the key, and the coordinator's state after that.
Clears == saved' = NoKey

-----------------------------------------------------------------------------
(* Publication of the coordinator's name: one at a time.                   *)

Publish ==
  IF profile = "publishing" THEN UNCHANGED publication
  ELSE /\ profile' = "publishing"
       /\ publishing' = [at |-> "query", key |-> key, name |-> config'.name]
       /\ published' = Nothing

\* The metadata came back or did not; the event is signed with the key as it
\* was at the start, which may have been destroyed.
Signs ==
  /\ publishing.at = "query"
  /\ IF publishing.key \in gone
     THEN profile' = "failed" /\ publishing' = Quiet
     ELSE publishing' = [publishing EXCEPT !.at = "sent"] /\ UNCHANGED profile
  /\ UNCHANGED <<published, identity, settings, running, editing, flow, dialogs, reloads>>

Acknowledged ==
  /\ publishing.at = "sent"
  /\ publishing' = Quiet
  /\ \/ /\ profile' = "published"
        /\ published' = [key |-> publishing.key, name |-> publishing.name]
     \/ profile' = "failed" /\ UNCHANGED published
  /\ UNCHANGED <<identity, settings, running, editing, flow, dialogs, reloads>>

-----------------------------------------------------------------------------
(* The first run: completeCoordinatorSetup.                                *)

CanStart == status = "idle" /\ config.done /\ ~Locked

\* The form has checked the passphrases, the name and the relays.
Submit ==
  /\ flow.at = "none" /\ ~Locked /\ ~config.done
  /\ \E persist \in BOOLEAN, name \in Names :
       /\ flow' = [at |-> IF persist THEN "saving" ELSE "clearing", persist |-> persist,
                   was |-> enabled, key |-> key, name |-> name]
       /\ IF ~persist /\ enabled THEN Clears ELSE UNCHANGED saved
  /\ UNCHANGED <<secret, enabled, settings, running, editing, dialogs, publication, reloads>>

\* The key is saved, or cleared, and the configuration is written.
Configure ==
  /\ flow.at \in {"saving", "clearing"}
  /\ IF flow.persist THEN Stores(flow.key, "setup")
     ELSE UNCHANGED saved /\ enabled' = FALSE
  /\ LET c == [done |-> TRUE, name |-> flow.name, value |-> config.value]
     IN  FirstRun(c) /\ flow' = [flow EXCEPT !.at = "publishing"] /\ Publish
  /\ UNCHANGED <<secret, running, editing, dialogs, reloads>>

\* Mutant: the key that was saved for the setup stays.
LeavesKey(k) == saved' = [key |-> k, by |-> "setup"]

\* The key that was saved for the setup is cleared again.
TakesBack(k) == Clears

\* The configuration could not be written.
ConfigureFails ==
  /\ flow.at \in {"saving", "clearing"}
  /\ FirstRunFails
  /\ IF flow.persist /\ ~flow.was
     THEN TakesBack(flow.key) /\ enabled' = TRUE /\ flow' = [flow EXCEPT !.at = "undoing"]
     ELSE /\ IF flow.persist THEN Stores(flow.key, "setup") ELSE UNCHANGED saved /\ enabled' = FALSE
          /\ flow' = Idle
  /\ UNCHANGED <<secret, running, editing, dialogs, publication, reloads>>

Undone ==
  /\ flow.at = "undoing"
  /\ enabled' = FALSE /\ flow' = Idle
  /\ UNCHANGED <<secret, saved, settings, running, editing, dialogs, publication, reloads>>

\* With autostart the coordinator starts when the publication is over.
SetupEnds ==
  /\ flow.at = "publishing" /\ profile # "publishing"
  /\ flow' = Idle
  /\ \/ CanStart /\ status' = "starting" /\ editing' = FALSE
     \/ UNCHANGED <<status, editing>>
  /\ UNCHANGED <<identity, settings, runs, applied, dialogs, publication, reloads>>

-----------------------------------------------------------------------------
(* The settings. *)

EnterEdit ==
  /\ Rail /\ ~Transitioning /\ ~editing /\ editing' = TRUE
  /\ UNCHANGED <<identity, settings, running, flow, dialogs, publication, reloads>>

ExitEdit ==
  /\ editing /\ editing' = FALSE
  /\ UNCHANGED <<identity, settings, running, flow, dialogs, publication, reloads>>

\* A name whose write failed is in memory only, and is not published.
SaveName ==
  /\ Editable /\ profile # "publishing"
  /\ \E name \in Names \ {config.name} :
       Commit([config EXCEPT !.name = name], config.done)
  /\ IF failures' = failures THEN Publish ELSE UNCHANGED publication
  /\ UNCHANGED <<identity, running, editing, flow, dialogs, reloads>>

RetryPublication ==
  /\ Editable /\ profile = "failed" /\ config.done
  /\ UNCHANGED <<identity, settings, running, editing, flow, dialogs, reloads>>
  /\ Publish

EditRuntime ==
  /\ Editable
  /\ Commit([config EXCEPT !.value = 1 - @], TRUE)
  /\ UNCHANGED <<identity, running, editing, flow, dialogs, publication, reloads>>

SaveKey ==
  /\ Rail /\ ~enabled /\ saving = 0 /\ saving' = key
  /\ UNCHANGED <<identity, settings, running, editing, flow, removing, unlocking, publication, reloads>>

KeySaved ==
  /\ saving # 0 /\ Stores(saving, "settings") /\ saving' = 0
  /\ UNCHANGED <<secret, settings, running, editing, flow, removing, unlocking, publication, reloads>>

RemoveKey ==
  /\ Editable /\ enabled /\ ~removing /\ Clears /\ removing' = TRUE
  /\ UNCHANGED <<secret, enabled, settings, running, editing, flow, saving, unlocking, publication, reloads>>

KeyRemoved ==
  /\ removing /\ removing' = FALSE /\ enabled' = FALSE
  /\ UNCHANGED <<secret, saved, settings, running, editing, flow, saving, unlocking, publication, reloads>>

-----------------------------------------------------------------------------
(* A saved key is unlocked, or given up for a new one.                     *)

Unlock ==
  /\ Locked /\ saved.key # 0 /\ unlocking = 0 /\ unlocking' = saved.key
  /\ UNCHANGED <<identity, settings, running, editing, flow, saving, removing, publication, reloads>>

\* The passphrase was right or wrong.
Unlocked ==
  /\ unlocking # 0 /\ unlocking' = 0
  /\ \/ key' = unlocking /\ enabled' = TRUE
     \/ UNCHANGED <<key, enabled>>
  /\ UNCHANGED <<keys, gone, saved, settings, running, editing, flow, saving, removing, publication, reloads>>

NextKey == keys < MaxKeys /\ key' = keys + 1 /\ keys' = keys + 1

GenerateFreshKey ==
  /\ Locked /\ NextKey /\ saved' = NoKey /\ enabled' = FALSE
  /\ UNCHANGED <<gone, settings, running, editing, flow, dialogs, publication, reloads>>

-----------------------------------------------------------------------------
(* The coordinator starts, stops and is destroyed.                         *)

\* start(), by the user or by autostart.
Start ==
  /\ CanStart /\ status' = "starting" /\ editing' = FALSE
  /\ UNCHANGED <<identity, settings, runs, applied, flow, dialogs, publication, reloads>>

\* The lease was granted: the transport takes over the settings.
TakesSettings ==
  /\ status = "starting" /\ status' = "connecting" /\ runs' = config
  /\ UNCHANGED <<identity, settings, applied, editing, flow, dialogs, publication, reloads>>

Started ==
  /\ status = "connecting" /\ status' = "running" /\ applied' = revision
  /\ UNCHANGED <<identity, settings, runs, editing, flow, dialogs, publication, reloads>>

StartFails ==
  /\ status \in {"starting", "connecting"} /\ status' = "idle" /\ runs' = Fresh
  /\ UNCHANGED <<identity, settings, applied, editing, flow, dialogs, publication, reloads>>

Stop ==
  /\ status = "running" /\ status' \in Stopping
  /\ UNCHANGED <<identity, settings, runs, applied, editing, flow, dialogs, publication, reloads>>

\* A restart starts again; its start closes the editor.
Stopped ==
  /\ status \in {"stopping", "restarting"} /\ runs' = Fresh
  /\ IF status = "restarting" /\ config.done
     THEN status' = "starting" /\ editing' = FALSE
     ELSE status' = "idle" /\ UNCHANGED editing
  /\ UNCHANGED <<identity, settings, applied, flow, dialogs, publication, reloads>>

\* What is under way in other calls goes on.
Destroyed ==
  /\ status = "destroying" \/ (status = "idle" /\ Rail)
  /\ NextKey /\ gone' = gone \union {key}
  /\ saved' = NoKey /\ enabled' = FALSE
  /\ config' = Fresh /\ stored' = NoConfig /\ editing' = FALSE
  /\ status' = "idle" /\ runs' = Fresh /\ applied' = -1
  /\ UNCHANGED <<revision, failures, flow, dialogs, publication, reloads>>

\* revision goes on only to bound the edits: it matters within one page.
Reload ==
  /\ reloads < MaxReloads /\ reloads' = reloads + 1
  /\ IF saved.key # 0 THEN key' = 0 /\ UNCHANGED keys ELSE NextKey
  /\ enabled' = (saved.key # 0)
  /\ config' = Loaded(stored) /\ stored' = Migrated(stored)
  /\ editing' = FALSE /\ status' = "idle" /\ runs' = Fresh /\ applied' = -1
  /\ flow' = Idle /\ saving' = 0 /\ removing' = FALSE /\ unlocking' = 0
  /\ profile' = "idle" /\ publishing' = Quiet /\ published' = Nothing
  /\ UNCHANGED <<gone, saved, revision, failures>>

Init ==
  /\ keys = 1 /\ gone = {}
  /\ saved \in {NoKey, [key |-> 1, by |-> "settings"]}
  /\ key = (IF saved = NoKey THEN 1 ELSE 0) /\ enabled = (saved # NoKey)
  /\ \E s \in {NoConfig} \union [done : {"unset", "no", "yes"}, name : Names, value : {0}] :
       config = Loaded(s) /\ stored = Migrated(s)
  /\ revision = 0 /\ status = "idle" /\ runs = Fresh /\ applied = -1 /\ editing = FALSE
  /\ flow = Idle /\ saving = 0 /\ removing = FALSE /\ unlocking = 0
  /\ profile = "idle" /\ publishing = Quiet /\ published = Nothing
  /\ failures = 0 /\ reloads = 0

SettingsStep ==
  \/ EnterEdit \/ ExitEdit \/ SaveName \/ RetryPublication \/ EditRuntime
  \/ SaveKey \/ KeySaved \/ RemoveKey \/ KeyRemoved
LifecycleStep ==
  \/ Start \/ TakesSettings \/ Started \/ StartFails \/ Stop \/ Stopped \/ Destroyed \/ Reload
Next ==
  \/ Submit \/ Configure \/ ConfigureFails \/ Undone \/ SetupEnds \/ Signs \/ Acknowledged
  \/ Unlock \/ Unlocked \/ GenerateFreshKey \/ SettingsStep \/ LifecycleStep

Spec == Init /\ [][Next]_vars

-----------------------------------------------------------------------------
\* A first run that was to save the key, that began without a saved one and that
\* fails, leaves no key behind for the next page to ask the passphrase of.
FailedSetupKeepsNoKey ==
  [][(/\ flow.at # "none" /\ flow'.at = "none" /\ ~config'.done /\ reloads' = reloads
      /\ flow.persist /\ ~flow.was) => saved'.by # "setup"]_vars

\* A running coordinator serves with the settings that are shown, unless it
\* says that a restart is required: edits race a startup that has read them.
RestartIsFlagged ==
  status = "running" => applied # revision \/ (runs.name = config.name /\ runs.value = config.value)
===============================================================================
