------------------------- MODULE CoordinatorSetupProofs -------------------------
(***************************************************************************)
(* Theorems about CoordinatorSetup, for any names and any bounds on keys,  *)
(* edits, failures and reloads, and about RelayPool, for any number of     *)
(* publications, subscriptions and attempts.  MCCoordinatorSetup checks    *)
(* the two together, and they share no variable.                           *)
(***************************************************************************)
EXTENDS CoordinatorSetup, RelayPool, TLAPS

-----------------------------------------------------------------------------
(* CoordinatorSetup. *)

Configurations == [done : BOOLEAN, name : Names, value : Values]

\* What the argument needs of the shapes.
SettingsTypeOK ==
  /\ revision \in Nat /\ applied \in Nat \union {-1}
  /\ config \in Configurations
  /\ stored \in [done : {"none", "unset", "no", "yes"}, name : Names, value : Values]
  /\ {"at", "name"} \subseteq DOMAIN flow /\ flow.name \in Names
  /\ reloads \in Nat

\* Whatever has left idle was started on a configuration that is complete, and one
\* that is complete is not completed again.
SetUpOnce ==
  /\ status # "idle" => config.done
  /\ flow.at \in {"saving", "clearing"} => ~config.done

\* While the coordinator connects nothing changes what it has read.
ConnectsWithShown ==
  status = "connecting" => runs.name = config.name /\ runs.value = config.value

\* What was applied is at most what there is: an edit makes the two differ for good.
AppliedIsPast == applied <= revision

SetupInv ==
  /\ SettingsTypeOK
  /\ SetUpOnce
  /\ ConnectsWithShown
  /\ AppliedIsPast
  /\ RestartIsFlagged

\* The configuration as it is written and loaded again keeps its shape.
LEMMA LoadedTypes ==
  ASSUME NEW s \in [done : {"none", "unset", "no", "yes"}, name : Names, value : Values]
  PROVE  /\ Loaded(s) \in Configurations
         /\ Migrated(s) \in [done : {"none", "unset", "no", "yes"}, name : Names, value : Values]
BY DEF Loaded, Migrated, Written, Configurations

LEMMA WrittenTypes ==
  ASSUME NEW c \in Configurations
  PROVE  Written(c) \in [done : {"none", "unset", "no", "yes"}, name : Names, value : Values]
BY DEF Written, Configurations

LEMMA FreshTypes ==
  /\ Fresh \in Configurations
  /\ NoConfig \in [done : {"none", "unset", "no", "yes"}, name : Names, value : Values]
BY SetupAssumption DEF Fresh, NoConfig, Configurations, Values

LEMMA SetupInit == Init => SetupInv
<1> SUFFICES ASSUME Init PROVE SetupInv
  OBVIOUS
<1>1. SettingsTypeOK
  <2>1. PICK s \in {NoConfig} \union [done : {"unset", "no", "yes"}, name : Names, value : {0}] :
          config = Loaded(s) /\ stored = Migrated(s)
    BY DEF Init
  <2>2. s \in [done : {"none", "unset", "no", "yes"}, name : Names, value : Values]
    BY FreshTypes DEF Values
  <2>3. QED
    BY <2>1, <2>2, LoadedTypes, SetupAssumption DEF Init, SettingsTypeOK, Idle
<1>2. status = "idle" /\ flow.at = "none" /\ applied = -1 /\ revision = 0
  BY DEF Init, Idle
<1>3. QED
  BY <1>1, <1>2 DEF SetupInv, SetUpOnce, ConnectsWithShown, AppliedIsPast, RestartIsFlagged

\* A step that leaves the settings alone may only start a coordinator that is set up,
\* connect it with the configuration shown, and take over the revision behind it.
LEMMA SettingsUnchanged ==
  ASSUME SetupInv, reloads' \in Nat, UNCHANGED <<config, stored, revision>>,
         {"at", "name"} \subseteq DOMAIN flow' /\ flow'.name \in Names,
         \/ flow'.at = flow.at
         \/ flow'.at \notin {"saving", "clearing"}
         \/ ~config.done,
         \/ UNCHANGED <<status, runs, applied>>
         \/ status' \notin {"connecting", "running"} /\ UNCHANGED applied
              /\ (config.done \/ status' = "idle")
         \/ status # "idle" /\ status' = "connecting" /\ runs' = config /\ UNCHANGED applied
         \/ status = "connecting" /\ status' = "running" /\ applied' = revision /\ UNCHANGED runs
  PROVE  SetupInv'
<1>1. SettingsTypeOK'
  BY DEF SetupInv, SettingsTypeOK
<1>2. AppliedIsPast'
  BY DEF SetupInv, SettingsTypeOK, AppliedIsPast
<1>3. SetUpOnce' /\ ConnectsWithShown' /\ RestartIsFlagged'
  BY DEF SetupInv, SetUpOnce, ConnectsWithShown, RestartIsFlagged
<1>4. QED
  BY <1>1, <1>2, <1>3 DEF SetupInv

\* A change of the configuration: a new revision says so, and no startup is under way.
LEMMA SettingsEdited ==
  ASSUME SetupInv, reloads' \in Nat, UNCHANGED running, config' \in Configurations, config'.done,
         stored' = stored \/ stored' = Written(config'),
         {"at", "name"} \subseteq DOMAIN flow' /\ flow'.name \in Names,
         status # "connecting", flow'.at \notin {"saving", "clearing"},
         revision' = revision + 1
  PROVE  SetupInv'
<1>1. SettingsTypeOK'
  BY WrittenTypes DEF SetupInv, SettingsTypeOK, running
<1>2. AppliedIsPast' /\ applied' # revision'
  BY DEF SetupInv, SettingsTypeOK, AppliedIsPast, running
<1>3. QED
  BY <1>1, <1>2 DEF SetupInv, SetUpOnce, ConnectsWithShown, RestartIsFlagged, running

\* One that is not set up is edited without a revision; nothing runs then.
LEMMA SetupStep ==
  ASSUME SetupInv, [Next]_vars
  PROVE  SetupInv'
<1>t. /\ config \in Configurations /\ config.done \in BOOLEAN /\ revision \in Nat
      /\ {"at", "name"} \subseteq DOMAIN flow /\ flow.name \in Names
  BY DEF SetupInv, SettingsTypeOK, Configurations
<1>f. {"at", "name"} \subseteq DOMAIN flow' /\ flow'.name \in Names
  <2>1. {"at", "name"} \subseteq DOMAIN Idle /\ Idle.name \in Names
    BY SetupAssumption DEF Idle
  <2>2. \A at : LET f == [flow EXCEPT !.at = at]
                IN  {"at", "name"} \subseteq DOMAIN f /\ f.name \in Names
    BY <1>t
  <2>3. \/ UNCHANGED flow
        \/ flow' = Idle
        \/ \E at : flow' = [flow EXCEPT !.at = at]
        \/ Submit
    <3>1. CASE UNCHANGED vars
      BY <3>1 DEF vars
    <3>2. CASE Configure \/ ConfigureFails \/ Undone \/ SetupEnds
      BY <3>2 DEF Configure, ConfigureFails, Undone, SetupEnds
    <3>3. CASE Signs \/ Acknowledged \/ Unlock \/ Unlocked \/ GenerateFreshKey \/ SettingsStep
      BY <3>3 DEF Signs, Acknowledged, Unlock, Unlocked, GenerateFreshKey, SettingsStep, EnterEdit,
         ExitEdit, SaveName, RetryPublication, EditRuntime, SaveKey, KeySaved, RemoveKey, KeyRemoved
    <3>4. CASE LifecycleStep
      BY <3>4 DEF LifecycleStep, Start, TakesSettings, Started, StartFails, Stop, Stopped, Destroyed, Reload
    <3>5. QED
      BY <3>1, <3>2, <3>3, <3>4 DEF Next
  <2>4. Submit => {"at", "name"} \subseteq DOMAIN flow' /\ flow'.name \in Names
    BY DEF Submit
  <2>5. QED
    BY <1>t, <2>1, <2>2, <2>3, <2>4
<1>r. reloads' \in Nat
  <2>1. UNCHANGED reloads \/ Reload
    BY DEF Next, SettingsStep, LifecycleStep, vars, Submit, Configure, ConfigureFails, Undone, SetupEnds,
       Signs, Acknowledged, Unlock, Unlocked, GenerateFreshKey, EnterEdit, ExitEdit, SaveName,
       RetryPublication, EditRuntime, SaveKey, KeySaved, RemoveKey, KeyRemoved, Start, TakesSettings,
       Started, StartFails, Stop, Stopped, Destroyed
  <2>2. QED
    BY <2>1 DEF Reload, SetupInv, SettingsTypeOK
<1>1. CASE UNCHANGED vars
  BY <1>1, <1>f, <1>r, <1>t, SettingsUnchanged DEF vars, settings, running
<1>2. CASE Submit \/ Undone \/ SetupEnds \/ Signs \/ Acknowledged
  BY <1>2, <1>f, <1>r, <1>t, SettingsUnchanged DEF Submit, Undone, SetupEnds, Signs, Acknowledged, settings, running, CanStart, Idle
<1>3. CASE Configure
  <2>1. PICK c \in Configurations : c.done /\ FirstRun(c)
    BY <1>3, <1>t DEF Configure, Configurations
  <2>2. flow'.at \notin {"saving", "clearing"} /\ UNCHANGED running
    BY <1>3 DEF Configure
  <2>3. status = "idle"
    BY <1>3 DEF Configure, SetupInv, SetUpOnce
  <2>4. QED
    BY <2>1, <2>2, <2>3, <1>f, <1>r, SettingsEdited DEF FirstRun
<1>4. CASE ConfigureFails
  BY <1>4, <1>f, <1>r, <1>t, SettingsUnchanged DEF ConfigureFails, FirstRunFails, running, Idle
<1>5. CASE Unlock \/ Unlocked \/ GenerateFreshKey
  BY <1>5, <1>f, <1>r, <1>t, SettingsUnchanged DEF Unlock, Unlocked, GenerateFreshKey, settings, running
<1>6. CASE EnterEdit \/ ExitEdit \/ RetryPublication \/ SaveKey \/ KeySaved \/ RemoveKey \/ KeyRemoved
  BY <1>6, <1>f, <1>r, <1>t, SettingsUnchanged DEF EnterEdit, ExitEdit, RetryPublication, SaveKey, KeySaved, RemoveKey,
     KeyRemoved, settings, running
<1>7. ASSUME NEW c \in Configurations, NEW restart \in BOOLEAN, Commit(c, restart),
             c.done = config.done, restart \/ ~c.done, restart = config.done \/ restart, Editable,
             UNCHANGED <<running, flow>>
      PROVE  SetupInv'
  <2>1. status # "connecting"
    BY <1>7 DEF Editable, Transitioning
  <2>2. CASE config.done
    BY <1>7, <2>1, <2>2, <1>f, <1>r, SettingsEdited DEF Commit, SetupInv, SetUpOnce
  <2>3. CASE ~config.done
    <3>1. status = "idle"
      BY <2>3 DEF SetupInv, SetUpOnce
    <3>2. revision' \in {revision, revision + 1} /\ config' = c
          /\ (stored' = stored \/ stored' = Written(config'))
      BY <1>7 DEF Commit
    <3>3. SettingsTypeOK'
      BY <1>7, <1>f, <1>r, <3>2, WrittenTypes DEF SetupInv, SettingsTypeOK, running
    <3>4. AppliedIsPast'
      BY <1>7, <3>2 DEF SetupInv, SettingsTypeOK, AppliedIsPast, running
    <3>5. QED
      BY <1>7, <2>3, <3>1, <3>2, <3>3, <3>4 DEF SetupInv, SetUpOnce, ConnectsWithShown, RestartIsFlagged, running
  <2>4. QED
    BY <1>t, <2>2, <2>3
<1>8. CASE SaveName \/ EditRuntime
  <2>1. CASE SaveName
    <3>1. PICK name \in Names : Commit([config EXCEPT !.name = name], config.done)
      BY <1>8, <2>1 DEF SaveName
    <3>2. [config EXCEPT !.name = name] \in Configurations
          /\ [config EXCEPT !.name = name].done = config.done
      BY <1>t DEF Configurations
    <3>3. QED
      BY <1>t, <1>7, <2>1, <3>1, <3>2 DEF SaveName
  <2>2. CASE EditRuntime
    <3>1. [config EXCEPT !.value = 1 - @] \in Configurations
          /\ [config EXCEPT !.value = 1 - @].done = config.done
      BY <1>t DEF Configurations, Values
    <3>2. QED
      BY <1>t, <1>7, <2>2, <3>1 DEF EditRuntime
  <2>3. QED
    BY <1>8, <2>1, <2>2
<1>9. CASE Start \/ TakesSettings \/ Started \/ StartFails \/ Stop \/ Stopped
  BY <1>9, <1>f, <1>r, <1>t, SettingsUnchanged DEF Start, TakesSettings, Started, StartFails, Stop, Stopped, CanStart,
     Stopping, settings, running, SetupInv, SetUpOnce
<1>10. CASE Destroyed
  <2>1. /\ config' = Fresh /\ stored' = NoConfig /\ status' = "idle" /\ applied' = -1
        /\ UNCHANGED <<revision, flow>> /\ ~Fresh.done
    BY <1>10 DEF Destroyed, Fresh
  <2>2. SettingsTypeOK' /\ AppliedIsPast'
    BY <1>t, <1>f, <1>r, <2>1, FreshTypes DEF SettingsTypeOK, AppliedIsPast
  <2>3. QED
    BY <2>1, <2>2 DEF SetupInv, SetUpOnce, ConnectsWithShown, RestartIsFlagged
<1>11. CASE Reload
  <2>1. /\ config' = Loaded(stored) /\ stored' = Migrated(stored) /\ status' = "idle" /\ applied' = -1
        /\ UNCHANGED revision /\ flow'.at = "none"
    BY <1>11 DEF Reload, Idle
  <2>2. SettingsTypeOK' /\ AppliedIsPast'
    BY <1>t, <1>f, <1>r, <2>1, LoadedTypes DEF SetupInv, SettingsTypeOK, AppliedIsPast
  <2>3. QED
    BY <2>1, <2>2 DEF SetupInv, SetUpOnce, ConnectsWithShown, RestartIsFlagged
<1>12. QED
  BY <1>1, <1>2, <1>3, <1>4, <1>5, <1>6, <1>8, <1>9, <1>10, <1>11 DEF Next, SettingsStep, LifecycleStep

\* A coordinator that runs with other settings than the ones shown says that it must
\* be restarted, whenever they were edited (runtimeRevision, appliedConfigRevision).
THEOREM RestartIsAlwaysFlagged == Spec => []RestartIsFlagged
<1>1. SetupInv => RestartIsFlagged
  BY DEF SetupInv
<1>2. QED
  BY <1>1, SetupInit, SetupStep, PTL DEF Spec

\* The key that is taken back, or that a destroy has cleared, is not saved again by
\* the flow that is about to end.
TakenBack == flow.at \in {"undoing", "publishing"} /\ ~config.done => saved.by # "setup"

LEMMA TakenBackStep ==
  ASSUME SetupInv, TakenBack, [Next]_vars
  PROVE  TakenBack'
<1>t. "at" \in DOMAIN flow /\ NoKey.by = "none"
  BY DEF SetupInv, SettingsTypeOK, NoKey
<1>1. CASE Configure \/ Destroyed
  BY <1>1, <1>t DEF Configure, FirstRun, Destroyed, TakenBack
<1>2. CASE ConfigureFails
  BY <1>2, <1>t DEF ConfigureFails, TakesBack, Clears, Idle, TakenBack
<1>3. CASE SaveName \/ EditRuntime
  BY <1>3, <1>t DEF SaveName, EditRuntime, Commit, identity, SetupInv, SettingsTypeOK, Configurations, TakenBack
<1>4. CASE KeySaved \/ RemoveKey
  BY <1>4, <1>t DEF KeySaved, RemoveKey, Stores, Clears, settings, TakenBack
<1>5. CASE Submit \/ Undone \/ SetupEnds \/ Reload
  BY <1>5 DEF Submit, Undone, SetupEnds, Reload, Idle, TakenBack
<1>6. CASE GenerateFreshKey
  BY <1>6, <1>t DEF GenerateFreshKey, settings, TakenBack
<1>7. CASE Signs \/ Acknowledged \/ Unlock \/ Unlocked \/ EnterEdit \/ ExitEdit \/ RetryPublication
           \/ SaveKey \/ KeyRemoved
  BY <1>7 DEF Signs, Acknowledged, Unlock, Unlocked, EnterEdit, ExitEdit, RetryPublication, SaveKey,
     KeyRemoved, identity, settings, TakenBack
<1>8. CASE Start \/ TakesSettings \/ Started \/ StartFails \/ Stop \/ Stopped \/ UNCHANGED vars
  BY <1>8 DEF Start, TakesSettings, Started, StartFails, Stop, Stopped, vars, identity, settings, TakenBack
<1>9. QED
  BY <1>1, <1>2, <1>3, <1>4, <1>5, <1>6, <1>7, <1>8 DEF Next, SettingsStep, LifecycleStep

\* A first run that was to save the key and fails leaves none behind, whatever is
\* saved, removed or destroyed from elsewhere while it is under way
\* (completeCoordinatorSetup).
THEOREM FailedSetupLeavesNoKey == Spec => FailedSetupKeepsNoKey
<1> DEFINE KeyInv == SetupInv /\ TakenBack
           Failed == /\ flow.at # "none" /\ flow'.at = "none" /\ ~config'.done /\ reloads' = reloads
                     /\ flow.persist /\ ~flow.was
<1>1. Init => KeyInv
  BY SetupInit DEF Init, Idle, TakenBack
<1>2. KeyInv /\ [Next]_vars => KeyInv'
  BY SetupStep, TakenBackStep
<1>3. KeyInv /\ [Next]_vars => [Failed => saved'.by # "setup"]_vars
  <2> SUFFICES ASSUME KeyInv, Next, Failed PROVE saved'.by # "setup"
    OBVIOUS
  <2>1. "at" \in DOMAIN flow /\ reloads + 1 # reloads
    BY DEF SetupInv, SettingsTypeOK
  <2>2. CASE Undone \/ SetupEnds
    BY <2>2 DEF Undone, SetupEnds, TakenBack, settings, identity
  <2>3. CASE ConfigureFails \/ Reload \/ Submit \/ Configure
    BY <2>1, <2>3 DEF ConfigureFails, Reload, Submit, Configure
  <2>4. CASE ~(ConfigureFails \/ Reload \/ Submit \/ Configure \/ Undone \/ SetupEnds)
    BY <2>4 DEF Next, SettingsStep, LifecycleStep, dialogs, Signs, Acknowledged, Unlock, Unlocked,
       GenerateFreshKey, EnterEdit, ExitEdit, SaveName, RetryPublication, EditRuntime, SaveKey,
       KeySaved, RemoveKey, KeyRemoved, Start, TakesSettings, Started, StartFails, Stop, Stopped, Destroyed
  <2>5. QED
    BY <2>2, <2>3, <2>4
<1>4. QED
  BY <1>1, <1>2, <1>3, PTL DEF Spec, FailedSetupKeepsNoKey

-----------------------------------------------------------------------------
(* RelayPool. *)

\* The shape of the subscriptions, which no publication touches.
SubTypeOK ==
  /\ sub \in [Subs -> {"none", "subscribing", "open", "closed"}]
  /\ localSub \in [Subs -> Tasks({"none", "probe", "up", "down", "subscribing", "on", "off"})]

\* The inductive invariant.
PoolInv == SubTypeOK /\ ClosedIsClosed

\* Cutting a task keeps its place, and what is not waiting is left alone.
LEMMA CutKeepsPlace ==
  ASSUME NEW ats, NEW task \in Tasks(ats)
  PROVE  Cut(task) \in Tasks(ats) /\ Cut(task).at = task.at
BY DEF Cut, Tasks

\* Every step keeps that shape.
LEMMA SubTypePreserved ==
  ASSUME SubTypeOK, [PoolNext]_poolVars
  PROVE  SubTypeOK'
<1> DEFINE Places == {"none", "probe", "up", "down", "subscribing", "on", "off"}
<1>p. localSub \in [Subs -> Tasks(Places)]
  BY DEF SubTypeOK
<1>t. \A at \in Places : Task(at) \in Tasks(Places)
  BY DEF Task, Tasks
<1>c. \A s \in Subs : Cut(localSub[s]) \in Tasks(Places)
  BY <1>p, CutKeepsPlace
<1>1. CASE UNCHANGED subs
  BY <1>1 DEF SubTypeOK, subs
<1>2. CASE Disconnect
  BY <1>2, <1>c DEF Disconnect, SubTypeOK
<1>3. ASSUME NEW s \in Subs, SubStep(s)
      PROVE  SubTypeOK'
  <2>1. CASE Subscribe(s)
    BY <2>1 DEF Subscribe, SubTypeOK
  <2>2. CASE Subscribed(s)
    <3>1. Probe \in Tasks(Places)
      BY DEF Probe, Tasks, Down
    <3> QED BY <2>2, <3>1 DEF Subscribed, SubTypeOK
  <2>3. CASE LocalProbed(s)
    <3>1. \A r \in {"up", "down"} : [localSub[s] EXCEPT !.at = r] \in Tasks(Places)
      BY <1>p DEF Tasks
    <3> QED BY <2>3, <3>1, <1>c DEF LocalProbed, SubTypeOK
  <2>4. CASE LocalSubscribes(s)
    BY <2>4, <1>t DEF LocalSubscribes, SubTypeOK
  <2>5. CASE LocalSubscribed(s)
    BY <2>5, <1>t DEF LocalSubscribed, LocalStands, SubTypeOK
  <2>6. CASE Close(s)
    BY <2>6, <1>t DEF Close, SubTypeOK
  <2> QED BY <1>3, <2>1, <2>2, <2>3, <2>4, <2>5, <2>6 DEF SubStep
<1>4. ASSUME NEW c \in Calls, CallStep(c)
      PROVE  UNCHANGED subs
  BY <1>4 DEF CallStep, PublishToRelays, Answer, AttemptTimer, AttemptEnds, DelayEnds, CallerAborts,
              LocalAnswers, LocalTimer, ProbeEnds, LocalEnds
<1>5. CASE ReadyExpires \/ Disconnected
  BY <1>5, <1>1 DEF ReadyExpires, Disconnected
<1>6. CASE UNCHANGED poolVars
  BY <1>6, <1>1 DEF poolVars
<1> QED BY <1>1, <1>2, <1>3, <1>4, <1>5, <1>6 DEF PoolNext

\* No step of a subscription leaves it on where the caller has closed it.
LEMMA ClosedPreserved ==
  ASSUME PoolInv, [PoolNext]_poolVars
  PROVE  ClosedIsClosed'
<1> USE DEF PoolInv
<1>1. CASE UNCHANGED subs
  BY <1>1 DEF ClosedIsClosed, subs
<1>2. CASE Disconnect
  <2>1. \A s \in Subs : Cut(localSub[s]).at = localSub[s].at
    BY CutKeepsPlace DEF SubTypeOK
  <2> QED BY <1>2, <2>1 DEF Disconnect, ClosedIsClosed
<1>3. ASSUME NEW s \in Subs, SubStep(s)
      PROVE  ClosedIsClosed'
  <2>0. \A r \in Subs : r # s => sub'[r] = sub[r] /\ localSub'[r] = localSub[r]
    BY <1>3 DEF SubStep, Subscribe, Subscribed, LocalProbed, LocalSubscribes, LocalSubscribed,
                Close, SubTypeOK
  <2> SUFFICES sub'[s] = "closed" => localSub'[s].at # "on"
    BY <2>0 DEF ClosedIsClosed
  <2>1. CASE Subscribe(s) \/ Subscribed(s)
    BY <2>1 DEF Subscribe, Subscribed, SubTypeOK
  <2>2. CASE LocalProbed(s)
    <3>1. Cut(localSub[s]).at = localSub[s].at
      BY CutKeepsPlace DEF SubTypeOK
    <3>2. \A r : [localSub[s] EXCEPT !.at = r].at = r
      BY DEF SubTypeOK, Tasks
    <3> QED BY <2>2, <3>1, <3>2 DEF LocalProbed, SubTypeOK
  <2>3. CASE LocalSubscribes(s)
    BY <2>3 DEF LocalSubscribes, Task, SubTypeOK
  <2>4. CASE LocalSubscribed(s)
    BY <2>4 DEF LocalSubscribed, LocalStands, Task, SubTypeOK
  <2>5. CASE Close(s)
    BY <2>5 DEF Close, Task, SubTypeOK
  <2> QED BY <1>3, <2>1, <2>2, <2>3, <2>4, <2>5 DEF SubStep
<1>4. ASSUME NEW c \in Calls, CallStep(c)
      PROVE  UNCHANGED subs
  BY <1>4 DEF CallStep, PublishToRelays, Answer, AttemptTimer, AttemptEnds, DelayEnds, CallerAborts,
              LocalAnswers, LocalTimer, ProbeEnds, LocalEnds
<1>5. CASE ReadyExpires \/ Disconnected
  BY <1>5, <1>1 DEF ReadyExpires, Disconnected
<1>6. CASE UNCHANGED poolVars
  BY <1>6, <1>1 DEF poolVars
<1> QED BY <1>1, <1>2, <1>3, <1>4, <1>5, <1>6 DEF PoolNext

\* A subscription that its caller has closed is not heard on localhost, however
\* late the local relay was found (subscribe in relay-pool.ts).
THEOREM SubscriptionsStayClosed == PoolSpec => []ClosedIsClosed
<1>1. PoolInit => PoolInv
  BY DEF PoolInit, PoolInv, SubTypeOK, ClosedIsClosed, Task, Tasks
<1>2. PoolInv /\ [PoolNext]_poolVars => PoolInv'
  BY SubTypePreserved, ClosedPreserved DEF PoolInv
<1>3. PoolInv => ClosedIsClosed
  BY DEF PoolInv
<1> QED BY <1>1, <1>2, <1>3, PTL DEF PoolSpec
===============================================================================
