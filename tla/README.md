# Verification of the cordn ad-hoc coordinator

This directory holds TLA+ models of the browser coordinator and of the chat
client beside it, the TLC configurations that check them on small instances,
and TLAPS proofs of what holds for any size. Paths below are those of the
application's sources (`src/src/...` from the directory above). What each
definition translates, line by line, is in `PROJECT.json` under `map`.

    tlc -workers 2 -config CoordinatorStreams.cfg MCCoordinatorStreams.tla
    tlapm CoordinatorStreamsProofs.tla

## 1. The system

A browser tab can host a *coordinator*: a server with a Nostr key that keeps
ordered logs of opaque MLS records, key packages, welcomes and join requests,
and serves them over relays. Chat *rooms* are MLS groups whose members, the
host among them, reach each other only through such a coordinator.

| Component | State | Operations | Talks to |
|---|---|---|---|
| Coordinator (`cordn/coordinator/coordinator.ts`) | subscribers per group, cleanup timer | post, subscribe one or many groups, deleteGroup, close | storage (synchronous), streams (callbacks) |
| Adapter (`cordn/server/coordinatorMethods.ts`) | one async handler per call, rate limiter | `msg_post`, `msg_fetch*`, `msg_sub*`, `kp_*`, `welcome_*`, `join_request_*` | coordinator; peers through open streams that are awaited record by record |
| Storage (`cordn/coordinator/storage/*`) | logs, tombstones, key packages, welcomes, join requests; registry of deleted rooms in localStorage, a snapshot in the database or, if it does not open, in localStorage | one method per operation, each ending in `persist()` | localStorage, SQLite over localStorage |
| Lifecycle (`coordinator/coordinator.svelte.ts`, `state-machine.ts`) | status, startup generation and its abort signal, startup promise, lease, running transport, recovery targets | start, stop, restart, autostart, destroy, retryRoomRecovery, deleteHostedRoom, enable/disablePersistence | guard, transport, room sessions, key storage |
| Single-instance guard (`coordinator/single-instance-guard.ts`) | web lock, storage lease, broadcast responder, heartbeat timer, tokens of stopped instances | acquire, release | other tabs (BroadcastChannel, localStorage), other devices (relays) |
| Room sessions (`chat/room-store.ts`, `protocol.ts`, `cordn-wire.ts`) | the stored room: MLS state, cursor, messages, pending posts, welcome outbox; the queue of operations | create, join, sync, send, react, retire | coordinator clients, localStorage |
| Coordinator clients (`chat/coordinator-client.ts`, `local-coordinator-client.ts`) | connections | one call per method; two writes are retried | relays, or the coordinator of the same tab |
| Transport, relay pool (`lib/transport.ts`, `lib/relay-pool.ts`) | pools, attempts in flight, open streams | create, publish with bounded attempts, subscribe, disconnect | relays |
| Identity (`identity/*`, `crypto/*`) | signer, recovery marker, retirement journal | sign in, rotate, recover | room sessions, localStorage |
| Notifications, presence (`notifications/*`, `invites/*`) | feed, preferences; contacts online, invitations | record, trim, deliver; connect, publish, receive | browser, relays |
| Rate limiter (`cordn/server/rateLimit.ts`) | a bucket per caller | allow | adapter |
| Setup (`config/*`, `crypto/key-storage.ts`, `coordinator/coordinator-profile.ts`, settings) | configuration, key, public name | first run, edit, save, unlock, publish | lifecycle, localStorage, relays |
| Invites (`chat/invite.ts`, `room-navigation.ts`) | the link of a room, what a link claims | replace, open, ask, approve | room sessions |
| User interface (`components/*`) | room sessions of the workspace and of routes, reachability, dialogs | open, recover, remove, leave, probe, scan | everything above |
| Resource monitor, codecs, schemas | small or none | pure or local | — |

What is hard here:

- *Interleavings on one thread.* Every `await` lets other handlers run: a
  subscription between its backlog and its live phase, a startup that was
  overtaken by a stop, a sync between fetch and post, a deletion that opens a
  storage of its own while the coordinator starts.
- *Several pages.* Tabs and devices with the same key, told apart only by
  locks, leases, and heartbeats that may be lost, late or out of order; pages
  that freeze or die.
- *A network that loses answers.* A call may act and its answer be lost; the
  retry acts again; what was given up arrives later.
- *Steps that half happen.* `persist()` throws after memory has changed; the
  registry is written and the snapshot is not; a commit is posted and the
  welcome is not; a page dies between an acknowledgement and a save.

What makes each component correct, with the exceptions that section 4 records:

- *Streams*: a peer gets, per group, every record behind its position, once
  and in order; deletion is final and ends streams; no stream stays registered
  after it ended.
- *Storage*: deletions survive instances, restarts and keys; cursors that were
  acknowledged are not given again by whoever opens the same store.
- *Key packages*: the quota holds; an identity that can be admitted stays so;
  an ordinary package is handed out once; the right device is welcomed.
- *Lifecycle*: at most one transport and one lease, both owned by the current
  generation; the status is true; every call settles; recovery does not lose
  progress.
- *Guard*: one coordinator per key, as far as the means in the code go; a
  start is not refused without a reason; a stop is not undone by a late
  heartbeat.
- *Rooms*: what was sent is kept and shown once; guests get in; everyone
  follows the host's commits; nobody's record is passed over.
- *Relay pool*: publications settle, a closed subscription stays closed.
- *Identity*: no death of the page leaves an identity in use that has lost
  some of its rooms; the identity shown is the one a reload loads.
- *Workspace*: one polling session a room; what was removed is remembered; what
  is shown of other coordinators ends as it is.
- *Notifications and reading*: the feed is its newest events; unread is what
  came since the acknowledgement; everybody ends with the same last reaction.
- *Presence and invites*: a user is shown online no longer than a presence lives
  after it was; an answered invitation stays answered; a replaced link admits nobody
  new.
- *Setup*: a failed first run leaves no key behind; a coordinator that runs
  with other settings than those shown says so.

`PROJECT.json` lists every hazard at its line under `hazards`, with the
property that is about it or the reason there is none.

## 2. Modules

| Module | Models | Composed in, with |
|---|---|---|
| `OrderedDelivery` | what a stream promises its peer, abstractly | `CoordinatorStreams` implements it (`Promise`, `KeepsPromise`) |
| `CoordinatorStreams` | logs, subscriptions, replay, backlog, live phase, deletion, failing snapshots | `MCCoordinatorStreams` |
| `CoordinatorLifecycle` | the store's startup transactions and its calls | `MCCoordinatorLifecycle` |
| `SingleInstance` | the guard in several tabs and browsers | `MCCoordinatorTab` |
| `SnapshotStorage` | what outlives an instance | `MCCoordinatorTab` |
| `RoomSync` | host and guests of a room over a coordinator | `MCRoomSync`; abstracts the log of `CoordinatorStreams` to a sequence |
| `RoomReading` | reactions and unread counts of the members of a room | `MCNotificationFeed` |
| `KeyPackages` | the package directory and admission by it | `MCKeyPackages` |
| `PendingQueues` | the queues of join requests and welcomes | `MCKeyPackages` |
| `JoinSignals` | a request that reaches a host in the coordinator's tab | `MCKeyPackages` |
| `RateLimit` | the token buckets in front of the calls | `MCKeyPackages` |
| `IdentityRotation` | the local identity, its replacement, signers | `MCIdentityRotation` |
| `RoomCache` | stored rooms, aliases, last open room, ledger of the side bar | extended by `Workspace` |
| `Workspace` | the room sessions of a browser | `MCWorkspace` |
| `Reachability` | what is shown of other coordinators | `MCWorkspace` |
| `NotificationFeed` | the feed and desktop delivery | `MCNotificationFeed` |
| `NostrSocial` | presence and invitations over Nostr | `MCNostrSocial` |
| `RoomInvites` | links to a room and who is admitted by them | `MCNostrSocial` |
| `InviteScanner` | the invite dialog and its camera | `MCNostrSocial` |
| `CoordinatorSetup` | key, configuration and public name | `MCCoordinatorSetup` |
| `RelayPool` | publications, subscriptions, disconnect | `MCCoordinatorSetup` |
| `Sublists` | `Array.prototype.filter` and `splice`, as operators that can be proved about | extended by `RoomSync`, `KeyPackages`, `RoomCache`, `NotificationFeed` |

Theorems are in modules of their own, which extend the modules they are about:
`CoordinatorStreamsProofs`, `CoordinatorLifecycleProofs`, `CoordinatorTabProofs`
(`SingleInstance`, `SnapshotStorage`), `RoomProofs` (`RoomSync`, `Workspace`,
`Reachability`), `AdmissionProofs` (`KeyPackages`, `RateLimit`, `PendingQueues`,
`JoinSignals`), `UserProofs` (`IdentityRotation`, `NostrSocial`, `RoomInvites`,
`InviteScanner`, `NotificationFeed`, `RoomReading`), `CoordinatorSetupProofs` (`CoordinatorSetup`,
`RelayPool`), and `SublistProofs` for lemmas about `Sublists`. Where a module of
theorems reaches two models that use the same words, it has one of them under a name
(`Queues!`, `Signals!`, `Servers!`, `Links!`, `Scanner!`, `Room!`), as the `MC` modules do.

Some `MC` modules run several modules one at a time (`focus`, `view`): they belong to
one subject but share no variable, so that their interleavings show nothing
more than each does alone. Each property there speaks of one of them.

Definitions whose comment begins with "Mutant:" are no part of the models.
They are plausible bugs, one for each property of a passing run, under which
TLC finds that property violated (`mutants` in `PROJECT.json`).

### CoordinatorStreams

`messages`, `nextCursor`, `groups`, `deletedGroups` are the storage's maps;
`subscribers` is `groupSubscribers`; each stream has `pc`, the place of the
async handler between two awaits, `queue` (AsyncMessageQueue), `backlog` and
`lastEmitted` (its `lastEmittedCursor`). A record is its cursor. The backlog
is either a copy (`slice`/`filter` when a cursor is given) or the live array
itself (`fetchGroupMessages` without one): `backlog.aliased`. An action of a
handler runs from one await to the next; posts, deletions and aborts come in
between. `unpublished` is a history variable: records whose post failed after
memory had changed. `out` is what the peer was sent.

`OrderedDelivery` has lengths and positions only: a stream hands out records
in order, may pass over those whose post failed, ends when a group of it is
deleted, and progresses.

### CoordinatorLifecycle

One startup transaction at a time can be at each await (`pc`), with the
generation it belongs to (`of`) and whether it is a start or a retried
recovery (`kind`); `controller`, `aborted` and `promise` are
`startupController`, the aborted signals and `startupPromise`. Calls of stop,
restart and destroy are `call[p]` with the await each is at. `Quiet` is the
guard of what a user or a timer starts: continuations of promises that have
settled run before the next task. Recovery works on `targets`, `completed`,
the `room` of the current attempt and its number.

### SingleInstance and SnapshotStorage

Tabs are in browsers (`browserOf`), and a browser may offer web locks or not
(`hasLocks`); both are chosen in the initial state and then fixed. `pc` is
where `acquire` is; other tabs run between the steps from `WriteLease` to
`RereadLease`, each `getItem`/`setItem` being atomic. `sent` are heartbeat
events on their way, in any order, possibly never; `relay` is the one a relay
keeps. `Freeze` and `Thaw` stop a tab's timers; `Crash` frees its web lock and
nothing else.

Neither probe is one step. `probes` are the tabs with a broadcast probe to
answer, `heard` the tabs with an answer to act on (`AnswerProbe`,
`ProbeBroadcast`): the other tab may stop, or the one that asked may freeze, in
between. A tab reads the stopped tokens (`ignored`) when it asks the relays
(`RereadLease`), the relays answer with what they have at any later time
(`RelaysAnswer`, `answer`), and the tab judges the answer later still
(`ProbeNostr`) — by the tokens it read, and by how fresh the heartbeat is then.
`met` and `over` are histories: which tabs were up together, and which stops
the relays had had when a tab asked them.

The storage takes for granted what the guard provides: one instance has it
open. A snapshot is in one of two `Stores`, the database or its fallback in
localStorage; a storage gets whichever opens (`createSnapshotPersistence`), anew each
time, and one without persistence has neither. `snapshot` is what each has,
`registry` the tombstones in localStorage, `memory` what the open storage holds,
`session` how far the instance is and which store it writes: it is loaded at the
end of `opening` and the disk is not looked at later. A room is the number of
its records; `StoreOther` stands for all other changes, which write the whole
memory again. `removing` are the deletions of `deleteHostedRoom` that found no
running instance, each with a store of its own. `Unsaved` is a write that throws,
before or after the registry was written. `ClearState` clears the store that
opens, the keys of the database and, before its await, those of the fallback.
`hostedBy`, chosen in the initial state, is the coordinator a room was created
on; only its key may delete it.

### RoomSync and RoomReading

`room[p]` is the stored room in memory, `saved[p]` in localStorage; `pc[p]`
the next call of the sync. An MLS state is the number of the commit that made
it and its members. A lost call (`faults`) either never arrives or acts and
loses its answer, and that goes for the host as well: its coordinator is in the
same page, but a local `postGroupMessage` appends to the log and then throws
when the coordinator cannot persist. A failing save of the room leaves `saved`
as it was (`Admit`, `StoreWelcome`, `PullMessages`, the end of a sync that
failed); a crash goes back to `saved`. `lost` is a history: the commits that the
coordinator recorded while the host lost the answer, or the save that was to
keep it.

`RoomReading` has everybody in the room and looks at what they see: `live` and
`saved` copies of the room per device, of a reaction the choice with its
cursor, once it has one, and the clock of the device that made it (`ahead`).
`read` is the history of acknowledgements, against which the unread count is
compared; `skipped` are records the cursor has jumped over.

### KeyPackages, PendingQueues, JoinSignals, RateLimit

`records` is the array the storage keeps for the identity, in order. Devices
create packages (`Join`), or reuse the last-resort package of a stored room
(`JoinAgain`), and publish them; `calls` counts the copies of a publication
that may still arrive. `IsWithinQuota` keeps the arithmetic of
`enforceKeyPackageQuota` with its aliasing: the packages to be replaced are
removed from the array that is then counted. The host takes a package for the
request it has fetched (`taking`), by reference and then by identity.

In `PendingQueues` an entry has the time it was stored (in milliseconds, coarse
enough that two entries may share one) and the time it was read; `again` marks one that was stored twice in one
millisecond. The requests of a room are a set, with one of an identity at
most: a pass of the host deals with them in any order. A fetch acknowledges what was dealt with before, and the clock's
tick expires. `JoinSignals` has the requests held by the coordinator, the call
that waits for its subscribers, and of the session only `pendingSync`, the
operation that runs and whether it has fetched already. `RateLimit` counts
tokens in `Parts`, so that fractions are integers; `passed` and `taken` are the
time and the calls let through in a span that may begin anywhere.

### IdentityRotation

localStorage (`stored`, `marker`, `rooms`) and the page (`signer`, `method`,
`rotation` with its place and journal, `sessions`). Every write may fail
(`MaxFaults`), the page may die at each await and each write, and calls to
signers and profile relays end at any later time.

### RoomCache, Workspace, Reachability

A session is an object with a state (`live`, `stopped`, `discarded`, ...)
and perhaps a synchronization under way (`busy`), which saves the room when it ends
unless the session was discarded. `mapped` is `hostedRoomSessions`, `shown`
and `session` the room and session of the workspace, `route…` those of the
chat route; `current`, `alias`, `lastOpen`, `order`, `history` are keys of
localStorage. Stored rooms and ledger are reconciled in the step that changes
them, as the event handler does.

`Reachability` has the coordinators themselves (`state`), probes that wait for
relays (`probes`, each `current` while the generation is its own), the session
of the chat that is open (`connection`, `sync`), and `measured`, what the page
knows (`remoteCoordinatorReachability`).

### NotificationFeed, NostrSocial, RoomInvites, InviteScanner

`feed` is the list of entries, `latest` the history it is compared with;
`queued` and `timer` are desktop delivery, `permission` the copy of the
browser's. In `NostrSocial` an operation is where it awaits (`pc`) and the
presence it was called with (`wanted`). A presence is the life it has left, in
ticks: `underWay` are those that were made (`Payload`) and wait for the signer
or the relays, `visible` is the one the contact's client has, and
`PresenceArrives` takes any of them at any time. `Tick` ages both. `RoomInvites` has the
host's token, a request with the token it was made with, what the host has
fetched (`waiting`) and is admitting, and the guest's stored room with what it
believes of the host. A scan of `InviteScanner` is the `scanToken` it began
with.

### CoordinatorSetup, RelayPool

`config` and `stored` are the configuration in memory and in localStorage;
`revision` and `applied` are `runtimeRevision` and the one a startup has read;
`saved` the key in the key storage and who saved it; `flow` the place of the
first run between its awaits. A task of `RelayPool` is where it waits and
whether its controller is aborted (`cut`): an abort is seen when the task goes
on.

## 3. Runs

| Run | Question | Instance | Result |
|---|---|---|---|
| `streams` | Is every stream gap-free, exactly registered, ended by deletion, and does it keep the abstract promise, progress included, although snapshots fail? | 2 groups, 1 stream, 2 records a group, `after` up to 3 | holds |
| `lifecycle` | Do interleaved starts, stops, restarts, retries and destroys keep one coordinator and a true status, and settle? | 2 rooms, 2 calls, 6 generations, 3 attempts | holds |
| `tab` | Who excludes whom, and why is a start refused? What outlives an instance? | 2 tabs in 1 or 2 browsers with or without locks, 2 starts each, clock 0..2; 2 rooms, 2 keys, 1 record a room, two stores, failing writes | holds |
| `room` | Do all members follow the host's commits, but for those whose answer or save was lost? | host and 2 guests; 2 of them write, or 1 and 1 fault, or 2 faults: lost calls of anyone, failing saves, the host's page dies | holds |
| `room_faults` | Is what is sent kept, shown once and posted; do guests get in? | host and 1 guest, 2 messages each, 1 lost call, failing save or crash, fair | holds |
| `room_order` | Are records pulled in cursor order? | host and 2 guests, no faults | no: finding |
| `admission` | What is handed out, kept, answered and let through? | 2 devices, 2 packages, quota 1 or 3, 1 restart; 2 rooms, 1 guest, 2 welcomes and requests, clock 0..3; 3 askers, 4 calls; 2 callers, burst 2, clock 0..5, set back once | holds |
| `identity` | What can a reload find? | 2 hosted rooms, 1 joined, 2 keys, 1 failing write, 1 death of the page | holds |
| `workspace` | Which sessions poll, what is remembered, what is shown of others? | 2 hosted rooms, 1 joined, 4 sessions, 2 starts, 1 change; 2 coordinators, 2 probes, 3 events, 1 lost answer, fair | holds |
| `feed` | Is the feed its newest events? What is unread, and which reaction is shown? | one event of each category, history of 2; 2 devices and 1, 1 message, 2 clicks, 1 fault, clock 2 ahead | holds |
| `social` | Who is shown online, what is answered, who is admitted, which camera is on? | 2 connects, 1 invitation, days 0..3, presences of 2 ticks, 3 choices; 2 links; 4 scans | holds |
| `setup` | What does setup leave behind, which settings run, do publications settle? | 2 names, 2 keys, 2 edits, 1 failing write, 1 reload; 1 publication and 1 subscription, 2 attempts, fair | holds |

### Why the bounds are enough

- *Streams.* One stream suffices for safety since streams share only the log;
  the proofs cover any number. Two groups are needed for a stream that loses
  one of them. Two records let one be posted before and one during the
  backlog; `after` = 3 lies ahead of the log.
- *Lifecycle.* Two concurrent calls and six generations allow a stop during a
  startup, a restart over it and a destroy behind both. Two rooms: one
  recovered, one failed. Three attempts are those of the code.
- *Guard.* `LeaseDuration` 2 and `FreshTicks` 1 keep their order in the code
  (a lease outlasts a fresh heartbeat's age by the choice of ticks); the clock
  reaches the expiry of the first lease. The web lock of a browser with one tab
  excludes nobody and is left out.
- *Storage.* Two rooms, so that writing one can erase the tombstone of the
  other; two keys, since registry and snapshots are scoped differently; the two
  stores of the code. One record: counts are compared only with what was
  acknowledged.
- *Rooms.* Two guests are needed for one to be passed over while another
  joins. Two faults in `room`: a commit whose answer is lost and another failure
  on top of it, as a death of the page or a second lost commit. Writers and faults
  share that bound there (`Few`): what splits a room are commits, and a message only
  takes a place between them. In `room_faults` one fault reaches every await with a lost
  request, answer, save or page.
- *Admission.* Two tries are enough for one late copy (the code has three); two
  packages for a last-resort and an ordinary one, or two devices'. A time to
  live of one tick puts an expiry between any two steps. Three askers, so that
  one comes while a signal waits and another while it is dealt with. A burst of
  two and one refill a tick distinguish a full bucket from one that fills.
- *Identity.* One fault and one death reach every write and await. With two
  failing writes `NeverHalfRetired` does not hold: see 4.
- *Workspace.* Four sessions: the mapped ones of both hosted rooms, the
  fallback's or the route's, and one that is on its way out. Two probes, one of
  which is overtaken.
- *Feed and reading.* A history of two makes the third entry push one out; two
  devices of one person, for clocks that differ; two clicks, for a choice and
  the one that overturns it.
- *Social.* Two connects that overlap; a life of two ticks, so that a presence may
  arrive with less than it was made with; presences and invitations are explored one
  at a time, as neither reads what the other writes; days beyond the replay and the retention;
  two links, an old and a new one; four scans, so that a scan can be overtaken
  twice.
- *Setup.* Two keys, the destroyed and the new one; two attempts, one that fails
  and the last.

### Fairness

`CoordinatorStreams.FairSpec`: a handler that can go on does (`WF` per
stream): its write to the open stream settles, accepted or rejected. Peers and
posters owe nothing. `CoordinatorLifecycle.FairSpec`: probes, connections and
attempts have timeouts in the code, so a transaction at an await goes on, and
continuations run. No request is fair. `RoomSync.FairSpec`: the session's
timer syncs again and calls settle (`CHAT_COORDINATOR_REQUEST_TIMEOUT_MS`);
faults are bounded by `MaxFaults`, which stands for "eventually calls get
through". `RelayPool`: the timer of an attempt, its end and the delay before
the next; no relay needs to answer. `Reachability`: the timers of the page, the
end of every wait for relays or for a synchronization, and that the heartbeat
of a coordinator that stopped grows old; a probe's limit (1.5 s) is taken to be
over before the next tick (12 s). Answers may be lost `MaxMisses` times. The
other modules state no liveness.

`CHECK_DEADLOCK FALSE` is in every configuration: users may stop asking, and
bounds end the behaviours.

## 4. Findings

`room_order` is the one that the runs show: posting moves the cursor of a
session past records of others that it has not pulled, and it never pulls
them. The following was seen while modelling. None of it is in the properties
that hold, which say what is excepted where they are stated.

Lifecycle and guard:

- A stop in the pause of `retryRoomRecovery` leaves a rejected startup promise
  (no catch, `coordinator.svelte.ts:734`), and every later start fails with it.
- A startup that fails after it was overtaken moves the status although it is
  stale (552). Leases, transports and progress it leaves alone.
- `destroy()` while a startup is under way does not abort it (773): the startup
  finishes with the destroyed key. `overtaken` marks those behaviours, and
  `OneCoordinator` and `StatusTellsTheTruth` are stated for the others.
- Two devices, or tabs without web locks, that start within a relay round trip
  both run (`single-instance-guard.ts:350`), whatever `README.md:22` says of
  "at once".
- A tab may be refused by another that has stopped by then: it acts on an answer
  to its broadcast probe that came before (281-286), or judges what relays answered with
  the stopped tokens it read when it asked them (358). `RefusalIsJustified` asks
  that the other was up at some time since the start began.

Storage and admission:

- A room deleted while the coordinator starts can come back
  (`coordinator.svelte.ts:613`): the instance writes the registry it had loaded
  before. `DeletionSurvives` covers deletions by the running instance or with
  none about.
- A deletion whose write throws leaves the tombstone in memory; the retry finds
  nothing new and reports success (`inMemoryStorage.ts:384-393`).
- A publication of a last-resort package by an identity that has more packages
  than a lowered quota is refused after the old package has been removed
  (`coordinatorMethods.ts:340-361`).
- A late copy of an earlier last-resort publication takes the place of the
  current one, which the next request then names in vain.
- Welcomes stored for one guest in the same millisecond with one package are
  acknowledged together. A welcome for another room of the guest is marked as
  read by any session and is gone an hour later, although nobody has opened it.
- The acknowledgement of a request that is lost leaves it: each synchronization of
  the host takes a key package for the guest again, and the library refuses to add
  it a second time, until the request expires. The state of the rate limiter is
  gone after a restart.
- A storage opens the database or, if that fails, the fallback, and neither knows
  of the other (`browserSqliteStorage.ts:102-107`): a database that does not open
  once starts the coordinator with an empty or an older log, whose cursors were
  acknowledged before; so does a coordinator that is started without persistence
  after it had it. `AcknowledgedIsKept` is therefore stated of each store and of whoever
  opens it next.
- What a running instance puts into the fallback while persistence is turned off
  stays there when the database did open (`browserSqliteStorage.ts:193-211`).
- A coordinator that restarts without its log hands out cursors from 1 again; a
  client that asks for what is behind a later one gets the new records only from
  there on. `GapFree` takes that cursor as the position of the stream.
- An ordinary key package whose publication is sent again by a retry is stored
  twice and may be handed out twice. `HandedOutOnce` counts publications.

Rooms:

- A commit that the coordinator recorded while the host lost the answer, as when the
  local post appends and then throws because its persisting does
  (`local-coordinator-client.ts:75`, `inMemoryStorage.ts:577`), splits the room
  (`room-store.ts:630`): the host keeps the old state and makes another commit on it,
  guests apply the first and can open neither. So does a save that fails (646-650) or
  comes too late for a page that dies. `EveryoneFollowsHost` excepts these commits
  (`lost`), and says that nothing else splits a room.
- A message written before a commit of the same sync is sealed with the old
  epoch and posted behind it (`room-store.ts:325`): those who have applied
  the commit pass it over (807).
- A guest acknowledges its welcome before the room is saved (732): a page that
  dies in between waits for a welcome that is gone. `NobodyIsStranded` counts
  the first time a guest is in.
- A reaction that a device pulls before its message, over which its own post has
  jumped, is dropped (`room-store.ts:848`), and stays so when the message is posted
  again.
- Devices of one person whose clocks differ: a device may drop its own newer
  reaction. A reaction whose answer was lost and that is retried overturns a
  later choice made on another device. What a toggle turns to is decided from
  what is shown before it has its turn.
- Acknowledging a room while a session has read it earlier (`markRoomRead`) is
  undone by the session's next save. `UnreadIsWhatCame` speaks of
  acknowledgements that the session makes.
- Two messages of one author with the same text in the same second have one id
  and are shown once. `markRead` and `setIdentity` may save the room in the
  middle of a pull, with its cursor ahead of its MLS state.
- A request that was listed before the link was replaced is still admitted on
  approval. A room that waits with a replaced link is not given the new one by
  opening it, and a retired room is not joined again until it was removed.

Workspace and identity:

- A hosted room that cannot be recovered because its identity was retired is
  still a target of recovery and is not in the side bar: it cannot be removed,
  and the coordinator cannot start.
- A session that was stopped but not discarded saves its room when its
  synchronization ends: over a newer copy, after its removal (`removed` of
  `RemovedIsRemembered` counts rooms that are absent), or after it was retired
  with an identity that is replaced.
- With two failing writes in one rotation the rooms of the restored identity are
  not all restored (`user-profile.svelte.ts:161`).
- A profile that arrives after the logout is shown. A remote signer that is
  adopted in the middle of a rotation is shown with the local key.
- A successful synchronization while the browser is offline shows its
  coordinator as online until the next tick.

Setup, presence, notifications:

- An unlock that ends after "Generate a new key instead" puts the old key in the
  place of the fresh one. A key that is being encrypted when its identity is
  destroyed is saved afterwards. "Published" and a publication under way outlive
  the coordinator's destruction. A name whose write failed is shown.
- A presence that was made before the user chose "invisible" may arrive after that was
  published (`nostr-social.svelte.ts:266-277`), and is shown for what is left of its two
  minutes. `NotShownForLong` bounds it; the clocks of two devices that differ, and the ten
  seconds between two prunings, come on top.
- A connect that waits for the signer's key connects after a logout. A connect
  that was overtaken by a choice of presence sets the presence it was called
  with.
- An invitation that is dismissed while it is being received once more is listed
  again. `AnsweredStaysAnswered` excepts it.
- With a permission that was denied in the browser the queue of desktop
  notifications is kept. A second tab overwrites the feed and the answers.

## 5. Proofs

Every theorem is for any values of the constants that satisfy the assumptions of
their modules, which say that constants are as declared: sets of names, bounds
that are natural numbers. Five say more. `LifecycleAssumption`,
`RoomAssumption` and `CacheAssumption` take the calls, the guests and the rooms of
a browser to be finitely many: their numbers occur in bounds, and rooms are put in
an order. `RateLimitAssumption` has `Burst * Parts <= IdleTtl *
Refill`: a bucket that is thrown away for being idle would be full. The code's
values (160 calls, 500 a minute, an hour: `coordinatorMethods.ts:250-253`) satisfy it with a
wide margin, and without it an idle caller would be given a full bucket early.
`SocialAssumption` has `Replay <= Retention`: relays are asked for the invitations of
three days, and answers are remembered for seven.

### CoordinatorStreamsProofs

- `TypeCorrect`: `Spec => []TypeOK`.
- `DeletionFinal`: `Spec => DeletionIsFinal`. It rests on `StorageInv`: only
  groups that are not deleted are in the map.
- `StreamsAreGapFree`: `Spec => []GapFree`.
- `RegistrationIsExact`: `Spec => []RegisteredWhileOpen`.
- `StreamsKeepThePromise`: `Spec => Promise!Spec`. The coordinator implements
  `OrderedDelivery`; the fairness half of `KeepsPromise` (`Promise!FairSpec`)
  stays with TLC.

`GapFree` and `RegisteredWhileOpen` rest on the inductive invariant `IInv`.
`GapFree` speaks of what was written, in groups in which no post has failed; it
is not inductive, since whether the next record may be written depends on what
is queued and on what is left of the backlog. `IInv` adds: logs are dense
(cursor = index); a stream is registered exactly while it is open; and per group
with nothing unpublished, a multi-group queue continues what was written, up to
the end of the log or a position ahead of it, and a single stream's queue is a
run of cursors that overlaps or continues the backlog, with nothing in it
between `lastEmitted` and the position reached, so that the duplicates of the
overlap are exactly those `lastEmitted` filters out. There is a lemma per step:
a post (per kind of stream), a deletion, the start of a handler, the end of the
backlog, a write from the backlog, a skip and a write from the queue, a close.

The refinement is stronger than `GapFree` where posts have failed: a stream may
pass over records, but only those whose post was answered with an error.
`PromiseInv` therefore says of *every* group what is still to come (`HandsOut`):
the queue is increasing and lies behind what was written, and every record
between the two is in the queue, is left in the backlog (`Covered`), is
unpublished, or came after the queue was closed (`Follows`). There is one lemma
per action for how it moves `Follows`, and then one per action that shows which
step of `Promise!Next`, or which stutter, it is.

### CoordinatorLifecycleProofs

- `LifecycleTypes`: `Spec => []TypeOK`. Generations are bounded by the calls
  that were made (`Bounded`, with `FiniteSetTheorems`).
- `OneCoordinatorAlways`: `Spec => []OneCoordinator`.
- `StatusIsTrue`: `Spec => []StatusTellsTheTruth`.
- `ProgressIsAlwaysKept`: `Spec => ProgressIsKept`.

They share one inductive invariant. A transaction at an await may be the one
that owns the store or one that was overtaken, and what the store may hold
depends on the place it waits at and on the status, whoever owns it (`Holds`,
`StatusInv`). `Ownership` says that whoever is aborted has lost the generation;
`Awaited` that `startupPromise` is pending exactly while a transaction runs, and
that what resumes a call has ended it, which is why a call that goes on finds
nothing half-done. `Recovery` relates targets, restored rooms and the room of the
current attempt at every await. All of it holds until a destroy overtakes a
startup (`overtaken`), which is the finding of section 4.

### CoordinatorTabProofs

`SingleInstance`:

- `TabsExcludeEachOther`: `Spec => []OnePerBrowser`, from who holds the web lock
  (`LockIsHeld`), whatever leases, probes and heartbeats do.
- `StopsWin`: `Spec => []StopWins`. A page's token names one of its runs, so its
  stop is the last of its events (`OneRunAToken`); each event is later than the
  one before, even in one second and after the clock stood still
  (`LaterEachTime`); so every running heartbeat of a token is earlier than its
  stop (`StopIsLast`), and, as what the relays keep only gets later, than what
  they keep once they have had it (`StopPrevails`).
- `RefusalsAreJustified`: `Spec => RefusalIsJustified`. The invariant accounts for
  everything a probe can find: a lock is held by a tab that is up (`LockIsLive`),
  a lease is of one that is up or has crashed (`LeasesAreAccounted`), a running
  heartbeat, whether under way, at the relays or an answer of theirs, is of one that
  runs, has crashed, or is known by its browser to have stopped
  (`HeartbeatsAreAccounted`). What a tab acts on may be old: `ProbeInv` says that an
  answer it has heard is of a tab it met since its start (`HeardIsMet`,
  `MeetingsAreKnown`), that a tab which met none has read the stopped tokens as they
  still are (`AloneIsUndisturbed`), and that the relays do not report as running what had told them
  that it stopped before they were asked (`AnswersAreHonest`). There is one lemma for the steps of
  the tabs and one for what the probes know after them (`Moves`, `ProbeMoves`).

`SnapshotStorage`, with any writes that throw:

- `StorageTypeCorrect`: `StorageSpec => []StorageTypeOK`.
- `DeletionsSurvive`: `StorageSpec => []DeletionSurvives`.
- `AcknowledgedRecordsAreKept`: `StorageSpec => []AcknowledgedIsKept`.

Neither property is inductive, because the disk is overwritten from the memory
of an instance, and storages are loaded without the rooms of the registry. The
invariant adds that the deletions promised are in that memory (`MemoryRemembers`), that
nothing is promised of a room which the registry of the key or the memory has as
deleted, in either store (`DeletedIsNotKept`), and that only the current key deletes
(`OneKeyAtATime`). `AcknowledgedIsKept` is two of its parts: what was acknowledged is in
the store it was written to (`AckedOnDisk`), and in the memory of the instance that has that
store open (`MemoryKeeps`). `PersistInv` says what a change of the running instance
may do, whether or not its writes succeed; posts, deletions and the other changes
are cases of it.

### RoomProofs

`RoomSync`:

- `RoomTypes`: `Spec => []TypeOK`.
- `MessagesAreExactlyOnce`: `Spec => []ExactlyOnce`, for any guests, lost calls,
  failing saves and crashes.
- `MembersFollowTheHost`: `Spec => []EveryoneFollowsHost`, for the same.

`ExactlyOnce` speaks of the stored rooms; a page that goes on may save the one in
memory, and a page that dies brings the stored one back. `IInv` therefore says the
same of both (`Fits`): what was sent is in the queue of *each* copy or in the log,
each shows nothing twice, and none is ahead of the log or of the commits made.
`EveryoneFollowsHost` asks that the state of every member lies on the chain of the
host's commits, or is one of the commits in `lost`. The invariant says of each copy of
the host's room, the one in memory and the stored one, that every commit of the log is
behind its state or is a lost one (`Covers`); and of a guest that came in, and of every
welcome, that the log has the commit that made its state (`Recorded`). What covers goes
on covering as long as only commits that are lost, or made on it, come to the log
(`CoversGoesOn`, `NoneBehind`).

`Workspace`, for any rooms and any number of sessions in use:

- `OneSessionPolls`: `WorkspaceSpec => []OneLivePerRoom`. A session is an object that
  lives on without being pointed to, so the invariant is about pointers: a session
  that polls is the one its hosted room is mapped to, or the route's (`LiveInv`);
  the session that recovers is of a room still to be recovered (`CandidateInv`), and
  the route has a session only while it is attached to a room of others
  (`RouteInv`). A step may make a session live or take a room's pointer away, but
  not both without stopping what was there.
- `RemovedStaysRemembered`: `WorkspaceSpec => []RemovedIsRemembered`. The history
  is rewritten by every reconciliation; what must not happen is that a removal finds
  no record to archive. The side bar, which removals start from, has only rooms that
  are stored (`CacheInv`).

`Reachability`, for any coordinators and numbers of probes:

- `FreshEvidenceStands`: `Servers!Spec => FresherEvidenceStands`: a probe that began
  before a session was reached is not the current one any more (`Fit`), and only
  the current one changes what is shown.

### AdmissionProofs

- `PackageTypes`: `Spec => []TypeOK`.
- `OrdinaryPackagesAreSpentOnce`: `Spec => []HandedOutOnce`. What may still be
  handed out is counted: for each ordinary package, publications that were stored
  are at least those handed out plus the copies the array has (`Counted`). Quota,
  replacement and consumption keep or lower the number of copies (`CountOfOnly`
  and its like), whichever of them the array aliases.
- `NobodyCallsTooOften`: `LimitSpec => []NoMoreThanTheRate`. For each caller, what
  it was given plus what its bucket would give now is at most the burst and the
  refill of the time that has passed. The products are taken apart by lemmas
  (`OneMore`, `MoreOfThem`), since the provers do not multiply variables.

`PendingQueues` and `JoinSignals`:

- `RetriedRequestsAreKept`: `Queues!Spec => RetriedRequestIsKept`. A host names what
  it has dealt with by identity and millisecond. `QueuesInv` says of what it has
  fetched and of the queue that a request which is still so named was read since, or
  was made twice within the millisecond (`RoomInv`): a request that is made anew
  has a later time, since what was fetched is no later than the clock and, if it is
  of this millisecond, is in the queue.
- `AnswersBringWelcomes`: `Signals!Spec => AnswerBringsWelcome`. A guest that waits
  has its request held or its welcome stored, and the pass that its call awaits has
  fetched it, although the pass may have begun for another (`SignalsInv`); the
  welcome is stored when that pass ends without a failure.

### UserProofs

`IdentityRotation`:


- `ReloadsKeepTheIdentity`: `Spec => []ReloadKeepsIdentity`.
- `RotationsAreWhole`: `Spec => [](faults <= 1 => NeverHalfRetired)`. With a second
  failing write the property is false (section 4); the run has `MaxFaults = 1`.

At each place of a rotation the invariant says whether the marker must be there
(`Marked`) and, as long as at most one write failed, which rooms of the first
identity may be retired: those this rotation has kept, until they are restored
(`Whole`).

`NostrSocial`, for any number of connects at once and any invitations:

- `MutualsAreShown`: `SocialSpec => []OnlineAreMutuals`. While
  some operation reads the graph again, what is shown may be ahead of it or behind;
  who is online was looked up in the graph as it is otherwise, and nobody is
  without a pool (`GraphInv`).
- `PresencesAreTrue`: `SocialSpec => []NotShownForLong`: a presence under way, like the
  one that the contact has, lives at most as long as is left of `Life` since the user was
  last online (`LifeInv`); time takes one tick from both.
- `AnswersStand`: `SocialSpec => []AnsweredStaysAnswered`. Of an answered invitation
  the invariant says that the answer is no older than the invitation, and that what
  is being received of it has not passed its check (`SettledFor`). The page may forget
  it has seen it; relays may deliver it only for as long as the answer is kept, which
  is where `Replay <= Retention` is needed.

`RoomInvites` and `InviteScanner`, for any numbers of links and scans:

- `ReplacedLinksAreClosed`: `Links!Spec => []PreviousLinksAreClosed`: what the host
  lists or deals with was current when it was read (`LinksInv`).
- `WaitingIsForSomething`: `Links!Spec => []WaitingRoomsAsked`: as long as
  the host lists or deals with a request, the queue has it, and a guest that was told
  to wait has it there or its welcome (`JoinInv`).
- `CamerasFollowTheDialog`: `Scanner!Spec => []CameraFollowsTheDialog`: scans are
  numbered as they begin, and a camera of the current number is asked for, or live,
  only while the dialog scans (`ScanInv`).

`NotificationFeed`:

- `NotificationsAreWanted`: `FeedSpec => []ShownIsWanted`: the queue has only what is
  on, since whatever turns something off also takes it out (`QueueInv`).
- `NewestEntriesAreKept`: `FeedSpec => []NewestAreKept`. The feed and the list of all
  events have each event once, and the ordinary events of the one are the first
  `MaxHistory` of those of the other (`CutOff`). Trimming by a count of what is
  before an entry is cutting off (`TrimmedIsNewest`); and to move an event to the front
  of what was cut off, and to cut it off again, is the same as of the whole list
  (`NewestOfMoved`), since an event is taken out of it at one place at most.

`RoomReading`, for any devices, messages, clicks and failures:

- `UnreadIsCounted`: `Room!Spec => []UnreadIsWhatCame`. The room in memory and the stored
  one may each be the next to be shown, so both must count right (`CountsWhatCame`),
  while what a session acknowledged is stored and what is stored is in memory
  (`DeviceInv`); a pull counts if the room had a baseline when it began.
- `LatestReactionShows`: `Room!Spec => []LastReactionIsShown`, if clocks run ahead by
  whole milliseconds (`AheadAssumption`). Both the room in memory and what a reload would
  make of the stored one must fit the log (`ShownInv`): what is shown of a message is
  its last reaction in the log up to the cursor while none waits to be posted
  (`Settled`), and the last of those that wait otherwise; and what a device itself has
  posted is behind its cursor unless something waits. The times of reactions that
  wait matter only between devices whose clocks agree (`OneClock`).
  The proof was attempted of a property without the exception for messages that were
  jumped over. That one is false with more messages than the run has: a device whose
  own post jumped over a message pulls a reaction to it, which it drops because
  the message is not there (`room-store.ts:848`), and then gets the message from its
  author's repeated post. The property now says so, and TLC found that behaviour with
  a second message of the other and no clocks ahead.

### CoordinatorSetupProofs

- `RestartIsAlwaysFlagged`: `Spec => []RestartIsFlagged`: what was applied is never
  ahead of the revision, and while the coordinator connects nothing changes what
  it has read (`ConnectsWithShown`).
- `FailedSetupLeavesNoKey`: `Spec => FailedSetupKeepsNoKey`, from the invariant that
  a flow which has taken its key back does not have it saved again (`TakenBack`).
  The proof was attempted of a property that did not ask whether the first run was
  to save a key. That one is false: with a second failure and a third key, a key
  saved by an *earlier* flow is still there when a later one fails. The property
  now speaks of the flows that saved one.
- `SubscriptionsStayClosed`: `PoolSpec => []ClosedIsClosed`, for any publications,
  subscriptions and attempts.

### SublistProofs

`Only` is a recursive function; a CHOOSE defines it, so that its equation must be
shown before it can be used (`KeptUnfolds`). Induction is done over sets: a set of
numbers that has 0 and the successor of each of its members has them all (`UpTo`),
from the least element of what it lacks (`LeastNumber`). From it follow what is kept
of one more element in front (`OnlyBehind`) or behind (`OnlyOfAppend`), what is kept
of what was kept (`OnlyOfOnly`), and which elements move up when one is taken out
(`WithoutAt`).

### What no theorem states

- Liveness under fairness and whatever needs `ENABLED`: the fairness half of
  `KeepsPromise`, and the properties of `lifecycle`, `room_faults`, `workspace`
  and `setup` that say that something ends.

No module declares a `RECURSIVE` operator.

The type invariants that no theorem states give the shape of a module's variables
and what a proof about it starts from; no run checks them.

## 6. Not modelled

The resource monitor, schemas and codecs, which keep no state the properties
tell apart. Cryptography, MLS, relays and signers are modelled from how they
are used. Of the user interface: layout, menus, wording, and everything that
only shows state. Two tabs with *different* keys that share the one snapshot
are not in `SnapshotStorage`, which has one tab. Of the lifecycle: the release of the
lease by `pagehide` (`coordinator.svelte.ts:852-864`) in a page that comes back from the
browser's cache. Of heartbeats: the expiration tag, one second for one that says
stopped, after which a relay may drop it or not take it. Of the side bar: a write of the
ledger that fails and is passed over (`sidebar-ledger.ts:131-135`). "Stop camera" is
what closing the invite dialog and opening it again does. In `RoomSync` the
coordinator keeps its log, and the save of a message that is being sent does not fail.
Of the room sessions: the repair of rooms stored by older versions, and room settings. Of notifications:
marks of what was read in the feed, counts of occurrences and the preferences
of channels. Of setup: a coordinator that is configured beside an embedded
chat.

## 7. Plan

Every safety invariant and action property the runs check is proved. What is left
is to model more of `HostWorkspace.svelte` and of the rooms' settings and repair.
