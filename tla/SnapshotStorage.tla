----------------------------- MODULE SnapshotStorage -----------------------------
(***************************************************************************)
(* What of the coordinator's rooms outlives an instance: a storage in      *)
(* memory (InMemoryCoordinatorStorage) that writes, after every change, a  *)
(* registry of deleted rooms per coordinator key and, with persistence on, *)
(* one snapshot for all keys (createBrowserCoordinatorStorage); and the    *)
(* operations of the tab that open, bypass or clear it (CoordinatorStore). *)
(*                                                                         *)
(* A snapshot is in one of two stores: the database, or localStorage when  *)
(* the database does not open.  Which, is decided anew each time a storage *)
(* is opened, and neither store knows what is in the other.                *)
(*                                                                         *)
(* A room is the number of its records; what else there is of it is read   *)
(* and written with them.  Keys are numbered in the order they are made.   *)
(* One instance at a time has the storage open (CoordinatorLifecycle), in  *)
(* the only tab that runs.  Both writes are synchronous and may throw; a   *)
(* page that dies between the two is one whose second write throws and     *)
(* that is then reloaded.                                                  *)
(***************************************************************************)
EXTENDS Naturals

CONSTANTS Groups,         \* room group identifiers
          MaxRecords,     \* bound: records of a room
          MaxIdentities,  \* bound: coordinator keys made on this device
          SavesFail       \* whether a write may throw: the quota is exceeded, or the
                          \* tables are gone from under a database that is open

ASSUME StorageAssumption == MaxRecords \in Nat /\ MaxIdentities \in Nat \ {0}

VARIABLES
  hostedBy,            \* [Groups -> Identities]: the coordinator of a room
  identity,            \* the key of this tab
  keySaved,            \* whether the key storage holds it
  persistenceEnabled,  \* the flag of the store
  registry,            \* [Identities -> SUBSET Groups]: deleted-groups:<key>
  snapshot,            \* [Stores -> the rooms in its snapshot, deleted ones aside]
  session,             \* the instance: its phase, and the store its storage writes to
  memory,              \* what that storage holds
  removing,            \* deletions that await a storage of their own
  clearing,            \* what awaits clearPersistedCoordinatorState
  acked,               \* history: [Stores -> the records acknowledged, to be kept]
  written              \* history: deletions the instance, or one with none about, wrote

keyVars == <<hostedBy, identity, keySaved, persistenceEnabled>>
diskVars == <<registry, snapshot>>
historyVars == <<acked, written>>
storageVars == <<keyVars, diskVars, session, memory, removing, clearing, historyVars>>

Identities == 1..MaxIdentities
Stores == {"database", "fallback"}
\* VolatileSnapshotPersistence, and no persistence at all.
NoStore == "none"
StoresIf(persistent) == IF persistent THEN Stores ELSE {NoStore}

NoRooms == [g \in Groups |-> 0]
Empty == [deleted |-> {}, rooms |-> NoRooms]
Closed == [phase |-> "closed", store |-> NoStore]

StorageInit ==
  /\ hostedBy \in [Groups -> Identities]
  /\ identity = 1 /\ keySaved = FALSE /\ persistenceEnabled = FALSE
  /\ registry = [i \in Identities |-> {}]
  /\ snapshot = [s \in Stores |-> NoRooms]
  /\ session = Closed
  /\ memory = Empty
  /\ removing = {}
  /\ clearing = "no"
  /\ acked = [s \in Stores |-> NoRooms]
  /\ written = {}

-------------------------------------------------------------------------------
(* The storage. *)

Without(rooms, D) == [g \in Groups |-> IF g \in D THEN 0 ELSE rooms[g]]

\* restoreSnapshot passes over the rooms of the registry.
Restored(rooms, D) == Without(rooms, D)

\* Mutant: the empty snapshot is laid over the stored one, not under it.
LoadEmpty(key, store) == [deleted |-> registry[key], rooms |-> NoRooms]

\* mergeDeletedGroups: the registry of the key decides, not the snapshot.
Load(key, store) ==
  [deleted |-> registry[key],
   rooms |-> Restored(IF store \in Stores THEN snapshot[store] ELSE NoRooms, registry[key])]

\* Mutant: a storage that is not persistent keeps its tombstones in memory.
SaveDeletedGroupsLazily(key, m, store) ==
  registry' = IF store \in Stores THEN [registry EXCEPT ![key] = m.deleted] ELSE registry

SaveDeletedGroups(key, m, store) == registry' = [registry EXCEPT ![key] = m.deleted]

\* save(): a store keeps one snapshot, whoever wrote it; without one nothing is kept.
WriteSnapshot(rooms, store) ==
  snapshot' = IF store \in Stores THEN [snapshot EXCEPT ![store] = rooms] ELSE snapshot

\* persist(): the registry, then the snapshot.
Saved(key, m, store) ==
  /\ SaveDeletedGroups(key, m, store)
  /\ WriteSnapshot(m.rooms, store)

\* The write that throws: the first, with nothing written, or the second.
Unsaved(key, m, store) ==
  /\ \/ SavesFail /\ UNCHANGED registry
     \/ SavesFail /\ store \in Stores /\ SaveDeletedGroups(key, m, store)
  /\ UNCHANGED snapshot

\* A change of the running instance.  When it throws, memory has changed.
Persist(m, ok) ==
  /\ memory' = m
  /\ \/ ok /\ Saved(identity, m, session.store)
     \/ ~ok /\ Unsaved(identity, m, session.store)

-------------------------------------------------------------------------------
(* The instance. *)

\* A startup calls createBrowserCoordinatorStorage, which awaits the database: it will
\* open, or localStorage is taken in its place.
Start ==
  /\ session.phase = "closed"
  /\ \E s \in StoresIf(persistenceEnabled) : session' = [phase |-> "opening", store |-> s]
  /\ UNCHANGED <<keyVars, diskVars, memory, removing, clearing, historyVars>>

\* The storage is loaded; the relays are connected next.
OpenStorage ==
  /\ session.phase = "opening"
  /\ session' = [session EXCEPT !.phase = "connecting"]
  /\ memory' = Load(identity, session.store)
  /\ UNCHANGED <<keyVars, diskVars, removing, clearing, historyVars>>

Started ==
  /\ session.phase = "connecting"
  /\ session' = [session EXCEPT !.phase = "running"]
  /\ UNCHANGED <<keyVars, diskVars, memory, removing, clearing, historyVars>>

CloseSession == session' = Closed /\ memory' = Empty

\* stop(), or a startup that fails.
Close ==
  /\ session.phase # "closed"
  /\ CloseSession
  /\ UNCHANGED <<keyVars, diskVars, removing, clearing, historyVars>>

\* Its storage is loaded.
IsOpen == session.phase \in {"connecting", "running"}
Available(g) == session.phase = "running" /\ g \notin memory.deleted

PostGroupMessage(g) ==
  /\ Available(g)
  /\ memory.rooms[g] < MaxRecords
  /\ LET m == [memory EXCEPT !.rooms[g] = @ + 1] IN
       \/ /\ Persist(m, TRUE)
          /\ acked' = IF session.store \in Stores
                      THEN [acked EXCEPT ![session.store][g] = m.rooms[g]]
                      ELSE acked
       \/ Persist(m, FALSE) /\ UNCHANGED acked
  /\ UNCHANGED <<keyVars, session, removing, clearing, written>>

\* A join request is stored or acknowledged, or a key package, a welcome or the routing of
\* a room changes: the whole of the memory is written, with what an earlier write may have
\* failed to.
StoreOther ==
  /\ session.phase = "running"
  /\ \E ok \in BOOLEAN : Persist(memory, ok)
  /\ UNCHANGED <<keyVars, session, removing, clearing, historyVars>>

-------------------------------------------------------------------------------
(* Deleting a room: the host may, on the coordinator that has it. *)

Hosted(g) == hostedBy[g] = identity

Deleted(m, g) ==
  [deleted |-> m.deleted \union {g}, rooms |-> Without(m.rooms, {g})]

Forget(g) == acked' = [s \in Stores |-> [acked[s] EXCEPT ![g] = 0]]

\* deleteGroup of the running instance saves only what is new to its memory.
DeleteGroup(g) ==
  /\ Hosted(g)
  /\ session.phase = "running"
  /\ Forget(g)
  /\ IF g \in memory.deleted
     THEN UNCHANGED <<diskVars, memory, written>>
     ELSE \/ Persist(Deleted(memory, g), TRUE) /\ written' = written \union {<<identity, g>>}
          \/ Persist(Deleted(memory, g), FALSE) /\ UNCHANGED written
  /\ UNCHANGED <<keyVars, session, removing, clearing>>

\* deleteHostedRoom finds no running instance and opens a storage of its own.  The
\* dialog that asks for it stays open until it returns, with none other beside it.
RemoveRoom(g) ==
  /\ Hosted(g)
  /\ session.phase # "running"
  /\ removing = {}
  /\ \E s \in StoresIf(persistenceEnabled) :
       removing' = removing \union {[group |-> g, key |-> identity, store |-> s]}
  /\ UNCHANGED <<keyVars, diskVars, session, memory, clearing, historyVars>>

\* That storage is open: it deletes the room and is closed again.
RoomRemoved(d) ==
  /\ d \in removing
  /\ removing' = removing \ {d}
  /\ Forget(d.group)
  /\ LET loaded == Load(d.key, d.store)
         m == Deleted(loaded, d.group)
     IN \/ /\ IF d.group \in loaded.deleted THEN UNCHANGED diskVars
              ELSE Saved(d.key, m, d.store)
           /\ written' = IF session.phase \in {"closed", "opening"}
                         THEN written \union {<<d.key, d.group>>} ELSE written
        \/ /\ d.group \notin loaded.deleted
           /\ Unsaved(d.key, m, d.store)
           /\ UNCHANGED written
  /\ UNCHANGED <<keyVars, session, memory, clearing>>

-------------------------------------------------------------------------------
(* The key and the persistence of the tab. *)

EnablePersistence ==
  /\ ~persistenceEnabled
  /\ keySaved' = TRUE
  /\ persistenceEnabled' = TRUE
  /\ UNCHANGED <<hostedBy, identity, diskVars, session, memory, removing, clearing,
                 historyVars>>

\* What is in the stores of D goes, with what was promised of it.
ClearStores(D) ==
  /\ snapshot' = [s \in Stores |-> IF s \in D THEN NoRooms ELSE snapshot[s]]
  /\ acked' = [s \in Stores |-> IF s \in D THEN NoRooms ELSE acked[s]]

\* disablePersistence up to its await, before which clearPersistedCoordinatorState removes
\* the fallback; the instance may go on running.
DisablePersistence ==
  /\ persistenceEnabled
  /\ clearing = "no"
  /\ keySaved' = FALSE
  /\ clearing' = "disable"
  /\ ClearStores({"fallback"})
  /\ UNCHANGED <<hostedBy, identity, persistenceEnabled, registry, session, memory, removing,
                 written>>

FreshKey ==
  /\ identity < MaxIdentities
  /\ identity' = identity + 1
  /\ keySaved' = FALSE
  /\ persistenceEnabled' = FALSE

\* destroy(): stop, make another key, and clear what is stored, the fallback first.
Destroy ==
  /\ clearing = "no"
  /\ removing = {}
  /\ FreshKey
  /\ CloseSession
  /\ clearing' = "destroy"
  /\ ClearStores({"fallback"})
  /\ UNCHANGED <<hostedBy, registry, removing, written>>

\* The store that could be opened is cleared, and then all there is of the database and of
\* the registries.  What a running instance has put into the fallback meanwhile stays when
\* the database did open.  The instance goes on with its memory.
ClearState ==
  /\ clearing # "no"
  /\ clearing' = "no"
  /\ registry' = [i \in Identities |-> {}]
  /\ \E s \in Stores : ClearStores({"database", s})
  /\ persistenceEnabled' = (persistenceEnabled /\ clearing = "destroy")
  /\ written' = {}
  /\ UNCHANGED <<hostedBy, identity, keySaved, session, memory, removing>>

\* The page is reloaded or dies.  A saved key is unlocked or given up for another;
\* without one, the next page makes its own.  The snapshots stay.
Reload ==
  /\ \/ keySaved /\ persistenceEnabled' = TRUE /\ UNCHANGED <<identity, keySaved>>
     \/ FreshKey
  /\ CloseSession
  /\ removing' = {}
  /\ clearing' = "no"
  /\ UNCHANGED <<hostedBy, diskVars, historyVars>>

StorageNext ==
  \/ Start
  \/ OpenStorage
  \/ Started
  \/ Close
  \/ \E g \in Groups :
       \/ PostGroupMessage(g)
       \/ DeleteGroup(g)
       \/ RemoveRoom(g)
  \/ \E d \in removing : RoomRemoved(d)
  \/ StoreOther
  \/ EnablePersistence
  \/ DisablePersistence
  \/ Destroy
  \/ ClearState
  \/ Reload

StorageSpec == StorageInit /\ [][StorageNext]_storageVars

-------------------------------------------------------------------------------
Rooms == [Groups -> 0..MaxRecords]

\* Every variable has the shape the code gives it; and the tab takes itself for
\* persistent only with its key saved, or while it gives persistence up.
StorageTypeOK ==
  /\ hostedBy \in [Groups -> Identities]
  /\ identity \in Identities
  /\ {keySaved, persistenceEnabled} \subseteq BOOLEAN
  /\ persistenceEnabled => keySaved \/ clearing = "disable"
  /\ registry \in [Identities -> SUBSET Groups]
  /\ snapshot \in [Stores -> Rooms]
  /\ session \in [phase : {"closed", "opening", "connecting", "running"},
                  store : Stores \union {NoStore}]
  /\ memory \in [deleted : SUBSET Groups, rooms : Rooms]
  /\ removing \subseteq [group : Groups, key : Identities, store : Stores \union {NoStore}]
  /\ clearing \in {"no", "disable", "destroy"}
  /\ acked \in [Stores -> Rooms]
  /\ written \subseteq Identities \X Groups

\* A deletion the running instance wrote, or one made while no instance had its
\* storage open, stays in the registry of its key, with persistence or without,
\* through restarts, failed writes and other deletions.
DeletionSurvives == \A d \in written : d[2] \in registry[d[1]]

\* A record acknowledged by an instance that writes to a store is in the snapshot of that
\* store until its room is being deleted or the store is cleared; and an instance that
\* opens that store has it too, and hands out later cursors than its own.  One that opens
\* the other store, or none, knows nothing of it.
AcknowledgedIsKept ==
  /\ \A s \in Stores, g \in Groups : acked[s][g] <= snapshot[s][g]
  /\ IsOpen /\ session.store \in Stores =>
       \A g \in Groups : acked[session.store][g] <= memory.rooms[g]
===============================================================================
