------------------------- MODULE CoordinatorLifecycle -------------------------
(***************************************************************************)
(* CoordinatorStore: starting, stopping, restarting, retrying and          *)
(* destroying the coordinator of a browser tab.  A startup acquires the    *)
(* instance lease, opens the transport and restores every hosted room; a   *)
(* stop aborts it, waits for it and releases what it left.  Ownership is a *)
(* generation number: whoever bumped it last owns the store.               *)
(*                                                                         *)
(* An action is what runs between two awaits.  A lease and a transport are *)
(* named by the generation that opened them.  release() drops a lease at   *)
(* once and only its last heartbeat is awaited.  The rooms of a startup    *)
(* are restored in any order; listing and discarding rooms do not throw    *)
(* (the workspace's adapter does both synchronously).                      *)
(***************************************************************************)
EXTENDS Naturals, FiniteSets

CONSTANTS Rooms,           \* hosted rooms a startup may have to restore
          NoRoom,          \* no room is under recovery
          Calls,           \* calls of stop, restart and destroy, each made once
          MaxGenerations,  \* bound: how often requests bump the generation
          MaxAttempts      \* ROOM_RECOVERY_POLICY.maxAttempts

ASSUME LifecycleAssumption ==
  /\ NoRoom \notin Rooms
  /\ IsFiniteSet(Calls)
  /\ MaxGenerations \in Nat
  /\ MaxAttempts \in Nat \ {0}

VARIABLES
  status,         \* CoordinatorStatus
  generation,     \* startupGeneration
  controller,     \* the generation whose AbortController is startupController
  aborted,        \* generations whose signal is aborted
  promise,        \* startupPromise: none, or what became of it
  pc, of, kind,   \* the startup transaction: its await, generation, entry point
  targets,        \* recoveryTargets
  completed,      \* recoveryCompleted
  room, attempt,  \* the room under recovery and the number of the attempt
  exhausted,      \* startupProgress.roomRecovery.state = "exhausted"
  instanceLease,  \* the lease the store holds
  leases,         \* leases acquired and not released
  running,        \* the transport the store holds
  open,           \* transports created and not closed
  call, intent,   \* where each stop, restart or destroy is, and which it is
  overtaken       \* history: a destroy was confirmed while the store was starting

txnVars == <<pc, of, kind, room, attempt>>
ownVars == <<generation, controller, aborted>>
recoveryVars == <<targets, completed, exhausted>>
leaseVars == <<instanceLease, leases>>
transportVars == <<running, open>>
intentVars == <<intent, overtaken>>
callVars == <<call, intentVars>>
vars == <<status, ownVars, promise, txnVars, recoveryVars, leaseVars,
          transportVars, callVars>>

None == 0
Generations == 1..(MaxGenerations + Cardinality(Calls))

Init ==
  /\ status = "idle"
  /\ generation = 0 /\ controller = None /\ aborted = {}
  /\ promise = "none"
  /\ pc = "none" /\ of = None /\ kind = "start" /\ room = NoRoom /\ attempt = 0
  /\ targets = {} /\ completed = {} /\ exhausted = FALSE
  /\ instanceLease = None /\ leases = {}
  /\ running = None /\ open = {}
  /\ call = [p \in Calls |-> "none"]
  /\ intent = [p \in Calls |-> "stop"]
  /\ overtaken = FALSE

-------------------------------------------------------------------------------
(* What the steps share. *)

\* The continuations of a settled await run before the next event.
Quiet == \A p \in Calls : call[p] \notin {"resumed", "restarting"}

OwnsGeneration == generation = of /\ of \notin aborted

Goto(label) == pc' = label /\ UNCHANGED <<of, kind, room, attempt>>

\* The transaction ends.  Its finally clears startupPromise for its own
\* generation only; the stops that await it go on, or fail with it.
Settle(outcome) ==
  /\ Goto("none")
  /\ promise' = IF generation = of THEN "none" ELSE outcome
  /\ call' = [p \in Calls |-> IF call[p] # "awaiting" THEN call[p]
                              ELSE IF outcome = "fulfilled" THEN "resumed" ELSE "failed"]
  /\ UNCHANGED intentVars

Await(label) == Goto(label) /\ UNCHANGED <<promise, callVars>>

ReleaseInstanceLease ==
  /\ leases' = leases \ {instanceLease}
  /\ instanceLease' = None

\* Mutant: the transport is dropped, not closed.
StopSyncLeavesTransport ==
  /\ running' = None
  /\ UNCHANGED open
  /\ ReleaseInstanceLease

StopSync ==
  /\ open' = open \ {running}
  /\ running' = None
  /\ ReleaseInstanceLease

\* The catch of startGeneration: a stale transaction returns, the owner lets go
\* of what it holds before it reports the failure.
Catch ==
  IF OwnsGeneration
  THEN /\ running' = None
       /\ UNCHANGED <<status, open, exhausted>>
       /\ ReleaseInstanceLease
       /\ Await("failing")
  ELSE /\ Settle("fulfilled")
       /\ UNCHANGED <<status, exhausted, leaseVars, transportVars>>

\* retryRoomRecovery has no catch: what its recovery throws rejects the promise.
Throw ==
  IF kind = "start" THEN Catch
  ELSE /\ Settle("rejected")
       /\ UNCHANGED <<status, exhausted, leaseVars, transportVars>>

\* Mutant: the room whose turn it is counts as restored.
AdvanceSkipping(G, done) ==
  /\ exhausted' = FALSE
  /\ attempt' = 1
  /\ IF Cardinality(G \ done) <= 1 /\ done # {}
     THEN pc' = "finishing" /\ room' = NoRoom
     ELSE pc' = "attempting" /\ room' \in G \ done

\* The room loop: the first room not restored yet, or the end of the recovery.
Advance(G, done) ==
  /\ exhausted' = FALSE
  /\ attempt' = 1
  /\ IF G \subseteq done
     THEN pc' = "finishing" /\ room' = NoRoom
     ELSE pc' = "attempting" /\ room' \in G \ done

-------------------------------------------------------------------------------
(* start() and its transaction. *)

Bump == generation' = generation + 1

\* The bound on requests; a restart under way may go one beyond it.
MayRequest == Quiet /\ generation < MaxGenerations

\* start() on a store that is not idle throws in the first transition, after it
\* has taken the generation and cleared the recovery.
Begin ==
  /\ Bump
  /\ controller' = generation + 1
  /\ targets' = {}
  /\ completed' = {}
  /\ IF status = "idle"
     THEN /\ status' = "starting"
          /\ promise' = "pending"
          /\ exhausted' = FALSE
          /\ pc' = "acquiring" /\ of' = generation + 1 /\ kind' = "start"
          /\ UNCHANGED <<room, attempt>>
     ELSE UNCHANGED <<status, promise, exhausted, txnVars>>
  /\ UNCHANGED <<aborted, leaseVars, transportVars>>

Start ==
  /\ MayRequest
  /\ promise = "none"
  /\ Begin
  /\ UNCHANGED callVars

\* The key of a startup is destroyed: only a wipe takes the status away from it.
KeyDestroyed == status # "starting"

\* acquireInstanceLease resolves.  A stale transaction gives the lease back, and
\* so does one that finds its key destroyed, in its catch.
LeaseAcquired ==
  /\ Quiet
  /\ pc = "acquiring"
  /\ IF ~OwnsGeneration THEN UNCHANGED leaseVars /\ Await("dropping")
     ELSE IF KeyDestroyed THEN UNCHANGED leaseVars /\ Await("failing")
     ELSE instanceLease' = of /\ leases' = leases \union {of} /\ Await("connecting")
  /\ UNCHANGED <<status, ownVars, recoveryVars, transportVars>>

LeaseDropped ==
  /\ Quiet
  /\ pc = "dropping"
  /\ Settle("fulfilled")
  /\ UNCHANGED <<status, ownVars, recoveryVars, leaseVars, transportVars>>

\* createTransport resolves.  A stale transaction closes it at once; without a
\* registered workspace there are no rooms to restore.
Connected ==
  /\ Quiet
  /\ pc = "connecting"
  /\ IF OwnsGeneration
     THEN /\ running' = of /\ open' = open \union {of}
          /\ Await("listing") \/ Await("finishing")
     ELSE UNCHANGED transportVars /\ Settle("fulfilled")
  /\ UNCHANGED <<status, ownVars, recoveryVars, leaseVars>>

\* The lease is refused or the transport cannot be created.
StartupFails ==
  /\ Quiet
  /\ pc \in {"acquiring", "connecting"}
  /\ Catch
  /\ UNCHANGED <<ownVars, targets, completed>>

\* listTargets resolves, then the first room, or the pause for zero rooms.
RoomsListed ==
  /\ Quiet
  /\ pc = "listing"
  /\ IF OwnsGeneration
     THEN \E listed \in SUBSET Rooms :
            /\ targets' = listed
            /\ completed' = {}
            /\ IF listed = {}
               THEN exhausted' = FALSE /\ Await("pausing")
               ELSE Advance(listed, {}) /\ UNCHANGED <<of, kind, promise, callVars>>
     ELSE Settle("fulfilled") /\ UNCHANGED recoveryVars
  /\ UNCHANGED <<status, ownVars, leaseVars, transportVars>>

\* Mutant: an aborted wait clears its timer and never settles.
PauseHangs ==
  /\ Quiet
  /\ pc = "pausing"
  /\ of \notin aborted
  /\ IF OwnsGeneration THEN Await("finishing") ELSE Settle("fulfilled")
  /\ UNCHANGED <<status, ownVars, recoveryVars, leaseVars, transportVars>>

\* wait(500) for zero rooms: its signal rejects it.
PauseEnds ==
  /\ Quiet
  /\ pc = "pausing"
  /\ IF of \in aborted
     THEN Throw /\ UNCHANGED <<ownVars, targets, completed>>
     ELSE /\ IF OwnsGeneration THEN Await("finishing") ELSE Settle("fulfilled")
          /\ UNCHANGED <<status, ownVars, recoveryVars, leaseVars, transportVars>>

\* The attempt succeeds; a late success is discarded.
RoomRecovered ==
  /\ Quiet
  /\ pc = "attempting"
  /\ IF OwnsGeneration
     THEN /\ completed' = completed \union {room}
          /\ Advance(targets, completed \union {room})
          /\ UNCHANGED <<of, kind, promise, callVars, targets>>
     ELSE Settle("fulfilled") /\ UNCHANGED recoveryVars
  /\ UNCHANGED <<status, ownVars, leaseVars, transportVars>>

\* The attempt fails, times out or is aborted: try again after a delay, or give
\* up with the transport and the lease kept for a retry.
RoomFailed ==
  /\ Quiet
  /\ pc = "attempting"
  /\ IF ~OwnsGeneration
     THEN Settle("fulfilled") /\ UNCHANGED exhausted
     ELSE IF attempt = MaxAttempts
     THEN Settle("fulfilled") /\ exhausted' = TRUE
     ELSE Await("waiting") /\ UNCHANGED exhausted
  /\ UNCHANGED <<status, ownVars, targets, completed, leaseVars, transportVars>>

\* wait(retryDelay): its signal rejects it.
RetryDelayEnds ==
  /\ Quiet
  /\ pc = "waiting"
  /\ IF of \in aborted
     THEN Throw /\ UNCHANGED <<ownVars, targets, completed>>
     ELSE /\ IF OwnsGeneration
             THEN /\ pc' = "attempting" /\ attempt' = attempt + 1
                  /\ UNCHANGED <<of, kind, room, promise, callVars>>
             ELSE Settle("fulfilled")
          /\ UNCHANGED <<status, ownVars, recoveryVars, leaseVars, transportVars>>

\* Every room is restored.  "started" is refused unless the store is starting.
Started ==
  /\ Quiet
  /\ pc = "finishing"
  /\ IF OwnsGeneration /\ status # "starting"
     THEN Throw
     ELSE /\ status' = IF OwnsGeneration THEN "running" ELSE status
          /\ Settle("fulfilled")
          /\ UNCHANGED <<exhausted, leaseVars, transportVars>>
  /\ UNCHANGED <<ownVars, targets, completed>>

\* The end of the catch: the store goes back to idle, whoever owns it by now.
FailureReported ==
  /\ Quiet
  /\ pc = "failing"
  /\ exhausted' = FALSE
  /\ IF status \in {"starting", "stopping"}
     THEN status' = "idle" /\ Settle("fulfilled")
     ELSE UNCHANGED status /\ Settle("rejected")
  /\ UNCHANGED <<ownVars, targets, completed, leaseVars, transportVars>>

-------------------------------------------------------------------------------
(* retryRoomRecovery() and resumeAfterRemovingFailedRoom(). *)

Retry(G, done) ==
  /\ MayRequest
  /\ promise = "none"
  /\ status = "starting" /\ exhausted /\ running # None
  /\ Bump
  /\ controller' = generation + 1
  /\ targets' = G
  /\ completed' = done
  /\ promise' = "pending"
  /\ of' = generation + 1
  /\ kind' = "retry"
  /\ IF G = {} THEN pc' = "listing" /\ UNCHANGED <<room, attempt, exhausted>>
     ELSE Advance(G, done)
  /\ UNCHANGED <<status, aborted, leaseVars, transportVars, callVars>>

\* Mutant: a retry begins with the first room again.
RetryFromScratch == Retry(targets, {})

RetryRoomRecovery == Retry(targets, completed)

\* The room recovery gave up on is deleted first.
ResumeAfterRemovingFailedRoom ==
  /\ room \in targets \ completed
  /\ Retry(targets \ {room}, completed \ {room})

-------------------------------------------------------------------------------
(* stop(), restart() and destroy(). *)

At(p, label) == call' = [call EXCEPT ![p] = label]

\* stop() behind its await: refused unless there is something to stop.
Proceed(p) ==
  IF status \in {"starting", "running"}
  THEN status' = "stopping" /\ StopSync /\ At(p, "releasing")
  ELSE At(p, "failed") /\ UNCHANGED <<status, leaseVars, transportVars>>

\* stop() up to its first await: take the generation, abort, await the startup.
Stop(p) ==
  /\ Bump
  /\ aborted' = (aborted \union {controller}) \ {None}
  /\ controller' = None
  /\ IF promise = "none" THEN Proceed(p)
     ELSE /\ At(p, CASE promise = "pending" -> "awaiting"
                     [] promise = "fulfilled" -> "resumed"
                     [] promise = "rejected" -> "failed")
          /\ UNCHANGED <<status, leaseVars, transportVars>>
  /\ UNCHANGED <<promise, txnVars, recoveryVars>>

StopCalled(p, i) ==
  /\ MayRequest
  /\ call[p] = "none"
  /\ i = "restart" => status \in {"running", "starting"}
  /\ intent' = [intent EXCEPT ![p] = i]
  /\ UNCHANGED overtaken
  /\ Stop(p)

StopResumes(p) ==
  /\ call[p] = "resumed"
  /\ promise' = IF promise = "pending" THEN promise ELSE "none"
  /\ Proceed(p)
  /\ UNCHANGED <<ownVars, txnVars, recoveryVars, intentVars>>

\* The lease is released: the store is idle, and a destroy wipes it on the spot.
StopReleased(p) ==
  /\ Quiet
  /\ call[p] = "releasing"
  /\ targets' = {} /\ completed' = {}
  /\ IF status = "stopping"
     THEN /\ status' = "idle" /\ exhausted' = FALSE
          /\ At(p, IF intent[p] = "restart" THEN "restarting" ELSE "done")
     ELSE UNCHANGED <<status, exhausted>> /\ At(p, "failed")
  /\ UNCHANGED <<ownVars, promise, txnVars, leaseVars, transportVars, intentVars>>

\* restart() calls start(), which may find a startup to share.
Restarts(p) ==
  /\ call[p] = "restarting"
  /\ At(p, "done")
  /\ UNCHANGED intentVars
  /\ IF promise = "none" THEN Begin
     ELSE UNCHANGED <<status, ownVars, promise, txnVars, recoveryVars, leaseVars,
                      transportVars>>

\* destroyStateSynchronously: the store is idle, whatever it was.
Wipe(p) ==
  /\ status' = "idle"
  /\ exhausted' = FALSE
  /\ At(p, "done")

\* The dialog opens on an idle or running store only; autostart may change that
\* before it is confirmed, and so may a stop from elsewhere.  Only a running store is stopped properly; any other
\* is wiped at once, or behind the release of the lease it holds.
DestroyCalled(p) ==
  /\ MayRequest
  /\ call[p] = "none"
  /\ intent' = [intent EXCEPT ![p] = "destroy"]
  /\ overtaken' = (overtaken \/ status \notin {"idle", "running"})
  /\ IF status = "running" THEN Stop(p)
     ELSE /\ StopSync
          /\ IF instanceLease = None THEN Wipe(p)
             ELSE At(p, "wiping") /\ UNCHANGED <<status, exhausted>>
          /\ UNCHANGED <<ownVars, promise, txnVars, targets, completed>>

Wiped(p) ==
  /\ Quiet
  /\ call[p] = "wiping"
  /\ Wipe(p)
  /\ UNCHANGED <<ownVars, promise, txnVars, targets, completed, leaseVars,
                 transportVars, intentVars>>

-------------------------------------------------------------------------------
Transaction ==
  \/ LeaseAcquired
  \/ LeaseDropped
  \/ Connected
  \/ StartupFails
  \/ RoomsListed
  \/ PauseEnds
  \/ RoomRecovered
  \/ RoomFailed
  \/ RetryDelayEnds
  \/ Started
  \/ FailureReported

Request ==
  \/ Start
  \/ RetryRoomRecovery
  \/ ResumeAfterRemovingFailedRoom
  \/ \E p \in Calls : \/ \E i \in {"stop", "restart"} : StopCalled(p, i)
                      \/ DestroyCalled(p)

Resumption(p) ==
  \/ StopResumes(p)
  \/ Restarts(p)
  \/ StopReleased(p)
  \/ Wiped(p)

Next ==
  \/ Request
  \/ Transaction
  \/ \E p \in Calls : Resumption(p)

Spec == Init /\ [][Next]_vars

\* Every await settles: probes, connections and attempts carry timeouts, and the
\* event loop runs what has settled.  Nobody owes the store a request.
FairSpec ==
  /\ Spec
  /\ WF_vars(Transaction)
  /\ \A p \in Calls : WF_vars(Resumption(p))

-------------------------------------------------------------------------------
\* Every variable has the shape the code gives it.
TypeOK ==
  /\ status \in {"idle", "starting", "running", "stopping"}
  /\ generation \in Generations \union {None}
  /\ controller \in Generations \union {None}
  /\ aborted \subseteq Generations
  /\ promise \in {"none", "pending", "fulfilled", "rejected"}
  /\ pc \in {"none", "acquiring", "dropping", "connecting", "listing", "pausing",
             "attempting", "waiting", "finishing", "failing"}
  /\ of \in Generations \union {None}
  /\ kind \in {"start", "retry"}
  /\ targets \subseteq Rooms
  /\ completed \subseteq Rooms
  /\ room \in Rooms \union {NoRoom}
  /\ attempt \in 0..MaxAttempts
  /\ exhausted \in BOOLEAN
  /\ instanceLease \in Generations \union {None}
  /\ leases \subseteq Generations
  /\ running \in Generations \union {None}
  /\ open \subseteq Generations
  /\ call \in [Calls -> {"none", "awaiting", "resumed", "releasing", "restarting",
                         "wiping", "done", "failed"}]
  /\ intent \in [Calls -> {"stop", "restart", "destroy"}]
  /\ overtaken \in BOOLEAN

\* However starts, stops, restarts and retries interleave, the tab serves at most
\* one transport, only under a lease, and both are the ones the store can let go of.
\* (A destroy that overtakes a startup leaves it running: see the README.)
OneCoordinator ==
  \/ overtaken
  \/ /\ open = {running} \ {None}
     /\ leases = {instanceLease} \ {None}
     /\ open # {} => open = leases

\* A running store serves and every room it listed is restored; an idle store whose
\* calls have settled holds nothing.
StatusTellsTheTruth ==
  \/ overtaken
  \/ /\ status = "running" => running # None /\ targets \subseteq completed
     /\ status = "idle" => running = None /\ instanceLease = None

\* "advances once per room and never backward": progress survives failures and
\* retries, and goes down only with a stop, a new start or a deleted room.
ProgressIsKept ==
  [][(status = "starting" /\ status' = "starting" /\ promise' = "pending") =>
       completed \intersect targets' \subseteq completed']_vars

\* A stop, restart or destroy settles: what it awaits settles, aborted or not.
CallsSettle ==
  \A p \in Calls : call[p] # "none" ~> call[p] \in {"done", "failed"}
===============================================================================
