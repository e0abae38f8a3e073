------------------------------- MODULE Workspace -------------------------------
(***************************************************************************)
(* The room sessions of a browser: which of them poll, which one the       *)
(* operator sees, and how they follow the rooms that are stored and the    *)
(* coordinator that hosts them (HostWorkspace.svelte, ChatRoute.svelte).   *)
(*                                                                         *)
(* A session is an object: it outlives the variables that point to it for  *)
(* as long as one of its operations is under way, and that operation ends  *)
(* by saving the room unless the session was discarded.  The coordinator   *)
(* recovers the rooms it hosts one after the other before it runs; the     *)
(* workspace keeps a session for each (hostedRoomSessions) and shows one.  *)
(* The rooms of others are shown by a route of their own.                  *)
(***************************************************************************)
EXTENDS RoomCache

CONSTANTS
  MaxSessions,  \* bound: session objects that are in use at the same time
  MaxStarts,    \* bound: starts of the coordinator, the page or a chat route
  MaxChanges    \* bound: rooms that are made, joined or removed

ASSUME WorkspaceAssumption ==
  MaxSessions \in Nat \ {0} /\ MaxStarts \in Nat /\ MaxChanges \in Nat

VARIABLES
  mounted,    \* the page is up
  hosting,    \* of the coordinator, with its recovery of the rooms
  listed,     \* recoveryTargets
  recovered,  \* recoveryCompleted
  failing,    \* exhaustedRoomRecoveryTarget
  preferred,  \* preferredRecoveryRoomIdentityKey
  preferredOpened,
  sessions,   \* [SessionIds -> the session's room, state, whether it is busy, and whether
              \* openHostChat awaits its start]
  mapped,     \* hostedRoomSessions: [Hosted -> the session or None]
  shown,      \* room: the hosted room the operator sees
  session,    \* session: the one whose changes are shown
  candidate,  \* pendingRecoverySession
  fallback,   \* the room to open once recovery goes on after a removal
  route,      \* the room of the chat route, and how far it is: closed, attaching, attached
  routeSession,
  removed,    \* rooms that were removed and not made or joined again
  starts, changes  \* counted for the bounds

recoveryVars == <<hosting, listed, recovered, failing, preferred, preferredOpened>>
shownVars == <<mapped, shown, session, candidate, fallback>>
routeVars == <<route, routeSession>>
counted == <<removed, starts, changes>>
workspaceVars == <<cacheVars, mounted, recoveryVars, sessions, shownVars, routeVars, counted>>

SessionIds == 1..MaxSessions
None == 0
Unused == [room |-> NoRoom, state |-> "unused", busy |-> FALSE, opening |-> FALSE]
Closed == [room |-> NoRoom, state |-> "closed"]

WorkspaceTypeOK ==
  /\ current \in [Rooms -> {"absent", "active", "retired"}]
  /\ hosting \in {"idle", "starting", "recovering", "exhausted", "running"}
  /\ listed \subseteq Hosted /\ recovered \subseteq Hosted /\ removed \subseteq Rooms
  /\ sessions \in [SessionIds -> [room : Rooms \union {NoRoom}, busy : BOOLEAN,
                                  opening : BOOLEAN,
                                  state : {"unused", "new", "live", "recovering",
                                           "stopped", "discarded"}]]
  /\ mapped \in [Hosted -> SessionIds \union {None}]
  /\ session \in SessionIds \union {None} /\ candidate \in SessionIds \union {None}
  /\ shown \in Hosted \union {NoRoom}
  /\ order \in Seq(Rooms)

-----------------------------------------------------------------------------
(* Sessions.                                                               *)

\* A session nobody can reach is garbage.
Collected(ss, reachable) ==
  [s \in SessionIds |-> IF s \notin reachable /\ ~ss[s].busy /\ ss[s].state # "live" THEN Unused
                 ELSE ss[s]]

\* The pointers that the step leaves.
Reachable == {mapped'[r] : r \in Hosted} \union {session', candidate', routeSession'}

SetSessions(ss) == sessions' = Collected(ss, Reachable)

\* A new ChatRoomSession; among unused objects the first one will do.
Fresh(s) ==
  /\ sessions[s].state = "unused"
  /\ \A q \in 1..(s - 1) : sessions[q].state # "unused"

Made(room, state, busy, opening) ==
  [room |-> room, state |-> state, busy |-> busy, opening |-> opening]

\* Mutant: the sessions of a coordinator that stops are only forgotten.
NotStopped(ss, S) == ss

\* stop() of a set of sessions; a discarded one stays so.
Stopped(ss, S) ==
  [s \in SessionIds |-> IF s \in S /\ ss[s].state \notin {"unused", "discarded"}
                 THEN [ss[s] EXCEPT !.state = "stopped"] ELSE ss[s]]

\* discard()
Discarded(ss, S) ==
  [s \in SessionIds |-> IF s \in S /\ ss[s].state # "unused"
                 THEN [ss[s] EXCEPT !.state = "discarded"] ELSE ss[s]]

-----------------------------------------------------------------------------
(* The page.                                                               *)

WorkspaceInit ==
  /\ CacheInit
  /\ mounted = FALSE
  /\ hosting = "idle" /\ listed = {} /\ recovered = {} /\ failing = NoRoom
  /\ preferred = NoRoom /\ preferredOpened = FALSE
  /\ sessions = [s \in SessionIds |-> Unused]
  /\ mapped = [r \in Hosted |-> None]
  /\ shown = NoRoom /\ session = None /\ candidate = None /\ fallback = NoRoom
  /\ route = Closed /\ routeSession = None
  /\ removed = {} /\ starts = 0 /\ changes = 0

\* onMount: the rooms are read, and those under an old key moved.
Mount ==
  /\ ~mounted /\ mounted' = TRUE
  /\ Migrate(current)
  /\ Reconcile(history)
  /\ UNCHANGED <<lastOpen, recoveryVars, sessions, shownVars, routeVars, counted>>

\* The page is closed or loaded again: nothing but storage is left of it.
Reload ==
  /\ mounted /\ mounted' = FALSE
  /\ hosting' = "idle" /\ listed' = {} /\ recovered' = {} /\ failing' = NoRoom
  /\ preferred' = NoRoom /\ preferredOpened' = FALSE
  /\ sessions' = [s \in SessionIds |-> Unused]
  /\ mapped' = [r \in Hosted |-> None]
  /\ shown' = NoRoom /\ session' = None /\ candidate' = None /\ fallback' = NoRoom
  /\ route' = Closed /\ routeSession' = None
  /\ UNCHANGED <<cacheVars, removed, changes>>
  /\ starts < MaxStarts /\ starts' = starts + 1

-----------------------------------------------------------------------------
(* The coordinator and the recovery of its rooms.                          *)

Start ==
  /\ mounted /\ hosting = "idle" /\ home
  /\ hosting' = "starting" /\ listed' = {} /\ recovered' = {} /\ failing' = NoRoom
  /\ UNCHANGED <<cacheVars, mounted, preferred, preferredOpened, sessions, shownVars,
                 routeVars, removed, changes>>
  /\ starts < MaxStarts /\ starts' = starts + 1

\* All the hosted rooms that are stored, retired ones too.
Targets == {r \in Hosted : current[r] # "absent"}

\* listTargets
ListTargets ==
  /\ \/ hosting = "starting"
     \/ hosting = "recovering" /\ listed = {}
  /\ listed' = Targets /\ recovered' = {}
  /\ hosting' = IF listed' = {} THEN "running" ELSE "recovering"
  /\ preferred' = Remembered /\ preferredOpened' = FALSE
  /\ lastOpen' = Remembered
  /\ UNCHANGED <<current, alias, order, history, home, mounted, failing, sessions,
                 shownVars, routeVars, counted>>

\* recover() of a session that was just made: it does not poll, and an abort stops it.
Recovering(ss, s, r) == [ss EXCEPT ![s] = Made(r, "recovering", TRUE, FALSE)]

\* The end of its recoverOnce(), with the steady state that is activated after it.
RecoveredOnce(ss, s) == [ss EXCEPT ![s] = Made(@.room, "live", FALSE, FALSE)]

\* recover of the workspace, up to the session's own; activeSignerForRoom refuses a room that
\* was retired.
RecoverBegin(r, s) ==
  /\ hosting = "recovering" /\ candidate = None
  /\ r \in listed \ recovered /\ current[r] = "active" /\ Fresh(s)
  /\ candidate' = s
  /\ UNCHANGED <<cacheVars, mounted, recoveryVars, mapped, shown, session, fallback,
                 routeVars, counted>>
  /\ SetSessions(Recovering(sessions, s, r))

\* The candidate takes the place of the room's session, and is shown if it is the
\* first one or the one that was open last.  recoverOnce has saved the room.
RecoverEnd ==
  /\ candidate # None
  /\ LET r == sessions[candidate].room
         opens == ~preferredOpened \/ r = preferred
     IN /\ mapped' = [mapped EXCEPT ![r] = candidate]
        /\ shown' = IF opens THEN r ELSE shown
        /\ session' = IF opens THEN candidate ELSE session
        /\ IF opens THEN Remember(r) ELSE UNCHANGED lastOpen
        /\ preferredOpened' = (preferredOpened \/ r = preferred)
        /\ recovered' = recovered \union {r}
        /\ SaveRoom(r) /\ Reconcile(history)
        /\ candidate' = None
        /\ UNCHANGED <<mounted, hosting, listed, failing, preferred, fallback, routeVars,
                       counted>>
        /\ SetSessions(RecoveredOnce(Stopped(sessions, {mapped[r]}), candidate))

\* An attempt fails or times out; it may have been the last one for the room.
RecoverFails(r) ==
  /\ hosting = "recovering" /\ r \in listed \ recovered
  /\ candidate # None => sessions[candidate].room = r
  /\ hosting' \in {"recovering", "exhausted"}
  /\ failing' = IF hosting' = "exhausted" THEN r ELSE NoRoom
  /\ candidate' = None
  /\ UNCHANGED <<cacheVars, mounted, listed, recovered, preferred, preferredOpened,
                 mapped, shown, session, fallback, routeVars, counted>>
  /\ SetSessions([s \in SessionIds |-> IF s = candidate THEN [Discarded(sessions, {s})[s] EXCEPT
                                                         !.busy = FALSE]
                                ELSE sessions[s]])

Recovered ==
  /\ hosting = "recovering" /\ listed # {} /\ listed \subseteq recovered
  /\ hosting' = "running"
  /\ UNCHANGED <<cacheVars, mounted, listed, recovered, failing, preferred,
                 preferredOpened, sessions, shownVars, routeVars, counted>>

\* retryRoomRecovery
Retry ==
  /\ hosting = "exhausted"
  /\ hosting' = "recovering" /\ failing' = NoRoom
  /\ UNCHANGED <<cacheVars, mounted, listed, recovered, preferred, preferredOpened,
                 sessions, shownVars, routeVars, counted>>

\* What a coordinator that stops leaves: the sessions of its rooms are stopped and
\* forgotten, but for the one that is shown, and the candidate is discarded.
StopEverything ==
  /\ hosting' = "idle" /\ failing' = NoRoom /\ listed' = {} /\ recovered' = {}
  /\ mapped' = [r \in Hosted |-> None] /\ candidate' = None

Halted == Discarded(Stopped(sessions, {mapped[r] : r \in Hosted}), {candidate})

CoordinatorStop ==
  /\ mounted /\ hosting # "idle"
  /\ StopEverything
  /\ UNCHANGED <<shown, session, routeSession>>
  /\ UNCHANGED <<cacheVars, mounted, preferred, preferredOpened, fallback, route, counted>>
  /\ SetSessions([s \in SessionIds |-> IF s = candidate THEN [Halted[s] EXCEPT !.busy = FALSE]
                                ELSE Halted[s]])

\* destroy(): the rooms go, with the ledger, and the browser gets another key.
Destroy ==
  /\ mounted /\ home /\ hosting \in {"idle", "running"}
  /\ StopEverything
  /\ UNCHANGED <<starts, changes, mounted, preferred, preferredOpened, fallback, routeVars>>
  /\ LET gone == {r \in Hosted : current[r] # "absent"} IN
     /\ home' = FALSE
     /\ RemoveStored(gone) /\ Forget(Hosted)
     /\ order' = Ordered(<<>>, Active') /\ history' = History([r \in Rooms |-> "none"])
     /\ shown' = IF shown \in gone THEN NoRoom ELSE shown
     /\ session' = IF shown \in gone THEN None ELSE session
     /\ removed' = {}
     /\ SetSessions([s \in SessionIds |->
          [Discarded(Halted, IF shown \in gone THEN {session} ELSE {})[s] EXCEPT
             !.busy = IF s = candidate THEN FALSE ELSE @]])

-----------------------------------------------------------------------------
(* What the operator does with the rooms it hosts.                         *)

\* The rooms of the home coordinator in the side bar.
Rail == Only(order, Hosted)

\* openHostChat: the room's session, or a new one, which is started if the
\* coordinator runs; the room is remembered when that start has ended.
OpenHostChat(r, s) ==
  /\ shown' = r
  /\ IF mapped[r] # None
     THEN session' = mapped[r] /\ mapped' = mapped /\ SetSessions(sessions) /\ Remember(r)
     ELSE /\ Fresh(s) /\ session' = s /\ mapped' = [mapped EXCEPT ![r] = s]
          /\ IF hosting' = "running"
             THEN SetSessions([sessions EXCEPT ![s] = Made(r, "live", TRUE, TRUE)])
                  /\ UNCHANGED lastOpen
             ELSE SetSessions([sessions EXCEPT ![s] = Made(r, "new", FALSE, FALSE)])
                  /\ Remember(r)

\* selectRoom: any room of the side bar while the coordinator runs; selectCoordinator,
\* at any time, the one that was open last or else the first.
Open(r, s) ==
  /\ mounted /\ r \in ToSet(Rail)
  /\ \/ hosting = "running"
     \/ r = IF Remembered \in ToSet(Rail) THEN Remembered ELSE Head(Rail)
  /\ UNCHANGED <<candidate, route, routeSession, hosting>>
  /\ OpenHostChat(r, s)
  /\ UNCHANGED <<current, alias, order, history, home, mounted, listed, recovered, failing,
                 preferred, preferredOpened, fallback, counted>>

\* createInvite
Create(r, s) ==
  /\ changes < MaxChanges
  /\ hosting = "running" /\ r \in Hosted /\ current[r] = "absent"
  /\ SaveRoom(r) /\ Reconcile(history)
  /\ UNCHANGED <<candidate, route, routeSession, hosting>>
  /\ OpenHostChat(r, s)
  /\ removed' = removed \ {r}
  /\ changes' = changes + 1
  /\ UNCHANGED <<starts, mounted, listed, recovered, failing, preferred, preferredOpened,
                 fallback>>

\* removeCurrentStoredRoom needs the room in the side bar.
Removable(r) == r \in ToSet(Rail)

\* The neighbour that is opened after a removal.
Neighbour(r) ==
  LET i == CHOOSE k \in DOMAIN Rail : Rail[k] = r
  IN IF i > 1 THEN Rail[i - 1] ELSE IF Len(Rail) > 1 THEN Rail[2] ELSE NoRoom

\* The sessions a removal discards.
SessionsOf(r) == {mapped[r]} \union (IF shown = r THEN {session} ELSE {})

\* removeCurrentStoredRoom of a hosted room: from the side bar while the coordinator
\* runs, or of the room that could not be recovered, after which recovery goes on.
RemoveHosted(r) ==
  /\ changes < MaxChanges
  /\ r \in Hosted /\ Removable(r)
  /\ \/ hosting = "running" /\ UNCHANGED <<hosting, listed, failing>>
     \/ /\ hosting = "exhausted" /\ r = failing
        /\ hosting' = "recovering" /\ failing' = NoRoom /\ listed' = listed \ {r}
  /\ mapped' = [mapped EXCEPT ![r] = None]
  /\ shown' = IF shown = r THEN NoRoom ELSE shown
  /\ session' = IF shown = r THEN None ELSE session
  /\ fallback' = IF shown = r THEN Neighbour(r) ELSE fallback
  /\ UNCHANGED <<candidate, routeVars>>
  /\ RemoveStored({r}) /\ Forget({r}) /\ Reconcile(Archived({r}, "deleted"))
  /\ removed' = removed \union {r}
  /\ changes' = changes + 1
  /\ UNCHANGED <<starts, mounted, recovered, preferred, preferredOpened>>
  /\ SetSessions(Discarded(sessions, SessionsOf(r)))

\* ... and the neighbour is opened, when recovery has ended one way or the other.
OpenFallback(s) ==
  /\ fallback # NoRoom /\ hosting # "recovering"
  /\ fallback' = NoRoom
  /\ UNCHANGED <<candidate, route, routeSession, hosting>>
  /\ IF fallback \in ToSet(Rail) THEN OpenHostChat(fallback, s)
     ELSE UNCHANGED <<shown, session, mapped, sessions, lastOpen>>
  /\ UNCHANGED <<current, alias, order, history, home, mounted, listed, recovered, failing,
                 preferred, preferredOpened, counted>>

\* The identity that made the hosted rooms is replaced.  (What this means for sessions
\* that are busy is IdentityRotation's.)
RetireRooms ==
  /\ mounted /\ hosting = "idle" /\ \A s \in SessionIds : ~sessions[s].busy
  /\ \E r \in Hosted : current[r] = "active"
  /\ current' = [r \in Rooms |-> IF r \in Hosted /\ current[r] = "active" THEN "retired"
                                 ELSE current[r]]
  /\ session' = None
  /\ UNCHANGED <<alias, lastOpen, mapped, shown, candidate, fallback, routeVars>>
  /\ Reconcile(history)
  /\ UNCHANGED <<mounted, recoveryVars, counted>>
  /\ SetSessions(Discarded(sessions, {session}))

-----------------------------------------------------------------------------
(* What sessions do by themselves.                                         *)

\* A poll, a signal of a join request, or a message that is sent.
SyncBegin(s) ==
  /\ sessions[s].state = "live" /\ ~sessions[s].busy
  /\ sessions' = [sessions EXCEPT ![s].busy = TRUE]
  /\ UNCHANGED <<cacheVars, mounted, recoveryVars, shownVars, routeVars, counted>>

\* syncOnce ends by saving the room, whoever still uses the session; openHostChat goes
\* on if it waited for this.
SyncEnd(s) ==
  /\ sessions[s].busy /\ sessions[s].state # "recovering"
  /\ LET r == sessions[s].room IN
     /\ IF sessions[s].state # "discarded" THEN SaveRoom(r) /\ Reconcile(history)
        ELSE UNCHANGED <<current, alias, order, history, home>>
     /\ IF sessions[s].opening THEN Remember(r) ELSE UNCHANGED lastOpen
  /\ UNCHANGED <<shownVars, routeVars>>
  /\ UNCHANGED <<mounted, recoveryVars, counted>>
  /\ SetSessions([sessions EXCEPT ![s].busy = FALSE, ![s].opening = FALSE])

-----------------------------------------------------------------------------
(* The route of a room of others.                                          *)

\* initializeRoute for a room that is stored: the signer is asked for its key.
RouteOpen(r) ==
  /\ mounted /\ r \in Joined /\ route = Closed
  /\ current[r] = "active"
  /\ route' = [room |-> r, state |-> "attaching"]
  /\ UNCHANGED <<cacheVars, mounted, recoveryVars, sessions, shownVars, routeSession,
                 removed, changes>>
  /\ starts < MaxStarts /\ starts' = starts + 1

\* One of the four ways to join: a signer is waited for first, be it an extension, a
\* bunker or a remote one that scans a code.
RouteAsk(r) ==
  /\ changes < MaxChanges /\ mounted /\ r \in Joined /\ route = Closed /\ current[r] = "absent"
  /\ route' = [room |-> r, state |-> "signing"]
  /\ UNCHANGED <<cacheVars, mounted, recoveryVars, sessions, shownVars, routeSession,
                 removed, changes>>
  /\ starts < MaxStarts /\ starts' = starts + 1

\* createJoiningRoom: the request goes to the coordinator before the room is saved.
RouteJoin ==
  /\ route.state = "signing" /\ route' = [route EXCEPT !.state = "joining"]
  /\ UNCHANGED <<cacheVars, mounted, recoveryVars, sessions, shownVars, routeSession,
                 counted>>

Joins ==
  /\ route.state \in {"joining", "abandoned"}
  /\ SaveRoom(route.room) /\ Reconcile(history)
  /\ route' = IF route.state = "joining" THEN [route EXCEPT !.state = "attaching"] ELSE Closed
  /\ removed' = removed \ {route.room}
  /\ changes' = changes + 1
  /\ UNCHANGED <<lastOpen, starts, mounted, recoveryVars, sessions, shownVars, routeSession>>

\* attach, when the signer has answered, unless the route was closed meanwhile.
Attach(s) ==
  /\ route.state = "attaching" /\ Fresh(s)
  /\ route' = [route EXCEPT !.state = "attached"] /\ routeSession' = s
  /\ UNCHANGED shownVars
  /\ UNCHANGED <<cacheVars, mounted, recoveryVars, counted>>
  /\ SetSessions([sessions EXCEPT ![s] = Made(route.room, "live", TRUE, FALSE)])

\* onDestroy.  What was begun goes on: a join still saves its room, but a signer that
\* answers now finds the route disposed.
RouteClose ==
  /\ route.state \in {"signing", "attaching", "attached", "joining"}
  /\ route' = CASE route.state = "attached" -> Closed
                [] route.state = "joining" -> [route EXCEPT !.state = "abandoned"]
                [] OTHER -> [route EXCEPT !.state = "disposed"]
  /\ routeSession' = None
  /\ UNCHANGED shownVars
  /\ UNCHANGED <<cacheVars, mounted, recoveryVars, counted>>
  /\ SetSessions(Stopped(sessions, {routeSession}))

\* The signer answers to a route that is gone.
SignerTooLate ==
  /\ route.state = "disposed"
  /\ route' = Closed
  /\ UNCHANGED <<cacheVars, mounted, recoveryVars, sessions, shownVars, routeSession,
                 counted>>

\* handleRoomsChanged: the route of a room that is removed discards its session and
\* closes.
RouteForgets(r) ==
  LET showsIt == route.room = r /\ route.state \in {"attaching", "attached"} IN
  /\ route' = IF ~showsIt THEN route
              ELSE IF route.state = "attached" THEN Closed
              ELSE [route EXCEPT !.state = "disposed"]
  /\ routeSession' = IF showsIt THEN None ELSE routeSession
  /\ UNCHANGED shownVars
  /\ SetSessions(Discarded(sessions, IF showsIt THEN {routeSession} ELSE {}))

\* Leaving a room of others, from the side bar or its route.
Leave(r) ==
  /\ changes < MaxChanges /\ mounted /\ r \in Joined /\ current[r] # "absent"
  /\ RouteForgets(r)
  /\ RemoveStored({r}) /\ Forget({r}) /\ Reconcile(Archived({r}, "left"))
  /\ removed' = removed \union {r}
  /\ changes' = changes + 1
  /\ UNCHANGED <<starts, mounted, recoveryVars>>
-----------------------------------------------------------------------------

CoordinatorNext ==
  \/ Start \/ ListTargets \/ RecoverEnd \/ Recovered \/ Retry \/ CoordinatorStop \/ Destroy
  \/ \E r \in Hosted : RecoverFails(r) \/ \E s \in SessionIds : RecoverBegin(r, s)

OperatorNext ==
  \/ RetireRooms
  \/ \E s \in SessionIds : OpenFallback(s) \/ \E r \in Hosted : Open(r, s) \/ Create(r, s)
  \/ \E r \in Hosted : RemoveHosted(r)

RouteNext ==
  \/ RouteJoin \/ Joins \/ RouteClose \/ SignerTooLate
  \/ \E s \in SessionIds : Attach(s)
  \/ \E r \in Joined : RouteOpen(r) \/ RouteAsk(r) \/ Leave(r)

WorkspaceNext ==
  \/ Mount \/ Reload \/ CoordinatorNext \/ OperatorNext \/ RouteNext
  \/ \E s \in SessionIds : SyncBegin(s) \/ SyncEnd(s)

WorkspaceSpec == WorkspaceInit /\ [][WorkspaceNext]_workspaceVars

-----------------------------------------------------------------------------
(* Properties.                                                             *)

LiveSessions(r) == {s \in SessionIds : sessions[s].state = "live" /\ sessions[s].room = r}

\* No room is polled by two sessions at once, each with a copy of its own of the room's
\* ratchet state: whatever was opened, recovered, removed or left in whatever order
\* (hostedRoomSessions, recover, attach).
OneLivePerRoom == \A r \in Rooms : Cardinality(LiveSessions(r)) <= 1

\* A room that was removed, and is not stored again, can be found in the history of the
\* side bar, whatever is saved, recovered or read afterwards, until the coordinator's
\* identity is destroyed (persistRemovedSidebarRoom, reconcileSidebarLedger).
RemovedIsRemembered == \A r \in removed : current[r] = "absent" => history[r] # "none"
===============================================================================
