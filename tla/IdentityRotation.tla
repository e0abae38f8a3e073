---------------------------- MODULE IdentityRotation ----------------------------
(***************************************************************************)
(* Who the user of a page is: the local (anonymous) identity, its key in   *)
(* localStorage, an external signer in its place, and the replacement of   *)
(* the local identity, which retires the rooms the old key has joined      *)
(* (UserProfileStore, anonymous-identity, retireAnonymousMemberships); and *)
(* the sessions of HostWorkspace and ChatRoute that keep writing their     *)
(* rooms.                                                                  *)
(*                                                                         *)
(* A key is the number of its making.  Between two awaits the page runs    *)
(* alone, so nothing but its death comes between the writes of a           *)
(* retirement, or between the commit of a key and the end of the rotation. *)
(* A write to localStorage may fail (the quota).                           *)
(***************************************************************************)
EXTENDS Integers, FiniteSets

CONSTANTS HostRooms, GuestRooms,  \* the rooms shown by HostWorkspace and by ChatRoute
          MaxKeys,      \* bound: keys stored, the first one included
          MaxFaults,    \* bound: failing writes to localStorage
          MaxCrashes,   \* bound: deaths of the page
          MaxCalls      \* bound: calls to signers and profile relays under way

ASSUME IdentityAssumption ==
  /\ HostRooms \intersect GuestRooms = {}
  /\ MaxKeys \in Nat \ {0}
  /\ {MaxFaults, MaxCrashes, MaxCalls} \subseteq Nat

VARIABLES
  \* localStorage
  stored,    \* the key of the local identity, None, or Corrupt
  marker,    \* the recovery marker is there
  nip07,     \* the session of a browser extension is to be restored
  rooms,     \* [Rooms -> [key, owner, status]]
  \* the page
  method,    \* of the active identity
  pubkey,    \* its key, External, or None
  signer,    \* anonymousSigner
  profile,   \* whose profile is shown
  required,  \* recoveryRequired
  rotation,  \* [pc, by, new, todo, kept, stopped, wrote]: what is replacing the identity
  calls,     \* calls under way: records [kind, key]
  sessions,  \* [Rooms -> none, live, discarded]: hostedRoomSessions and ChatRoute's
  open,      \* [Views -> the room shown, or NoRoom]
  starting,  \* host rooms whose session is being started by openHostChat
  registered,\* rooms whose lifecycle the profile store knows
  handle,    \* [Views -> the room whose registration the view can take back]
  \* bounds
  made, faults, crashes

storageVars == <<stored, marker, nip07, rooms>>
identityVars == <<method, pubkey, signer, profile, required>>
sessionVars == <<sessions, open, starting, registered, handle>>
boundVars == <<made, faults, crashes>>
vars == <<storageVars, identityVars, rotation, calls, sessionVars, boundVars>>

Rooms == HostRooms \union GuestRooms
Views == {"host", "guest"}
NoRoom == "none"
None == 0
Corrupt == -1
External == MaxKeys + 1

\* loadAnonymousIdentity reads the record back.
Readable == stored # Corrupt

View(r) == IF r \in HostRooms THEN "host" ELSE "guest"

Idle == [pc |-> "idle", by |-> "rotate", new |-> None, todo |-> {}, kept |-> {},
         stopped |-> {}, wrote |-> FALSE]

\* A record without provenance was made with a key of its own.
StoredRooms ==
  {[key |-> 1, owner |-> "anonymous", status |-> "active"],
   [key |-> External, owner |-> "external", status |-> "active"],
   [key |-> None, owner |-> "legacy", status |-> "active"]}

FreshPage ==
  /\ method' = "anonymous"
  /\ pubkey' = None
  /\ signer' = None
  /\ profile' = None
  /\ required' = FALSE
  /\ rotation' = [Idle EXCEPT !.pc = "boot"]
  /\ calls' = {}
  /\ sessions' = [r \in Rooms |-> "none"]
  /\ open' = [v \in Views |-> NoRoom]
  /\ starting' = {}
  /\ registered' = {}
  /\ handle' = [v \in Views |-> NoRoom]

Init ==
  /\ stored \in {None, 1, Corrupt}
  /\ marker = FALSE
  /\ nip07 \in BOOLEAN
  /\ rooms \in [Rooms -> StoredRooms]
  /\ stored = None => \A r \in Rooms : rooms[r].owner # "anonymous"
  /\ method = "anonymous"
  /\ pubkey = None /\ signer = None /\ profile = None
  /\ required = FALSE
  /\ rotation = [Idle EXCEPT !.pc = "boot"]
  /\ calls = {}
  /\ sessions = [r \in Rooms |-> "none"]
  /\ open = [v \in Views |-> NoRoom]
  /\ starting = {} /\ registered = {}
  /\ handle = open
  /\ made = 1 /\ faults = 0 /\ crashes = 0

\* What runs without an await: nobody else moves.
Synchronous == {"boot", "retiring", "restoring", "retired", "committed"}
Interruptible == rotation.pc \notin Synchronous

\* The dialog of a rotation is modal: the user does nothing else.
UserActs == rotation.pc = "idle"
Goto(pc) == rotation' = [rotation EXCEPT !.pc = pc]

\* A write fails, as long as the bound allows.
Fail == faults < MaxFaults /\ faults' = faults + 1

-------------------------------------------------------------------------------
(* bootstrap *)

EnterRecovery ==
  /\ signer' = None
  /\ pubkey' = None
  /\ profile' = None
  /\ required' = TRUE
  /\ rotation' = Idle

CanCall == Cardinality(calls) < MaxCalls
Call(kind, key) == calls' = calls \union {[kind |-> kind, key |-> key]}

\* With the marker there, or a key that cannot be read or stored, the page waits
\* for the user to consent to a new identity.
Bootstrap ==
  /\ rotation.pc = "boot"
  /\ IF marker \/ ~Readable
     THEN EnterRecovery /\ UNCHANGED <<stored, calls, faults>>
     ELSE \/ /\ IF stored = None THEN stored' = 1 ELSE UNCHANGED stored
             /\ signer' = stored' /\ pubkey' = stored'
             /\ rotation' = Idle
             /\ IF nip07 /\ CanCall THEN Call("nip07", External) ELSE UNCHANGED calls
             /\ UNCHANGED <<profile, required, faults>>
          \/ /\ stored = None /\ Fail
             /\ EnterRecovery
             /\ UNCHANGED <<stored, calls>>
  /\ UNCHANGED <<marker, nip07, rooms, method, sessionVars, made, crashes>>

-------------------------------------------------------------------------------
(* rotateAnonymousIdentity and recoverAnonymousIdentity *)

Prepare(by) ==
  /\ rotation.pc = "idle"
  /\ made < MaxKeys
  /\ rotation' = [Idle EXCEPT !.pc = "prepared", !.by = by, !.new = made + 1]

Rotate ==
  /\ method = "anonymous" /\ ~required /\ signer # None
  /\ Prepare("rotate")
  /\ UNCHANGED <<storageVars, identityVars, calls, sessionVars, boundVars>>

Recover ==
  /\ required
  /\ Prepare("recover")
  /\ UNCHANGED <<storageVars, identityVars, calls, sessionVars, boundVars>>

\* The catch of rotate before the boundary: the old identity stays; but if the
\* marker cannot be cleared, the page waits for recovery.  That of recover waits
\* for it in any case.
GiveUp ==
  /\ marker' \in {marker /\ ~rotation.wrote, marker}
  /\ IF marker' = (marker /\ ~rotation.wrote) THEN UNCHANGED faults ELSE Fail
  /\ IF rotation.by = "rotate" /\ ~marker'
     THEN rotation' = Idle /\ UNCHANGED identityVars
     ELSE EnterRecovery /\ UNCHANGED method

\* The lifecycles of the old key: the session shown is discarded, the others stay.
RetiredSessions ==
  {r \in registered : rooms[r].key = signer /\ open[View(r)] = r}

\* Mutant: the boundary is not marked.
NoMarker ==
  /\ rotation.pc = "prepared"
  /\ Goto("marked")
  /\ UNCHANGED <<storageVars, identityVars, calls, sessionVars, boundVars>>

\* The recovery marker, unless recovery finds it there already.
WriteMarker ==
  /\ rotation.pc = "prepared"
  /\ \/ /\ marker' = TRUE
        /\ rotation' = [rotation EXCEPT !.pc = "marked",
                                        !.wrote = rotation.by = "rotate" \/ ~marker]
        /\ UNCHANGED <<identityVars, faults>>
     \/ /\ ~marker
        /\ Fail
        /\ UNCHANGED marker
        /\ IF rotation.by = "rotate" THEN rotation' = Idle /\ UNCHANGED identityVars
           ELSE EnterRecovery /\ UNCHANGED method
  /\ UNCHANGED <<stored, nip07, rooms, calls, sessionVars, made, crashes>>

RetireSessions ==
  /\ rotation.pc = "marked"
  /\ LET R == IF rotation.by = "rotate" THEN RetiredSessions ELSE {} IN
       /\ rotation' = [rotation EXCEPT !.pc = "reading", !.stopped = R]
       /\ sessions' = [r \in Rooms |-> IF r \in R THEN "discarded" ELSE sessions[r]]
       /\ open' = [v \in Views |-> IF open[v] \in R THEN NoRoom ELSE open[v]]
  /\ UNCHANGED <<storageVars, identityVars, calls, starting, registered, handle, boundVars>>

\* belongsToAnonymousMembership: with provenance that of the key; without, when a
\* recovery asks for no key in particular, any.
Belongs(r) ==
  \/ rooms[r].owner = "anonymous" /\ (rotation.by = "recover" \/ rooms[r].key = signer)
  \/ rooms[r].owner = "legacy" /\ rotation.by = "recover"

ReadRooms ==
  /\ rotation.pc = "reading"
  /\ rotation' = [rotation EXCEPT !.pc = "retiring", !.todo = {r \in Rooms : Belongs(r)}]
  /\ UNCHANGED <<storageVars, identityVars, calls, sessionVars, boundVars>>

\* One room of retireAnonymousMemberships, its old value kept for restoreOriginals.
RetireRoom(r) ==
  /\ rotation.pc = "retiring"
  /\ r \in rotation.todo
  /\ \/ /\ rooms' = [rooms EXCEPT ![r].status = "retired"]
        /\ rotation' = [rotation EXCEPT !.todo = @ \ {r}, !.kept = @ \union {r}]
        /\ UNCHANGED faults
     \/ /\ Fail
        /\ Goto("restoring")
        /\ UNCHANGED rooms
  /\ UNCHANGED <<stored, marker, nip07, identityVars, calls, sessionVars, made, crashes>>

Retired ==
  /\ rotation.pc = "retiring" /\ rotation.todo = {}
  /\ rotation' = [rotation EXCEPT !.pc = "retired"]
  /\ UNCHANGED <<storageVars, identityVars, calls, sessionVars, boundVars>>

\* restoreOriginals; when it throws as well, rooms not reached stay retired.
RestoreOriginals ==
  /\ rotation.pc = "restoring"
  /\ \E back \in SUBSET rotation.kept :
       /\ IF back = rotation.kept THEN UNCHANGED faults ELSE Fail
       /\ rooms' = [r \in Rooms |->
            IF r \in back THEN [rooms[r] EXCEPT !.status = "active"] ELSE rooms[r]]
  /\ Goto("restore")
  /\ UNCHANGED <<stored, marker, nip07, identityVars, calls, sessionVars, made, crashes>>

-------------------------------------------------------------------------------
(* HostWorkspace and ChatRoute *)

\* activeSignerForRoom and requireRoomSigner.
Mine(r) ==
  /\ rooms[r].status = "active"
  /\ rooms[r].key = pubkey
  /\ method # "anonymous" \/ signer # None

Forget(R) == registered \ R

\* Only a local identity has its sessions known to the profile store.
Register(r, known) ==
  IF method = "anonymous" /\ signer = rooms[r].key
  THEN /\ registered' = known \union {r}
       /\ handle' = [handle EXCEPT ![View(r)] = r]
  ELSE /\ registered' = known
       /\ handle' = [handle EXCEPT ![View(r)] = NoRoom]

\* openHostChat: a session of the room that is there, in whatever state, is used; a
\* new one is registered when it has started.
OpenHostChat(r) ==
  /\ open' = [open EXCEPT !["host"] = r]
  /\ sessions' = [sessions EXCEPT ![r] = IF @ = "none" THEN "live" ELSE @]
  /\ IF sessions[r] = "none"
     THEN /\ starting' = starting \union {r}
          /\ registered' = Forget({handle["host"]})
          /\ handle' = [handle EXCEPT !["host"] = NoRoom]
     ELSE Register(r, Forget({handle["host"]})) /\ UNCHANGED starting

\* ChatRoute's attach: always a new session, and the one before is stopped.
AttachRoute(r) ==
  /\ open' = [open EXCEPT !["guest"] = r]
  /\ sessions' = [q \in Rooms |-> IF q = r THEN "live"
                                  ELSE IF q = open["guest"] THEN "none" ELSE sessions[q]]
  /\ Register(r, Forget({handle["guest"]}))
  /\ UNCHANGED starting

Attach(r) == IF r \in HostRooms THEN OpenHostChat(r) ELSE AttachRoute(r)

\* A room of the list is opened, or resumed by its route.
Open(r) ==
  /\ UserActs
  /\ open[View(r)] # r
  /\ Mine(r)
  /\ Attach(r)
  /\ UNCHANGED <<storageVars, identityVars, rotation, calls, boundVars>>

\* The await of start is over; the room need not be shown any more.
Started(r) ==
  /\ Interruptible
  /\ r \in starting
  /\ starting' = starting \ {r}
  /\ Register(r, registered)
  /\ UNCHANGED <<storageVars, identityVars, rotation, calls, sessions, open, boundVars>>

\* ChatRoute goes away.
CloseRoute ==
  /\ UserActs
  /\ open["guest"] # NoRoom
  /\ sessions' = [sessions EXCEPT ![open["guest"]] = "none"]
  /\ open' = [open EXCEPT !["guest"] = NoRoom]
  /\ registered' = Forget({handle["guest"]})
  /\ handle' = [handle EXCEPT !["guest"] = NoRoom]
  /\ UNCHANGED <<storageVars, identityVars, rotation, calls, starting, boundVars>>

\* A session writes the room it has in memory.
Persist(r) ==
  /\ Interruptible
  /\ sessions[r] = "live"
  /\ rooms' = [rooms EXCEPT ![r].status = "active"]
  /\ UNCHANGED <<stored, marker, nip07, identityVars, rotation, calls, sessionVars, boundVars>>

\* The lifecycle's restore, one by one; if one throws, the rollback has failed.
RestoreSession(r) ==
  /\ rotation.pc = "restore"
  /\ r \in rotation.stopped
  /\ IF method # "anonymous" \/ signer = None
     THEN /\ rotation' = [rotation EXCEPT !.stopped = @ \ {r}]
          /\ UNCHANGED <<identityVars, sessionVars>>
     ELSE IF Mine(r)
     THEN /\ rotation' = [rotation EXCEPT !.stopped = @ \ {r}]
          /\ Attach(r)
          /\ UNCHANGED identityVars
     ELSE EnterRecovery /\ UNCHANGED <<method, sessionVars>>
  /\ UNCHANGED <<storageVars, calls, boundVars>>

RollBack ==
  /\ rotation.pc = "restore" /\ rotation.stopped = {}
  /\ GiveUp
  /\ UNCHANGED <<stored, nip07, rooms, calls, sessionVars, made, crashes>>

-------------------------------------------------------------------------------
(* Behind the boundary. *)

\* Mutant: the new identity is used whether it was written or not.
CommitUnchecked ==
  /\ rotation.pc = "retired"
  /\ stored' \in {stored, rotation.new}
  /\ IF stored' = stored THEN Fail ELSE UNCHANGED faults
  /\ made' = rotation.new
  /\ pubkey' = rotation.new /\ signer' = rotation.new
  /\ profile' = None /\ required' = FALSE
  /\ Goto("committed")
  /\ UNCHANGED <<marker, nip07, rooms, method, calls, sessionVars, crashes>>

\* candidate.commit and the new identity in its place.
Commit ==
  /\ rotation.pc = "retired"
  /\ \/ /\ stored' = rotation.new /\ made' = rotation.new
        /\ pubkey' = rotation.new /\ signer' = rotation.new
        /\ profile' = None /\ required' = FALSE
        /\ Goto("committed")
        /\ UNCHANGED faults
     \/ Fail /\ EnterRecovery /\ UNCHANGED <<stored, made>>
  /\ UNCHANGED <<marker, nip07, rooms, method, calls, sessionVars, crashes>>

\* clearRecoveryMarker, and the end of the rotation.
ClearMarker ==
  /\ rotation.pc = "committed"
  /\ \/ marker' = FALSE /\ rotation' = Idle /\ UNCHANGED <<identityVars, faults>>
     \/ Fail /\ EnterRecovery /\ UNCHANGED <<marker, method>>
  /\ UNCHANGED <<stored, nip07, rooms, calls, sessionVars, made, crashes>>

-------------------------------------------------------------------------------
(* External signers, and the profile. *)

\* connectNip07, connectNip46 and an accepted createNip46Request: the menu offers
\* them to the local identity.
Connect(kind) ==
  /\ UserActs
  /\ method = "anonymous" /\ CanCall
  /\ Call(kind, External)
  /\ UNCHANGED <<storageVars, identityVars, rotation, sessionVars, boundVars>>

\* adoptSigner once the signer has told its key: its profile is looked up next.
Adopt(c) ==
  /\ Interruptible
  /\ c \in calls /\ c.kind \in {"nip07", "nip46"}
  /\ method' = c.kind
  /\ pubkey' = External
  /\ profile' = None
  /\ nip07' = (c.kind = "nip07")
  /\ calls' = (calls \ {c}) \union {[kind |-> "profile", key |-> External]}
  /\ UNCHANGED <<stored, marker, rooms, signer, required, rotation, sessionVars, boundVars>>

\* The signer refuses or does not answer in time; or the request is cancelled.
ConnectFails(c) ==
  /\ Interruptible
  /\ c \in calls /\ c.kind \in {"nip07", "nip46"}
  /\ calls' = calls \ {c}
  /\ UNCHANGED <<storageVars, identityVars, rotation, sessionVars, boundVars>>

RefreshProfile ==
  /\ UserActs
  /\ method # "anonymous" /\ pubkey # None /\ CanCall
  /\ Call("profile", pubkey)
  /\ UNCHANGED <<storageVars, identityVars, rotation, sessionVars, boundVars>>

\* What the relays answer is shown, whoever is there by then.
ProfileArrives(c) ==
  /\ Interruptible
  /\ c \in calls /\ c.kind = "profile"
  /\ calls' = calls \ {c}
  /\ profile' \in {c.key, None}
  /\ UNCHANGED <<storageVars, method, pubkey, signer, required, rotation, sessionVars, boundVars>>

Logout ==
  /\ UserActs
  /\ method # "anonymous" /\ CanCall
  /\ Call("logout", External)
  /\ UNCHANGED <<storageVars, identityVars, rotation, sessionVars, boundVars>>

\* The remote signer is gone or silent: the local identity is shown again.
LoggedOut(c) ==
  /\ Interruptible
  /\ c \in calls /\ c.kind = "logout"
  /\ calls' = calls \ {c}
  /\ nip07' = FALSE
  /\ method' = "anonymous"
  /\ profile' = None
  /\ pubkey' = IF signer # None THEN signer ELSE pubkey
  /\ UNCHANGED <<stored, marker, rooms, signer, required, rotation, sessionVars, boundVars>>

-------------------------------------------------------------------------------
\* The page dies at any await or write and is loaded again.
Reload ==
  /\ crashes < MaxCrashes
  /\ crashes' = crashes + 1
  /\ FreshPage
  /\ UNCHANGED <<storageVars, made, faults>>

Rotation ==
  \/ Rotate \/ Recover \/ WriteMarker \/ RetireSessions \/ ReadRooms
  \/ Retired \/ RestoreOriginals \/ RollBack \/ Commit \/ ClearMarker
  \/ \E r \in Rooms : RetireRoom(r) \/ RestoreSession(r)

Sessions ==
  \/ \E r \in Rooms : Open(r) \/ Started(r) \/ Persist(r)
  \/ CloseRoute

Signers ==
  \/ \E kind \in {"nip07", "nip46"} : Connect(kind)
  \/ RefreshProfile \/ Logout
  \/ \E c \in calls : Adopt(c) \/ ConnectFails(c) \/ ProfileArrives(c) \/ LoggedOut(c)

Next == Bootstrap \/ Rotation \/ Sessions \/ Signers \/ Reload

Spec == Init /\ [][Next]_vars

-------------------------------------------------------------------------------
IsOf(r, key) == rooms[r].owner = "anonymous" /\ rooms[r].key = key

\* A rotation that fails or is cut short by the death of the page never leaves an
\* identity in use that has lost some of its rooms: without the marker, the rooms
\* of the key that is stored are all there.  (One failing write: see the README for
\* two.)
NeverHalfRetired ==
  ~marker => \A r \in Rooms : IsOf(r, stored) => rooms[r].status = "active"

\* The local identity that the page shows is the one a reload will load, whatever
\* rotations, recoveries and signers came and went.
ReloadKeepsIdentity ==
  rotation.pc = "idle" /\ method = "anonymous" /\ signer # None
    => signer = stored /\ pubkey = stored
===============================================================================
