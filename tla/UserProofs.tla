-------------------------------- MODULE UserProofs --------------------------------
(***************************************************************************)
(* Theorems about the user of a browser: what IdentityRotation promises of *)
(* the local identity (a reload loads the one that is shown, and no        *)
(* identity in use has lost some of its rooms), what NostrSocial shows of  *)
(* contacts and to them, what becomes of those who are invited by a link   *)
(* (RoomInvites) or before a camera (InviteScanner), what the user is      *)
(* notified of (NotificationFeed), and what of a room is unread            *)
(* (RoomReading).                                                          *)
(***************************************************************************)
EXTENDS IdentityRotation, MCNostrSocial, MCNotificationFeed, FiniteSetTheorems, SublistProofs

-------------------------------------------------------------------------------
(* IdentityRotation: the inductive invariant. *)

Places ==
  {"boot", "idle", "prepared", "marked", "reading", "retiring", "restoring", "restore",
   "retired", "committed"}

\* Behind the recovery marker.
Behind == {"marked", "reading", "retiring", "restoring", "restore", "retired", "committed"}

Typed ==
  /\ rooms \in [Rooms -> [key : Int, owner : {"anonymous", "external", "legacy"},
                          status : {"active", "retired"}]]
  /\ marker \in BOOLEAN
  /\ rotation \in [pc : Places, by : {"rotate", "recover"}, new : Int, todo : SUBSET Rooms,
                   kept : SUBSET Rooms, stopped : SUBSET Rooms, wrote : BOOLEAN]
  /\ made \in Nat \ {0} /\ faults \in Nat
  /\ stored \in {None, Corrupt} \union 1..made
  /\ rotation.pc \in {"prepared", "marked", "reading", "retiring", "restoring", "restore",
                      "retired"} => rotation.new > 1

\* Only rooms of the first key say that they are of a local identity, and there are
\* none before there is a key.
FirstKey ==
  \A r \in Rooms : rooms[r].owner = "anonymous" => rooms[r].key = 1 /\ stored # None

\* The identity that signs is the one that is stored, and the one that is shown
\* unless a signer takes its place.
Loaded ==
  signer # None => signer = stored /\ (method = "anonymous" => pubkey = signer)

\* The marker is there behind the boundary, and is not while an identity is in use.
Marked ==
  /\ rotation.pc \in Behind => marker
  /\ rotation.pc = "idle" /\ signer # None => ~marker
  /\ rotation.pc = "prepared" /\ rotation.by = "rotate" => ~marker
  /\ rotation.pc = "committed" => stored > 1

Lost(r) == rooms[r].owner = "anonymous" /\ rooms[r].status # "active"

\* Without the marker no room of the first key is lost; and when this rotation wrote
\* it, those are that it has kept, until they are restored.
Whole ==
  /\ rotation.pc = "restoring" => faults > 0
  /\ ~marker /\ stored = 1 => \A r \in Rooms : ~Lost(r)
  /\ rotation.pc \in Behind \ {"retired", "committed"} /\ rotation.wrote /\ stored = 1
       => \A r \in Rooms : Lost(r) => rotation.pc # "restore" /\ r \in rotation.kept

IInv == Typed /\ FirstKey /\ Loaded /\ Marked /\ (faults <= 1 => Whole)

storedVars == <<stored, marker, rooms, made>>

LEMMA IdleShape ==
  /\ Idle.pc = "idle" /\ Idle.by = "rotate" /\ Idle.new = None /\ Idle.todo = {}
  /\ Idle.kept = {} /\ Idle.stopped = {} /\ Idle.wrote = FALSE
  /\ DOMAIN Idle = {"pc", "by", "new", "todo", "kept", "stopped", "wrote"}
BY DEF Idle

LEMMA IdleFits ==
  Idle \in [pc : Places, by : {"rotate", "recover"}, new : Int, todo : SUBSET Rooms,
            kept : SUBSET Rooms, stopped : SUBSET Rooms, wrote : BOOLEAN]
BY DEF Idle, None, Places

\* What the invariant is about stays, but for the faults and the identity shown.
LEMMA Frame ==
  ASSUME IInv, UNCHANGED <<storedVars, rotation, signer, faults>>, Loaded'
  PROVE  IInv'
<1>1. Typed' /\ FirstKey' /\ Marked'
  BY DEF IInv, storedVars, Typed, FirstKey, Marked
<1>2. (faults <= 1 => Whole)'
  BY DEF IInv, storedVars, Whole, Lost
<1>3. QED
  BY <1>1, <1>2 DEF IInv

\* The page goes to recovery or is loaded anew: nobody signs.
LEMMA Quits ==
  ASSUME IInv, UNCHANGED storedVars, signer' = None, faults' \in Nat, faults <= faults',
         rotation' \in {Idle, [Idle EXCEPT !.pc = "boot"]}
  PROVE  IInv'
<1>1. rotation' \in [pc : {"idle", "boot"}, by : {"rotate", "recover"}, new : Int,
                     todo : SUBSET Rooms, kept : SUBSET Rooms, stopped : SUBSET Rooms,
                     wrote : BOOLEAN]
  <2>1. Idle \in [pc : {"idle", "boot"}, by : {"rotate", "recover"}, new : Int,
                  todo : SUBSET Rooms, kept : SUBSET Rooms, stopped : SUBSET Rooms,
                  wrote : BOOLEAN]
    BY DEF Idle, None
  <2>2. QED
    BY <2>1
<1>2. Typed'
  BY <1>1 DEF IInv, Typed, storedVars, Places
<1>3. FirstKey' /\ Loaded' /\ Marked'
  BY <1>1 DEF IInv, FirstKey, Loaded, Marked, storedVars, Behind
<1>4. ASSUME faults' <= 1
      PROVE  Whole'
  <2>1. Whole
    BY <1>4 DEF IInv, Typed
  <2>2. QED
    BY <1>1, <2>1 DEF Whole, Lost, storedVars, Behind
<1>5. QED
  BY <1>2, <1>3, <1>4 DEF IInv

\* The rotation goes on to a place that the boundary, the faults and the rooms allow.
LEMMA Turns ==
  ASSUME IInv, UNCHANGED <<stored, made, rooms, marker, method, pubkey, signer>>,
         faults' \in Nat, faults <= faults',
         rotation' \in [pc : Places, by : {"rotate", "recover"}, new : Int, todo : SUBSET Rooms,
                        kept : SUBSET Rooms, stopped : SUBSET Rooms, wrote : BOOLEAN],
         rotation'.by = rotation.by, rotation'.new = rotation.new,
         rotation'.wrote = rotation.wrote, rotation'.kept = rotation.kept,
         rotation.pc \in Behind \ {"retired", "committed"},
         rotation'.pc \in Behind \ {"committed"},
         rotation'.pc = "restore" => rotation.pc = "restore",
         rotation'.pc = "restoring" => faults' > 0
  PROVE  IInv'
<1>1. Typed'
  BY DEF IInv, Typed, Behind
<1>2. FirstKey' /\ Loaded' /\ Marked'
  BY DEF IInv, FirstKey, Loaded, Marked, Behind
<1>3. ASSUME faults' <= 1
      PROVE  Whole'
  <2>1. Whole
    BY <1>3 DEF IInv, Typed
  <2>2. QED
    BY <2>1 DEF Whole, Lost
<1>4. QED
  BY <1>1, <1>2, <1>3 DEF IInv

LEMMA FailCounts ==
  ASSUME IInv, UNCHANGED faults \/ Fail
  PROVE  faults' \in Nat /\ faults <= faults'
BY DEF IInv, Typed, Fail

LEMMA BootstrapInv ==
  ASSUME IInv, Bootstrap
  PROVE  IInv'
<1>1. UNCHANGED <<marker, rooms, made, method>> /\ rotation.pc = "boot"
  BY DEF Bootstrap
<1>2. UNCHANGED faults \/ Fail
  BY DEF Bootstrap
<1>3. CASE EnterRecovery /\ UNCHANGED stored
  BY <1>1, <1>2, <1>3, FailCounts, Quits DEF EnterRecovery, storedVars
<1>4. CASE /\ ~marker /\ Readable
           /\ IF stored = None THEN stored' = 1 ELSE UNCHANGED stored
           /\ signer' = stored' /\ pubkey' = stored' /\ rotation' = Idle
           /\ UNCHANGED faults
  <2>1. Typed'
    BY <1>1, <1>4 DEF IInv, Typed, Places, Idle, None
  <2>2. FirstKey' /\ Loaded' /\ Marked'
    BY <1>1, <1>4, IdleShape DEF IInv, FirstKey, Loaded, Marked, Behind, None
  <2>3. ASSUME faults' <= 1
        PROVE  Whole'
    BY <1>1, <1>4, <2>3, IdleShape DEF IInv, Whole, Lost, Behind, FirstKey
  <2>4. QED
    BY <2>1, <2>2, <2>3 DEF IInv
<1>5. QED
  BY <1>3, <1>4 DEF Bootstrap

LEMMA PrepareInv ==
  ASSUME IInv, NEW by \in {"rotate", "recover"}, Prepare(by), by = "rotate" => signer # None,
         UNCHANGED <<storageVars, identityVars, boundVars>>
  PROVE  IInv'
<1>1. rotation.pc = "idle" /\ rotation' = [Idle EXCEPT !.pc = "prepared", !.by = by, !.new = made + 1]
      /\ UNCHANGED <<stored, marker, rooms, method, pubkey, signer, made, faults>>
  BY DEF Prepare, storageVars, identityVars, boundVars
<1>2. rotation'.pc = "prepared" /\ rotation'.by = by /\ rotation'.new = made + 1
  BY <1>1 DEF Idle
<1>3. Typed'
  <2>1. Idle \in [pc : Places, by : {"rotate", "recover"}, new : Int, todo : SUBSET Rooms,
                  kept : SUBSET Rooms, stopped : SUBSET Rooms, wrote : BOOLEAN]
    BY DEF Idle, None, Places
  <2>2. made + 1 \in Int /\ made + 1 > 1
    BY DEF IInv, Typed
  <2>3. rotation' \in [pc : Places, by : {"rotate", "recover"}, new : Int, todo : SUBSET Rooms,
                       kept : SUBSET Rooms, stopped : SUBSET Rooms, wrote : BOOLEAN]
    BY <1>1, <2>1, <2>2 DEF Places
  <2>4. QED
    BY <1>1, <1>2, <2>2, <2>3 DEF IInv, Typed
<1>4. FirstKey' /\ Loaded' /\ Marked'
  BY <1>1, <1>2 DEF IInv, FirstKey, Loaded, Marked, Behind
<1>5. (faults <= 1 => Whole)'
  BY <1>1, <1>2 DEF IInv, Whole, Lost, Behind
<1>6. QED
  BY <1>3, <1>4, <1>5 DEF IInv

LEMMA WriteMarkerInv ==
  ASSUME IInv, WriteMarker
  PROVE  IInv'
<1>1. rotation.pc = "prepared" /\ UNCHANGED <<stored, rooms, made>>
      /\ (UNCHANGED faults \/ Fail)
  BY DEF WriteMarker
<1>2. CASE /\ marker' = TRUE /\ UNCHANGED <<identityVars, faults>>
           /\ rotation' = [rotation EXCEPT !.pc = "marked",
                                           !.wrote = rotation.by = "rotate" \/ ~marker]
  <2>1. rotation'.pc = "marked" /\ rotation'.kept = rotation.kept /\ rotation'.new = rotation.new
        /\ rotation'.by = rotation.by /\ (rotation'.wrote => rotation.by = "rotate" \/ ~marker)
    BY <1>2 DEF IInv, Typed
  <2>2. (rotation.by = "rotate" \/ ~marker) \in BOOLEAN
    OBVIOUS
  <2>3. Typed'
    BY <1>1, <1>2, <2>1, <2>2 DEF IInv, Typed, Places
  <2>4. FirstKey' /\ Loaded' /\ Marked'
    BY <1>1, <1>2, <2>1 DEF IInv, FirstKey, Loaded, Marked, Behind, identityVars
  <2>5. ASSUME faults' <= 1
        PROVE  Whole'
    <3>1. rotation'.wrote => ~marker
      BY <1>1, <2>1 DEF IInv, Marked
    <3>2. QED
      BY <1>1, <1>2, <2>1, <2>5, <3>1 DEF IInv, Whole, Lost
  <2>6. QED
    BY <2>3, <2>4, <2>5 DEF IInv
<1>3. CASE /\ ~marker /\ UNCHANGED marker
           /\ \/ rotation.by = "rotate" /\ rotation' = Idle /\ UNCHANGED identityVars
              \/ EnterRecovery
  <2>1. CASE EnterRecovery
    BY <1>1, <1>3, <2>1, FailCounts, Quits DEF EnterRecovery, storedVars
  <2>2. CASE rotation' = Idle /\ UNCHANGED identityVars
    <3>1. Typed'
      BY <1>1, <1>3, <2>2, FailCounts DEF IInv, Typed, Places, Idle, None
    <3>2. FirstKey' /\ Loaded' /\ Marked'
      BY <1>1, <1>3, <2>2, IdleShape DEF IInv, FirstKey, Loaded, Marked, Behind, identityVars
    <3>3. ASSUME faults' <= 1
          PROVE  Whole'
      <4>1. faults <= 1
        BY <1>1, <3>3, FailCounts DEF IInv, Typed
      <4>2. QED
        BY <1>1, <1>3, <2>2, <4>1, IdleShape DEF IInv, Whole, Lost, Behind
    <3>4. QED
      BY <3>1, <3>2, <3>3 DEF IInv
  <2>3. QED
    BY <1>3, <2>1, <2>2
<1>4. QED
  BY <1>2, <1>3 DEF WriteMarker

LEMMA RetireSessionsInv ==
  ASSUME IInv, registered \subseteq Rooms, RetireSessions
  PROVE  IInv'
<1> DEFINE R == IF rotation.by = "rotate" THEN RetiredSessions ELSE {}
<1>1. R \in SUBSET Rooms
  BY DEF RetiredSessions
<1>2. rotation.pc = "marked" /\ rotation' = [rotation EXCEPT !.pc = "reading", !.stopped = R]
      /\ UNCHANGED <<stored, made, rooms, marker, method, pubkey, signer, faults>>
  BY DEF RetireSessions, storageVars, identityVars, boundVars
<1> HIDE DEF R
<1>3. rotation' \in [pc : Places, by : {"rotate", "recover"}, new : Int, todo : SUBSET Rooms,
                     kept : SUBSET Rooms, stopped : SUBSET Rooms, wrote : BOOLEAN]
      /\ rotation'.pc = "reading" /\ rotation'.by = rotation.by /\ rotation'.new = rotation.new
      /\ rotation'.wrote = rotation.wrote /\ rotation'.kept = rotation.kept
  BY <1>1, <1>2 DEF IInv, Typed, Places
<1>4. faults' \in Nat /\ faults <= faults'
  BY <1>2 DEF IInv, Typed
<1>5. QED
  BY <1>2, <1>3, <1>4, Turns DEF Behind

LEMMA ReadRoomsInv ==
  ASSUME IInv, ReadRooms
  PROVE  IInv'
<1> DEFINE R == {r \in Rooms : Belongs(r)}
<1>1. rotation.pc = "reading" /\ rotation' = [rotation EXCEPT !.pc = "retiring", !.todo = R]
      /\ UNCHANGED <<stored, made, rooms, marker, method, pubkey, signer, faults>>
  BY DEF ReadRooms, storageVars, identityVars, boundVars
<1>2. R \in SUBSET Rooms
  OBVIOUS
<1> HIDE DEF R
<1>3. rotation' \in [pc : Places, by : {"rotate", "recover"}, new : Int, todo : SUBSET Rooms,
                     kept : SUBSET Rooms, stopped : SUBSET Rooms, wrote : BOOLEAN]
      /\ rotation'.pc = "retiring" /\ rotation'.by = rotation.by /\ rotation'.new = rotation.new
      /\ rotation'.wrote = rotation.wrote /\ rotation'.kept = rotation.kept
  BY <1>2, <1>1 DEF IInv, Typed, Places
<1>4. faults' \in Nat /\ faults <= faults'
  BY <1>1 DEF IInv, Typed
<1>5. QED
  BY <1>1, <1>3, <1>4, Turns DEF Behind

LEMMA RetiredInv ==
  ASSUME IInv, Retired
  PROVE  IInv'
<1>1. rotation.pc = "retiring" /\ rotation' = [rotation EXCEPT !.pc = "retired"]
      /\ UNCHANGED <<stored, made, rooms, marker, method, pubkey, signer, faults>>
  BY DEF Retired, storageVars, identityVars, boundVars
<1>2. QED
  BY <1>1, Turns DEF IInv, Typed, Places, Behind

LEMMA RetireRoomInv ==
  ASSUME IInv, NEW r \in Rooms, RetireRoom(r)
  PROVE  IInv'
<1>1. rotation.pc = "retiring" /\ r \in rotation.todo
      /\ UNCHANGED <<stored, made, marker, method, pubkey, signer>>
  BY DEF RetireRoom, identityVars
<1>2. CASE /\ rooms' = [rooms EXCEPT ![r].status = "retired"]
           /\ rotation' = [rotation EXCEPT !.todo = @ \ {r}, !.kept = @ \union {r}]
           /\ UNCHANGED faults
  <2>1. rotation'.pc = "retiring" /\ rotation'.kept = rotation.kept \union {r}
        /\ rotation'.wrote = rotation.wrote /\ rotation'.new = rotation.new
        /\ rotation'.by = rotation.by
    BY <1>1, <1>2 DEF IInv, Typed
  <2>2. \A q \in Rooms : rooms'[q].owner = rooms[q].owner /\ rooms'[q].key = rooms[q].key
                         /\ (q # r => rooms'[q] = rooms[q])
    BY <1>2 DEF IInv, Typed
  <2>3. Typed'
    BY <1>1, <1>2, <2>1 DEF IInv, Typed, Places
  <2>4. FirstKey' /\ Loaded' /\ Marked'
    BY <1>1, <1>2, <2>1, <2>2 DEF IInv, FirstKey, Loaded, Marked, Behind
  <2>5. ASSUME faults' <= 1
        PROVE  Whole'
    <3>1. marker' /\ rotation.pc \in Behind \ {"retired", "committed"}
      BY <1>1 DEF IInv, Marked, Behind
    <3>2. \A q \in Rooms : q # r => Lost(q)' = Lost(q)
      BY <2>2 DEF Lost
    <3>3. Whole
      BY <1>2, <2>5 DEF IInv
    <3>4. rotation.wrote /\ stored = 1 => \A q \in Rooms : Lost(q)' => q \in rotation'.kept
      BY <1>1, <2>1, <3>1, <3>2, <3>3 DEF Whole
    <3>5. QED
      BY <1>1, <2>1, <3>1, <3>4 DEF Whole
  <2>6. QED
    BY <2>3, <2>4, <2>5 DEF IInv
<1>3. CASE Fail /\ Goto("restoring") /\ UNCHANGED rooms
  <2>1. faults' \in Nat /\ faults <= faults' /\ faults' > 0
    BY <1>3 DEF Fail, IInv, Typed
  <2>2. rotation' = [rotation EXCEPT !.pc = "restoring"]
    BY <1>3 DEF Goto
  <2>3. QED
    BY <1>1, <1>3, <2>1, <2>2, Turns DEF IInv, Typed, Places, Behind
<1>4. QED
  BY <1>2, <1>3 DEF RetireRoom

LEMMA RestoreOriginalsInv ==
  ASSUME IInv, RestoreOriginals
  PROVE  IInv'
<1>1. PICK back \in SUBSET rotation.kept :
        /\ IF back = rotation.kept THEN UNCHANGED faults ELSE Fail
        /\ rooms' = [r \in Rooms |->
             IF r \in back THEN [rooms[r] EXCEPT !.status = "active"] ELSE rooms[r]]
  BY DEF RestoreOriginals
<1>2. rotation.pc = "restoring" /\ rotation' = [rotation EXCEPT !.pc = "restore"]
      /\ UNCHANGED <<stored, made, marker, method, pubkey, signer>>
  BY DEF RestoreOriginals, Goto, identityVars
<1>3. faults' \in Nat /\ faults <= faults' /\ (back # rotation.kept => faults' = faults + 1)
  BY <1>1 DEF Fail, IInv, Typed
<1>4. rotation'.pc = "restore" /\ rotation'.wrote = rotation.wrote /\ rotation'.new = rotation.new
      /\ rotation'.by = rotation.by
  BY <1>2 DEF IInv, Typed
<1>5. \A q \in Rooms : /\ rooms'[q].owner = rooms[q].owner /\ rooms'[q].key = rooms[q].key
                       /\ rooms'[q].status = IF q \in back THEN "active" ELSE rooms[q].status
  BY <1>1 DEF IInv, Typed
<1>6. Typed'
  <2>1. rooms' \in [Rooms -> [key : Int, owner : {"anonymous", "external", "legacy"},
                              status : {"active", "retired"}]]
    BY <1>1 DEF IInv, Typed
  <2>2. QED
    BY <1>2, <1>3, <1>4, <2>1 DEF IInv, Typed, Places
<1>7. FirstKey' /\ Loaded' /\ Marked'
  BY <1>2, <1>4, <1>5 DEF IInv, FirstKey, Loaded, Marked, Behind
<1>8. ASSUME faults' <= 1
      PROVE  Whole'
  <2>1. Whole /\ faults > 0 /\ faults \in Nat
    BY <1>2, <1>3, <1>8 DEF IInv, Typed, Whole
  <2>2. back = rotation.kept
    BY <1>3, <1>8, <2>1
  <2>3. marker'
    BY <1>2 DEF IInv, Marked, Behind
  <2>4. rotation.wrote /\ stored = 1 => \A q \in Rooms : ~Lost(q)'
    BY <1>2, <1>5, <2>1, <2>2 DEF Whole, Lost, Behind
  <2>5. QED
    BY <1>2, <1>4, <2>3, <2>4 DEF Whole
<1>9. QED
  BY <1>6, <1>7, <1>8 DEF IInv

LEMMA RestoreSessionInv ==
  ASSUME IInv, NEW r \in Rooms, RestoreSession(r)
  PROVE  IInv'
<1>1. rotation.pc = "restore" /\ UNCHANGED <<stored, made, rooms, marker, faults>>
  BY DEF RestoreSession, storageVars, boundVars
<1>2. CASE rotation' = [rotation EXCEPT !.stopped = @ \ {r}] /\ UNCHANGED identityVars
  <2>1. rotation' \in [pc : Places, by : {"rotate", "recover"}, new : Int, todo : SUBSET Rooms,
                       kept : SUBSET Rooms, stopped : SUBSET Rooms, wrote : BOOLEAN]
        /\ rotation'.pc = "restore" /\ rotation'.by = rotation.by /\ rotation'.new = rotation.new
        /\ rotation'.wrote = rotation.wrote /\ rotation'.kept = rotation.kept
    BY <1>1, <1>2 DEF IInv, Typed, Places
  <2>2. faults' \in Nat /\ faults <= faults' /\ UNCHANGED <<method, pubkey, signer>>
    BY <1>1, <1>2 DEF IInv, Typed, identityVars
  <2>3. QED
    BY <1>1, <2>1, <2>2, Turns DEF Behind
<1>3. CASE EnterRecovery
  <2>1. faults' \in Nat /\ faults <= faults'
    BY <1>1 DEF IInv, Typed
  <2>2. QED
    BY <1>1, <1>3, <2>1, Quits DEF EnterRecovery, storedVars
<1>4. QED
  BY <1>2, <1>3 DEF RestoreSession

LEMMA RollBackInv ==
  ASSUME IInv, RollBack
  PROVE  IInv'
<1>1. rotation.pc = "restore" /\ marker /\ UNCHANGED <<stored, made, rooms>>
      /\ (UNCHANGED faults \/ Fail)
  BY DEF RollBack, GiveUp, IInv, Marked, Behind
<1>2. faults' \in Nat /\ faults <= faults'
  BY <1>1, FailCounts
<1>3. marker' \in {marker /\ ~rotation.wrote, marker} /\ marker \in BOOLEAN
  BY DEF RollBack, GiveUp, IInv, Typed
<1>4. CASE marker'
  <2>1. EnterRecovery
    BY <1>4 DEF RollBack, GiveUp
  <2>2. marker' = marker
    BY <1>1, <1>3, <1>4
  <2>3. QED
    BY <1>1, <1>2, <2>1, <2>2, Quits DEF EnterRecovery, storedVars
<1>5. CASE ~marker'
  <2>1. rotation.wrote /\ marker' = FALSE
    BY <1>1, <1>3, <1>5 DEF IInv, Typed
  <2>2. rotation' = Idle
    BY DEF RollBack, GiveUp, EnterRecovery
  <2>3. UNCHANGED identityVars \/ (signer' = None /\ UNCHANGED method)
    BY DEF RollBack, GiveUp, EnterRecovery
  <2>4. Typed'
    BY <1>1, <1>2, <2>1, <2>2, IdleFits, IdleShape DEF IInv, Typed
  <2>5. FirstKey' /\ Loaded' /\ Marked'
    BY <1>1, <2>1, <2>2, <2>3, IdleShape DEF IInv, FirstKey, Loaded, Marked, Behind, identityVars
  <2>6. ASSUME faults' <= 1
        PROVE  Whole'
    <3>1. Whole
      BY <1>2, <2>6 DEF IInv, Typed
    <3>2. stored = 1 => \A q \in Rooms : ~Lost(q)
      BY <1>1, <2>1, <3>1 DEF Whole, Behind
    <3>3. QED
      BY <1>1, <2>2, <3>2, IdleShape DEF Whole, Lost, Behind
  <2>7. QED
    BY <2>4, <2>5, <2>6 DEF IInv
<1>6. QED
  BY <1>4, <1>5

LEMMA CommitInv ==
  ASSUME IInv, Commit
  PROVE  IInv'
<1>1. rotation.pc = "retired" /\ marker /\ UNCHANGED <<marker, rooms, method>>
  BY DEF Commit, IInv, Marked, Behind
<1>2. CASE /\ stored' = rotation.new /\ made' = rotation.new
           /\ pubkey' = rotation.new /\ signer' = rotation.new
           /\ Goto("committed") /\ UNCHANGED faults
  <2>1. rotation.new \in Nat /\ rotation.new > 1
    BY <1>1 DEF IInv, Typed
  <2>2. rotation' = [rotation EXCEPT !.pc = "committed"] /\ rotation'.pc = "committed"
    BY <1>2 DEF Goto, IInv, Typed
  <2>3. Typed'
    <3>1. rotation' \in [pc : Places, by : {"rotate", "recover"}, new : Int, todo : SUBSET Rooms,
                         kept : SUBSET Rooms, stopped : SUBSET Rooms, wrote : BOOLEAN]
      BY <2>2 DEF IInv, Typed, Places
    <3>2. QED
      BY <1>1, <1>2, <2>1, <2>2, <3>1 DEF IInv, Typed
  <2>4. FirstKey' /\ Loaded' /\ Marked'
    BY <1>1, <1>2, <2>1, <2>2 DEF IInv, FirstKey, Loaded, Marked, Behind, None
  <2>5. (faults <= 1 => Whole)'
    BY <1>1, <1>2, <2>1, <2>2 DEF Whole
  <2>6. QED
    BY <2>3, <2>4, <2>5 DEF IInv
<1>3. CASE Fail /\ EnterRecovery /\ UNCHANGED <<stored, made>>
  <2>1. faults' \in Nat /\ faults <= faults'
    BY <1>3, FailCounts
  <2>2. QED
    BY <1>1, <1>3, <2>1, Quits DEF EnterRecovery, storedVars
<1>4. QED
  BY <1>2, <1>3 DEF Commit

LEMMA ClearMarkerInv ==
  ASSUME IInv, ClearMarker
  PROVE  IInv'
<1>1. rotation.pc = "committed" /\ stored > 1 /\ UNCHANGED <<stored, rooms, made>>
  BY DEF ClearMarker, IInv, Marked
<1>2. CASE marker' = FALSE /\ rotation' = Idle /\ UNCHANGED <<identityVars, faults>>
  <2>1. Typed'
    BY <1>1, <1>2, IdleFits, IdleShape DEF IInv, Typed
  <2>2. FirstKey' /\ Loaded' /\ Marked'
    BY <1>1, <1>2, IdleShape DEF IInv, FirstKey, Loaded, Marked, Behind, identityVars
  <2>3. stored # 1
    BY <1>1
  <2>4. (faults <= 1 => Whole)'
    BY <1>1, <1>2, <2>3, IdleShape DEF Whole, Behind
  <2>5. QED
    BY <2>1, <2>2, <2>4 DEF IInv
<1>3. CASE Fail /\ EnterRecovery /\ UNCHANGED <<marker, method>>
  <2>1. faults' \in Nat /\ faults <= faults'
    BY <1>3, FailCounts
  <2>2. QED
    BY <1>1, <1>3, <2>1, Quits DEF EnterRecovery, storedVars
<1>4. QED
  BY <1>2, <1>3 DEF ClearMarker

\* A session can only bring a room back.
LEMMA PersistInv ==
  ASSUME IInv, NEW r \in Rooms, Persist(r)
  PROVE  IInv'
<1>1. rooms' = [rooms EXCEPT ![r].status = "active"]
      /\ UNCHANGED <<stored, marker, rotation, method, pubkey, signer, made, faults>>
  BY DEF Persist, identityVars, boundVars
<1>2. rooms' \in [Rooms -> [key : Int, owner : {"anonymous", "external", "legacy"},
                            status : {"active", "retired"}]]
  BY <1>1 DEF IInv, Typed
<1>3. \A q \in Rooms : /\ rooms'[q].owner = rooms[q].owner /\ rooms'[q].key = rooms[q].key
                       /\ rooms'[q].status \in {rooms[q].status, "active"}
  BY <1>1 DEF IInv, Typed
<1>4. Typed' /\ FirstKey' /\ Loaded' /\ Marked'
  BY <1>1, <1>2, <1>3 DEF IInv, Typed, FirstKey, Loaded, Marked
<1>5. \A q \in Rooms : Lost(q)' => Lost(q)
  BY <1>3 DEF Lost
<1>6. (faults <= 1 => Whole)'
  BY <1>1, <1>5 DEF IInv, Whole
<1>7. QED
  BY <1>4, <1>6 DEF IInv

LEMMA SignersInv ==
  ASSUME IInv, Signers
  PROVE  IInv'
<1>1. UNCHANGED <<stored, marker, rooms, made, rotation, signer, faults>>
  BY DEF Signers, Connect, RefreshProfile, Logout, Adopt, ConnectFails, ProfileArrives, LoggedOut,
         storageVars, identityVars, boundVars
<1>2. Loaded'
  <2>1. CASE UNCHANGED <<method, pubkey>>
    BY <1>1, <2>1 DEF IInv, Loaded
  <2>2. CASE \E c \in calls : Adopt(c)
    BY <1>1, <2>2 DEF IInv, Loaded, Adopt
  <2>3. CASE \E c \in calls : LoggedOut(c)
    BY <1>1, <2>3 DEF IInv, Loaded, LoggedOut
  <2>4. QED
    BY <2>1, <2>2, <2>3 DEF Signers, Connect, RefreshProfile, Logout, ConnectFails,
                            ProfileArrives, identityVars
<1>3. QED
  BY <1>1, <1>2, Frame DEF storedVars

LEMMA SessionsInv ==
  ASSUME IInv, NEW r \in Rooms, Open(r) \/ Started(r)
  PROVE  IInv'
<1>1. UNCHANGED <<stored, marker, rooms, made, rotation, signer, faults, method, pubkey>>
  BY DEF Open, Started, storageVars, identityVars, boundVars
<1>2. QED
  BY <1>1, Frame DEF storedVars, IInv, Loaded

LEMMA ReloadInv ==
  ASSUME IInv, Reload
  PROVE  IInv'
<1>1. signer' = None /\ rotation' = [Idle EXCEPT !.pc = "boot"]
      /\ UNCHANGED <<stored, marker, rooms, made, faults>>
  BY DEF Reload, FreshPage, storageVars
<1>2. faults' \in Nat /\ faults <= faults'
  BY <1>1 DEF IInv, Typed
<1>3. QED
  BY <1>1, <1>2, Quits DEF storedVars

-------------------------------------------------------------------------------
(* The sessions the profile store knows are of rooms. *)

LEMMA KnownStep ==
  ASSUME registered \subseteq Rooms, [Next]_vars
  PROVE  registered' \subseteq Rooms
<1>1. ASSUME NEW r \in Rooms, Open(r) \/ Started(r) \/ RestoreSession(r)
      PROVE  registered' \subseteq Rooms
  BY <1>1 DEF Open, Started, RestoreSession, Attach, OpenHostChat, AttachRoute, Register, Forget,
              sessionVars
<1>2. CASE CloseRoute
  BY <1>2 DEF CloseRoute, Forget
<1>3. CASE Reload
  BY <1>3 DEF Reload, FreshPage
<1>4. QED
  BY <1>1, <1>2, <1>3 DEF Next, Bootstrap, Rotation, Sessions, Signers, Rotate, Recover,
    WriteMarker, RetireSessions, ReadRooms, Retired, RestoreOriginals, RollBack, Commit,
    ClearMarker, RetireRoom, Persist, Connect, RefreshProfile, Logout, Adopt, ConnectFails,
    ProfileArrives, LoggedOut, vars, sessionVars

Inv == IInv /\ registered \subseteq Rooms

LEMMA InvInit == Init => Inv
<1> SUFFICES ASSUME Init PROVE Inv
  OBVIOUS
<1>1. rotation = [Idle EXCEPT !.pc = "boot"]
  BY DEF Init
<1>2. rotation \in [pc : Places, by : {"rotate", "recover"}, new : Int, todo : SUBSET Rooms,
                    kept : SUBSET Rooms, stopped : SUBSET Rooms, wrote : BOOLEAN]
      /\ rotation.pc = "boot"
  <2>1. "boot" \in Places
    BY DEF Places
  <2>2. QED
    BY <1>1, <2>1, IdleFits
<1>3. External \in Int /\ External # 1
  BY IdentityAssumption DEF External
<1>4. ASSUME NEW r \in Rooms
      PROVE  /\ rooms[r] \in [key : Int, owner : {"anonymous", "external", "legacy"},
                              status : {"active", "retired"}]
             /\ rooms[r].status = "active" /\ (rooms[r].owner = "anonymous" => rooms[r].key = 1)
  BY <1>3 DEF Init, StoredRooms, None
<1>5. rooms \in [Rooms -> [key : Int, owner : {"anonymous", "external", "legacy"},
                           status : {"active", "retired"}]]
  <2>1. DOMAIN rooms = Rooms /\ rooms = [r \in Rooms |-> rooms[r]]
    BY DEF Init
  <2>2. QED
    BY <1>4, <2>1
<1>6. stored \in {None, Corrupt, 1} /\ made = 1 /\ faults = 0 /\ marker = FALSE /\ signer = None
      /\ (stored = None => \A r \in Rooms : rooms[r].owner # "anonymous") /\ registered = {}
  BY DEF Init
<1>7. Typed
  <2>1. /\ stored \in {None, Corrupt} \union 1..made /\ made \in Nat \ {0} /\ faults \in Nat
        /\ marker \in BOOLEAN
    <3>1. stored \in {None, Corrupt} \union 1..1
      BY <1>6
    <3>2. made \in Nat \ {0} /\ faults \in Nat
      BY <1>6
    <3>3. marker \in BOOLEAN
      BY <1>6, Zenon
    <3>4. QED
      BY <1>6, <3>1, <3>2, <3>3, Zenon
  <2>2. rotation.pc \notin {"prepared", "marked", "reading", "retiring", "restoring", "restore",
                          "retired"}
    BY <1>2
  <2>3. QED
    BY <1>2, <1>5, <2>1, <2>2, Zenon DEF Typed
<1>8. FirstKey /\ Loaded /\ Marked /\ Whole
  BY <1>2, <1>4, <1>6 DEF FirstKey, Loaded, Marked, Whole, Behind, Lost
<1>9. QED
  BY <1>6, <1>7, <1>8 DEF Inv, IInv

LEMMA InvStep == Inv /\ [Next]_vars => Inv'
<1> SUFFICES ASSUME Inv, [Next]_vars PROVE Inv'
  OBVIOUS
<1>1. IInv /\ registered \subseteq Rooms /\ registered' \subseteq Rooms
  BY KnownStep DEF Inv
<1>2. CASE Rotation
  <2>1. CASE Rotate
    BY <1>1, <2>1, PrepareInv DEF Rotate, Inv
  <2>2. CASE Recover
    BY <1>1, <2>2, PrepareInv DEF Recover, Inv
  <2>3. ASSUME NEW r \in Rooms, RetireRoom(r) \/ RestoreSession(r)
        PROVE  Inv'
    BY <1>1, <2>3, RetireRoomInv, RestoreSessionInv DEF Inv
  <2>4. QED
    BY <1>1, <1>2, <2>1, <2>2, <2>3, WriteMarkerInv, RetireSessionsInv, ReadRoomsInv, RetiredInv,
       RestoreOriginalsInv, RollBackInv, CommitInv, ClearMarkerInv DEF Rotation, Inv
<1>3. CASE Sessions
  <2>1. CASE CloseRoute
    <3>1. UNCHANGED <<stored, marker, rooms, made, rotation, signer, faults, method, pubkey>>
      BY <2>1 DEF CloseRoute, storageVars, identityVars, boundVars
    <3>2. QED
      BY <1>1, <3>1, Frame DEF storedVars, IInv, Loaded, Inv
  <2>2. QED
    BY <1>1, <1>3, <2>1, SessionsInv, PersistInv DEF Sessions, Inv
<1>4. CASE UNCHANGED vars
  <2>1. UNCHANGED <<stored, marker, rooms, made, rotation, signer, faults, method, pubkey>>
    BY <1>4 DEF vars, storageVars, identityVars, boundVars
  <2>2. QED
    BY <1>1, <2>1, Frame DEF storedVars, IInv, Loaded, Inv
<1>5. QED
  BY <1>1, <1>2, <1>3, <1>4, BootstrapInv, SignersInv, ReloadInv DEF Next, Inv

\* Whatever rotations, recoveries, failing writes, deaths of the page and signers came
\* and went: while no rotation runs, the local identity that signs is the one that is
\* shown and the one that a reload loads.
THEOREM ReloadsKeepTheIdentity == Spec => []ReloadKeepsIdentity
<1>1. Inv => ReloadKeepsIdentity
  BY DEF Inv, IInv, Loaded, ReloadKeepsIdentity
<1>2. QED
  BY <1>1, InvInit, InvStep, PTL DEF Spec

\* As long as at most one write to localStorage has failed, and however often the page
\* has died, the stored identity has all of its rooms unless the marker tells that a
\* replacement is under way.
THEOREM RotationsAreWhole == Spec => [](faults <= 1 => NeverHalfRetired)
<1>1. Inv => (faults <= 1 => NeverHalfRetired)
  <2> SUFFICES ASSUME Inv, faults <= 1, ~marker, NEW r \in Rooms, IsOf(r, stored)
               PROVE  rooms[r].status = "active"
    BY DEF NeverHalfRetired
  <2>1. stored = 1
    BY DEF Inv, IInv, FirstKey, IsOf
  <2>2. QED
    BY <2>1 DEF Inv, IInv, Whole, Lost, IsOf
<1>2. QED
  BY <1>1, InvInit, InvStep, PTL DEF Spec

-------------------------------------------------------------------------------
(* NostrSocial: who is online.                                             *)

\* Where an operation may wait.
Waits == {"idle", "key", "lists", "followers", "profiles", "presence", "profile"}

Refreshing == \E t \in Tasks : pc[t] \in {"lists", "followers"}

\* Nobody is online and nothing subscribed to without a pool.
GraphInv ==
  /\ pc \in [Tasks -> Waits]
  /\ subs \in Nat
  /\ subs > 0 => hasPool
  /\ online => hasPool
  /\ online /\ ~Refreshing => following /\ followers

LEMMA SetIsNoOther ==
  /\ "set" \in Tasks /\ "set" \notin Invites
  /\ \A c \in Connects : c \in Tasks /\ c \notin Invites /\ c # "set"
  /\ \A i \in Invites : i \in Tasks
BY SocialAssumption DEF Tasks

LEMMA FreeIsIdle == MayConnect => Free \in Connects /\ pc[Free] = "idle"
BY DEF MayConnect, Free

\* The graph and the pool stay, and who refreshes goes on doing so.
LEMMA GraphStays ==
  ASSUME GraphInv, UNCHANGED <<graph, hasPool>>, pc' \in [Tasks -> Waits],
         subs' \in Nat, subs' > 0 => subs > 0 \/ hasPool,
         \A t \in Tasks : pc[t] \in {"lists", "followers"} => pc'[t] = pc[t]
  PROVE  GraphInv'
<1>1. UNCHANGED <<following, followers, online>>
  BY DEF graph
<1>2. Refreshing => Refreshing'
  BY DEF Refreshing
<1>3. QED
  BY <1>1, <1>2 DEF GraphInv

\* Nobody is shown any more.
LEMMA GraphGone ==
  ASSUME GraphInv, pc' \in [Tasks -> Waits], online' = FALSE,
         subs' = 0 \/ UNCHANGED <<subs, hasPool>>
  PROVE  GraphInv'
BY DEF GraphInv

LEMMA GraphStep ==
  ASSUME GraphInv, [SocialNext]_socialVars
  PROVE  GraphInv'
<1> USE DEF Waits
<1>0. pc \in [Tasks -> Waits] /\ subs \in Nat
  BY DEF GraphInv
<1> USE <1>0
<1>1. CASE UNCHANGED socialVars
  BY <1>1, GraphStays DEF socialVars, connection
<1>2. CASE SignIn
  <2>1. pc' \in [Tasks -> Waits] /\ \A t \in Tasks : pc[t] # "idle" => pc'[t] = pc[t]
    BY <1>2, FreeIsIdle, SetIsNoOther DEF SignIn, CallConnect, At
  <2>2. QED
    BY <1>2, <2>1, GraphStays DEF SignIn, connection
<1>3. CASE SignOut
  BY <1>3, GraphGone DEF SignOut, Disconnect
<1>4. CASE Choose
  <2>1. pc' \in [Tasks -> Waits] /\ \A t \in Tasks : pc[t] # "idle" => pc'[t] = pc[t]
    BY <1>4, FreeIsIdle, SetIsNoOther DEF Choose
  <2>2. QED
    BY <1>4, <2>1, GraphStays DEF Choose, connection
<1>5. CASE ContactSeen
  <2>1. /\ online' = ((following /\ followers) \/ online)
        /\ UNCHANGED <<pc, hasPool, subs, following, followers>> /\ hasPool
    BY <1>5 DEF ContactSeen, connection, GraphInv
  <2>2. Refreshing' = Refreshing
    BY <2>1 DEF Refreshing
  <2>3. QED
    BY <2>1, <2>2 DEF GraphInv
<1>6. CASE ContactGone
  BY <1>6, GraphGone DEF ContactGone, connection
<1>7. CASE Heartbeat \/ PresenceArrives \/ ContactForgets \/ Tick \/ Day
  BY <1>7, GraphStays DEF Heartbeat, PresenceArrives, ContactForgets, Tick, Day, connection
<1>8. CASE NewPage
  BY <1>8, GraphGone DEF NewPage, Disconnect
<1>9. ASSUME NEW c \in Connects, KeyAnswer(c)
      PROVE  GraphInv'
  <2>1. CASE hasPool
    BY <1>9, <2>1, GraphStays, SetIsNoOther DEF KeyAnswer, SetPresence, At, connection
  <2>2. CASE ~hasPool
    BY <1>9, <2>2, GraphGone, SetIsNoOther DEF KeyAnswer, At
  <2>3. QED
    BY <2>1, <2>2
<1>10. ASSUME NEW c \in Connects, Connected(c)
       PROVE  GraphInv'
  BY <1>10, GraphStays, SetIsNoOther DEF Connected, SetPresence, At
<1>11. ASSUME NEW t \in Tasks, Published(t)
       PROVE  GraphInv'
  BY <1>11, GraphStays DEF Published, At, connection
<1>12. ASSUME NEW t \in Tasks, ListsAnswer(t)
       PROVE  GraphInv'
  <2>1. UNCHANGED <<hasPool, subs>>
    BY <1>12 DEF ListsAnswer, connection
  <2>2. CASE hasPool /\ At(t, "followers") /\ UNCHANGED <<followers, online>>
    <3>1. pc' \in [Tasks -> Waits] /\ Refreshing'
      BY <2>2 DEF At, Refreshing
    <3>2. QED
      BY <2>1, <2>2, <3>1 DEF GraphInv
  <2>3. CASE online' = StillMutual(following', FALSE) /\ At(t, "profiles")
    BY <2>1, <2>3, GraphGone DEF StillMutual, At
  <2>4. CASE ~hasPool /\ At(t, "idle") /\ UNCHANGED <<followers, online>>
    <3>1. ~online /\ ~online' /\ subs = 0
      BY <2>1, <2>4 DEF GraphInv
    <3>2. pc' \in [Tasks -> Waits]
      BY <2>4 DEF At
    <3>3. QED
      BY <2>1, <2>4, <3>1, <3>2 DEF GraphInv
  <2>5. QED
    BY <1>12, <2>2, <2>3, <2>4 DEF ListsAnswer
<1>13. ASSUME NEW t \in Tasks, FollowersAnswer(t)
       PROVE  GraphInv'
  <2>1. /\ online' = (online /\ following /\ followers')
        /\ UNCHANGED <<hasPool, subs, following>>
    BY <1>13 DEF FollowersAnswer, StillMutual, connection
  <2>2. pc' \in [Tasks -> Waits]
    BY <1>13 DEF FollowersAnswer, At
  <2>3. QED
    BY <2>1, <2>2 DEF GraphInv, Refreshing
<1>14. ASSUME NEW i \in Invites,
              ContactInvites(i) \/ Receive(i) \/ GraphForInvite(i) \/ Listed(i) \/ Answer(i)
       PROVE  GraphInv'
  <2>1. UNCHANGED <<graph, hasPool, subs>>
    BY <1>14 DEF ContactInvites, Receive, GraphForInvite, Listed, Answer, connection
  <2>2. /\ pc' \in [Tasks -> Waits]
        /\ \A t \in Tasks : pc[t] \in {"lists", "followers"} => pc'[t] = pc[t]
    BY <1>14, SetIsNoOther
       DEF ContactInvites, Receive, GraphForInvite, Listed, Answer, Check, At
  <2>3. QED
    BY <2>1, <2>2, GraphStays
<1>15. QED
  BY <1>1, <1>2, <1>3, <1>4, <1>5, <1>6, <1>7, <1>8, <1>9, <1>10, <1>11, <1>12, <1>13, <1>14
     DEF SocialNext, SocialStep

\* Whoever is shown as online is a mutual when no refresh of the graph is under way, for
\* any number of overlapping calls.
THEOREM MutualsAreShown == SocialSpec => []OnlineAreMutuals
<1>1. SocialInit => GraphInv
  BY DEF SocialInit, GraphInv, Waits
<1>2. GraphInv /\ [SocialNext]_socialVars => GraphInv'
  BY GraphStep
<1>3. GraphInv => OnlineAreMutuals
  BY DEF GraphInv, OnlineAreMutuals, Refreshing
<1>4. QED
  BY <1>1, <1>2, <1>3, PTL DEF SocialSpec

-------------------------------------------------------------------------------
(* NostrSocial: presences that reach the contact.                          *)

Lives == underWay \union {visible}

LifeInv ==
  /\ underWay \subseteq 0..Life /\ visible \in 0..Life /\ offlineFor \in 0..Life
  /\ IsOnline => offlineFor = 0
  /\ \A life \in Lives : life > 0 => life + offlineFor <= Life

\* A presence of the moment is published by a store that is connected, or none is, and the
\* contact gets one that is under way or none.
MayPublish ==
  /\ \/ underWay' \subseteq underWay
     \/ hasPool' /\ underWay' = underWay \union {Payload}
  /\ visible' \in underWay \union {visible, 0}

LEMMA PublishMay ==
  ASSUME Publish, UNCHANGED visible
  PROVE  MayPublish
BY DEF Publish, MayPublish

LEMMA NothingPublished ==
  ASSUME UNCHANGED presences
  PROVE  MayPublish
BY DEF presences, MayPublish

LEMMA EachMayPublish ==
  ASSUME SocialStep
  PROVE  MayPublish
<1>1. CASE SignIn \/ SignOut \/ ContactSeen \/ ContactGone \/ NewPage
  BY <1>1, NothingPublished DEF SignIn, SignOut, ContactSeen, ContactGone, NewPage
<1>2. CASE Choose \/ Heartbeat
  BY <1>2, PublishMay DEF Choose, Heartbeat
<1>3. CASE PresenceArrives
  BY <1>3 DEF PresenceArrives, MayPublish
<1>4. CASE ContactForgets
  BY <1>4 DEF ContactForgets, MayPublish
<1>5. ASSUME NEW c \in Connects, KeyAnswer(c) \/ Connected(c)
      PROVE  MayPublish
  BY <1>5, PublishMay, NothingPublished DEF KeyAnswer, Connected, SetPresence
<1>6. ASSUME NEW t \in Tasks, Published(t) \/ ListsAnswer(t) \/ FollowersAnswer(t)
      PROVE  MayPublish
  BY <1>6, NothingPublished DEF Published, ListsAnswer, FollowersAnswer
<1>7. ASSUME NEW i \in Invites,
             ContactInvites(i) \/ Receive(i) \/ GraphForInvite(i) \/ Listed(i) \/ Answer(i)
      PROVE  MayPublish
  BY <1>7, NothingPublished DEF ContactInvites, Receive, GraphForInvite, Listed, Answer
<1>8. QED
  BY <1>1, <1>2, <1>3, <1>4, <1>5, <1>6, <1>7 DEF SocialStep

\* What is published by a user that is not online is not in force.
LEMMA PublishingKeeps ==
  ASSUME LifeInv, MayPublish, offlineFor' = IF IsOnline' THEN 0 ELSE offlineFor
  PROVE  LifeInv'
<1>0. Life \in Nat \ {0}
  BY SocialAssumption
<1>1. Payload \in {0, Life} /\ (hasPool' /\ ~IsOnline' => Payload = 0)
  BY DEF Payload, IsOnline
<1>2. /\ underWay' \subseteq 0..Life /\ visible' \in 0..Life
      /\ \A life \in Lives' : life = 0 \/ life \in Lives \/ (IsOnline' /\ life = Life)
  <2>1. \A life \in Lives' : life = 0 \/ life \in Lives \/ (hasPool' /\ life = Payload)
    BY DEF MayPublish, Lives
  <2>2. Lives \subseteq 0..Life /\ 0 \in 0..Life /\ Life \in 0..Life
    BY <1>0 DEF LifeInv, Lives
  <2>3. \A life \in Lives' : life = 0 \/ life \in Lives \/ (IsOnline' /\ life = Life)
    BY <1>1, <2>1
  <2>4. Lives' \subseteq 0..Life
    BY <2>2, <2>3
  <2>5. QED
    BY <2>3, <2>4 DEF Lives
<1>3. offlineFor' \in 0..Life
  BY <1>0 DEF LifeInv
<1>4. ASSUME NEW life \in Lives', life > 0
      PROVE  life + offlineFor' <= Life
  <2>1. CASE IsOnline'
    BY <2>1, <1>0, <1>2, <1>4 DEF Lives
  <2>2. CASE ~IsOnline'
    BY <2>2, <1>0, <1>2, <1>4 DEF LifeInv
  <2>3. QED
    BY <2>1, <2>2
<1>5. IsOnline' => offlineFor' = 0
  OBVIOUS
<1>6. QED
  BY <1>2, <1>3, <1>4, <1>5 DEF LifeInv

LEMMA OlderTogether ==
  ASSUME NEW limit \in Nat, NEW before \in 0..limit, NEW since \in 0..limit,
         NEW after \in 0..limit, before + since <= limit, after <= since + 1
  PROVE  (before - 1) + after <= limit
OBVIOUS

\* Every presence grows older by as much as the user has been offline for longer.
LEMMA TickKeeps ==
  ASSUME LifeInv, Tick
  PROVE  LifeInv'
<1>0. Life \in Nat \ {0}
  BY SocialAssumption
<1>1. UNCHANGED <<hasPool, presence>>
  BY DEF Tick, connection, beats
<1>2. /\ Lives' = {Aged(life) : life \in Lives}
      /\ \A life \in 0..Life : Aged(life) \in 0..Life /\ (Aged(life) > 0 => Aged(life) = life - 1)
  BY <1>0 DEF Tick, Lives, Aged
<1>3. offlineFor' \in 0..Life /\ offlineFor' <= offlineFor + 1 /\ (IsOnline => offlineFor' = 0)
  BY <1>0 DEF Tick, LifeInv
<1>4. underWay' \subseteq 0..Life /\ visible' \in 0..Life
  BY <1>2 DEF LifeInv, Tick
<1>5. ASSUME NEW life \in Lives', life > 0
      PROVE  life + offlineFor' <= Life
  <2>1. PICK before \in Lives : life = Aged(before)
    BY <1>2
  <2>2. before \in 0..Life /\ life = before - 1 /\ before > 0
    <3>1. before \in 0..Life
      BY <2>1 DEF LifeInv, Lives
    <3>2. before # 0
      BY <2>1, <1>5 DEF Aged
    <3>3. QED
      BY <2>1, <3>1, <3>2, <1>0, <1>2, <1>5
  <2>3. before + offlineFor <= Life
    BY <2>2 DEF LifeInv
  <2>4. offlineFor \in 0..Life
    BY DEF LifeInv
  <2>5. offlineFor' \in 0..Life /\ offlineFor' <= offlineFor + 1
    BY <1>3
  <2>6. QED
    BY <2>2, <2>3, <2>4, <2>5, <1>0, OlderTogether
<1>6. IsOnline' => offlineFor' = 0
  BY <1>1, <1>3 DEF IsOnline
<1>7. QED
  BY <1>3, <1>4, <1>5, <1>6 DEF LifeInv

LEMMA LifeStep ==
  ASSUME LifeInv, [SocialNext]_socialVars
  PROVE  LifeInv'
<1>1. CASE SocialStep /\ offlineFor' = IF IsOnline' THEN 0 ELSE offlineFor
  BY <1>1, EachMayPublish, PublishingKeeps
<1>2. CASE Tick
  BY <1>2, TickKeeps
<1>3. CASE Day
  <2>1. Lives' \subseteq {0} /\ underWay' \subseteq {0} /\ visible' = 0
    BY <1>3 DEF Day, Lives
  <2>2. offlineFor' = (IF IsOnline' THEN 0 ELSE Life) /\ Life \in Nat \ {0}
    BY <1>3, SocialAssumption DEF Day, IsOnline, connection, beats
  <2>3. QED
    BY <2>1, <2>2 DEF LifeInv
<1>4. CASE UNCHANGED socialVars
  BY <1>4 DEF socialVars, LifeInv, Lives, IsOnline, connection, beats, contact, presences
<1>5. QED
  BY <1>1, <1>2, <1>3, <1>4 DEF SocialNext

\* The contact is not shown the user for longer than the life of a presence after it was
\* last online, for any number of overlapping calls and heartbeats, any life, and presences
\* that arrive as late as they may.
THEOREM PresencesAreTrue == SocialSpec => []NotShownForLong
<1>1. SocialInit => LifeInv
  BY SocialAssumption DEF SocialInit, LifeInv, Lives, IsOnline
<1>2. LifeInv /\ [SocialNext]_socialVars => LifeInv'
  BY LifeStep
<1>3. LifeInv => NotShownForLong
  <2>1. ASSUME LifeInv, visible > 0
        PROVE  offlineFor < Life
    BY <2>1, SocialAssumption DEF LifeInv, Lives
  <2>2. QED
    BY <2>1 DEF NotShownForLong
<1>4. QED
  BY <1>1, <1>2, <1>3, PTL DEF SocialSpec

-------------------------------------------------------------------------------
(* NostrSocial: answers to invitations.                                    *)

AnswersTyped ==
  /\ pc \in [Tasks -> Waits]
  /\ stamp \in [Invites -> Int] /\ answered \in [Invites -> Int]
  /\ incoming \in [Invites -> Int] /\ today \in Int /\ today >= Backdate
  /\ settled \subseteq Invites /\ noted \subseteq Invites

\* Only what was sent is received or recorded, and what is being received was sent no
\* longer ago than a subscription asks for.
Sent ==
  \A i \in Invites :
    /\ stamp[i] <= today
    /\ stamp[i] # Never => stamp[i] >= 0
    /\ i \in noted => stamp[i] # Never
    /\ pc[i] # "idle" => stamp[i] # Never /\ stamp[i] >= today - Replay

\* An answer is no older than what it answers.
SettledFor(i) ==
  /\ stamp[i] # Never /\ answered[i] >= stamp[i]
  /\ pc[i] # "profile" /\ incoming[i] = 0

AnswersInv == AnswersTyped /\ Sent /\ \A i \in settled : SettledFor(i)

\* Nothing changes but what operations wait for.
LEMMA AnswersStay ==
  ASSUME AnswersInv, UNCHANGED <<stamp, incoming, noted, answered, settled, today>>,
         pc' \in [Tasks -> Waits],
         \A i \in Invites : pc'[i] # "idle" => pc[i] # "idle" /\ (pc'[i] = "profile" => pc[i] = "profile")
  PROVE  AnswersInv'
<1>1. AnswersTyped' /\ Sent'
  BY DEF AnswersInv, AnswersTyped, Sent
<1>2. ASSUME NEW i \in settled'
      PROVE  SettledFor(i)'
  BY <1>2 DEF AnswersInv, AnswersTyped, SettledFor
<1>3. QED
  BY <1>1, <1>2 DEF AnswersInv

\* What is being received of a settled invitation comes too early to be listed again.
LEMMA SettledIsResolved ==
  ASSUME AnswersInv, NEW i \in settled, stamp[i] >= today - Replay
  PROVE  Resolved(i)
<1>1. stamp[i] \in Int /\ answered[i] \in Int /\ today \in Int
  BY DEF AnswersInv, AnswersTyped
<1>2. stamp[i] >= 0 /\ answered[i] >= stamp[i]
  BY DEF AnswersInv, AnswersTyped, Sent, SettledFor
<1>3. Replay \in Nat /\ Retention \in Nat /\ Replay <= Retention
  BY SocialAssumption
<1>4. QED
  BY <1>1, <1>2, <1>3 DEF Resolved, Never

\* An invitation that was sent is checked, by a reception that has begun.
LEMMA CheckKeeps ==
  ASSUME AnswersInv, NEW i \in Invites, Check(i), UNCHANGED today,
         stamp[i] # Never, stamp[i] >= today - Replay
  PROVE  AnswersInv'
<1> USE DEF Waits
<1>1. UNCHANGED <<stamp, answered, settled, today>>
  BY DEF Check
<1>2. /\ pc' \in [Tasks -> Waits]
      /\ \A j \in Invites \ {i} : pc'[j] = pc[j]
  BY SetIsNoOther DEF Check, AnswersInv, AnswersTyped, At
<1>3. /\ incoming' \in [Invites -> Int]
      /\ noted' \in {noted, noted \union {i}}
      /\ \A j \in Invites \ {i} : incoming'[j] = incoming[j]
  BY DEF Check, ListInvite, AnswersInv, AnswersTyped
<1>4. AnswersTyped'
  BY <1>1, <1>2, <1>3 DEF AnswersInv, AnswersTyped
<1>5. Sent'
  BY <1>1, <1>2, <1>3 DEF AnswersInv, AnswersTyped, Sent
<1>6. ASSUME i \in settled
      PROVE  pc'[i] # "profile" /\ incoming'[i] = 0
  <2>1. Resolved(i)
    BY <1>6, SettledIsResolved
  <2>2. At(i, "idle") /\ UNCHANGED incoming
    BY <2>1 DEF Check
  <2>3. QED
    BY <1>6, <2>2, SetIsNoOther DEF AnswersInv, AnswersTyped, SettledFor, At
<1>7. ASSUME NEW j \in settled'
      PROVE  SettledFor(j)'
  BY <1>1, <1>2, <1>3, <1>6, <1>7 DEF AnswersInv, AnswersTyped, SettledFor
<1>8. QED
  BY <1>4, <1>5, <1>7 DEF AnswersInv

LEMMA AnswersStep ==
  ASSUME AnswersInv, [SocialNext]_socialVars
  PROVE  AnswersInv'
<1> USE DEF Waits
<1>0. pc \in [Tasks -> Waits]
  BY DEF AnswersInv, AnswersTyped
<1> USE <1>0
<1>1. CASE UNCHANGED socialVars
  BY <1>1, AnswersStay DEF socialVars, invitations
<1>2. CASE SignIn
  BY <1>2, AnswersStay, FreeIsIdle, SetIsNoOther DEF SignIn, CallConnect, At, invitations
<1>3. CASE Choose
  BY <1>3, AnswersStay, FreeIsIdle, SetIsNoOther DEF Choose, invitations
<1>4. CASE \/ SignOut \/ ContactSeen \/ ContactGone
           \/ Heartbeat \/ PresenceArrives \/ ContactForgets \/ Tick
  BY <1>4, AnswersStay
     DEF SignOut, ContactSeen, ContactGone, Heartbeat, PresenceArrives, ContactForgets, Tick,
         invitations
<1>5. CASE Day
  <2>1. /\ UNCHANGED <<pc, stamp, incoming, noted, answered, settled>>
        /\ \A t \in Tasks : pc[t] = "idle"
        /\ today' = today + 1
    BY <1>5 DEF Day, NothingAwaited, Busy, invitations
  <2>2. AnswersTyped'
    BY <2>1, SocialAssumption DEF AnswersInv, AnswersTyped
  <2>3. Sent'
    BY <2>1, SetIsNoOther DEF AnswersInv, AnswersTyped, Sent
  <2>4. ASSUME NEW i \in settled'
        PROVE  SettledFor(i)'
    BY <2>1, <2>4 DEF AnswersInv, SettledFor
  <2>5. QED
    BY <2>2, <2>3, <2>4 DEF AnswersInv
<1>6. CASE NewPage
  <2>1. /\ UNCHANGED <<stamp, noted, answered, settled, today>>
        /\ pc' = [t \in Tasks |-> "idle"] /\ incoming' = [i \in Invites |-> 0]
    BY <1>6 DEF NewPage
  <2>2. AnswersTyped' /\ Sent'
    BY <2>1, SetIsNoOther DEF AnswersInv, AnswersTyped, Sent
  <2>3. ASSUME NEW i \in settled'
        PROVE  SettledFor(i)'
    BY <2>1, <2>3, SetIsNoOther DEF AnswersInv, AnswersTyped, SettledFor
  <2>4. QED
    BY <2>2, <2>3 DEF AnswersInv
<1>7. ASSUME NEW c \in Connects, KeyAnswer(c) \/ Connected(c)
      PROVE  AnswersInv'
  BY <1>7, AnswersStay, SetIsNoOther DEF KeyAnswer, Connected, SetPresence, At, invitations
<1>8. ASSUME NEW t \in Tasks, Published(t) \/ ListsAnswer(t) \/ FollowersAnswer(t)
      PROVE  AnswersInv'
  <2>1. /\ pc[t] # "idle" /\ pc[t] # "profile"
        /\ \E where \in Waits \ {"profile"} : pc' = [pc EXCEPT ![t] = where]
    BY <1>8 DEF Published, ListsAnswer, FollowersAnswer, At
  <2>2. UNCHANGED <<stamp, incoming, noted, answered, settled, today>>
    BY <1>8 DEF Published, ListsAnswer, FollowersAnswer, invitations
  <2>3. QED
    BY <2>1, <2>2, SetIsNoOther, AnswersStay
<1>9. ASSUME NEW i \in Invites, ContactInvites(i)
      PROVE  AnswersInv'
  <2>1. PICK at \in (today - Backdate)..today : stamp' = [stamp EXCEPT ![i] = at]
    BY <1>9 DEF ContactInvites
  <2>2. /\ UNCHANGED <<pc, today, incoming, noted, answered, settled>>
        /\ stamp[i] = Never
    BY <1>9 DEF ContactInvites
  <2>3. at \in Int /\ 0 <= at /\ at <= today
    BY SocialAssumption DEF AnswersInv, AnswersTyped
  <2>4. AnswersTyped'
    BY <2>1, <2>2, <2>3 DEF AnswersInv, AnswersTyped
  <2>5. Sent'
    BY <2>1, <2>2, <2>3 DEF AnswersInv, AnswersTyped, Sent, Never
  <2>6. ASSUME NEW j \in settled'
        PROVE  SettledFor(j)'
    BY <2>1, <2>2, <2>6 DEF AnswersInv, AnswersTyped, SettledFor
  <2>7. QED
    BY <2>4, <2>5, <2>6 DEF AnswersInv
<1>10. ASSUME NEW i \in Invites, Receive(i)
       PROVE  AnswersInv'
  <2>1. stamp[i] # Never /\ stamp[i] >= today - Replay /\ UNCHANGED today
    BY <1>10 DEF Receive
  <2>2. CASE Check(i)
    BY <2>1, <2>2, CheckKeeps
  <2>3. CASE At(i, "lists") /\ UNCHANGED <<stamp, incoming, noted, answered, settled>>
    <3>1. pc' \in [Tasks -> Waits] /\ pc' = [pc EXCEPT ![i] = "lists"]
      BY <2>3 DEF At
    <3>2. AnswersTyped' /\ Sent'
      BY <2>1, <2>3, <3>1, SetIsNoOther DEF AnswersInv, AnswersTyped, Sent
    <3>3. ASSUME NEW j \in settled'
          PROVE  SettledFor(j)'
      BY <2>1, <2>3, <3>1, <3>3, SetIsNoOther DEF AnswersInv, AnswersTyped, SettledFor
    <3>4. QED
      BY <3>2, <3>3 DEF AnswersInv
  <2>4. QED
    BY <1>10, <2>2, <2>3 DEF Receive
<1>11. ASSUME NEW i \in Invites, GraphForInvite(i)
       PROVE  AnswersInv'
  <2>1. Check(i) /\ UNCHANGED today /\ stamp[i] # Never /\ stamp[i] >= today - Replay
    BY <1>11 DEF GraphForInvite, AnswersInv, Sent
  <2>2. QED
    BY <2>1, CheckKeeps
<1>12. ASSUME NEW i \in Invites, Listed(i)
       PROVE  AnswersInv'
  <2>1. /\ UNCHANGED <<stamp, answered, settled, today>>
        /\ pc' = [pc EXCEPT ![i] = "idle"] /\ pc[i] = "profile"
        /\ incoming' = [incoming EXCEPT ![i] = @ + 1] /\ noted' = noted \union {i}
    BY <1>12 DEF Listed, At, ListInvite
  <2>2. AnswersTyped' /\ Sent'
    BY <2>1, SetIsNoOther DEF AnswersInv, AnswersTyped, Sent
  <2>3. ASSUME NEW j \in settled'
        PROVE  SettledFor(j)'
    BY <2>1, <2>3, SetIsNoOther DEF AnswersInv, AnswersTyped, SettledFor
  <2>4. QED
    BY <2>2, <2>3 DEF AnswersInv
<1>13. ASSUME NEW i \in Invites, Answer(i)
       PROVE  AnswersInv'
  <2>1. /\ UNCHANGED <<pc, stamp, noted, today>> /\ i \in noted
        /\ answered' = [answered EXCEPT ![i] = today]
        /\ incoming' = [incoming EXCEPT ![i] = 0]
        /\ settled' = IF pc[i] = "idle" THEN settled \union {i} ELSE settled
    BY <1>13 DEF Answer
  <2>2. AnswersTyped' /\ Sent'
    BY <2>1, SetIsNoOther DEF AnswersInv, AnswersTyped, Sent
  <2>3. ASSUME NEW j \in settled'
        PROVE  SettledFor(j)'
    BY <2>1, <2>3, SetIsNoOther DEF AnswersInv, AnswersTyped, Sent, SettledFor
  <2>4. QED
    BY <2>2, <2>3 DEF AnswersInv
<1>14. QED
  BY <1>1, <1>2, <1>3, <1>4, <1>5, <1>6, <1>7, <1>8, <1>9, <1>10, <1>11, <1>12, <1>13
     DEF SocialNext, SocialStep

\* An invitation that was answered while it was not being received stays out of the list,
\* when a subscription asks for no more days than answers are kept.
THEOREM AnswersStand == SocialSpec => []AnsweredStaysAnswered
<1>1. SocialInit => AnswersInv
  <2>1. SocialInit => AnswersTyped
    BY SocialAssumption DEF SocialInit, AnswersTyped, First, Never, Waits
  <2>2. SocialInit => Sent /\ settled = {}
    BY SocialAssumption, SetIsNoOther DEF SocialInit, Sent, First, Never
  <2>3. QED
    BY <2>1, <2>2 DEF AnswersInv
<1>2. AnswersInv /\ [SocialNext]_socialVars => AnswersInv'
  BY AnswersStep
<1>3. AnswersInv => AnsweredStaysAnswered
  BY DEF AnswersInv, SettledFor, AnsweredStaysAnswered
<1>4. QED
  BY <1>1, <1>2, <1>3, PTL DEF SocialSpec

-------------------------------------------------------------------------------
(* RoomInvites.                                                            *)

\* Requests are listed, dealt with and admitted only if they came with a link that was
\* not replaced by then.
Reported == asked \union {Links!None, Links!NoRequest}

LinksInv ==
  /\ waiting \in Reported /\ admitting \in Reported
  /\ Links!PreviousLinksAreClosed

LEMMA FetchedIsReported ==
  ASSUME Links!Saw
  PROVE  Links!Fetched \in Reported'
BY DEF Links!Saw, Links!Fetched, Links!IsCurrent, Reported

LEMMA LinksStep ==
  ASSUME LinksInv, [Links!Next]_Links!vars
  PROVE  LinksInv'
<1>1. ASSUME UNCHANGED <<waiting, admitting, asked, admittedBy>>
      PROVE  LinksInv'
  BY <1>1 DEF LinksInv, Reported, Links!PreviousLinksAreClosed
<1>2. CASE UNCHANGED Links!vars
  BY <1>1, <1>2 DEF Links!vars, Links!hostVars
<1>3. CASE Links!RotateRoomInvite \/ Links!SetAutoApprove
  BY <1>1, <1>3 DEF Links!RotateRoomInvite, Links!SetAutoApprove
<1>4. CASE Links!SyncRequests
  <2>1. Links!Saw /\ asked \subseteq asked' /\ UNCHANGED admittedBy
    BY <1>4 DEF Links!SyncRequests, Links!Saw
  <2>2. {waiting', admitting'} \subseteq {Links!Fetched, Links!NoRequest}
    BY <1>4 DEF Links!SyncRequests
  <2>3. QED
    BY <2>1, <2>2, FetchedIsReported DEF LinksInv, Reported, Links!PreviousLinksAreClosed
<1>5. CASE Links!ApproveJoinRequests
  <2>1. waiting' = Links!NoRequest /\ UNCHANGED admittedBy
    BY <1>5 DEF Links!ApproveJoinRequests
  <2>2. \/ admitting' = waiting /\ UNCHANGED asked
        \/ admitting' = Links!Fetched /\ Links!Saw
    BY <1>5 DEF Links!ApproveJoinRequests
  <2>3. asked \subseteq asked'
    BY <2>2 DEF Links!Saw
  <2>4. QED
    BY <2>1, <2>2, <2>3, FetchedIsReported DEF LinksInv, Reported, Links!PreviousLinksAreClosed
<1>6. ASSUME NEW done \in BOOLEAN, Links!AcceptJoinRequests(done)
      PROVE  LinksInv'
  BY <1>6 DEF Links!AcceptJoinRequests, LinksInv, Reported, Links!PreviousLinksAreClosed
<1>7. CASE Links!RetireMembership
  BY <1>7 DEF Links!RetireMembership, LinksInv, Reported, Links!PreviousLinksAreClosed
<1>8. ASSUME NEW l, NEW damage, Links!OpenLink(l, damage)
      PROVE  LinksInv'
  BY <1>1, <1>8 DEF Links!OpenLink, Links!hostVars
<1>9. ASSUME NEW b \in BOOLEAN, Links!StoreJoinRequest(b) \/ Links!SaveJoiningRoom(b)
      PROVE  LinksInv'
  BY <1>1, <1>9 DEF Links!StoreJoinRequest, Links!SaveJoiningRoom, Links!hostVars
<1>10. CASE Links!JoinFails \/ Links!RetryEstablishedIdentity \/ Links!AcceptWelcome
  BY <1>1, <1>10
     DEF Links!JoinFails, Links!RetryEstablishedIdentity, Links!AcceptWelcome, Links!hostVars
<1>11. CASE Links!CloseRoute \/ Links!RemoveStoredRoom
  BY <1>1, <1>11 DEF Links!CloseRoute, Links!RemoveStoredRoom, Links!hostVars
<1>12. QED
  BY <1>2, <1>3, <1>4, <1>5, <1>6, <1>7, <1>8, <1>9, <1>10, <1>11 DEF Links!Next

\* Who asks with a link that was replaced before the host saw a request with it is not
\* admitted, for any number of links.
THEOREM ReplacedLinksAreClosed == Links!Spec => []PreviousLinksAreClosed
<1>1. Links!Init => LinksInv
  BY DEF Links!Init, LinksInv, Reported, Links!PreviousLinksAreClosed
<1>2. LinksInv /\ [Links!Next]_Links!vars => LinksInv'
  BY LinksStep
<1>3. LinksInv => PreviousLinksAreClosed
  BY DEF LinksInv, PreviousLinksAreClosed
<1>4. QED
  BY <1>1, <1>2, <1>3, PTL DEF Links!Spec

\* Of the room and the link only what is said of the host is not looked at.
Joining == {"joining", "asked", "failed"}

\* Something will come of the guest's request.
Hoped == request # Links!NoRequest \/ welcome

JoinInv ==
  /\ token \in Nat
  /\ link.token \in Nat /\ "token" \in DOMAIN link
  /\ "status" \in DOMAIN room
  /\ route \in Joining => room.status = "none"
  /\ waiting # Links!NoRequest \/ admitting # Links!NoRequest => request # Links!NoRequest
  /\ admitting # Links!NoRequest => waiting = Links!NoRequest
  /\ room.status = "waiting" \/ route = "asked" => Hoped

LEMMA ParsedToken ==
  ASSUME NEW l \in Links!Links, NEW damage \in {"none", "metadata"}
  PROVE  Links!Parsed(l, damage) \in Links!Links /\ Links!Parsed(l, damage).token = l.token
<1>1. CASE damage = "none"
  BY <1>1 DEF Links!Parsed
<1>2. CASE damage = "metadata"
  <2>1. Links!Parsed(l, damage) = [l EXCEPT !.host = "nothing"]
    BY <1>2, Zenon DEF Links!Parsed
  <2>2. QED
    BY <2>1 DEF Links!Links, Links!Claims
<1>3. QED
  BY <1>1, <1>2

\* The request and the welcome stay, and so do those who ask and wait.
LEMMA JoinStays ==
  ASSUME JoinInv, token' \in Nat, UNCHANGED <<waiting, admitting, request, welcome>>,
         link'.token \in Nat, "token" \in DOMAIN link', "status" \in DOMAIN room',
         route' \in Joining => room'.status = "none",
         room'.status = "waiting" \/ route' = "asked" => room.status = "waiting" \/ route = "asked"
  PROVE  JoinInv'
BY DEF JoinInv, Hoped

LEMMA JoinStep ==
  ASSUME JoinInv, [Links!Next]_Links!vars
  PROVE  JoinInv'
<1>0. /\ token \in Nat /\ link.token \in Nat /\ "token" \in DOMAIN link
      /\ "status" \in DOMAIN room /\ (route \in Joining => room.status = "none")
  BY DEF JoinInv
<1>a. /\ Links!NoLink.token \in Nat /\ "token" \in DOMAIN Links!NoLink
      /\ Links!NoRoom.status = "none" /\ "status" \in DOMAIN Links!NoRoom
  BY DEF Links!NoLink, Links!NoRoom, Links!None
<1> USE <1>0, <1>a
<1>1. CASE UNCHANGED Links!vars
  BY <1>1, JoinStays DEF Links!vars, Links!hostVars, Links!guestVars
<1>2. CASE Links!RotateRoomInvite \/ Links!SetAutoApprove
  BY <1>2, JoinStays DEF Links!RotateRoomInvite, Links!SetAutoApprove, Links!guestVars
<1>3. CASE Links!SyncRequests \/ Links!ApproveJoinRequests
  <2>1. UNCHANGED <<token, request, welcome, link, room, route>>
    BY <1>3 DEF Links!SyncRequests, Links!ApproveJoinRequests, Links!guestVars
  <2>2. waiting' # Links!NoRequest \/ admitting' # Links!NoRequest => request # Links!NoRequest
    BY <1>3 DEF Links!SyncRequests, Links!ApproveJoinRequests, Links!Fetched,
                Links!IsCurrent, JoinInv
  <2>3. admitting' # Links!NoRequest => waiting' = Links!NoRequest
    BY <1>3 DEF Links!SyncRequests, Links!ApproveJoinRequests
  <2>4. QED
    BY <2>1, <2>2, <2>3 DEF JoinInv, Hoped
<1>4. ASSUME NEW done \in BOOLEAN, Links!AcceptJoinRequests(done)
      PROVE  JoinInv'
  BY <1>4 DEF Links!AcceptJoinRequests, Links!guestVars, JoinInv, Hoped
<1>5. ASSUME NEW l \in Links!Links, NEW damage \in {"none", "metadata"},
             Links!OpenLink(l, damage)
      PROVE  JoinInv'
  <2>1. link'.token \in Nat /\ "token" \in DOMAIN link'
    BY <1>5, ParsedToken DEF Links!OpenLink, Links!Links, Links!None
  <2>2. UNCHANGED <<token, waiting, admitting, request, welcome>>
    BY <1>5 DEF Links!OpenLink, Links!hostVars
  <2>3. /\ "status" \in DOMAIN room' /\ room'.status = room.status
        /\ route' # "asked" /\ (route' \in Joining => room'.status = "none")
    BY <1>5 DEF Links!OpenLink, Joining
  <2>4. QED
    BY <2>1, <2>2, <2>3, JoinStays
<1>6. ASSUME NEW heard \in BOOLEAN, Links!StoreJoinRequest(heard)
      PROVE  JoinInv'
  <2>1. /\ request' = link.token /\ route = "joining" /\ route' \in {"joining", "asked"}
        /\ UNCHANGED <<token, waiting, admitting, welcome, link, room>>
    BY <1>6 DEF Links!StoreJoinRequest, Links!hostVars
  <2>2. request' # Links!NoRequest
    BY <2>1 DEF Links!NoRequest
  <2>3. QED
    BY <2>1, <2>2 DEF JoinInv, Hoped, Joining
<1>7. ASSUME NEW left \in BOOLEAN, Links!SaveJoiningRoom(left)
      PROVE  JoinInv'
  BY <1>7, JoinStays DEF Links!SaveJoiningRoom, Links!Asked, Links!hostVars, Joining
<1>8. CASE Links!JoinFails \/ Links!RetryEstablishedIdentity
  BY <1>8, JoinStays DEF Links!JoinFails, Links!RetryEstablishedIdentity, Links!hostVars, Joining
<1>9. CASE Links!AcceptWelcome
  <2>1. /\ UNCHANGED <<token, waiting, admitting, request, route, link>>
        /\ room'.status = "member" /\ "status" \in DOMAIN room' /\ room.status = "waiting"
    BY <1>9 DEF Links!AcceptWelcome, Links!hostVars
  <2>2. QED
    BY <2>1 DEF JoinInv, Joining
<1>10. CASE Links!CloseRoute \/ Links!RemoveStoredRoom
  BY <1>10, JoinStays DEF Links!CloseRoute, Links!RemoveStoredRoom, Links!hostVars, Joining
<1>11. CASE Links!RetireMembership
  <2>1. /\ UNCHANGED <<token, route, link>> /\ route \notin {"joining", "asked"}
        /\ room.status # "none"
        /\ room'.status = "retired" /\ "status" \in DOMAIN room'
        /\ waiting' = Links!NoRequest /\ admitting' = Links!NoRequest
    BY <1>11 DEF Links!RetireMembership
  <2>2. QED
    BY <2>1 DEF JoinInv, Joining
<1>12. QED
  BY <1>1, <1>2, <1>3, <1>4, <1>5, <1>6, <1>7, <1>8, <1>9, <1>10, <1>11 DEF Links!Next

\* A room that waits for admission has been asked for, whatever was left, retried or opened
\* again before, for any number of links.
THEOREM WaitingIsForSomething == Links!Spec => []WaitingRoomsAsked
<1>1. Links!Init => JoinInv
  BY DEF Links!Init, JoinInv, Joining, Links!NoLink, Links!NoRoom, Links!None
<1>2. JoinInv /\ [Links!Next]_Links!vars => JoinInv'
  BY JoinStep
<1>3. JoinInv => WaitingRoomsAsked
  BY DEF JoinInv, Hoped, WaitingRoomsAsked, Links!WaitingRoomsAsked
<1>4. QED
  BY <1>1, <1>2, <1>3, PTL DEF Links!Spec

-------------------------------------------------------------------------------
(* InviteScanner.                                                          *)

\* Scans are numbered as they begin, and the current one has the camera asked for only
\* while the dialog scans.
ScanInv ==
  /\ scan \in 0..MaxScans
  /\ cameras \subseteq 1..MaxScans /\ \A t \in cameras : t <= scan
  /\ scan \in cameras => scanning /\ mounted
  /\ live # {} => scanning
  /\ CameraFollowsTheDialog

\* A scan is stopped: a new number, and no camera.
LEMMA StopKeeps ==
  ASSUME ScanInv, Scanner!StopScanner, scan < MaxScans, cameras' \subseteq cameras
  PROVE  ScanInv'
BY InviteAssumption
   DEF ScanInv, Scanner!StopScanner, CameraFollowsTheDialog, Scanner!CameraFollowsTheDialog

LEMMA ScanStep ==
  ASSUME ScanInv, [Scanner!Next]_Scanner!vars
  PROVE  ScanInv'
<1>1. ASSUME UNCHANGED <<shown, scanning, scan, live, mounted>>, cameras' \subseteq cameras
      PROVE  ScanInv'
  BY <1>1 DEF ScanInv, CameraFollowsTheDialog, Scanner!CameraFollowsTheDialog
<1>2. CASE UNCHANGED Scanner!vars
  BY <1>1, <1>2 DEF Scanner!vars
<1>3. CASE Scanner!OpenDialog
  BY <1>3 DEF Scanner!OpenDialog, ScanInv, CameraFollowsTheDialog,
              Scanner!CameraFollowsTheDialog
<1>4. CASE Scanner!CloseDialog \/ Scanner!Submit \/ Scanner!Destroy
  BY <1>4, StopKeeps
     DEF Scanner!CloseDialog, Scanner!Submit, Scanner!Redeem, Scanner!Destroy
<1>5. CASE Scanner!StartScan
  <2>1. /\ scan' = scan + 1 /\ scan < MaxScans /\ scanning' /\ mounted' /\ live' = live
        /\ cameras' = cameras \union {scan'} /\ ~scanning
    BY <1>5 DEF Scanner!StartScan
  <2>2. live' = {}
    BY <2>1 DEF ScanInv
  <2>3. QED
    BY <2>1, <2>2, InviteAssumption
       DEF ScanInv, CameraFollowsTheDialog, Scanner!CameraFollowsTheDialog
<1>6. ASSUME NEW t \in cameras, Scanner!Acquired(t)
      PROVE  ScanInv'
  <2>1. CASE Scanner!IsCurrent(t)
    BY <1>6, <2>1
       DEF Scanner!Acquired, Scanner!IsCurrent, ScanInv, CameraFollowsTheDialog,
           Scanner!CameraFollowsTheDialog
  <2>2. CASE ~Scanner!IsCurrent(t)
    BY <1>1, <1>6, <2>2 DEF Scanner!Acquired
  <2>3. QED
    BY <2>1, <2>2
<1>7. ASSUME NEW t \in cameras, Scanner!Unavailable(t)
      PROVE  ScanInv'
  <2>1. CASE t = scan
    BY <1>7, <2>1, StopKeeps DEF Scanner!Unavailable
  <2>2. CASE t # scan
    BY <1>1, <1>7, <2>2 DEF Scanner!Unavailable
  <2>3. QED
    BY <2>1, <2>2
<1>8. ASSUME NEW t \in looking, NEW invite \in BOOLEAN, Scanner!Detected(t, invite)
      PROVE  ScanInv'
  <2>1. CASE Scanner!IsCurrent(t) /\ invite
    BY <1>8, <2>1, StopKeeps DEF Scanner!Detected, Scanner!Redeem
  <2>2. CASE ~(Scanner!IsCurrent(t) /\ invite)
    BY <1>1, <1>8, <2>2 DEF Scanner!Detected
  <2>3. QED
    BY <2>1, <2>2
<1>9. QED
  BY <1>2, <1>3, <1>4, <1>5, <1>6, <1>7, <1>8 DEF Scanner!Next

\* The camera is on only for the scan of the open dialog, for any number of scans.
THEOREM CamerasFollowTheDialog == Scanner!Spec => []CameraFollowsTheDialog
<1>1. Scanner!Init => ScanInv
  BY InviteAssumption
     DEF Scanner!Init, ScanInv, CameraFollowsTheDialog, Scanner!CameraFollowsTheDialog
<1>2. ScanInv /\ [Scanner!Next]_Scanner!vars => ScanInv'
  BY ScanStep
<1>3. ScanInv => CameraFollowsTheDialog
  BY DEF ScanInv
<1>4. QED
  BY <1>1, <1>2, <1>3, PTL DEF Scanner!Spec

-------------------------------------------------------------------------------
(* NotificationFeed.                                                       *)

\* What waits for the timer is wanted, also by the time it fires.
QueueInv ==
  \A e \in queued : enabled /\ Category(e) \in categories /\ e \notin withdrawn

LEMMA QueueStep ==
  ASSUME QueueInv, [FeedNext]_feedVars
  PROVE  QueueInv'
<1>1. ASSUME queued' \subseteq queued, UNCHANGED <<categories, withdrawn>>,
             queued' = {} \/ (enabled => enabled')
      PROVE  QueueInv'
  BY <1>1 DEF QueueInv
<1>2. CASE UNCHANGED feedVars
  BY <1>1, <1>2 DEF feedVars, settings, delivery
<1>3. ASSUME NEW e \in Events, Record(e)
      PROVE  QueueInv'
  <2>1. UNCHANGED <<enabled, categories>> /\ withdrawn' = withdrawn \ {e}
    BY <1>3 DEF Record
  <2>2. \/ enabled /\ Category(e) \in categories /\ queued' = queued \union {e}
        \/ queued' \in {queued, {}}
    BY <1>3 DEF Record, Offered, CancelUnless, delivery
  <2>3. QED
    BY <2>1, <2>2 DEF QueueInv
<1>4. CASE ClearAll \/ Flush \/ FeedReload
  BY <1>1, <1>4 DEF ClearAll, Flush, FeedReload, settings, delivery
<1>5. CASE SyncPermission
  BY <1>1, <1>5 DEF SyncPermission, CancelUnless, delivery
<1>6. ASSUME NEW p, BrowserSettings(p) \/ RequestPermission(p)
      PROVE  QueueInv'
  <2>1. UNCHANGED <<queued, categories, withdrawn>>
    BY <1>6 DEF BrowserSettings, RequestPermission, delivery
  <2>2. enabled => enabled'
    BY <1>6 DEF BrowserSettings, RequestPermission
  <2>3. QED
    BY <1>1, <2>1, <2>2
<1>7. ASSUME NEW v \in BOOLEAN, SetEnabled(v)
      PROVE  QueueInv'
  <2>1. UNCHANGED categories
    BY <1>7 DEF SetEnabled
  <2>2. queued' = {} \/ (enabled' /\ UNCHANGED <<queued, withdrawn>>)
    BY <1>7 DEF SetEnabled, delivery
  <2>3. QED
    BY <2>1, <2>2 DEF QueueInv
<1>8. ASSUME NEW c, NEW v \in BOOLEAN, SetCategory(c, v)
      PROVE  QueueInv'
  <2>1. UNCHANGED enabled
    BY <1>8 DEF SetCategory
  <2>2. CASE v
    BY <1>8, <2>1, <2>2 DEF SetCategory, delivery, QueueInv
  <2>3. CASE ~v
    <3>1. /\ categories' = categories \ {c} /\ queued' = {e \in queued : Category(e) # c}
          /\ withdrawn' = withdrawn \union {e \in queued : Category(e) = c}
      BY <1>8, <2>3 DEF SetCategory, StillWanted
    <3>2. QED
      BY <2>1, <3>1 DEF QueueInv
  <2>4. QED
    BY <2>2, <2>3
<1>9. QED
  BY <1>2, <1>3, <1>4, <1>5, <1>6, <1>7, <1>8 DEF FeedNext, Produced

\* A desktop notification holds only what the user wants and the browser lets through, for
\* any events and however settings and permissions change.
THEOREM NotificationsAreWanted == FeedSpec => []ShownIsWanted
<1>1. FeedInit => QueueInv
  BY DEF FeedInit, QueueInv
<1>2. QueueInv /\ [FeedNext]_feedVars => QueueInv'
  BY QueueStep
<1>3. QueueInv => ShownIsWanted
  BY DEF QueueInv, ShownIsWanted, Deliverable
<1>4. QED
  BY <1>1, <1>2, <1>3, PTL DEF FeedSpec

-----------------------------------------------------------------------------
(* NotificationFeed: the newest entries are kept.                          *)

\* The first n elements of a sequence, or all.
Newest(s, n) == SubSeq(s, 1, Min({Len(s), n}))

LEMMA LesserOfTwo == \A a, b \in Nat : Min({a, b}) = IF a <= b THEN a ELSE b
<1> SUFFICES ASSUME NEW a \in Nat, NEW b \in Nat
             PROVE  Min({a, b}) = IF a <= b THEN a ELSE b
  OBVIOUS
<1> DEFINE least == IF a <= b THEN a ELSE b
<1>1. least \in {a, b} /\ \A y \in {a, b} : least <= y
  OBVIOUS
<1>2. \A x \in {a, b} : (\A y \in {a, b} : x <= y) => x = least
  OBVIOUS
<1> HIDE DEF least
<1>3. Min({a, b}) = CHOOSE x \in {a, b} : \A y \in {a, b} : x <= y
  BY Zenon DEF Min
<1>4. Min({a, b}) \in {a, b} /\ \A y \in {a, b} : Min({a, b}) <= y
  BY <1>1, <1>3
<1>5. QED
  BY <1>2, <1>4 DEF least

\* What the first n elements are.
Begins(T, s, n) ==
  /\ Newest(s, n) \in Seq(T)
  /\ Len(Newest(s, n)) = IF Len(s) <= n THEN Len(s) ELSE n
  /\ \A i \in 1..Len(Newest(s, n)) : i <= Len(s) /\ Newest(s, n)[i] = s[i]

LEMMA NewestBegins == \A T : \A s \in Seq(T) : \A n \in Nat : Begins(T, s, n)
<1> SUFFICES ASSUME NEW T, NEW s \in Seq(T), NEW n \in Nat
             PROVE  Begins(T, s, n)
  OBVIOUS
<1> DEFINE m == IF Len(s) <= n THEN Len(s) ELSE n
<1>1. Len(s) \in Nat /\ m \in Nat /\ m <= Len(s)
  OBVIOUS
<1>2. Newest(s, n) = SubSeq(s, 1, m)
  BY <1>1, LesserOfTwo DEF Newest
<1>3. m = IF Len(s) <= n THEN Len(s) ELSE n
  OBVIOUS
<1> HIDE DEF m
<1>4. /\ SubSeq(s, 1, m) \in Seq(T) /\ Len(SubSeq(s, 1, m)) = m
      /\ \A i \in 1..m : SubSeq(s, 1, m)[i] = s[i]
  BY <1>1
<1>5. QED
  BY <1>1, <1>2, <1>3, <1>4 DEF Begins

LEMMA NewestOfNewest ==
  ASSUME NEW T, NEW s \in Seq(T), NEW n \in Nat
  PROVE  Newest(Newest(s, n), n) = Newest(s, n)
<1> DEFINE a == Newest(s, n)
<1>1. Begins(T, s, n)
  BY NewestBegins, Zenon
<1>2. a \in Seq(T) /\ Len(a) <= n
  BY <1>1 DEF Begins
<1> HIDE DEF a
<1>3. Begins(T, a, n)
  BY <1>2, NewestBegins, Zenon
<1>4. Newest(a, n) \in Seq(T) /\ Len(Newest(a, n)) = Len(a)
      /\ \A i \in 1..Len(a) : Newest(a, n)[i] = a[i]
  BY <1>2, <1>3 DEF Begins
<1>5. Newest(a, n) = a
  BY <1>2, <1>4
<1>6. QED
  BY <1>5 DEF a

LEMMA NewestOfAppend ==
  ASSUME NEW T, NEW s \in Seq(T), NEW x \in T, NEW n \in Nat
  PROVE  Newest(Append(s, x), n) = IF Len(s) < n THEN Append(Newest(s, n), x) ELSE Newest(s, n)
<1> DEFINE a == Append(s, x)
           b == Newest(s, n)
           c == Newest(a, n)
<1>1. a \in Seq(T) /\ Len(a) = Len(s) + 1 /\ Len(s) \in Nat
      /\ a[Len(s) + 1] = x /\ \A i \in 1..Len(s) : a[i] = s[i]
  OBVIOUS
<1> HIDE DEF a
<1>2. Begins(T, s, n) /\ Begins(T, a, n)
  BY <1>1, NewestBegins, Zenon
<1>3. /\ b \in Seq(T) /\ c \in Seq(T)
      /\ Len(b) = IF Len(s) <= n THEN Len(s) ELSE n
      /\ Len(c) = IF Len(a) <= n THEN Len(a) ELSE n
      /\ \A i \in 1..Len(b) : i <= Len(s) /\ b[i] = s[i]
      /\ \A i \in 1..Len(c) : i <= Len(a) /\ c[i] = a[i]
  BY <1>2, Zenon DEF Begins
<1> HIDE DEF b, c
<1>4. CASE Len(s) < n
  <2>1. Len(b) = Len(s) /\ Len(c) = Len(s) + 1
    BY <1>1, <1>3, <1>4
  <2>2. Append(b, x) \in Seq(T) /\ Len(Append(b, x)) = Len(s) + 1
        /\ Append(b, x)[Len(s) + 1] = x /\ \A i \in 1..Len(s) : Append(b, x)[i] = b[i]
    BY <1>3, <2>1
  <2>3. \A i \in 1..(Len(s) + 1) : i \in 1..Len(s) \/ i = Len(s) + 1
    BY <1>1
  <2>4. c = Append(b, x)
    BY <1>1, <1>3, <2>1, <2>2, <2>3
  <2>5. QED
    BY <1>4, <2>4 DEF a, b, c
<1>5. CASE ~(Len(s) < n)
  <2>1. Len(b) = n /\ Len(c) = n
    BY <1>1, <1>3, <1>5
  <2>2. c = b
    BY <1>1, <1>3, <2>1
  <2>3. QED
    BY <1>5, <2>2 DEF a, b, c
<1>6. QED
  BY <1>4, <1>5

\* Sequences that agree on their first n - 1 elements, behind one more.
LEMMA NewestBehind ==
  ASSUME NEW T, NEW a \in Seq(T), NEW b \in Seq(T), NEW x \in T, NEW n \in Nat,
         Len(a) = Len(b) \/ (Len(a) + 1 >= n /\ Len(b) + 1 >= n),
         \A i \in 1..Len(a) : i < n /\ i <= Len(b) => a[i] = b[i]
  PROVE  Newest(<<x>> \o a, n) = Newest(<<x>> \o b, n)
<1> DEFINE xa == <<x>> \o a
           xb == <<x>> \o b
           na == Newest(xa, n)
           nb == Newest(xb, n)
<1>1. /\ xa \in Seq(T) /\ Len(xa) = Len(a) + 1 /\ Len(a) \in Nat
      /\ xa[1] = x /\ \A i \in 2..(Len(a) + 1) : xa[i] = a[i - 1]
      /\ xb \in Seq(T) /\ Len(xb) = Len(b) + 1 /\ Len(b) \in Nat
      /\ xb[1] = x /\ \A i \in 2..(Len(b) + 1) : xb[i] = b[i - 1]
  OBVIOUS
<1> HIDE DEF xa, xb
<1>2. Begins(T, xa, n) /\ Begins(T, xb, n)
  BY <1>1, NewestBegins, Zenon
<1>3. /\ na \in Seq(T) /\ nb \in Seq(T)
      /\ Len(na) = IF Len(xa) <= n THEN Len(xa) ELSE n
      /\ Len(nb) = IF Len(xb) <= n THEN Len(xb) ELSE n
      /\ \A i \in 1..Len(na) : i <= Len(xa) /\ na[i] = xa[i]
      /\ \A i \in 1..Len(nb) : i <= Len(xb) /\ nb[i] = xb[i]
  BY <1>2, Zenon DEF Begins
<1> HIDE DEF na, nb
<1>4. Len(na) = Len(nb)
  BY <1>1, <1>3
<1>5. ASSUME NEW i \in 1..Len(na)
      PROVE  na[i] = nb[i]
  <2>1. na[i] = xa[i] /\ nb[i] = xb[i] /\ i <= Len(xa) /\ i <= Len(xb) /\ i <= n /\ i \in Nat
    BY <1>1, <1>3, <1>4
  <2>2. CASE i = 1
    BY <1>1, <2>1, <2>2
  <2>3. CASE i # 1
    <3>1. i \in 2..(Len(a) + 1) /\ i \in 2..(Len(b) + 1) /\ i - 1 \in 1..Len(a)
          /\ i - 1 < n /\ i - 1 <= Len(b)
      BY <1>1, <2>1, <2>3
    <3>2. QED
      BY <1>1, <2>1, <3>1
  <2>4. QED
    BY <2>2, <2>3
<1>6. na = nb
  BY <1>3, <1>4, <1>5
<1>7. QED
  BY <1>6 DEF xa, xb, na, nb

\* To move an element to the front of what was cut off at n, or of all: the first n
\* elements are the same.
LEMMA NewestOfMoved ==
  ASSUME NEW T, NEW s \in Seq(T), Distinct(s), NEW x \in T, NEW n \in Nat \ {0}
  PROVE  Newest(<<x>> \o Without(Newest(s, n), x), n) = Newest(<<x>> \o Without(s, x), n)
<1> DEFINE t == Newest(s, n)
           a == Without(t, x)
           b == Without(s, x)
<1>1. Begins(T, s, n)
  BY NewestBegins, Zenon
<1>2. /\ t \in Seq(T) /\ Len(t) = (IF Len(s) <= n THEN Len(s) ELSE n)
      /\ \A i \in 1..Len(t) : i <= Len(s) /\ t[i] = s[i]
  BY <1>1, Zenon DEF Begins
<1>3. Len(s) \in Nat /\ Len(t) \in Nat
  BY <1>2
<1> HIDE DEF t
<1>4. Distinct(t)
  BY <1>2, <1>3 DEF Distinct
<1>5. ASSUME NEW r \in Seq(T), x \notin Elements(r)
      PROVE  Without(r, x) = r
  <2>1. Elements(r) \subseteq Elements(r) \ {x}
    BY <1>5
  <2>2. QED
    BY <2>1, OnlyOfAll DEF Without
<1>6. /\ a \in Seq(T) /\ b \in Seq(T)
      /\ Len(a) = Len(b) \/ (Len(a) + 1 >= n /\ Len(b) + 1 >= n)
      /\ \A i \in 1..Len(a) : i < n /\ i <= Len(b) => a[i] = b[i]
  <2>1. CASE x \notin Elements(s)
    <3>1. x \notin Elements(t)
      BY <1>2, <1>3, <2>1 DEF Elements
    <3>2. a = t /\ b = s
      BY <1>2, <1>5, <2>1, <3>1
    <3> HIDE DEF a, b
    <3>3. QED
      BY <1>2, <1>3, <3>2
  <2>2. CASE x \in Elements(s)
    <3>1. PICK p \in 1..Len(s) : x = s[p]
      BY <2>2 DEF Elements
    <3>2. /\ b \in Seq(T) /\ Len(b) = Len(s) - 1
          /\ \A i \in 1..(Len(s) - 1) : b[i] = IF i < p THEN s[i] ELSE s[i + 1]
      <4>1. /\ Without(s, s[p]) \in Seq(T) /\ Len(Without(s, s[p])) = Len(s) - 1
            /\ \A i \in 1..(Len(s) - 1) :
                 Without(s, s[p])[i] = IF i < p THEN s[i] ELSE s[i + 1]
        BY WithoutAt
      <4>2. QED
        BY <3>1, <4>1
    <3>3. CASE p <= Len(t)
      <4>1. p \in 1..Len(t) /\ x = t[p]
        BY <1>2, <1>3, <3>1, <3>3
      <4>2. /\ a \in Seq(T) /\ Len(a) = Len(t) - 1
            /\ \A i \in 1..(Len(t) - 1) : a[i] = IF i < p THEN t[i] ELSE t[i + 1]
        <5>1. /\ Without(t, t[p]) \in Seq(T) /\ Len(Without(t, t[p])) = Len(t) - 1
              /\ \A i \in 1..(Len(t) - 1) :
                   Without(t, t[p])[i] = IF i < p THEN t[i] ELSE t[i + 1]
          BY <1>2, <1>4, <4>1, WithoutAt
        <5>2. QED
          BY <4>1, <5>1
      <4> HIDE DEF a, b
      <4>3. Len(a) = Len(b) \/ (Len(a) + 1 >= n /\ Len(b) + 1 >= n)
        BY <1>2, <1>3, <3>2, <4>2
      <4>4. ASSUME NEW i \in 1..Len(a), i < n, i <= Len(b)
            PROVE  a[i] = b[i]
        <5>1. i \in 1..(Len(t) - 1) /\ i \in 1..(Len(s) - 1) /\ i \in 1..Len(t) /\ i + 1 \in 1..Len(t)
          BY <1>3, <3>2, <4>2, <4>4
        <5>2. t[i] = s[i] /\ t[i + 1] = s[i + 1]
          BY <1>2, <5>1
        <5>3. QED
          BY <3>2, <4>2, <5>1, <5>2
      <4>5. QED
        BY <3>2, <4>2, <4>3, <4>4
    <3>4. CASE p > Len(t)
      <4>1. x \notin Elements(t)
        <5>1. \A i \in 1..Len(t) : i \in 1..Len(s) /\ i # p /\ t[i] = s[i]
          BY <1>2, <1>3, <3>4
        <5>2. \A i \in 1..Len(t) : t[i] # x
          BY <3>1, <5>1 DEF Distinct
        <5>3. QED
          BY <5>2 DEF Elements
      <4>2. a = t
        BY <1>2, <1>5, <4>1
      <4> HIDE DEF a, b
      <4>3. Len(t) = n /\ Len(s) > n
        BY <1>2, <1>3, <3>1, <3>4
      <4>4. ASSUME NEW i \in 1..Len(a), i < n, i <= Len(b)
            PROVE  a[i] = b[i]
        <5>1. i \in 1..(Len(s) - 1) /\ i < p /\ i \in 1..Len(t)
          BY <1>3, <3>2, <3>4, <4>2, <4>3, <4>4
        <5>2. QED
          BY <1>2, <3>2, <4>2, <5>1
      <4>5. QED
        BY <1>2, <1>3, <3>2, <4>2, <4>3, <4>4
    <3>5. QED
      BY <1>3, <3>1, <3>3, <3>4
  <2>3. QED
    BY <2>1, <2>2
<1> HIDE DEF a, b
<1>7. Newest(<<x>> \o a, n) = Newest(<<x>> \o b, n)
  BY <1>6, NewestBehind
<1>8. QED
  BY <1>7 DEF t, a, b

Ordinary == Events \ Invitations

\* How many of the first n entries are not invitations, and the entries that are kept.
OrdinaryUpTo(y, n) == Cardinality({j \in 1..n : y[j] \notin Invitations})
KeptOf(y) ==
  {y[i] : i \in {k \in 1..Len(y) : y[k] \in Invitations \/ OrdinaryUpTo(y, k) <= MaxHistory}}

LEMMA TrimmedIsOnly == \A y : Trimmed(y) = Only(y, KeptOf(y))
BY DEF Trimmed, KeptOf, OrdinaryUpTo

LEMMA OneMoreOrdinary ==
  \A y : \A n \in Nat :
    /\ OrdinaryUpTo(y, 0) = 0
    /\ y[n + 1] \in Invitations => OrdinaryUpTo(y, n + 1) = OrdinaryUpTo(y, n)
    /\ y[n + 1] \notin Invitations => OrdinaryUpTo(y, n + 1) = OrdinaryUpTo(y, n) + 1
<1> SUFFICES ASSUME NEW y, NEW n \in Nat
             PROVE  /\ OrdinaryUpTo(y, 0) = 0
                    /\ y[n + 1] \in Invitations => OrdinaryUpTo(y, n + 1) = OrdinaryUpTo(y, n)
                    /\ y[n + 1] \notin Invitations
                         => OrdinaryUpTo(y, n + 1) = OrdinaryUpTo(y, n) + 1
  OBVIOUS
<1> DEFINE These(k) == {j \in 1..k : y[j] \notin Invitations}
<1>1. OrdinaryUpTo(y, 0) = 0
  <2>1. These(0) = {}
    OBVIOUS
  <2>2. QED
    BY <2>1, FS_EmptySet DEF OrdinaryUpTo
<1>2. IsFiniteSet(These(n))
  <2>1. IsFiniteSet(1..n) /\ These(n) \subseteq 1..n
    BY FS_Interval
  <2>2. QED
    BY <2>1, FS_Subset
<1>3. n + 1 \notin These(n)
  OBVIOUS
<1>4. ASSUME y[n + 1] \in Invitations
      PROVE  These(n + 1) = These(n)
  BY <1>4
<1>5. ASSUME y[n + 1] \notin Invitations
      PROVE  These(n + 1) = These(n) \union {n + 1}
  BY <1>5
<1>6. OrdinaryUpTo(y, n) = Cardinality(These(n)) /\ OrdinaryUpTo(y, n + 1) = Cardinality(These(n + 1))
  BY DEF OrdinaryUpTo
<1> HIDE DEF These
<1>7. Cardinality(These(n) \union {n + 1}) = Cardinality(These(n)) + 1
  BY <1>2, <1>3, FS_AddElement
<1>8. QED
  BY <1>1, <1>4, <1>5, <1>6, <1>7

\* A trimmed feed has, of the entries that are not invitations, the first MaxHistory.
LEMMA TrimmedIsNewest ==
  ASSUME NEW y \in Seq(Events), Distinct(y)
  PROVE  Only(Trimmed(y), Ordinary) = Newest(Only(y, Ordinary), MaxHistory)
<1> DEFINE R == KeptOf(y) \intersect Ordinary
           K == Kept(y, Ordinary)
           B == Kept(y, R)
           G == {n \in 0..Len(y) : B[n] = Newest(K[n], MaxHistory) /\ Len(K[n]) = OrdinaryUpTo(y, n)}
<1>0. MaxHistory \in Nat
  BY FeedAssumption
<1>1. 0 \in G
  <2>1. K[0] = <<>> /\ B[0] = <<>> /\ 0 \in 0..Len(y)
    BY KeptOfNone
  <2>2. OrdinaryUpTo(y, 0) = 0
    <3>1. 0 \in Nat
      OBVIOUS
    <3>2. QED
      BY <3>1, OneMoreOrdinary, Zenon
  <2>3. Newest(<<>>, MaxHistory) = <<>>
    <3>1. <<>> \in Seq(Events) /\ Len(<<>>) = 0
      OBVIOUS
    <3>2. Begins(Events, <<>>, MaxHistory)
      BY <1>0, <3>1, NewestBegins, Zenon
    <3>3. Newest(<<>>, MaxHistory) \in Seq(Events) /\ Len(Newest(<<>>, MaxHistory)) = 0
      BY <1>0, <3>1, <3>2 DEF Begins
    <3>4. QED
      BY <3>3
  <2>4. Len(<<>>) = 0
    OBVIOUS
  <2> HIDE DEF K, B
  <2>5. QED
    BY <2>1, <2>2, <2>3, <2>4
<1>2. ASSUME NEW n \in 0..Len(y), n < Len(y), n \in G
      PROVE  n + 1 \in G
  <2> DEFINE x == y[n + 1]
             o == OrdinaryUpTo(y, n)
  <2>1. Grows(y, Ordinary, n) /\ Grows(y, R, n) /\ KeptFits(Events, y, Ordinary, n)
    BY <1>2, KeptNext, KeptKeeps, Zenon
  <2>2. /\ n + 1 \in 0..Len(y) /\ n + 1 \in 1..Len(y) /\ n \in Nat
        /\ x \in Events /\ (x \in Ordinary <=> x \notin Invitations)
    BY <1>2 DEF Ordinary
  <2>3. /\ K[n] \in Seq(Events)
        /\ x \in Ordinary => K[n + 1] = Append(K[n], x)
        /\ x \notin Ordinary => K[n + 1] = K[n]
    BY <2>1, Zenon DEF KeptFits, Grows
  <2>4. /\ x \in R => B[n + 1] = Append(B[n], x)
        /\ x \notin R => B[n + 1] = B[n]
    BY <2>1, Zenon DEF Grows
  <2>5. /\ x \in Invitations => OrdinaryUpTo(y, n + 1) = o
        /\ x \notin Invitations => OrdinaryUpTo(y, n + 1) = o + 1
    BY <2>2, OneMoreOrdinary, Zenon
  <2>6. B[n] = Newest(K[n], MaxHistory) /\ Len(K[n]) = o
    BY <1>2
  <2>7. x \in KeptOf(y) <=> (x \in Invitations \/ OrdinaryUpTo(y, n + 1) <= MaxHistory)
    <3>1. \A i \in 1..Len(y) : y[i] = y[n + 1] => i = n + 1
      BY <2>2 DEF Distinct
    <3>2. QED
      BY <2>2, <3>1 DEF KeptOf
  <2>8. x \in R <=> x \in Ordinary /\ OrdinaryUpTo(y, n + 1) <= MaxHistory
    BY <2>2, <2>7
  <2>9. Newest(Append(K[n], x), MaxHistory)
          = IF Len(K[n]) < MaxHistory THEN Append(Newest(K[n], MaxHistory), x)
            ELSE Newest(K[n], MaxHistory)
    BY <1>0, <2>2, <2>3, NewestOfAppend
  <2> HIDE DEF K, B, R, x, o
  <2>10. Len(K[n]) \in Nat /\ (x \in Ordinary => Len(Append(K[n], x)) = Len(K[n]) + 1)
    BY <2>2, <2>3
  <2>11. B[n + 1] = Newest(K[n + 1], MaxHistory) /\ Len(K[n + 1]) = OrdinaryUpTo(y, n + 1)
    <3>1. CASE x \in Ordinary
      <4>1. OrdinaryUpTo(y, n + 1) = Len(K[n]) + 1
        BY <2>2, <2>5, <2>6, <3>1
      <4>2. x \in R <=> Len(K[n]) < MaxHistory
        BY <1>0, <2>8, <2>10, <3>1, <4>1
      <4>3. QED
        BY <2>3, <2>4, <2>6, <2>9, <2>10, <3>1, <4>1, <4>2
    <3>2. CASE x \notin Ordinary
      BY <2>2, <2>3, <2>4, <2>5, <2>6, <2>8, <3>2
    <3>3. QED
      BY <3>1, <3>2
  <2>12. QED
    BY <2>2, <2>11
<1>3. 0..Len(y) \subseteq G
  <2>1. \A n \in 0..Len(y) : n < Len(y) /\ n \in G => n + 1 \in G
    BY <1>2
  <2> HIDE DEF G
  <2>2. QED
    BY <1>1, <2>1, UpToLength
<1>4. B[Len(y)] = Newest(K[Len(y)], MaxHistory)
  <2>1. Len(y) \in 0..Len(y)
    OBVIOUS
  <2> HIDE DEF K, B
  <2>2. QED
    BY <1>3, <2>1
<1>5. Only(y, R) = Newest(Only(y, Ordinary), MaxHistory)
  BY <1>4, OnlyIsKept, Zenon
<1>6. Only(Only(y, KeptOf(y)), Ordinary) = Only(y, R)
  BY OnlyOfOnly
<1>7. QED
  BY <1>5, <1>6, TrimmedIsOnly, Zenon

\* To record an event: each is in the list once, and so are those that are not
\* invitations.
LEMMA FirstIsMoved ==
  ASSUME NEW y \in Seq(Events), Distinct(y), NEW e \in Events
  PROVE  /\ WithFirst(e, y) \in Seq(Events) /\ Distinct(WithFirst(e, y))
         /\ Elements(WithFirst(e, y)) = Elements(y) \union {e}
         /\ e \in Ordinary
              => Only(WithFirst(e, y), Ordinary) = <<e>> \o Without(Only(y, Ordinary), e)
         /\ e \notin Ordinary => Only(WithFirst(e, y), Ordinary) = Only(y, Ordinary)
<1> DEFINE a == Without(y, e)
           w == WithFirst(e, y)
           f == Only(y, Ordinary)
<1>1. a \in Seq(Events) /\ Elements(a) = Elements(y) \ {e}
  BY OnlyKeeps DEF Without
<1>2. Distinct(a)
  BY OnlyIsDistinct DEF Without
<1>3. w = <<e>> \o a
  BY DEF WithFirst
<1>4. f \in Seq(Events) /\ Elements(f) = Elements(y) \intersect Ordinary
  BY OnlyKeeps
<1>5. Only(a, Ordinary) = Only(y, (Elements(y) \ {e}) \intersect Ordinary)
  BY OnlyOfOnly DEF Without
<1>6. Without(f, e) = Only(y, Ordinary \intersect (Elements(f) \ {e}))
  BY OnlyOfOnly DEF Without
<1>7. Only(w, Ordinary) = (IF e \in Ordinary THEN <<e>> ELSE <<>>) \o Only(a, Ordinary)
  <2> HIDE DEF a, w
  <2>1. Only(<<e>> \o a, Ordinary) = (IF e \in Ordinary THEN <<e>> ELSE <<>>) \o Only(a, Ordinary)
    BY <1>1, OnlyBehind
  <2>2. QED
    BY <1>3, <2>1, Zenon
<1>8. Ordinary \intersect (Elements(f) \ {e}) = (Elements(y) \ {e}) \intersect Ordinary
  BY <1>4, Zenon
<1>9. Only(a, Ordinary) = Without(f, e)
  BY <1>5, <1>6, <1>8, Zenon
<1>10. e \notin Ordinary => Only(a, Ordinary) = f
  <2>1. ASSUME e \notin Ordinary
        PROVE  Elements(y) \intersect ((Elements(y) \ {e}) \intersect Ordinary)
                 = Elements(y) \intersect Ordinary
    BY <2>1
  <2>2. ASSUME e \notin Ordinary
        PROVE  Only(y, (Elements(y) \ {e}) \intersect Ordinary) = Only(y, Ordinary)
    BY <2>1, <2>2, OnlyOfTheSame
  <2>3. QED
    BY <1>5, <2>2, Zenon
<1>11. e \in Ordinary => Only(w, Ordinary) = <<e>> \o Without(f, e)
  BY <1>7, <1>9, Zenon
<1>12. e \notin Ordinary => Only(w, Ordinary) = f
  <2> HIDE DEF f, w
  <2>1. <<>> \o f = f
    BY <1>4
  <2>2. QED
    BY <1>7, <1>10, <2>1
<1>13. w \in Seq(Events) /\ Distinct(w) /\ Elements(w) = Elements(y) \union {e}
  <2> HIDE DEF a, w
  <2>1. /\ w \in Seq(Events) /\ Len(w) = Len(a) + 1 /\ Len(a) \in Nat /\ w[1] = e
        /\ \A i \in 2..(Len(a) + 1) : w[i] = a[i - 1]
    BY <1>1, <1>3
  <2>2. \A i \in 1..(Len(a) + 1) : i = 1 \/ (i \in 2..(Len(a) + 1) /\ i - 1 \in 1..Len(a))
    BY <2>1
  <2>3. \A i \in 1..Len(a) : a[i] # e
    BY <1>1 DEF Elements
  <2>4. Distinct(w)
    <3>1. ASSUME NEW i \in 1..Len(w), NEW j \in 1..Len(w), w[i] = w[j]
          PROVE  i = j
      <4>1. CASE i = 1 \/ j = 1
        BY <2>1, <2>2, <2>3, <3>1, <4>1
      <4>2. CASE i # 1 /\ j # 1
        <5>1. /\ i - 1 \in 1..Len(a) /\ j - 1 \in 1..Len(a)
              /\ w[i] = a[i - 1] /\ w[j] = a[j - 1]
          BY <2>1, <2>2, <4>2
        <5>2. i - 1 = j - 1
          BY <1>2, <3>1, <5>1, Zenon DEF Distinct
        <5>3. QED
          BY <5>1, <5>2
      <4>3. QED
        BY <4>1, <4>2
    <3>2. QED
      BY <3>1, Zenon DEF Distinct
  <2>5. Elements(w) = Elements(a) \union {e}
    <3>1. \A i \in 1..Len(w) : w[i] = e \/ w[i] \in Elements(a)
      BY <2>1, <2>2 DEF Elements
    <3>2. \A i \in 1..Len(a) : i + 1 \in 1..Len(w) /\ w[i + 1] = a[i]
      BY <2>1
    <3>3. 1 \in 1..Len(w) /\ w[1] = e
      BY <2>1
    <3>4. Elements(w) \subseteq Elements(a) \union {e}
      BY <3>1 DEF Elements
    <3>5. Elements(a) \subseteq Elements(w) /\ e \in Elements(w)
      BY <3>2, <3>3 DEF Elements
    <3>6. QED
      BY <3>4, <3>5
  <2>6. QED
    BY <1>1, <2>1, <2>4, <2>5
<1>14. QED
  BY <1>11, <1>12, <1>13

\* To trim leaves a list of distinct events, and every invitation.
LEMMA TrimmedKeeps ==
  ASSUME NEW y \in Seq(Events), Distinct(y)
  PROVE  /\ Trimmed(y) \in Seq(Events) /\ Distinct(Trimmed(y))
         /\ Elements(y) \intersect Invitations \subseteq Elements(Trimmed(y))
<1>1. /\ Only(y, KeptOf(y)) \in Seq(Events)
      /\ Elements(Only(y, KeptOf(y))) = Elements(y) \intersect KeptOf(y)
  BY OnlyKeeps
<1>2. Distinct(Only(y, KeptOf(y)))
  BY OnlyIsDistinct
<1>3. Elements(y) \intersect Invitations \subseteq KeptOf(y)
  BY DEF Elements, KeptOf
<1>4. QED
  BY <1>1, <1>2, <1>3, TrimmedIsOnly

\* The invariant: the feed is the list of all events, cut off.
Lists ==
  /\ feed \in Seq(Events) /\ Distinct(feed)
  /\ latest \in Seq(Events) /\ Distinct(latest)
CutOff == Only(feed, Ordinary) = Newest(Only(latest, Ordinary), MaxHistory)
Invited == Elements(latest) \intersect Invitations \subseteq Elements(feed)
FeedInv == Lists /\ CutOff /\ Invited

LEMMA FeedStarts == FeedInit => FeedInv
<1> SUFFICES ASSUME FeedInit PROVE FeedInv
  OBVIOUS
<1>1. feed = <<>> /\ latest = <<>>
  BY DEF FeedInit
<1>2. <<>> \in Seq(Events) /\ Distinct(<<>>) /\ Elements(<<>>) = {} /\ Len(<<>>) = 0
  BY DEF Distinct, Elements
<1>3. Only(<<>>, Ordinary) = <<>>
  BY <1>2, OnlyOfAll
<1>4. Newest(<<>>, MaxHistory) = <<>>
  <2>1. Begins(Events, <<>>, MaxHistory)
    BY <1>2, FeedAssumption, NewestBegins, Zenon
  <2>2. Newest(<<>>, MaxHistory) \in Seq(Events) /\ Len(Newest(<<>>, MaxHistory)) = 0
    BY <1>2, <2>1, FeedAssumption DEF Begins
  <2>3. QED
    BY <2>2
<1>5. QED
  BY <1>1, <1>2, <1>3, <1>4 DEF FeedInv, Lists, CutOff, Invited

LEMMA RecordKeepsNewest ==
  ASSUME FeedInv, NEW e \in Events, Record(e)
  PROVE  FeedInv'
<1> DEFINE N == MaxHistory
           w == WithFirst(e, feed)
           z == WithFirst(e, latest)
           F == Only(feed, Ordinary)
           L == Only(latest, Ordinary)
<1>0. N \in Nat \ {0}
  BY FeedAssumption
<1>1. feed' = Trimmed(w) /\ latest' = z
  BY DEF Record
<1>2. Lists /\ CutOff /\ Invited
  BY DEF FeedInv
<1>3. /\ w \in Seq(Events) /\ Distinct(w) /\ Elements(w) = Elements(feed) \union {e}
      /\ e \in Ordinary => Only(w, Ordinary) = <<e>> \o Without(F, e)
      /\ e \notin Ordinary => Only(w, Ordinary) = F
  BY <1>2, FirstIsMoved DEF Lists
<1>4. /\ z \in Seq(Events) /\ Distinct(z) /\ Elements(z) = Elements(latest) \union {e}
      /\ e \in Ordinary => Only(z, Ordinary) = <<e>> \o Without(L, e)
      /\ e \notin Ordinary => Only(z, Ordinary) = L
  BY <1>2, FirstIsMoved DEF Lists
<1>5. L \in Seq(Events) /\ Distinct(L)
  BY <1>2, OnlyKeeps, OnlyIsDistinct DEF Lists
<1>6. F = Newest(L, N)
  BY <1>2 DEF CutOff
<1> HIDE DEF N, w, z, F, L
<1>7. /\ Trimmed(w) \in Seq(Events) /\ Distinct(Trimmed(w))
      /\ Elements(w) \intersect Invitations \subseteq Elements(Trimmed(w))
      /\ Only(Trimmed(w), Ordinary) = Newest(Only(w, Ordinary), N)
  BY <1>3, TrimmedKeeps, TrimmedIsNewest DEF N
<1>8. Only(Trimmed(w), Ordinary) = Newest(Only(z, Ordinary), N)
  <2>1. CASE e \in Ordinary
    <3>1. Newest(<<e>> \o Without(F, e), N) = Newest(<<e>> \o Without(L, e), N)
      BY <1>0, <1>5, <1>6, NewestOfMoved
    <3>2. QED
      BY <1>3, <1>4, <1>7, <2>1, <3>1, Zenon
  <2>2. CASE e \notin Ordinary
    <3>1. Newest(Newest(L, N), N) = Newest(L, N)
      BY <1>0, <1>5, NewestOfNewest
    <3>2. QED
      BY <1>3, <1>4, <1>6, <1>7, <2>2, <3>1, Zenon
  <2>3. QED
    BY <2>1, <2>2
<1>9. CutOff'
  BY <1>1, <1>8, Zenon DEF CutOff, N
<1>10. Lists'
  BY <1>1, <1>4, <1>7 DEF Lists
<1>11. Invited'
  <2>1. Elements(z) \intersect Invitations \subseteq Elements(w) \intersect Invitations
    BY <1>2, <1>3, <1>4 DEF Invited
  <2>2. QED
    BY <1>1, <1>7, <2>1 DEF Invited
<1>12. QED
  BY <1>9, <1>10, <1>11 DEF FeedInv

LEMMA ReloadKeepsNewest ==
  ASSUME FeedInv, FeedReload
  PROVE  FeedInv'
<1> DEFINE L == Only(latest, Ordinary)
<1>1. Lists /\ CutOff /\ Invited /\ feed' = Trimmed(feed) /\ latest' = latest
  BY DEF FeedInv, FeedReload, Restored
<1>2. L \in Seq(Events)
  BY <1>1, OnlyKeeps DEF Lists
<1>3. /\ Trimmed(feed) \in Seq(Events) /\ Distinct(Trimmed(feed))
      /\ Elements(feed) \intersect Invitations \subseteq Elements(Trimmed(feed))
      /\ Only(Trimmed(feed), Ordinary) = Newest(Only(feed, Ordinary), MaxHistory)
  BY <1>1, TrimmedKeeps, TrimmedIsNewest DEF Lists
<1>4. Only(feed, Ordinary) = Newest(L, MaxHistory)
  BY <1>1 DEF CutOff
<1>5. Newest(Newest(L, MaxHistory), MaxHistory) = Newest(L, MaxHistory)
  <2> HIDE DEF L
  <2>1. QED
    BY <1>2, FeedAssumption, NewestOfNewest
<1>6. CutOff'
  BY <1>1, <1>3, <1>4, <1>5, Zenon DEF CutOff
<1>7. Lists' /\ Invited'
  BY <1>1, <1>3 DEF Lists, Invited
<1>8. QED
  BY <1>6, <1>7 DEF FeedInv

LEMMA FeedStep == FeedInv /\ [FeedNext]_feedVars => FeedInv'
<1> SUFFICES ASSUME FeedInv, [FeedNext]_feedVars PROVE FeedInv'
  OBVIOUS
<1> DEFINE Same == feed' = feed /\ latest' = latest
<1>1. ASSUME Same
      PROVE  FeedInv'
  BY <1>1 DEF FeedInv, Lists, CutOff, Invited
<1>2. CASE Produced
  <2>1. PICK e \in Events : Record(e)
    BY <1>2 DEF Produced
  <2>2. QED
    BY <2>1, RecordKeepsNewest
<1>3. CASE ClearAll
  <2>1. feed' = <<>> /\ latest' = <<>>
    BY <1>3 DEF ClearAll
  <2>2. <<>> \in Seq(Events) /\ Distinct(<<>>) /\ Elements(<<>>) = {} /\ Len(<<>>) = 0
    BY DEF Distinct, Elements
  <2>3. Only(<<>>, Ordinary) = <<>>
    BY <2>2, OnlyOfAll
  <2>4. Newest(<<>>, MaxHistory) = <<>>
    <3>1. Begins(Events, <<>>, MaxHistory)
      BY <2>2, FeedAssumption, NewestBegins, Zenon
    <3>2. Newest(<<>>, MaxHistory) \in Seq(Events) /\ Len(Newest(<<>>, MaxHistory)) = 0
      BY <2>2, <3>1, FeedAssumption DEF Begins
    <3>3. QED
      BY <3>2
  <2>5. QED
    BY <2>1, <2>2, <2>3, <2>4 DEF FeedInv, Lists, CutOff, Invited
<1>4. CASE SyncPermission
  BY <1>1, <1>4 DEF SyncPermission
<1>5. CASE Flush
  BY <1>1, <1>5 DEF Flush
<1>6. CASE FeedReload
  BY <1>6, ReloadKeepsNewest
<1>7. CASE \E p \in {"default", "granted", "denied"} : BrowserSettings(p)
  BY <1>1, <1>7 DEF BrowserSettings
<1>8. CASE \E a \in {"granted", "denied"} : RequestPermission(a)
  BY <1>1, <1>8 DEF RequestPermission
<1>9. CASE \E v \in BOOLEAN : SetEnabled(v)
  BY <1>1, <1>9 DEF SetEnabled
<1>10. CASE \E e \in Events, v \in BOOLEAN : SetCategory(Category(e), v)
  BY <1>1, <1>10 DEF SetCategory
<1>11. CASE UNCHANGED feedVars
  BY <1>1, <1>11 DEF feedVars
<1>12. QED
  BY <1>2, <1>3, <1>4, <1>5, <1>6, <1>7, <1>8, <1>9, <1>10, <1>11 DEF FeedNext

LEMMA CutOffIsNewest == FeedInv => NewestAreKept
<1> SUFFICES ASSUME FeedInv PROVE NewestAreKept
  OBVIOUS
<1>1. Lists /\ CutOff /\ Invited
  BY DEF FeedInv
<1>2. ToSet(feed) = Elements(feed) /\ ToSet(latest) = Elements(latest)
  BY <1>1 DEF ToSet, Elements, Lists
<1>3. Only(feed, Ordinary)
        = SubSeq(Only(latest, Ordinary), 1, Min({Len(Only(latest, Ordinary)), MaxHistory}))
  BY <1>1, Zenon DEF CutOff, Newest
<1>4. ToSet(latest) \intersect Invitations \subseteq ToSet(feed)
  BY <1>1, <1>2 DEF Invited
<1>5. QED
  BY <1>3, <1>4, Zenon DEF NewestAreKept, Ordinary

\* However often entries are trimmed, come back or move to the front, the feed is what a
\* list of all events since it was cleared would show: all invitations, and the newest
\* MaxHistory of the other events in their order (record, trimFeedEntries, readFeed).
THEOREM NewestEntriesAreKept == FeedSpec => []NewestAreKept
<1>1. FeedInit => FeedInv
  BY FeedStarts
<1>2. FeedInv /\ [FeedNext]_feedVars => FeedInv'
  BY FeedStep
<1>3. FeedInv => NewestAreKept
  BY CutOffIsNewest
<1>4. QED
  BY <1>1, <1>2, <1>3, PTL DEF FeedSpec

-------------------------------------------------------------------------------
(* RoomReading: the unread count.                                          *)

Fields == {"messages", "inline", "reactions", "pending", "cursor", "unread", "baseline"}

Came(r, d) == IF r.baseline THEN r.messages \intersect Room!Foreign(d) ELSE {}

\* The count of a copy of the room lies between what was acknowledged at all and what
\* was acknowledged by a session.
CountsWhatCame(d, r, k) ==
  /\ DOMAIN r = Fields
  /\ IsFiniteSet(r.messages) /\ r.unread \in Nat /\ r.baseline \in BOOLEAN
  /\ Room!Unread(r) <= Cardinality(Came(r, d) \ k.session)
  /\ Room!Unread(r) >= Cardinality(Came(r, d) \ (k.session \union k.cached))

\* Of a device, with the room in memory, the stored one, its session and what it has
\* acknowledged: both copies count, what a session has acknowledged is stored, what is
\* stored is in memory, and a pull counts if there was a baseline.
DeviceInv(d, r, s, v, k) ==
  /\ DOMAIN k = {"session", "cached"}
  /\ CountsWhatCame(d, r, k) /\ CountsWhatCame(d, s, k)
  /\ k.session \subseteq s.messages /\ s.messages \subseteq r.messages
  /\ v.pc = "pull" => v.counts = r.baseline

ReadingInv ==
  /\ DOMAIN inMemory = Room!Devices /\ DOMAIN saved = Room!Devices
  /\ DOMAIN session = Room!Devices /\ DOMAIN read = Room!Devices
  /\ \A d \in Room!Devices :
       /\ DOMAIN session[d] = DOMAIN Room!NewSession
       /\ DeviceInv(d, inMemory[d], saved[d], session[d], read[d])

\* Two copies have the same messages and the same count.
Alike(r, q) ==
  /\ DOMAIN r = DOMAIN q
  /\ r.messages = q.messages /\ r.unread = q.unread /\ r.baseline = q.baseline

LEMMA AlikeCounts ==
  ASSUME NEW d, NEW r, NEW q, NEW k, CountsWhatCame(d, q, k), Alike(r, q)
  PROVE  CountsWhatCame(d, r, k)
BY DEF CountsWhatCame, Alike, Came, Room!Unread

\* Nothing is unread when a session has acknowledged all.
LEMMA NothingIsUnread ==
  ASSUME NEW d, NEW r, NEW k, DOMAIN r = Fields, IsFiniteSet(r.messages), r.unread = 0,
         r.baseline \in BOOLEAN, r.messages \subseteq k.session \union k.cached
  PROVE  CountsWhatCame(d, r, k)
<1>1. Came(r, d) \ (k.session \union k.cached) = {}
  BY DEF Came
<1>2. IsFiniteSet(Came(r, d) \ k.session)
  BY FS_Subset DEF Came
<1>3. Cardinality(Came(r, d) \ k.session) \in Nat /\ Cardinality({}) = 0
  BY <1>2, FS_CardinalityType, FS_EmptySet
<1>4. Room!Unread(r) = 0
  BY DEF Room!Unread
<1>5. QED
  BY <1>1, <1>3, <1>4 DEF CountsWhatCame

\* A later acknowledgement without a session changes nothing of the room in memory.
LEMMA CachedIsMore ==
  ASSUME NEW d, NEW r, NEW k, NEW j, CountsWhatCame(d, r, k),
         j.session = k.session, k.cached \subseteq j.cached
  PROVE  CountsWhatCame(d, r, j)
<1> DEFINE more == Came(r, d) \ (k.session \union k.cached)
           less == Came(r, d) \ (j.session \union j.cached)
<1>1. IsFiniteSet(more) /\ less \subseteq more
  BY FS_Subset DEF CountsWhatCame, Came
<1>2. Cardinality(less) <= Cardinality(more)
      /\ Cardinality(less) \in Nat /\ Cardinality(more) \in Nat
  BY <1>1, FS_Subset, FS_CardinalityType
<1>3. Room!Unread(r) \in Nat
  BY DEF CountsWhatCame, Room!Unread
<1> HIDE DEF more, less
<1>4. Room!Unread(r) >= Cardinality(more)
  BY DEF CountsWhatCame, more
<1>5. Room!Unread(r) >= Cardinality(less)
  BY <1>2, <1>3, <1>4
<1>6. QED
  BY <1>5 DEF CountsWhatCame, less

\* A message comes.
LEMMA OneCame ==
  ASSUME NEW d, NEW r, NEW k, NEW m, NEW q, CountsWhatCame(d, r, k),
         k.session \subseteq r.messages, DOMAIN q = Fields,
         q.messages = r.messages \union {m}, q.baseline = r.baseline,
         q.unread = IF r.baseline /\ m \in Room!Foreign(d) /\ m \notin r.messages
                    THEN r.unread + 1 ELSE r.unread
  PROVE  CountsWhatCame(d, q, k)
<1>0. r.unread \in Nat /\ r.baseline \in BOOLEAN /\ IsFiniteSet(r.messages)
  BY DEF CountsWhatCame
<1>1. IsFiniteSet(q.messages)
  BY <1>0, FS_AddElement
<1>2. CASE r.baseline /\ m \in Room!Foreign(d) /\ m \notin r.messages
  <2> DEFINE upper == Came(r, d) \ k.session
             lower == Came(r, d) \ (k.session \union k.cached)
  <2>1. IsFiniteSet(upper) /\ IsFiniteSet(lower)
    BY <1>0, FS_Subset DEF Came
  <2>2. m \notin upper /\ m \notin lower /\ Came(q, d) \ k.session = upper \union {m}
    BY <1>2 DEF Came
  <2>3. Came(q, d) \ (k.session \union k.cached) \in {lower, lower \union {m}}
    BY <1>2 DEF Came
  <2>4. /\ Cardinality(upper) \in Nat /\ Cardinality(lower) \in Nat
        /\ Cardinality(upper \union {m}) = Cardinality(upper) + 1
        /\ Cardinality(lower \union {m}) = Cardinality(lower) + 1
    BY <2>1, <2>2, FS_AddElement, FS_CardinalityType
  <2>5. Room!Unread(q) = r.unread + 1 /\ Room!Unread(r) = r.unread
    BY <1>2 DEF Room!Unread
  <2>6. r.unread <= Cardinality(upper) /\ r.unread >= Cardinality(lower)
    BY <2>5 DEF CountsWhatCame
  <2> DEFINE upper2 == Came(q, d) \ k.session
             lower2 == Came(q, d) \ (k.session \union k.cached)
  <2>7. /\ Cardinality(upper2) = Cardinality(upper) + 1
        /\ Cardinality(lower2) \in {Cardinality(lower), Cardinality(lower) + 1}
    <3> HIDE DEF upper, lower
    <3>1. QED
      BY <2>2, <2>3, <2>4
  <2> HIDE DEF upper, lower, upper2, lower2
  <2>8. Room!Unread(q) <= Cardinality(upper2) /\ Room!Unread(q) >= Cardinality(lower2)
    BY <1>0, <2>4, <2>5, <2>6, <2>7
  <2>9. q.unread \in Nat
    BY <1>0, <1>2
  <2>10. QED
    BY <1>0, <1>1, <2>8, <2>9 DEF CountsWhatCame, upper2, lower2
<1>3. CASE ~(r.baseline /\ m \in Room!Foreign(d) /\ m \notin r.messages)
  <2>1. Came(q, d) = Came(r, d) /\ Room!Unread(q) = Room!Unread(r) /\ q.unread = r.unread
    BY <1>0, <1>3 DEF Came, Room!Unread
  <2>2. QED
    BY <1>0, <1>1, <2>1 DEF CountsWhatCame
<1>4. QED
  BY <1>2, <1>3

\* What a step makes of a device, by what it does to the counts.
Works(d, r, s, v, r2, s2, v2) ==
  /\ Alike(r2, r) /\ s2 \in {s, r2}
  /\ v2.pc = "pull" => v2.counts = r.baseline \/ (v.pc = "pull" /\ v2.counts = v.counts)

Comes(d, r, s, v, r2, s2, v2) ==
  /\ s2 \in {s, r2}
  /\ DOMAIN r2 = Fields /\ r2.baseline = r.baseline
  /\ \E m : /\ r2.messages = r.messages \union {m}
            /\ r2.unread = IF r.baseline /\ m \in Room!Foreign(d) /\ m \notin r.messages
                           THEN r.unread + 1 ELSE r.unread
  /\ v2.pc = "pull" => v.pc = "pull" /\ v2.counts = v.counts

Acknowledges(d, r, s, v, k, r2, s2, v2, k2) ==
  /\ s2 = r2 /\ DOMAIN r2 = Fields /\ r2.messages = r.messages /\ r2.unread = 0
  /\ r2.baseline \in BOOLEAN
  /\ k2 = [k EXCEPT !.session = @ \union r.messages]
  /\ v2.pc = "pull" => r2.baseline = r.baseline /\ v.pc = "pull" /\ v2.counts = v.counts

AcknowledgesStored(d, r, s, v, k, r2, s2, v2, k2) ==
  /\ r2 = r /\ v2 = v
  /\ DOMAIN s2 = Fields /\ s2.messages = s.messages /\ s2.unread = 0 /\ s2.baseline = TRUE
  /\ k2 = [k EXCEPT !.cached = @ \union s.messages]

LEMMA WorksKeeps ==
  ASSUME NEW d, NEW r, NEW s, NEW v, NEW k, NEW r2, NEW s2, NEW v2,
         DeviceInv(d, r, s, v, k), Works(d, r, s, v, r2, s2, v2)
  PROVE  DeviceInv(d, r2, s2, v2, k)
<1>1. CountsWhatCame(d, r2, k) /\ CountsWhatCame(d, s2, k)
  BY AlikeCounts DEF DeviceInv, Works
<1>2. QED
  BY <1>1 DEF DeviceInv, Works, Alike

LEMMA ComesKeeps ==
  ASSUME NEW d, NEW r, NEW s, NEW v, NEW k, NEW r2, NEW s2, NEW v2,
         DeviceInv(d, r, s, v, k), Comes(d, r, s, v, r2, s2, v2)
  PROVE  DeviceInv(d, r2, s2, v2, k)
<1>1. CountsWhatCame(d, r2, k)
  BY OneCame DEF DeviceInv, Comes
<1>2. QED
  BY <1>1 DEF DeviceInv, Comes

LEMMA AcknowledgesKeeps ==
  ASSUME NEW d, NEW r, NEW s, NEW v, NEW k, NEW r2, NEW s2, NEW v2, NEW k2,
         DeviceInv(d, r, s, v, k), Acknowledges(d, r, s, v, k, r2, s2, v2, k2)
  PROVE  DeviceInv(d, r2, s2, v2, k2)
<1>1. /\ DOMAIN k2 = {"session", "cached"}
      /\ k2.session = k.session \union r.messages /\ k2.cached = k.cached
  BY DEF DeviceInv, Acknowledges
<1>2. CountsWhatCame(d, r2, k2)
  BY <1>1, NothingIsUnread DEF DeviceInv, Acknowledges, CountsWhatCame
<1>3. QED
  BY <1>1, <1>2 DEF DeviceInv, Acknowledges

LEMMA AcknowledgesStoredKeeps ==
  ASSUME NEW d, NEW r, NEW s, NEW v, NEW k, NEW r2, NEW s2, NEW v2, NEW k2,
         DeviceInv(d, r, s, v, k), AcknowledgesStored(d, r, s, v, k, r2, s2, v2, k2)
  PROVE  DeviceInv(d, r2, s2, v2, k2)
<1>1. /\ DOMAIN k2 = {"session", "cached"}
      /\ k2.session = k.session /\ k2.cached = k.cached \union s.messages
  BY DEF DeviceInv, AcknowledgesStored
<1>2. CountsWhatCame(d, r2, k2)
  BY <1>1, CachedIsMore DEF DeviceInv, AcknowledgesStored
<1>3. CountsWhatCame(d, s2, k2)
  BY <1>1, NothingIsUnread DEF DeviceInv, AcknowledgesStored, CountsWhatCame
<1>4. QED
  BY <1>1, <1>2, <1>3 DEF DeviceInv, AcknowledgesStored

LEMMA EditsAreAlike ==
  ASSUME NEW r, DOMAIN r = Fields
  PROVE  /\ \A f \in {"inline", "reactions", "pending", "cursor"} : \A x : Alike([r EXCEPT ![f] = x], r)
         /\ Alike(Room!ReadStoredRoom(r), r)
         /\ \A x, c : Alike(Room!ApplyReaction(r, x, c), r)
         /\ \A c : Alike(Room!Posted(r, c), r)
<1>1. \A f \in {"inline", "reactions", "pending", "cursor"} : \A x : Alike([r EXCEPT ![f] = x], r)
  BY DEF Alike, Fields
<1>2. Alike(Room!ReadStoredRoom(r), r)
  <2>1. \A x : Alike([r EXCEPT !.inline = {}, !.reactions = x], r)
    BY DEF Alike, Fields
  <2>2. QED
    BY <2>1, Zenon DEF Room!ReadStoredRoom
<1>3. ASSUME NEW x, NEW c
      PROVE  Alike(Room!ApplyReaction(r, x, c), r)
  <2>1. \A m, y : Alike([r EXCEPT !.reactions[m] = y], r)
    BY DEF Alike, Fields
  <2>2. Alike(r, r)
    BY DEF Alike
  <2>3. QED
    BY <2>1, <2>2, Zenon DEF Room!ApplyReaction
<1>4. ASSUME NEW c
      PROVE  Alike(Room!Posted(r, c), r)
  <2>1. \A x, y : Alike([r EXCEPT !.cursor = c, !.pending = x, !.reactions = y], r)
    BY DEF Alike, Fields
  <2>2. QED
    BY <2>1 DEF Room!Posted, Alike, Fields
<1>5. QED
  BY <1>1, <1>2, <1>3, <1>4

\* The others rest.
Alone(d) ==
  /\ DOMAIN inMemory' = Room!Devices /\ DOMAIN saved' = Room!Devices
  /\ DOMAIN session' = Room!Devices /\ DOMAIN read' = Room!Devices
  /\ \A e \in Room!Devices \ {d} :
       /\ inMemory'[e] = inMemory[e] /\ saved'[e] = saved[e]
       /\ session'[e] = session[e] /\ read'[e] = read[e]
  /\ DOMAIN session'[d] = DOMAIN Room!NewSession

LEMMA AloneKeeps ==
  ASSUME ReadingInv, NEW d \in Room!Devices, Alone(d),
         DeviceInv(d, inMemory'[d], saved'[d], session'[d], read'[d])
  PROVE  ReadingInv'
BY DEF Alone, ReadingInv

\* A step that leaves what was acknowledged alone.
Working(d) ==
  Alone(d) /\ read'[d] = read[d]
  /\ Works(d, inMemory[d], saved[d], session[d], inMemory'[d], saved'[d], session'[d])

LEMMA WorkingKeeps ==
  ASSUME ReadingInv, NEW d \in Room!Devices, Working(d)
  PROVE  ReadingInv'
<1>1. DeviceInv(d, inMemory'[d], saved'[d], session'[d], read'[d])
  BY WorksKeeps DEF Working, ReadingInv
<1>2. QED
  BY <1>1, AloneKeeps DEF Working

LEMMA SessionFields ==
  /\ DOMAIN Room!NewSession = {"attached", "connection", "pc", "until", "counts", "clicks"}
  /\ DOMAIN Room!Attached = DOMAIN Room!NewSession
  /\ Room!NewSession.pc = "idle" /\ Room!Attached.pc = "idle"
BY DEF Room!NewSession, Room!Attached

LEMMA RestsAndWorks ==
  ASSUME ReadingInv, NEW d \in Room!Devices
  PROVE  /\ Room!Attach(d) => Working(d)
         /\ \A m, picked : Room!Click(d, m, picked) => Working(d)
         /\ Room!Sync(d) => Working(d)
         /\ Room!Fetch(d) => Working(d)
         /\ Room!CallFails(d) => Working(d)
<1> DEFINE fields == {"attached", "connection", "pc", "until", "counts", "clicks"}
<1>0. /\ DOMAIN inMemory = Room!Devices /\ DOMAIN saved = Room!Devices
      /\ DOMAIN session = Room!Devices /\ DOMAIN read = Room!Devices
      /\ \A e \in Room!Devices : DOMAIN session[e] = fields
      /\ Alike(inMemory[d], inMemory[d]) /\ DOMAIN inMemory[d] = Fields
  BY SessionFields DEF ReadingInv, Alike, DeviceInv, CountsWhatCame
<1>1. ASSUME Room!Attach(d)
      PROVE  Working(d)
  <2>1. session' = [session EXCEPT ![d] = Room!Attached] /\ UNCHANGED <<inMemory, saved, read>>
    BY <1>1 DEF Room!Attach
  <2>2. QED
    BY <1>0, <2>1, SessionFields DEF Working, Alone, Works
<1>2. ASSUME NEW m, NEW picked, Room!Click(d, m, picked)
      PROVE  Working(d)
  <2>1. /\ \E x : session' = [session EXCEPT ![d].clicks = Append(@, x)]
        /\ UNCHANGED <<inMemory, saved, read>>
    BY <1>2 DEF Room!Click
  <2>2. QED
    BY <1>0, <2>1, SessionFields DEF Working, Alone, Works
<1>3. ASSUME Room!Sync(d)
      PROVE  Working(d)
  <2>1. /\ session' = [session EXCEPT ![d].pc = "flush"] /\ UNCHANGED <<inMemory, saved, read>>
    BY <1>3 DEF Room!Sync
  <2>2. QED
    BY <1>0, <2>1, SessionFields DEF Working, Alone, Works
<1>4. ASSUME Room!Fetch(d)
      PROVE  Working(d)
  <2>1. /\ session' = [session EXCEPT ![d].pc = "pull", ![d].until = Len(log),
                                      ![d].counts = inMemory[d].baseline]
        /\ UNCHANGED <<inMemory, saved, read>>
    BY <1>4 DEF Room!Fetch
  <2>2. QED
    BY <1>0, <2>1, SessionFields DEF Working, Alone, Works
<1>5. ASSUME Room!CallFails(d)
      PROVE  Working(d)
  <2>1. /\ session' = [session EXCEPT ![d].pc = "idle", ![d].connection = "offline"]
        /\ inMemory' = [inMemory EXCEPT ![d] = inMemory[d]]
        /\ saved' = [saved EXCEPT ![d] = inMemory[d]] /\ read' = read
    BY <1>5 DEF Room!CallFails, Room!Save, Room!Set
  <2>2. QED
    BY <1>0, <2>1, SessionFields DEF Working, Alone, Works
<1>6. QED
  BY <1>1, <1>2, <1>3, <1>4, <1>5

LEMMA EditsAreWork ==
  ASSUME ReadingInv, NEW d \in Room!Devices
  PROVE  /\ Room!SetReaction(d) => Working(d)
         /\ Room!Post(d) => Working(d)
<1> DEFINE fields == {"attached", "connection", "pc", "until", "counts", "clicks"}
           r == inMemory[d]
<1>0. /\ DOMAIN inMemory = Room!Devices /\ DOMAIN saved = Room!Devices
      /\ DOMAIN session = Room!Devices /\ DOMAIN read = Room!Devices
      /\ \A e \in Room!Devices : DOMAIN session[e] = fields
      /\ Alike(r, r) /\ DOMAIN r = Fields
  BY SessionFields DEF ReadingInv, Alike, DeviceInv, CountsWhatCame
<1>1. ASSUME Room!SetReaction(d)
      PROVE  Working(d)
  <2>1. CASE session[d].connection = "connected"
    <3>1. PICK x, y :
             /\ inMemory' = [inMemory EXCEPT ![d] = [Room!ApplyReaction(r, x, 0) EXCEPT !.pending = y]]
             /\ saved' = [saved EXCEPT ![d] = [Room!ApplyReaction(r, x, 0) EXCEPT !.pending = y]]
             /\ session' = [session EXCEPT ![d].clicks = Tail(@), ![d].pc = "flush"]
             /\ read' = read
      BY <1>1, <2>1 DEF Room!SetReaction, Room!Save, Room!Set
    <3>2. Alike(Room!ApplyReaction(r, x, 0), r)
      BY <1>0, EditsAreAlike
    <3>3. Alike([Room!ApplyReaction(r, x, 0) EXCEPT !.pending = y], r)
      BY <1>0, <3>2 DEF Alike, Fields
    <3>4. QED
      BY <1>0, <3>1, <3>3, SessionFields DEF Working, Alone, Works
  <2>2. CASE session[d].connection # "connected"
    <3>1. /\ session' = [session EXCEPT ![d].clicks = Tail(@)]
          /\ UNCHANGED <<inMemory, saved, read>>
      BY <1>1, <2>2 DEF Room!SetReaction
    <3>2. QED
      BY <1>0, <3>1, SessionFields DEF Working, Alone, Works
  <2>3. QED
    BY <2>1, <2>2
<1>2. ASSUME Room!Post(d)
      PROVE  Working(d)
  <2>1. /\ inMemory' = [inMemory EXCEPT ![d] = Room!Posted(r, Len(log) + 1)]
        /\ UNCHANGED <<saved, session, read>>
    BY <1>2 DEF Room!Post, Room!Set
  <2>2. Alike(Room!Posted(r, Len(log) + 1), r)
    BY <1>0, EditsAreAlike
  <2>3. QED
    BY <1>0, <2>1, <2>2, SessionFields DEF Working, Alone, Works
<1>3. QED
  BY <1>1, <1>2

\* A message is sent or comes.
Coming(d) ==
  Alone(d) /\ read'[d] = read[d]
  /\ Comes(d, inMemory[d], saved[d], session[d], inMemory'[d], saved'[d], session'[d])

LEMMA ComingKeeps ==
  ASSUME ReadingInv, NEW d \in Room!Devices, Coming(d)
  PROVE  ReadingInv'
<1>1. DeviceInv(d, inMemory'[d], saved'[d], session'[d], read'[d])
  BY ComesKeeps DEF Coming, ReadingInv
<1>2. QED
  BY <1>1, AloneKeeps DEF Coming

LEMMA SendKeeps ==
  ASSUME ReadingInv, NEW d \in Room!Devices, NEW m, Room!Send(d, m)
  PROVE  ReadingInv'
<1> DEFINE r == inMemory[d]
<1>0. /\ DOMAIN inMemory = Room!Devices /\ DOMAIN saved = Room!Devices
      /\ DOMAIN session = Room!Devices /\ DOMAIN read = Room!Devices
      /\ DOMAIN session[d] = {"attached", "connection", "pc", "until", "counts", "clicks"}
      /\ DOMAIN r = Fields
  BY SessionFields DEF ReadingInv, DeviceInv, CountsWhatCame
<1>1. PICK y : /\ inMemory' = [inMemory EXCEPT
                    ![d] = [r EXCEPT !.messages = @ \union {m}, !.pending = y]]
               /\ saved' = [saved EXCEPT
                    ![d] = [r EXCEPT !.messages = @ \union {m}, !.pending = y]]
               /\ session' = [session EXCEPT ![d].pc = "flush"]
               /\ read' = read
  BY DEF Room!Send, Room!Save, Room!Set
<1>2. m \notin Room!Foreign(d)
  BY DEF Room!Send, Room!Foreign
<1>3. /\ inMemory'[d] = [r EXCEPT !.messages = @ \union {m}, !.pending = y]
      /\ saved'[d] = inMemory'[d] /\ session'[d].pc = "flush"
  BY <1>0, <1>1
<1>4. /\ DOMAIN inMemory'[d] = Fields /\ inMemory'[d].messages = r.messages \union {m}
      /\ inMemory'[d].unread = r.unread /\ inMemory'[d].baseline = r.baseline
  BY <1>0, <1>3 DEF Fields
<1>5. Alone(d) /\ read'[d] = read[d]
  BY <1>0, <1>1, SessionFields DEF Alone
<1>6. Comes(d, r, saved[d], session[d], inMemory'[d], saved'[d], session'[d])
  BY <1>2, <1>3, <1>4 DEF Comes
<1>7. QED
  BY <1>5, <1>6, ComingKeeps DEF Coming

LEMMA PullKeeps ==
  ASSUME ReadingInv, NEW d \in Room!Devices, Room!Pull(d)
  PROVE  ReadingInv'
<1> DEFINE r == inMemory[d]
           c == r.cursor + 1
           record == log[c]
           moved == [r EXCEPT !.cursor = c]
           Made == CASE ~Room!Decrypts(d, record) -> moved
                     [] Room!Decrypts(d, record) /\ record.reaction ->
                          Room!ApplyReaction(moved, record, c)
                     [] Room!Decrypts(d, record) /\ ~record.reaction ->
                          [moved EXCEPT !.unread = Room!Counted(d, moved, record.of),
                                       !.messages = @ \union {record.of}]
<1>0. /\ DOMAIN inMemory = Room!Devices /\ DOMAIN saved = Room!Devices
      /\ DOMAIN session = Room!Devices /\ DOMAIN read = Room!Devices
      /\ DOMAIN session[d] = {"attached", "connection", "pc", "until", "counts", "clicks"}
      /\ DOMAIN r = Fields
  BY SessionFields DEF ReadingInv, DeviceInv, CountsWhatCame
<1>1. /\ inMemory' = [inMemory EXCEPT ![d] = Made]
      /\ session[d].pc = "pull" /\ UNCHANGED <<saved, session, read>>
  BY Zenon DEF Room!Pull, Room!Set
<1>2. Alone(d) /\ read'[d] = read[d] /\ saved'[d] = saved[d] /\ session'[d] = session[d]
      /\ inMemory'[d] = Made
  <2> HIDE DEF Made
  <2>1. QED
    BY <1>0, <1>1, SessionFields DEF Alone, ReadingInv
<1>3. session[d].counts = r.baseline
  BY <1>1 DEF ReadingInv, DeviceInv
<1>4. Alike(moved, r) /\ DOMAIN moved = Fields
  BY <1>0, EditsAreAlike DEF Alike, Fields
<1>5. CASE ~Room!Decrypts(d, record)
  <2>1. inMemory'[d] = moved
    BY <1>2, <1>5, Zenon
  <2> HIDE DEF moved
  <2>2. QED
    BY <1>2, <1>4, <2>1, WorkingKeeps DEF Working, Works
<1>6. CASE Room!Decrypts(d, record) /\ record.reaction
  <2>1. inMemory'[d] = Room!ApplyReaction(moved, record, c)
    BY <1>2, <1>6, Zenon
  <2> HIDE DEF moved, record, c
  <2>2. Alike(Room!ApplyReaction(moved, record, c), moved)
    BY <1>4, EditsAreAlike
  <2>3. Alike(inMemory'[d], r)
    BY <1>4, <2>1, <2>2 DEF Alike
  <2>4. QED
    BY <1>2, <2>3, WorkingKeeps DEF Working, Works
<1>7. CASE Room!Decrypts(d, record) /\ ~record.reaction
  <2> DEFINE m == record.of
  <2>1. inMemory'[d] = [moved EXCEPT !.unread = Room!Counted(d, moved, m),
                                    !.messages = @ \union {m}]
    BY <1>2, <1>7, Zenon
  <2> HIDE DEF moved, m, record, c
  <2>2. /\ DOMAIN inMemory'[d] = Fields /\ inMemory'[d].messages = r.messages \union {m}
        /\ inMemory'[d].unread = Room!Counted(d, moved, m)
        /\ inMemory'[d].baseline = r.baseline
    BY <1>4, <2>1 DEF Alike, Fields
  <2>3. Room!Counted(d, moved, m)
          = IF r.baseline /\ m \in Room!Foreign(d) /\ m \notin r.messages
            THEN r.unread + 1 ELSE r.unread
    BY <1>3, <1>4 DEF Alike, Room!Counted
  <2>4. Comes(d, r, saved[d], session[d], inMemory'[d], saved'[d], session'[d])
    BY <1>2, <2>2, <2>3 DEF Comes
  <2>5. QED
    BY <1>2, <2>4, ComingKeeps DEF Coming
<1>8. QED
  BY <1>5, <1>6, <1>7

\* A session acknowledges what it has.
Acknowledging(d) ==
  Alone(d)
  /\ Acknowledges(d, inMemory[d], saved[d], session[d], read[d],
                  inMemory'[d], saved'[d], session'[d], read'[d])

LEMMA AcknowledgingKeeps ==
  ASSUME ReadingInv, NEW d \in Room!Devices, Acknowledging(d)
  PROVE  ReadingInv'
<1>1. DeviceInv(d, inMemory'[d], saved'[d], session'[d], read'[d])
  BY AcknowledgesKeeps DEF Acknowledging, ReadingInv
<1>2. QED
  BY <1>1, AloneKeeps DEF Acknowledging

LEMMA PullEndKeeps ==
  ASSUME ReadingInv, NEW d \in Room!Devices, Room!PullEnd(d)
  PROVE  ReadingInv'
<1> DEFINE r == inMemory[d]
<1>0. /\ DOMAIN inMemory = Room!Devices /\ DOMAIN saved = Room!Devices
      /\ DOMAIN session = Room!Devices /\ DOMAIN read = Room!Devices
      /\ DOMAIN session[d] = {"attached", "connection", "pc", "until", "counts", "clicks"}
      /\ DOMAIN r = Fields /\ DOMAIN read[d] = {"session", "cached"}
  BY SessionFields DEF ReadingInv, DeviceInv, CountsWhatCame
<1>1. session' = [session EXCEPT ![d].pc = "idle", ![d].connection = "connected",
                                 ![d].until = 0, ![d].counts = FALSE]
  BY DEF Room!PullEnd
<1>2. DOMAIN session' = Room!Devices /\ DOMAIN session'[d] = DOMAIN Room!NewSession
      /\ session'[d].pc = "idle" /\ \A e \in Room!Devices \ {d} : session'[e] = session[e]
  BY <1>0, <1>1, SessionFields
<1>3. CASE session[d].counts
  <2>1. /\ inMemory' = [inMemory EXCEPT ![d] = r] /\ saved' = [saved EXCEPT ![d] = r]
        /\ read' = read
    BY <1>3 DEF Room!PullEnd, Room!Save, Room!Set
  <2>2. Working(d)
    BY <1>0, <1>2, <2>1 DEF Working, Works, Alone, Alike
  <2>3. QED
    BY <2>2, WorkingKeeps
<1>4. CASE ~session[d].counts
  <2> DEFINE q == [r EXCEPT !.unread = 0, !.baseline = TRUE]
  <2>1. /\ inMemory' = [inMemory EXCEPT ![d] = q] /\ saved' = [saved EXCEPT ![d] = q]
        /\ read' = [read EXCEPT ![d].session = @ \union r.messages]
    BY <1>4 DEF Room!PullEnd, Room!Save, Room!Set
  <2>2. /\ DOMAIN q = Fields /\ q.messages = r.messages /\ q.unread = 0 /\ q.baseline = TRUE
    BY <1>0 DEF Fields
  <2> HIDE DEF q
  <2>3. Alone(d)
    BY <1>0, <1>2, <2>1 DEF Alone
  <2>4. inMemory'[d] = q /\ saved'[d] = q
        /\ read'[d] = [read[d] EXCEPT !.session = @ \union r.messages]
    BY <1>0, <2>1
  <2>5. Acknowledges(d, r, saved[d], session[d], read[d], inMemory'[d], saved'[d],
                     session'[d], read'[d])
    BY <1>2, <2>2, <2>4 DEF Acknowledges
  <2>6. QED
    BY <2>3, <2>5, AcknowledgingKeeps DEF Acknowledging
<1>5. QED
  BY <1>3, <1>4

LEMMA MarkReadKeeps ==
  ASSUME ReadingInv, NEW d \in Room!Devices, Room!MarkRead(d)
  PROVE  ReadingInv'
<1> DEFINE r == inMemory[d]
           q == [r EXCEPT !.unread = 0]
<1>0. /\ DOMAIN inMemory = Room!Devices /\ DOMAIN saved = Room!Devices
      /\ DOMAIN session = Room!Devices /\ DOMAIN read = Room!Devices
      /\ DOMAIN session[d] = DOMAIN Room!NewSession
      /\ DOMAIN r = Fields /\ DOMAIN read[d] = {"session", "cached"} /\ r.baseline \in BOOLEAN
  BY DEF ReadingInv, DeviceInv, CountsWhatCame
<1>1. /\ inMemory' = [inMemory EXCEPT ![d] = q] /\ saved' = [saved EXCEPT ![d] = q]
      /\ read' = [read EXCEPT ![d].session = @ \union r.messages]
      /\ session' = session
  BY DEF Room!MarkRead, Room!Acknowledged, Room!Save, Room!Set
<1>2. DOMAIN q = Fields /\ q.messages = r.messages /\ q.unread = 0 /\ q.baseline = r.baseline
  BY <1>0 DEF Fields
<1> HIDE DEF q
<1>3. Alone(d)
  BY <1>0, <1>1 DEF Alone
<1>4. inMemory'[d] = q /\ saved'[d] = q /\ session'[d] = session[d]
      /\ read'[d] = [read[d] EXCEPT !.session = @ \union r.messages]
  BY <1>0, <1>1
<1>5. Acknowledges(d, r, saved[d], session[d], read[d], inMemory'[d], saved'[d],
                   session'[d], read'[d])
  BY <1>0, <1>2, <1>4 DEF Acknowledges
<1>6. QED
  BY <1>3, <1>5, AcknowledgingKeeps DEF Acknowledging

LEMMA MarkRoomReadKeeps ==
  ASSUME ReadingInv, NEW d \in Room!Devices, Room!MarkRoomRead(d)
  PROVE  ReadingInv'
<1> DEFINE s == saved[d]
           t == Room!ReadStoredRoom(s)
           q == [t EXCEPT !.unread = 0, !.baseline = TRUE]
<1>0. /\ DOMAIN inMemory = Room!Devices /\ DOMAIN saved = Room!Devices
      /\ DOMAIN session = Room!Devices /\ DOMAIN read = Room!Devices
      /\ DOMAIN session[d] = DOMAIN Room!NewSession
      /\ DOMAIN s = Fields /\ DOMAIN read[d] = {"session", "cached"}
  BY DEF ReadingInv, DeviceInv, CountsWhatCame
<1>1. /\ saved' = [saved EXCEPT ![d] = q]
      /\ read' = [read EXCEPT ![d].cached = @ \union s.messages]
      /\ session' = session /\ inMemory' = inMemory
  BY <1>0 DEF Room!MarkRoomRead
<1>2. Alike(t, s)
  BY <1>0, EditsAreAlike
<1> HIDE DEF t
<1>3. DOMAIN q = Fields /\ q.messages = s.messages /\ q.unread = 0 /\ q.baseline = TRUE
  BY <1>0, <1>2 DEF Fields, Alike
<1> HIDE DEF q
<1>4. Alone(d)
  BY <1>0, <1>1 DEF Alone
<1>5. inMemory'[d] = inMemory[d] /\ saved'[d] = q /\ session'[d] = session[d]
      /\ read'[d] = [read[d] EXCEPT !.cached = @ \union s.messages]
  BY <1>0, <1>1
<1>6. AcknowledgesStored(d, inMemory[d], s, session[d], read[d], inMemory'[d], saved'[d],
                         session'[d], read'[d])
  BY <1>3, <1>5 DEF AcknowledgesStored
<1>7. DeviceInv(d, inMemory'[d], saved'[d], session'[d], read'[d])
  BY <1>6, AcknowledgesStoredKeeps DEF ReadingInv
<1>8. QED
  BY <1>4, <1>7, AloneKeeps

LEMMA ReloadRoomKeeps ==
  ASSUME ReadingInv, NEW d \in Room!Devices, Room!Reload(d)
  PROVE  ReadingInv'
<1> DEFINE s == saved[d]
           t == Room!ReadStoredRoom(s)
<1>0. /\ DOMAIN inMemory = Room!Devices /\ DOMAIN saved = Room!Devices
      /\ DOMAIN session = Room!Devices /\ DOMAIN read = Room!Devices
      /\ DOMAIN s = Fields
  BY DEF ReadingInv, DeviceInv, CountsWhatCame
<1>1. /\ inMemory' = [inMemory EXCEPT ![d] = t]
      /\ session' = [session EXCEPT ![d] = Room!NewSession]
      /\ saved' = saved /\ read' = read
  BY DEF Room!Reload, Room!Set
<1>2. Alike(t, s)
  BY <1>0, EditsAreAlike
<1> HIDE DEF t
<1>3. Alone(d)
  BY <1>0, <1>1 DEF Alone
<1>4. inMemory'[d] = t /\ saved'[d] = s /\ read'[d] = read[d] /\ session'[d].pc = "idle"
  BY <1>0, <1>1, SessionFields
<1>5. CountsWhatCame(d, t, read[d])
  BY <1>2, AlikeCounts DEF ReadingInv, DeviceInv
<1>6. DeviceInv(d, inMemory'[d], saved'[d], session'[d], read'[d])
  BY <1>2, <1>4, <1>5 DEF ReadingInv, DeviceInv, Alike
<1>7. QED
  BY <1>3, <1>6, AloneKeeps

LEMMA ReadingStep == ReadingInv /\ [Room!Next]_Room!vars => ReadingInv'
<1> SUFFICES ASSUME ReadingInv, [Room!Next]_Room!vars PROVE ReadingInv'
  OBVIOUS
<1>1. CASE UNCHANGED Room!vars
  BY <1>1 DEF Room!vars, ReadingInv
<1>2. ASSUME NEW d \in Room!Devices, Room!Step(d)
      PROVE  ReadingInv'
  <2>1. ASSUME Working(d) PROVE ReadingInv'
    BY <2>1, WorkingKeeps
  <2>2. CASE Room!Attach(d) \/ Room!Sync(d) \/ Room!CallFails(d) \/ Room!Fetch(d)
             \/ Room!SetReaction(d) \/ Room!Post(d)
    BY <2>1, <2>2, RestsAndWorks, EditsAreWork
  <2>3. CASE \E m \in Room!Foreign(d), picked \in BOOLEAN : Room!Click(d, m, picked)
    BY <2>1, <2>3, RestsAndWorks
  <2>4. CASE \E m \in Room!Mine(d) : Room!Send(d, m)
    BY <2>4, SendKeeps
  <2>5. QED
    BY <1>2, <2>2, <2>3, <2>4, PullKeeps, PullEndKeeps, MarkReadKeeps, MarkRoomReadKeeps,
       ReloadRoomKeeps DEF Room!Step
<1>3. QED
  BY <1>1, <1>2 DEF Room!Next

LEMMA ReadingInitially == Room!Init => ReadingInv
<1> SUFFICES ASSUME Room!Init PROVE ReadingInv
  OBVIOUS
<1>1. /\ session = [d \in Room!Devices |-> Room!Attached]
      /\ read = [d \in Room!Devices |-> [session |-> {}, cached |-> {}]]
      /\ inMemory = [d \in Room!Devices |-> Room!ReadStoredRoom(saved[d])]
  BY DEF Room!Init
<1>2. PICK s : /\ saved = [d \in Room!Devices |-> s]
               /\ DOMAIN s = Fields /\ IsFiniteSet(s.messages)
               /\ s.unread = 0 /\ s.baseline = FALSE
  <2>1. /\ DOMAIN Room!EmptyRoom = Fields /\ IsFiniteSet(Room!EmptyRoom.messages)
        /\ Room!EmptyRoom.unread = 0 /\ Room!EmptyRoom.baseline = FALSE
    BY FS_EmptySet DEF Room!EmptyRoom, Fields
  <2>2. ASSUME NEW m
        PROVE  /\ DOMAIN Room!OldRoom(m) = Fields /\ IsFiniteSet(Room!OldRoom(m).messages)
               /\ Room!OldRoom(m).unread = 0 /\ Room!OldRoom(m).baseline = FALSE
    <3>1. /\ DOMAIN Room!OldRoom(m) = Fields /\ Room!OldRoom(m).messages = {m}
          /\ Room!OldRoom(m).unread = 0 /\ Room!OldRoom(m).baseline = FALSE
      BY <2>1 DEF Room!OldRoom, Fields
    <3>2. QED
      BY <3>1, FS_Singleton
  <2>3. QED
    BY <2>1, <2>2 DEF Room!Init
<1>3. ASSUME NEW d \in Room!Devices
      PROVE  DeviceInv(d, inMemory[d], saved[d], session[d], read[d])
  <2> DEFINE k == [session |-> {}, cached |-> {}]
  <2>1. saved[d] = s /\ inMemory[d] = Room!ReadStoredRoom(s) /\ session[d].pc = "idle"
        /\ read[d] = k
    BY <1>1, <1>2, SessionFields
  <2>2. CountsWhatCame(d, s, k)
    <3>1. Came(s, d) = {} /\ Room!Unread(s) = 0
      BY <1>2 DEF Came, Room!Unread
    <3>2. /\ Cardinality(Came(s, d) \ k.session) = 0
          /\ Cardinality(Came(s, d) \ (k.session \union k.cached)) = 0
      <4>1. Came(s, d) \ k.session = {} /\ Came(s, d) \ (k.session \union k.cached) = {}
        BY <3>1
      <4>2. QED
        BY <4>1, FS_EmptySet
    <3> HIDE DEF k
    <3>3. /\ Room!Unread(s) <= Cardinality(Came(s, d) \ k.session)
          /\ Room!Unread(s) >= Cardinality(Came(s, d) \ (k.session \union k.cached))
      BY <3>1, <3>2
    <3>4. s.unread \in Nat
      BY <1>2
    <3>5. s.baseline \in BOOLEAN
      BY <1>2, Zenon
    <3>6. QED
      BY <1>2, <3>3, <3>4, <3>5, Zenon DEF CountsWhatCame
  <2>3. Alike(inMemory[d], s)
    BY <1>2, <2>1, EditsAreAlike
  <2>4. CountsWhatCame(d, inMemory[d], k)
    BY <2>2, <2>3, AlikeCounts
  <2>5. QED
    BY <2>1, <2>2, <2>3, <2>4 DEF DeviceInv, Alike
<1>4. QED
  BY <1>1, <1>2, <1>3, SessionFields DEF ReadingInv

\* The count of unread messages in memory is that of what came since a session
\* acknowledged, for any devices and messages (pullMessages, markRead, markRoomRead).
THEOREM UnreadIsCounted == Room!Spec => []UnreadIsWhatCame
<1>1. ReadingInv => UnreadIsWhatCame
  <2>1. ASSUME ReadingInv, NEW d \in Room!Devices
        PROVE  CountsWhatCame(d, inMemory[d], read[d])
    BY <2>1 DEF ReadingInv, DeviceInv
  <2>2. \A S : Room!Cardinality(S) = Cardinality(S)
    BY Zenon DEF Room!Cardinality, Cardinality
  <2>3. ReadingInv => Room!UnreadIsWhatCame
    BY <2>1, <2>2, Zenon DEF CountsWhatCame, Came, Room!UnreadIsWhatCame
  <2>4. QED
    BY <2>3 DEF UnreadIsWhatCame
<1>2. QED
  BY <1>1, ReadingInitially, ReadingStep, PTL DEF Room!Spec

-------------------------------------------------------------------------------
(* RoomReading: the reaction that is shown.                                 *)

\* The records, and the reactions as they are shown.
Records == [reaction : BOOLEAN, of : Room!AllMessages, on : BOOLEAN, at : Int, id : Int,
            by : Room!Devices \union {Room!Another}]
Shown == [on : BOOLEAN, at : Int, cursor : Nat, id : Int]

Reacts(x, m) == x.reaction /\ x.of = m
Writes(x, m) == ~x.reaction /\ x.of = m

\* The log L at time t, with clocks a: a reaction comes after its message, and its time is
\* no later than the clocks of those who react to that message.
Timely(t, a, x) ==
  x.at <= 0 \/ \E e \in Room!Devices : x.of \in Room!Foreign(e) /\ x.at <= t + a[e]
LogFits(L, t, a) ==
  /\ L \in Seq(Records)
  /\ \A c \in 1..Len(L) :
       L[c].reaction => Timely(t, a, L[c]) /\ \E b \in 1..c : Writes(L[b], L[c].of)

\* A copy of the room has messages of the log or its own; and what the device has posted
\* is behind the cursor unless something waits to be posted.
RoomFits(L, d, r) ==
  /\ DOMAIN r = Fields /\ r.messages \subseteq Room!AllMessages
  /\ r.reactions \in [Room!AllMessages -> Shown]
  /\ r.pending \in Seq(Records) /\ r.cursor \in 0..Len(L)
  /\ \A m \in r.messages \ Room!Mine(d) : \E c \in 1..Len(L) : Writes(L[c], m)
  /\ r.pending = <<>> => \A c \in 1..Len(L) : c > r.cursor => L[c].by # d

\* What waits is the device's own: reactions to messages of the log, and messages that
\* are there.
MayWait(L, t, a, d, r, x) ==
  /\ x.by = d
  /\ x.reaction => /\ x.of \in Room!Foreign(d) /\ x.at <= t + a[d]
                   /\ \E c \in 1..Len(L) : Writes(L[c], x.of)
  /\ ~x.reaction => x.of \in r.messages
PendingFits(L, t, a, d, r) ==
  \A i \in 1..Len(r.pending) : MayWait(L, t, a, d, r, r.pending[i])

\* The messages up to the cursor are there, but for what was skipped (k).
ReadFits(L, r, k) ==
  \A c \in 1..r.cursor : ~L[c].reaction /\ c \notin k => L[c].of \in r.messages

\* The device goes by one clock for its own person's reactions to m.
OneClock(a, d, m) ==
  m \in Room!Foreign(d)
    => \A e \in Room!Devices : Room!Mine(e) = Room!Mine(d) => a[e] = a[d]

Unposted(r, m) == \E i \in 1..Len(r.pending) : Reacts(r.pending[i], m)
LastWaiting(r, m, i) ==
  /\ Reacts(r.pending[i], m)
  /\ \A j \in 1..Len(r.pending) : Reacts(r.pending[j], m) => j <= i
Untouched(L, r, k, m) == \A c \in 1..r.cursor : c \in k => ~Writes(L[c], m)

\* What is shown of m while no reaction to it waits: the last one in the log.
Settled(L, r, k, m) ==
  LET q == r.reactions[m]
  IN  /\ q.id # 0 => q.cursor # 0
      /\ q.cursor # 0 => /\ q.cursor \in 1..r.cursor /\ Reacts(L[q.cursor], m)
                         /\ L[q.cursor].on = q.on
      /\ Untouched(L, r, k, m)
           => \A c \in 1..r.cursor : Reacts(L[c], m) /\ c \notin k => c <= q.cursor

\* And while one waits: the last of those.
LastFits(L, t, a, d, r, k, m) ==
  LET q == r.reactions[m]
  IN  /\ m \in Room!Foreign(d) => q.at <= t + a[d]
      /\ \A i \in 1..Len(r.pending) :
           LastWaiting(r, m, i) => q.id = r.pending[i].id /\ q.on = r.pending[i].on
      /\ ~Unposted(r, m) => Settled(L, r, k, m)

Fits(L, t, a, d, r, k) ==
  /\ RoomFits(L, d, r) /\ PendingFits(L, t, a, d, r) /\ ReadFits(L, r, k)
  /\ \A m \in Room!AllMessages : OneClock(a, d, m) => LastFits(L, t, a, d, r, k, m)

\* A click is on a message of another that is there; a pull begins with nothing waiting.
Clicked == [of : Room!AllMessages, on : BOOLEAN]
SessionFits(L, d, r, v) ==
  /\ DOMAIN v = DOMAIN Room!NewSession
  /\ v.clicks \in Seq(Clicked)
  /\ \A i \in 1..Len(v.clicks) : v.clicks[i].of \in r.messages \ Room!Mine(d)
  /\ v.pc = "pull" => r.pending = <<>> /\ v.until \in 0..Len(L)

\* What readStoredRoom makes of a stored room, by the log L.
Older(L, s, m) ==
  {Room!Stored(L[c], c) : c \in {i \in s.inline : L[i].of = m}}
    \union ({s.reactions[m]} \ {Room!NoReaction})
ReadBy(L, s) ==
  [s EXCEPT !.inline = {},
            !.reactions = [m \in Room!AllMessages |-> Room!Projection(Older(L, s, m))]]

\* Of a device: the room in memory and what a reload would make of the stored one.
DeviceShows(L, t, a, d, r, s, v, k) ==
  /\ Fits(L, t, a, d, r, k) /\ r.inline = {}
  /\ Fits(L, t, a, d, ReadBy(L, s), k)
  /\ DOMAIN s = Fields /\ s.inline \subseteq 1..Len(L)
  /\ r.pending # <<>> => s.pending # <<>>
  /\ SessionFits(L, d, r, v)

ShownInv ==
  /\ now \in Nat /\ ahead \in [Room!Devices -> Nat]
  /\ LogFits(log, now, ahead)
  /\ DOMAIN inMemory = Room!Devices /\ DOMAIN saved = Room!Devices
  /\ DOMAIN session = Room!Devices /\ DOMAIN skipped = Room!Devices
  /\ \A d \in Room!Devices :
       DeviceShows(log, now, ahead, d, inMemory[d], saved[d], session[d], skipped[d])

\* The log has grown.
Longer(L, M) ==
  /\ M \in Seq(Records) /\ Len(L) <= Len(M)
  /\ \A c \in 1..Len(L) : M[c] = L[c]

\* What it has got is not of the device, or something waits there.
Foreigners(L, M, d, r) ==
  r.pending = <<>> => \A c \in 1..Len(M) : c > Len(L) => M[c].by # d

LEMMA FitsInLonger ==
  ASSUME NEW L \in Seq(Records), NEW M, Longer(L, M), NEW t \in Nat, NEW u \in Nat, t <= u,
         NEW a \in [Room!Devices -> Nat], NEW d \in Room!Devices, NEW r, NEW k,
         Fits(L, t, a, d, r, k), Foreigners(L, M, d, r)
  PROVE  Fits(M, u, a, d, r, k)
<1>0. /\ M \in Seq(Records) /\ Len(L) <= Len(M) /\ Len(L) \in Nat /\ Len(M) \in Nat
      /\ \A c \in 1..Len(L) : M[c] = L[c] /\ c \in 1..Len(M)
      /\ a[d] \in Nat
  BY DEF Longer
<1>1. RoomFits(L, d, r) /\ PendingFits(L, t, a, d, r) /\ ReadFits(L, r, k)
  BY DEF Fits
<1>2. r.cursor \in 0..Len(L) /\ \A c \in 1..r.cursor : M[c] = L[c] /\ c \in 1..Len(L)
  BY <1>0, <1>1 DEF RoomFits
<1>3. RoomFits(M, d, r)
  <2>1. \A m \in r.messages \ Room!Mine(d) : \E c \in 1..Len(M) : Writes(M[c], m)
    BY <1>0, <1>1 DEF RoomFits
  <2>2. r.pending = <<>> => \A c \in 1..Len(M) : c > r.cursor => M[c].by # d
    <3>1. ASSUME r.pending = <<>>, NEW c \in 1..Len(M), c > r.cursor
          PROVE  M[c].by # d
      <4>1. CASE c <= Len(L)
        <5>1. c \in 1..Len(L)
          BY <1>0, <4>1
        <5>2. QED
          BY <1>0, <1>1, <3>1, <5>1 DEF RoomFits
      <4>2. CASE c > Len(L)
        BY <3>1, <4>2 DEF Foreigners
      <4>3. QED
        BY <1>0, <4>1, <4>2
    <3>2. QED
      BY <3>1
  <2>3. QED
    BY <1>0, <1>1, <1>2, <2>1, <2>2 DEF RoomFits
<1>4. PendingFits(M, u, a, d, r)
  <2>1. ASSUME NEW i \in 1..Len(r.pending)
        PROVE  MayWait(M, u, a, d, r, r.pending[i])
    <3> DEFINE x == r.pending[i]
    <3>1. MayWait(L, t, a, d, r, x)
      BY <1>1 DEF PendingFits
    <3>2. x \in Records
      BY <1>1 DEF RoomFits
    <3>3. x.at \in Int
      BY <3>2 DEF Records
    <3> HIDE DEF x
    <3>4. x.reaction => x.at <= u + a[d]
      BY <1>0, <3>1, <3>3 DEF MayWait
    <3>5. x.reaction => \E c \in 1..Len(M) : Writes(M[c], x.of)
      BY <1>0, <3>1 DEF MayWait
    <3>6. MayWait(M, u, a, d, r, x)
      BY <3>1, <3>4, <3>5 DEF MayWait
    <3>7. QED
      BY <3>6 DEF x
  <2>2. QED
    BY <2>1 DEF PendingFits
<1>5. ReadFits(M, r, k)
  BY <1>1, <1>2 DEF ReadFits
<1>6. ASSUME NEW m \in Room!AllMessages, OneClock(a, d, m)
      PROVE  LastFits(M, u, a, d, r, k, m)
  <2> DEFINE q == r.reactions[m]
  <2>1. LastFits(L, t, a, d, r, k, m)
    BY <1>6 DEF Fits
  <2>2. q \in Shown
    BY <1>1 DEF RoomFits
  <2>3. q.at \in Int
    BY <2>2 DEF Shown
  <2>4. m \in Room!Foreign(d) => q.at <= t + a[d]
    BY <2>1 DEF LastFits
  <2> HIDE DEF q
  <2>5. m \in Room!Foreign(d) => q.at <= u + a[d]
    BY <1>0, <2>3, <2>4
  <2>6. Settled(L, r, k, m) => Settled(M, r, k, m)
    BY <1>2 DEF Settled, Untouched
  <2>7. QED
    BY <2>1, <2>5, <2>6 DEF LastFits, q
<1>7. QED
  BY <1>3, <1>4, <1>5, <1>6 DEF Fits

\* Two copies show the same.
ShowSame(r, q) ==
  /\ DOMAIN r = Fields
  /\ r.messages = q.messages /\ r.reactions = q.reactions
  /\ r.pending = q.pending /\ r.cursor = q.cursor

LEMMA SameFits ==
  ASSUME NEW L, NEW t, NEW a, NEW d, NEW r, NEW q, NEW k,
         Fits(L, t, a, d, q, k), ShowSame(r, q)
  PROVE  Fits(L, t, a, d, r, k)
<1>1. RoomFits(L, d, r) /\ PendingFits(L, t, a, d, r) /\ ReadFits(L, r, k)
  BY DEF Fits, ShowSame, RoomFits, PendingFits, MayWait, ReadFits
<1>2. ASSUME NEW m \in Room!AllMessages, OneClock(a, d, m)
      PROVE  LastFits(L, t, a, d, r, k, m)
  <2>1. LastFits(L, t, a, d, q, k, m)
    BY <1>2 DEF Fits
  <2>2. QED
    BY <2>1 DEF LastFits, ShowSame, LastWaiting, Unposted, Settled, Untouched
<1>3. QED
  BY <1>1, <1>2 DEF Fits

\* A room without reactions of an older release is read as it is.
LEMMA ReadAsItIs ==
  ASSUME NEW L, NEW r, DOMAIN r = Fields, r.inline = {},
         r.reactions \in [Room!AllMessages -> Shown]
  PROVE  ShowSame(ReadBy(L, r), r) /\ ReadBy(L, r).inline = {}
<1>1. ASSUME NEW m \in Room!AllMessages
      PROVE  Room!Projection(Older(L, r, m)) = r.reactions[m]
  <2>1. Older(L, r, m) = {r.reactions[m]} \ {Room!NoReaction}
    BY DEF Older
  <2>2. CASE r.reactions[m] = Room!NoReaction
    <3>1. Older(L, r, m) = {}
      BY <2>1, <2>2
    <3>2. QED
      BY <2>2, <3>1 DEF Room!Projection
  <2>3. CASE r.reactions[m] # Room!NoReaction
    <3> DEFINE q == r.reactions[m]
    <3>1. Older(L, r, m) = {q}
      BY <2>1, <2>3
    <3> HIDE DEF q
    <3>2. Room!Projection({q}) = CHOOSE x \in {q} : \A y \in {q} \ {x} : Room!IsLater(x, y)
      BY Zenon DEF Room!Projection
    <3>3. \A y \in {q} \ {q} : Room!IsLater(q, y)
      BY Zenon
    <3>4. Room!Projection({q}) \in {q}
      BY <3>2, <3>3, Zenon
    <3>5. QED
      BY <3>1, <3>4 DEF q
  <2>4. QED
    BY <2>2, <2>3
<1>2. [m \in Room!AllMessages |-> Room!Projection(Older(L, r, m))] = r.reactions
  <2>1. [m \in Room!AllMessages |-> Room!Projection(Older(L, r, m))]
          = [m \in Room!AllMessages |-> r.reactions[m]]
    BY <1>1, Zenon
  <2>2. QED
    BY <2>1
<1>3. ReadBy(L, r) = [r EXCEPT !.inline = {}, !.reactions = r.reactions]
  BY <1>2, Zenon DEF ReadBy
<1>4. QED
  BY <1>3 DEF ShowSame, Fields

\* What is read of a stored room depends on what the log had when it was stored.
LEMMA ReadByLonger ==
  ASSUME NEW L \in Seq(Records), NEW M, Longer(L, M), NEW s, s.inline \subseteq 1..Len(L)
  PROVE  ReadBy(M, s) = ReadBy(L, s)
<1>1. ASSUME NEW m \in Room!AllMessages
      PROVE  Older(M, s, m) = Older(L, s, m)
  <2>1. \A c \in s.inline : M[c] = L[c]
    BY DEF Longer
  <2>2. {i \in s.inline : M[i].of = m} = {i \in s.inline : L[i].of = m}
    BY <2>1
  <2>3. {Room!Stored(M[c], c) : c \in {i \in s.inline : M[i].of = m}}
          = {Room!Stored(L[c], c) : c \in {i \in s.inline : L[i].of = m}}
    BY <2>1, <2>2
  <2>4. QED
    BY <2>3, Zenon DEF Older
<1>2. QED
  BY <1>1, Zenon DEF ReadBy

LEMMA ReadByLog == \A s : Room!ReadStoredRoom(s) = ReadBy(log, s)
BY Zenon DEF ReadBy, Older, Room!ReadStoredRoom

\* The log a record later, and the same log later.
LEMMA LogFitsMore ==
  ASSUME NEW L, NEW t \in Nat, NEW u \in Nat, t <= u, NEW a \in [Room!Devices -> Nat],
         LogFits(L, t, a), NEW x \in Records,
         x.reaction => Timely(u, a, x) /\ \E b \in 1..Len(L) : Writes(L[b], x.of)
  PROVE  /\ LogFits(L, u, a) /\ LogFits(Append(L, x), u, a)
         /\ Longer(L, L) /\ Longer(L, Append(L, x))
<1> DEFINE M == Append(L, x)
<1>1. L \in Seq(Records) /\ Len(L) \in Nat
  BY DEF LogFits
<1>2. /\ M \in Seq(Records) /\ Len(M) = Len(L) + 1 /\ M[Len(L) + 1] = x
      /\ \A c \in 1..Len(L) : M[c] = L[c]
  BY <1>1
<1> HIDE DEF M
<1>3. ASSUME NEW c \in 1..Len(L), L[c].reaction
      PROVE  Timely(u, a, L[c]) /\ \E b \in 1..c : Writes(L[b], L[c].of)
  <2>1. Timely(t, a, L[c]) /\ \E b \in 1..c : Writes(L[b], L[c].of)
    BY <1>3 DEF LogFits
  <2> DEFINE y == L[c]
  <2>2. y \in Records
    BY <1>1
  <2>3. y.at \in Int
    BY <2>2 DEF Records
  <2>4. \A e \in Room!Devices : a[e] \in Nat
    OBVIOUS
  <2>5. Timely(t, a, y)
    BY <2>1
  <2> HIDE DEF y
  <2>6. Timely(u, a, y)
    <3>1. \A e \in Room!Devices : y.at <= t + a[e] => y.at <= u + a[e]
      BY <2>3, <2>4
    <3>2. QED
      BY <2>5, <3>1 DEF Timely
  <2>7. QED
    BY <2>1, <2>6 DEF y
<1>4. LogFits(L, u, a)
  BY <1>1, <1>3, Zenon DEF LogFits
<1>5. ASSUME NEW c \in 1..Len(M), M[c].reaction
      PROVE  Timely(u, a, M[c]) /\ \E b \in 1..c : Writes(M[b], M[c].of)
  <2>1. CASE c \in 1..Len(L)
    <3>1. M[c] = L[c] /\ \A b \in 1..c : M[b] = L[b]
      BY <1>1, <1>2, <2>1
    <3>2. Timely(u, a, L[c]) /\ \E b \in 1..c : Writes(L[b], L[c].of)
      BY <1>3, <1>5, <2>1, <3>1
    <3>3. QED
      BY <3>1, <3>2
  <2>2. CASE c \notin 1..Len(L)
    <3>1. c = Len(L) + 1 /\ M[c] = x /\ \A b \in 1..Len(L) : M[b] = L[b] /\ b \in 1..c
      BY <1>1, <1>2, <2>2
    <3>2. QED
      BY <1>5, <3>1
  <2>3. QED
    BY <2>1, <2>2
<1>6. LogFits(M, u, a)
  BY <1>2, <1>5, Zenon DEF LogFits
<1>7. Longer(L, L) /\ Longer(L, M)
  BY <1>1, <1>2 DEF Longer
<1>8. QED
  BY <1>4, <1>6, <1>7 DEF M

\* What is posted of a record: the time is cut to the second.
LEMMA WireFits ==
  ASSUME NEW x \in Records
  PROVE  /\ Room!Wire(x) \in Records
         /\ Room!Wire(x).reaction = x.reaction /\ Room!Wire(x).of = x.of
         /\ Room!Wire(x).on = x.on /\ Room!Wire(x).id = x.id /\ Room!Wire(x).by = x.by
         /\ Room!Wire(x).at <= x.at /\ Room!Wire(x).at \in Int
<1>1. x.at \in Int
  BY DEF Records
<1>2. x.at % 2 \in 0..1
  BY <1>1
<1>3. x.at - (x.at % 2) \in Int /\ x.at - (x.at % 2) <= x.at
  BY <1>1, <1>2
<1>4. Room!Wire(x) = [x EXCEPT !.at = x.at - (x.at % 2)]
  BY DEF Room!Wire
<1> DEFINE y == x.at - (x.at % 2)
<1> HIDE DEF y
<1>5. Room!Wire(x) = [x EXCEPT !.at = y] /\ y \in Int /\ y <= x.at
  BY <1>3, <1>4 DEF y
<1>6. QED
  BY <1>5 DEF Records

\* Those who react to a message of another are of one person, so that with one clock the
\* time of a reaction is no later than that of the device.
LEMMA OneClockTells ==
  ASSUME NEW t \in Nat, NEW a \in [Room!Devices -> Nat], NEW d \in Room!Devices,
         NEW x \in Records, Timely(t, a, x), x.of \in Room!Foreign(d), OneClock(a, d, x.of)
  PROVE  x.at <= t + a[d]
<1>1. x.at \in Int /\ a[d] \in Nat
  BY DEF Records
<1>2. ASSUME NEW e \in Room!Devices, x.of \in Room!Foreign(e)
      PROVE  Room!Mine(e) = Room!Mine(d)
  BY <1>2 DEF Room!Foreign, Room!Mine, Room!AllMessages, Room!Devices
<1>3. CASE x.at <= 0
  BY <1>1, <1>3
<1>4. CASE ~(x.at <= 0)
  <2>1. PICK e \in Room!Devices : x.of \in Room!Foreign(e) /\ x.at <= t + a[e]
    BY <1>4, Zenon DEF Timely
  <2>2. a[e] = a[d]
    BY <1>2, <2>1, Zenon DEF OneClock
  <2>3. QED
    BY <2>1, <2>2
<1>5. QED
  BY <1>3, <1>4

\* To skip more, or what is not behind the cursor.
LEMMA FitsSkipping ==
  ASSUME NEW L, NEW t, NEW a, NEW d, NEW r, NEW k, NEW j, Fits(L, t, a, d, r, k),
         \A c \in 1..r.cursor : c \in k => c \in j
  PROVE  Fits(L, t, a, d, r, j)
<1>1. ReadFits(L, r, j)
  BY DEF Fits, ReadFits
<1>2. ASSUME NEW m \in Room!AllMessages, OneClock(a, d, m)
      PROVE  LastFits(L, t, a, d, r, j, m)
  <2>1. LastFits(L, t, a, d, r, k, m)
    BY <1>2 DEF Fits
  <2>2. Settled(L, r, k, m) => Settled(L, r, j, m)
    BY DEF Settled, Untouched
  <2>3. QED
    BY <2>1, <2>2 DEF LastFits
<1>3. QED
  BY <1>1, <1>2 DEF Fits

-----------------------------------------------------------------------------
(* What waits to be posted.                                                *)

\* Nothing new waits of m.
WaitsAsBefore(r, q, m) ==
  /\ Unposted(r, m) => Unposted(q, m)
  /\ \A i \in 1..Len(q.pending) :
       LastWaiting(q, m, i)
         => \E j \in 1..Len(r.pending) : LastWaiting(r, m, j) /\ q.pending[i] = r.pending[j]

\* The record x waits behind the others.
WaitsBehind(r, q, x) ==
  /\ q.pending \in Seq(Records) /\ q.pending # <<>>
  /\ \A i \in 1..Len(q.pending) :
       q.pending[i] = x \/ \E j \in 1..Len(r.pending) : q.pending[i] = r.pending[j]
  /\ \A m : ~Reacts(x, m) => WaitsAsBefore(r, q, m)
  /\ \A m : Reacts(x, m)
       => /\ Unposted(q, m)
          /\ \A i \in 1..Len(q.pending) : LastWaiting(q, m, i) => q.pending[i] = x

LEMMA OneMoreWaits ==
  ASSUME NEW r, NEW q, NEW x \in Records, r.pending \in Seq(Records),
         q.pending = Append(r.pending, x)
  PROVE  WaitsBehind(r, q, x)
<1> DEFINE n == Len(r.pending)
<1>1. /\ q.pending \in Seq(Records) /\ Len(q.pending) = n + 1 /\ n \in Nat
      /\ q.pending[n + 1] = x /\ \A i \in 1..n : q.pending[i] = r.pending[i]
  OBVIOUS
<1>2. \A i \in 1..(n + 1) : i \in 1..n \/ i = n + 1
  BY <1>1
<1>3. n + 1 \in 1..(n + 1) /\ \A i \in 1..n : i \in 1..(n + 1) /\ ~(n + 1 <= i)
  BY <1>1
<1> HIDE DEF n
<1>4. q.pending # <<>>
  <2>1. Len(<<>>) = 0 /\ n + 1 # 0
    BY <1>1
  <2>2. QED
    BY <1>1, <2>1, Zenon
<1>5. ASSUME NEW m, ~Reacts(x, m)
      PROVE  WaitsAsBefore(r, q, m)
  <2>1. Unposted(r, m) => Unposted(q, m)
    BY <1>1, <1>3 DEF Unposted, n
  <2>2. ASSUME NEW i \in 1..Len(q.pending), LastWaiting(q, m, i)
        PROVE  i \in 1..n /\ LastWaiting(r, m, i) /\ q.pending[i] = r.pending[i]
    <3>1. i \in 1..n
      BY <1>1, <1>2, <1>5, <2>2 DEF LastWaiting
    <3>2. QED
      BY <1>1, <1>3, <2>2, <3>1 DEF LastWaiting, n
  <2>3. QED
    BY <2>1, <2>2 DEF WaitsAsBefore, n
<1>6. ASSUME NEW m, Reacts(x, m)
      PROVE  /\ Unposted(q, m)
             /\ \A i \in 1..Len(q.pending) : LastWaiting(q, m, i) => q.pending[i] = x
  <2>1. n + 1 \in 1..Len(q.pending) /\ Reacts(q.pending[n + 1], m)
    BY <1>1, <1>3, <1>6
  <2>2. ASSUME NEW i \in 1..Len(q.pending), LastWaiting(q, m, i)
        PROVE  q.pending[i] = x
    <3>1. n + 1 <= i
      BY <2>1, <2>2 DEF LastWaiting
    <3>2. QED
      BY <1>1, <1>2, <1>3, <3>1
  <2>3. QED
    BY <2>1, <2>2 DEF Unposted
<1>7. \A i \in 1..Len(q.pending) :
        q.pending[i] = x \/ \E j \in 1..Len(r.pending) : q.pending[i] = r.pending[j]
  BY <1>1, <1>2 DEF n
<1>8. QED
  BY <1>1, <1>4, <1>5, <1>6, <1>7 DEF WaitsBehind

\* The first record is gone, the others move up.
MovedUp(p, s) ==
  /\ Head(p) \in Records /\ Head(p) = p[1] /\ 1 \in 1..Len(p) /\ s \in Seq(Records)
  /\ \A i \in 1..Len(s) : i \in Nat /\ i + 1 \in 1..Len(p) /\ s[i] = p[i + 1]
  /\ \A h \in 1..Len(p) :
       h # 1 => h - 1 \in 1..Len(s) /\ s[h - 1] = p[h] /\ h \in Nat

LEMMA OthersMoveUp ==
  ASSUME NEW p \in Seq(Records), p # <<>>
  PROVE  MovedUp(p, Tail(p))
<1> DEFINE n == Len(p)
<1>1. /\ n \in Nat \ {0} /\ Tail(p) \in Seq(Records) /\ Len(Tail(p)) = n - 1
      /\ \A i \in 1..(n - 1) : Tail(p)[i] = p[i + 1]
      /\ Head(p) = p[1] /\ Head(p) \in Records
  OBVIOUS
<1> HIDE DEF n
<1>2. 1 \in 1..n /\ \A i \in 1..(n - 1) : i \in Nat /\ i + 1 \in 1..n
  BY <1>1
<1>3. \A h \in 1..n : h # 1 => h \in Nat /\ h - 1 \in 1..(n - 1) /\ (h - 1) + 1 = h
  BY <1>1
<1>4. QED
  BY <1>1, <1>2, <1>3 DEF n, MovedUp

-----------------------------------------------------------------------------
(* What a step makes of a copy of the room.                                *)

\* What was shown of m stays while nothing new waits of it.
LEMMA LastStays ==
  ASSUME NEW L, NEW t, NEW a, NEW d, NEW r, NEW q, NEW k, NEW m,
         LastFits(L, t, a, d, r, k, m), WaitsAsBefore(r, q, m),
         q.reactions[m] = r.reactions[m], q.cursor = r.cursor
  PROVE  LastFits(L, t, a, d, q, k, m)
<1>1. Settled(L, r, k, m) => Settled(L, q, k, m)
  BY DEF Settled, Untouched
<1>2. \A i \in 1..Len(q.pending) : LastWaiting(q, m, i)
        => q.reactions[m].id = q.pending[i].id /\ q.reactions[m].on = q.pending[i].on
  BY DEF LastFits, WaitsAsBefore
<1>3. QED
  BY <1>1, <1>2 DEF LastFits, WaitsAsBefore

\* A message is sent: it is there and waits.
LEMMA SentFits ==
  ASSUME NEW L \in Seq(Records), NEW t, NEW a, NEW d, NEW r, NEW q, NEW k, NEW x \in Records,
         Fits(L, t, a, d, r, k), ~x.reaction, x.of \in Room!Mine(d), x.by = d,
         x.of \in Room!AllMessages,
         DOMAIN q = Fields, q.messages = r.messages \union {x.of}, q.reactions = r.reactions,
         q.cursor = r.cursor, q.pending = Append(r.pending, x)
  PROVE  Fits(L, t, a, d, q, k)
<1>1. RoomFits(L, d, r) /\ PendingFits(L, t, a, d, r) /\ ReadFits(L, r, k)
  BY DEF Fits
<1>2. WaitsBehind(r, q, x)
  <2>1. r.pending \in Seq(Records)
    BY <1>1 DEF RoomFits
  <2>2. QED
    BY <2>1, OneMoreWaits
<1>3. RoomFits(L, d, q)
  BY <1>1, <1>2 DEF RoomFits, WaitsBehind
<1>4. PendingFits(L, t, a, d, q)
  BY <1>1, <1>2 DEF PendingFits, MayWait, WaitsBehind
<1>5. ReadFits(L, q, k)
  BY <1>1 DEF ReadFits
<1>6. ASSUME NEW m \in Room!AllMessages, OneClock(a, d, m)
      PROVE  LastFits(L, t, a, d, q, k, m)
  <2>1. LastFits(L, t, a, d, r, k, m) /\ WaitsAsBefore(r, q, m)
    BY <1>2, <1>6 DEF Fits, Reacts, WaitsBehind
  <2>2. QED
    BY <2>1, LastStays
<1>7. QED
  BY <1>3, <1>4, <1>5, <1>6 DEF Fits

\* A reaction is set: with one clock it shows, and it waits.
LEMMA SetFits ==
  ASSUME NEW L \in Seq(Records), NEW t \in Nat, NEW a \in [Room!Devices -> Nat],
         NEW d \in Room!Devices, NEW r, NEW q, NEW k, NEW x \in Records,
         Fits(L, t, a, d, r, k), x.reaction, x.by = d, x.at = t + a[d],
         x.of \in r.messages \ Room!Mine(d),
         DOMAIN q = Fields, q.messages = r.messages,
         q.reactions \in [Room!AllMessages -> Shown],
         \A m \in Room!AllMessages \ {x.of} : q.reactions[m] = r.reactions[m],
         OneClock(a, d, x.of) => q.reactions[x.of] = Room!Stored(x, 0),
         q.cursor = r.cursor, q.pending = Append(r.pending, x)
  PROVE  Fits(L, t, a, d, q, k)
<1>1. RoomFits(L, d, r) /\ PendingFits(L, t, a, d, r) /\ ReadFits(L, r, k)
  BY DEF Fits
<1>2. WaitsBehind(r, q, x)
  <2>1. r.pending \in Seq(Records)
    BY <1>1 DEF RoomFits
  <2>2. QED
    BY <2>1, OneMoreWaits
<1>3. x.of \in Room!AllMessages /\ x.of \in Room!Foreign(d)
  BY <1>1 DEF RoomFits, Room!Foreign
<1>4. RoomFits(L, d, q)
  BY <1>1, <1>2 DEF RoomFits, WaitsBehind
<1>5. PendingFits(L, t, a, d, q)
  <2>1. x.at <= t + a[d]
    <3>1. t + a[d] \in Int
      OBVIOUS
    <3>2. QED
      BY <3>1
  <2>2. MayWait(L, t, a, d, q, x)
    BY <1>1, <1>3, <2>1 DEF RoomFits, MayWait
  <2>3. ASSUME NEW i \in 1..Len(r.pending)
        PROVE  MayWait(L, t, a, d, q, r.pending[i])
    BY <1>1 DEF PendingFits, MayWait
  <2>4. QED
    BY <1>2, <2>2, <2>3 DEF PendingFits, WaitsBehind
<1>6. ReadFits(L, q, k)
  BY <1>1 DEF ReadFits
<1>7. ASSUME NEW m \in Room!AllMessages, OneClock(a, d, m)
      PROVE  LastFits(L, t, a, d, q, k, m)
  <2>1. CASE m = x.of
    <3>1. q.reactions[m].id = x.id /\ q.reactions[m].on = x.on /\ q.reactions[m].at = x.at
      BY <1>7, <2>1 DEF Room!Stored
    <3>2. q.reactions[m].at <= t + a[d]
      <4>1. t + a[d] \in Int
        OBVIOUS
      <4>2. QED
        BY <3>1, <4>1
    <3>3. Reacts(x, m)
      BY <2>1 DEF Reacts
    <3>4. QED
      BY <1>2, <3>1, <3>2, <3>3 DEF LastFits, WaitsBehind
  <2>2. CASE m # x.of
    <3>1. LastFits(L, t, a, d, r, k, m) /\ WaitsAsBefore(r, q, m)
      BY <1>2, <1>7, <2>2 DEF Fits, Reacts, WaitsBehind
    <3>2. q.reactions[m] = r.reactions[m]
      BY <2>2
    <3>3. QED
      BY <3>1, <3>2, LastStays
  <2>3. QED
    BY <2>1, <2>2
<1>8. QED
  BY <1>4, <1>5, <1>6, <1>7 DEF Fits

\* The first record that waits is posted: the room is behind it, and what was not read
\* before is skipped.
Posts(L, M, r, q, n, y) ==
  /\ n \in Nat /\ n = Len(L) + 1 /\ r.pending # <<>> /\ y = Room!Wire(Head(r.pending))
  /\ M = Append(L, y) /\ q = Room!Posted(r, n)
JumpsOver(L, r, k, j) == j = k \union (r.cursor + 1 .. Len(L))

LEMMA PostedFits ==
  ASSUME NEW L \in Seq(Records), NEW t, NEW a, NEW d, NEW r, NEW q, NEW k, NEW j, NEW M, NEW y,
         NEW n, Fits(L, t, a, d, r, k), Posts(L, M, r, q, n, y), JumpsOver(L, r, k, j)
  PROVE  Fits(M, t, a, d, q, j)
<1> DEFINE x == Head(r.pending)
<1>0. /\ n \in Nat /\ n = Len(L) + 1 /\ r.pending # <<>> /\ y = Room!Wire(x)
      /\ M = Append(L, y) /\ q = Room!Posted(r, n)
  BY DEF Posts
<1>1. RoomFits(L, d, r) /\ PendingFits(L, t, a, d, r) /\ ReadFits(L, r, k)
  BY DEF Fits
<1>2. /\ x \in Records /\ x = r.pending[1] /\ 1 \in 1..Len(r.pending)
      /\ q.pending = Tail(r.pending) /\ q.pending \in Seq(Records)
      /\ \A i \in 1..Len(q.pending) :
           i \in Nat /\ i + 1 \in 1..Len(r.pending) /\ q.pending[i] = r.pending[i + 1]
      /\ \A h \in 1..Len(r.pending) :
           h # 1 => h - 1 \in 1..Len(q.pending) /\ q.pending[h - 1] = r.pending[h] /\ h \in Nat
  <2>1. r.pending \in Seq(Records) /\ DOMAIN r = Fields
    BY <1>1 DEF RoomFits
  <2>2. q.pending = Tail(r.pending)
    BY <1>0, <2>1 DEF Room!Posted, Fields
  <2>3. MovedUp(r.pending, Tail(r.pending))
    BY <1>0, <2>1, OthersMoveUp
  <2>4. QED
    BY <2>1, <2>2, <2>3 DEF MovedUp
<1>3. MayWait(L, t, a, d, r, x)
  BY <1>1, <1>2 DEF PendingFits
<1>4. /\ y \in Records /\ y.reaction = x.reaction /\ y.of = x.of /\ y.on = x.on
      /\ y.id = x.id /\ y.by = x.by
  BY <1>0, <1>2, WireFits
<1> HIDE DEF x
<1>5. /\ M \in Seq(Records) /\ Len(M) = n /\ M[n] = y /\ Len(L) \in Nat /\ r.cursor \in 0..Len(L)
      /\ \A c \in 1..Len(L) : M[c] = L[c] /\ c \in 1..n
  BY <1>0, <1>1, <1>4 DEF RoomFits
<1>6. /\ DOMAIN q = Fields /\ q.messages = r.messages /\ q.cursor = n
      /\ q.reactions = [r.reactions EXCEPT ![x.of] =
                          IF x.reaction /\ @.id = x.id THEN [@ EXCEPT !.cursor = n] ELSE @]
  BY <1>0, <1>1 DEF Room!Posted, RoomFits, Fields, x
<1>7. ASSUME NEW m \in Room!AllMessages
      PROVE  /\ q.reactions[m] \in Shown
             /\ q.reactions[m].id = r.reactions[m].id /\ q.reactions[m].on = r.reactions[m].on
             /\ q.reactions[m].at = r.reactions[m].at
             /\ q.reactions[m].cursor
                  = IF Reacts(x, m) /\ r.reactions[m].id = x.id THEN n
                    ELSE r.reactions[m].cursor
  <2>1. r.reactions[m] \in Shown /\ r.reactions \in [Room!AllMessages -> Shown]
    BY <1>1 DEF RoomFits
  <2>2. q.reactions[m] = IF Reacts(x, m) /\ r.reactions[m].id = x.id
                         THEN [r.reactions[m] EXCEPT !.cursor = n] ELSE r.reactions[m]
    <3> DEFINE f == r.reactions
               e == IF x.reaction /\ f[x.of].id = x.id
                    THEN [f[x.of] EXCEPT !.cursor = n] ELSE f[x.of]
    <3>1. q.reactions = [f EXCEPT ![x.of] = e] /\ DOMAIN f = Room!AllMessages
      BY <1>6, <2>1
    <3>2. CASE m = x.of
      <4>1. q.reactions[m] = e
        <5> HIDE DEF e, f
        <5>1. QED
          BY <3>1, <3>2
      <4>2. QED
        BY <3>2, <4>1 DEF Reacts
    <3>3. CASE m # x.of
      <4>1. q.reactions[m] = f[m]
        <5> HIDE DEF e, f
        <5>1. QED
          BY <3>1, <3>3
      <4>2. QED
        BY <3>3, <4>1 DEF Reacts
    <3>4. QED
      BY <3>2, <3>3
  <2>3. QED
    BY <1>0, <2>1, <2>2 DEF Shown
<1>8. q.reactions \in [Room!AllMessages -> Shown]
  <2>1. r.reactions \in [Room!AllMessages -> Shown]
    BY <1>1 DEF RoomFits
  <2>2. DOMAIN q.reactions = Room!AllMessages
        /\ q.reactions = [m \in Room!AllMessages |-> q.reactions[m]]
    BY <1>6, <2>1
  <2>3. QED
    BY <1>7, <2>2
<1>9. \A c \in 1..n : c \in 1..Len(L) \/ c = n
  BY <1>0, <1>5
<1>10. RoomFits(M, d, q)
  <2>1. \A m \in q.messages \ Room!Mine(d) : \E c \in 1..Len(M) : Writes(M[c], m)
    BY <1>1, <1>5, <1>6 DEF RoomFits
  <2>2. q.cursor \in 0..Len(M) /\ \A c \in 1..Len(M) : ~(c > q.cursor)
    BY <1>5, <1>6
  <2>3. QED
    BY <1>1, <1>2, <1>6, <1>8, <2>1, <2>2 DEF RoomFits
<1>11. PendingFits(M, t, a, d, q)
  <2>1. ASSUME NEW i \in 1..Len(q.pending)
        PROVE  MayWait(M, t, a, d, q, q.pending[i])
    <3>1. i + 1 \in 1..Len(r.pending) /\ q.pending[i] = r.pending[i + 1]
      BY <1>2
    <3> DEFINE z == r.pending[i + 1]
    <3>2. MayWait(L, t, a, d, r, z)
      BY <1>1, <3>1 DEF PendingFits
    <3> HIDE DEF z
    <3>3. MayWait(M, t, a, d, q, z)
      BY <1>5, <1>6, <3>2 DEF MayWait
    <3>4. QED
      BY <3>1, <3>3 DEF z
  <2>2. QED
    BY <2>1 DEF PendingFits
<1>12. ReadFits(M, q, j)
  <2>1. ASSUME NEW c \in 1..n, ~M[c].reaction, c \notin j
        PROVE  M[c].of \in r.messages
    <3>1. CASE c = n
      BY <1>3, <1>4, <1>5, <2>1, <3>1 DEF MayWait
    <3>2. CASE c # n
      <4>1. c \in 1..r.cursor /\ c \notin k /\ M[c] = L[c]
        BY <1>5, <1>9, <2>1, <3>2 DEF JumpsOver
      <4>2. QED
        BY <1>1, <2>1, <4>1 DEF ReadFits
    <3>3. QED
      BY <3>1, <3>2
  <2>2. QED
    BY <1>6, <2>1 DEF ReadFits
<1>13. ASSUME NEW m \in Room!AllMessages, OneClock(a, d, m)
       PROVE  LastFits(M, t, a, d, q, j, m)
  <2> DEFINE s == r.reactions[m]
             p == q.reactions[m]
  <2>1. LastFits(L, t, a, d, r, k, m)
    BY <1>13 DEF Fits
  <2>2. /\ p.id = s.id /\ p.on = s.on /\ p.at = s.at
        /\ p.cursor = IF Reacts(x, m) /\ s.id = x.id THEN n ELSE s.cursor
    BY <1>7
  <2>3. ASSUME NEW i \in 1..Len(q.pending), LastWaiting(q, m, i)
        PROVE  p.id = q.pending[i].id /\ p.on = q.pending[i].on
    <3>1. i + 1 \in 1..Len(r.pending) /\ q.pending[i] = r.pending[i + 1]
      BY <1>2
    <3>2. ASSUME NEW h \in 1..Len(r.pending), Reacts(r.pending[h], m)
          PROVE  h <= i + 1
      <4>1. CASE h = 1
        BY <1>2, <4>1
      <4>2. CASE h # 1
        <5>1. h - 1 \in 1..Len(q.pending) /\ q.pending[h - 1] = r.pending[h]
          BY <1>2, <4>2
        <5>2. h - 1 <= i
          BY <2>3, <3>2, <5>1 DEF LastWaiting
        <5>3. QED
          BY <5>1, <5>2
      <4>3. QED
        BY <4>1, <4>2
    <3>3. LastWaiting(r, m, i + 1)
      BY <2>3, <3>1, <3>2 DEF LastWaiting
    <3>4. s.id = r.pending[i + 1].id /\ s.on = r.pending[i + 1].on
      BY <2>1, <3>1, <3>3 DEF LastFits
    <3>5. QED
      BY <2>2, <3>1, <3>4
  <2>4. ASSUME ~Unposted(q, m)
        PROVE  Settled(M, q, j, m)
    <3>0. \A i \in 1..Len(r.pending) : Reacts(r.pending[i], m) => i = 1
      <4>1. ASSUME NEW i \in 1..Len(r.pending), Reacts(r.pending[i], m), i # 1
            PROVE  FALSE
        <5>1. i - 1 \in 1..Len(q.pending) /\ q.pending[i - 1] = r.pending[i]
          BY <1>2, <4>1
        <5>2. QED
          BY <2>4, <4>1, <5>1 DEF Unposted
      <4>2. QED
        BY <4>1
    <3>1. CASE Reacts(x, m)
      <4>1. LastWaiting(r, m, 1)
        BY <1>2, <3>0, <3>1 DEF LastWaiting
      <4>2. s.id = x.id /\ s.on = x.on
        BY <1>2, <2>1, <4>1 DEF LastFits
      <4>3. p.cursor = n /\ p.on = x.on /\ n # 0 /\ n \in 1..n
        BY <1>0, <1>5, <2>2, <3>1, <4>2
      <4>4. Reacts(M[n], m) /\ M[n].on = x.on
        BY <1>4, <1>5, <3>1 DEF Reacts
      <4> HIDE DEF p, s
      <4>5. \A c \in 1..n : c <= n
        BY <1>0
      <4>6. QED
        BY <1>6, <4>3, <4>4, <4>5 DEF Settled, p
    <3>2. CASE ~Reacts(x, m)
      <4>1. ~Unposted(r, m)
        BY <1>2, <3>0, <3>2 DEF Unposted
      <4>2. Settled(L, r, k, m)
        BY <2>1, <4>1 DEF LastFits
      <4>3. p.cursor = s.cursor
        BY <2>2, <3>2
      <4>4. /\ s.id # 0 => s.cursor # 0
            /\ s.cursor # 0 => /\ s.cursor \in 1..r.cursor /\ Reacts(L[s.cursor], m)
                               /\ L[s.cursor].on = s.on
        BY <4>2 DEF Settled
      <4>5. \A c \in 1..r.cursor : c \in 1..n /\ M[c] = L[c]
        BY <1>5
      <4>6. Untouched(M, q, j, m) => Untouched(L, r, k, m)
        BY <1>6, <4>5 DEF Untouched, JumpsOver
      <4>7. ASSUME NEW c \in 1..n, Reacts(M[c], m), c \notin j
            PROVE  c \in 1..r.cursor /\ Reacts(L[c], m) /\ c \notin k
        <5>1. c # n
          BY <1>4, <1>5, <3>2, <4>7 DEF Reacts
        <5>2. QED
          BY <1>5, <1>9, <4>7, <5>1 DEF JumpsOver
      <4>8. Untouched(M, q, j, m) => \A c \in 1..n : Reacts(M[c], m) /\ c \notin j => c <= s.cursor
        BY <4>2, <4>6, <4>7 DEF Settled
      <4> HIDE DEF p, s
      <4>9. QED
        BY <1>6, <2>2, <4>3, <4>4, <4>5, <4>8 DEF Settled, p
    <3>3. QED
      BY <3>1, <3>2
  <2>5. m \in Room!Foreign(d) => p.at <= t + a[d]
    BY <2>1, <2>2 DEF LastFits
  <2>6. QED
    BY <2>3, <2>4, <2>5 DEF LastFits
<1>14. QED
  BY <1>10, <1>11, <1>12, <1>13 DEF Fits

\* What a record at the cursor n leaves as it was.
Passed(L, r, q, n) ==
  /\ r.pending = <<>> /\ n = r.cursor + 1 /\ n \in 1..Len(L)
  /\ DOMAIN q = Fields /\ q.pending = <<>> /\ q.cursor = n

PassesOn(L, t, a, d, r, q, n) ==
  /\ r.cursor \in Nat /\ n \in Nat \ {0} /\ Len(q.pending) = 0
  /\ \A c \in 1..n : c \in 1..r.cursor \/ c = n
  /\ \A c \in 1..r.cursor : c \in 1..n /\ c < n
  /\ PendingFits(L, t, a, d, q)
  /\ \A m \in Room!AllMessages : ~Unposted(r, m) /\ ~Unposted(q, m)
  /\ \A c \in 1..Len(L) : c > q.cursor => L[c].by # d
  /\ L[n].by # d

LEMMA PassedFits ==
  ASSUME NEW L \in Seq(Records), NEW t, NEW a, NEW d, NEW r, NEW q, NEW k, NEW n,
         Fits(L, t, a, d, r, k), Passed(L, r, q, n)
  PROVE  PassesOn(L, t, a, d, r, q, n)
<1>1. RoomFits(L, d, r)
  BY DEF Fits
<1>2. r.cursor \in 0..Len(L) /\ Len(L) \in Nat
  BY <1>1 DEF RoomFits
<1>3. Len(r.pending) = 0 /\ Len(q.pending) = 0
  BY DEF Passed
<1>4. n = r.cursor + 1 /\ n \in 1..Len(L) /\ q.cursor = n /\ r.pending = <<>>
  BY DEF Passed
<1>5. r.cursor \in Nat /\ n \in Nat \ {0} /\ n > r.cursor
  BY <1>2, <1>4
<1>6. /\ \A c \in 1..n : c \in 1..r.cursor \/ c = n
      /\ \A c \in 1..r.cursor : c \in 1..n /\ c < n
  BY <1>4, <1>5
<1>7. PendingFits(L, t, a, d, q) /\ \A m : ~Unposted(r, m) /\ ~Unposted(q, m)
  BY <1>3 DEF PendingFits, Unposted
<1>8. \A c \in 1..Len(L) : c > r.cursor => L[c].by # d
  BY <1>1, <1>4 DEF RoomFits
<1>9. \A c \in 1..Len(L) : c > n => c > r.cursor
  BY <1>4, <1>5
<1>10. QED
  BY <1>3, <1>4, <1>5, <1>6, <1>7, <1>8, <1>9 DEF PassesOn

\* What is shown of m stays when a record that is no reaction to it is passed.
LEMMA LastIsPassed ==
  ASSUME NEW L \in Seq(Records), NEW t, NEW a, NEW d, NEW r, NEW q, NEW k, NEW n,
         Fits(L, t, a, d, r, k), Passed(L, r, q, n),
         NEW m \in Room!AllMessages, OneClock(a, d, m), q.reactions[m] = r.reactions[m],
         Reacts(L[n], m) => ~Untouched(L, q, k, m)
  PROVE  LastFits(L, t, a, d, q, k, m)
<1>0. PassesOn(L, t, a, d, r, q, n)
  BY PassedFits
<1>1. /\ r.cursor \in Nat /\ n \in Nat \ {0} /\ Len(q.pending) = 0
      /\ \A c \in 1..n : c \in 1..r.cursor \/ c = n
      /\ \A c \in 1..r.cursor : c \in 1..n /\ c < n
      /\ ~Unposted(r, m)
  BY <1>0 DEF PassesOn
<1>2. LastFits(L, t, a, d, r, k, m) /\ q.cursor = n
  BY DEF Fits, Passed
<1>3. Settled(L, r, k, m)
  BY <1>1, <1>2 DEF LastFits
<1>4. Untouched(L, q, k, m) => Untouched(L, r, k, m) /\ ~Reacts(L[n], m)
  BY <1>1, <1>2 DEF Untouched
<1>5. Settled(L, q, k, m)
  BY <1>1, <1>2, <1>3, <1>4 DEF Settled
<1>6. ASSUME NEW i \in 1..Len(q.pending)
      PROVE  FALSE
  BY <1>1
<1>7. QED
  BY <1>2, <1>5, <1>6 DEF LastFits

\* A message of another device is pulled.
LEMMA PulledMessageFits ==
  ASSUME NEW L \in Seq(Records), NEW t, NEW a, NEW d, NEW r, NEW q, NEW k, NEW n,
         Fits(L, t, a, d, r, k), Passed(L, r, q, n), ~L[n].reaction,
         q.messages = r.messages \union {L[n].of}, q.reactions = r.reactions
  PROVE  Fits(L, t, a, d, q, k)
<1>1. RoomFits(L, d, r) /\ ReadFits(L, r, k) /\ L[n] \in Records /\ n \in 1..Len(L)
  BY DEF Fits, Passed
<1>0. PassesOn(L, t, a, d, r, q, n)
  BY PassedFits
<1>2. /\ \A c \in 1..n : c \in 1..r.cursor \/ c = n
      /\ PendingFits(L, t, a, d, q)
      /\ \A c \in 1..Len(L) : c > q.cursor => L[c].by # d
  BY <1>0 DEF PassesOn
<1>3. L[n].of \in Room!AllMessages /\ Writes(L[n], L[n].of)
  BY <1>1 DEF Records, Writes
<1>4. q.cursor \in 0..Len(L) /\ q.pending \in Seq(Records) /\ DOMAIN q = Fields /\ q.cursor = n
  BY <1>1 DEF Passed
<1>5. \A m \in q.messages \ Room!Mine(d) : \E c \in 1..Len(L) : Writes(L[c], m)
  BY <1>1, <1>3 DEF RoomFits
<1>6. RoomFits(L, d, q)
  BY <1>1, <1>2, <1>3, <1>4, <1>5 DEF RoomFits
<1>7. ReadFits(L, q, k)
  BY <1>1, <1>2, <1>4 DEF ReadFits
<1>8. ASSUME NEW m \in Room!AllMessages, OneClock(a, d, m)
      PROVE  LastFits(L, t, a, d, q, k, m)
  <2>1. q.reactions[m] = r.reactions[m] /\ ~Reacts(L[n], m)
    BY DEF Reacts
  <2>2. QED
    BY <1>8, <2>1, LastIsPassed
<1>9. QED
  BY <1>2, <1>6, <1>7, <1>8 DEF Fits

\* A reaction of another device is pulled: it is the last one of those in the log, or its
\* message is not there because it was skipped.
PullsReaction(L, r, o, q, n) ==
  /\ Passed(L, r, o, n) /\ L[n].reaction
  /\ o.messages = r.messages /\ o.reactions = r.reactions
  /\ q = Room!ApplyReaction(o, L[n], n)

LEMMA PulledReactionFits ==
  ASSUME NEW t \in Nat, NEW a \in [Room!Devices -> Nat], NEW d \in Room!Devices,
         NEW L, LogFits(L, t, a), NEW r, NEW q, NEW k, NEW n, NEW o,
         Fits(L, t, a, d, r, k), PullsReaction(L, r, o, q, n)
  PROVE  Fits(L, t, a, d, q, k)
<1> DEFINE x == L[n]
           next == Room!Stored(x, n)
           counts == x.of \in r.messages
                       /\ (r.reactions[x.of].id = 0 \/ Room!IsLater(next, r.reactions[x.of]))
<1>0. /\ L \in Seq(Records)
      /\ Passed(L, r, o, n) /\ x.reaction /\ o.messages = r.messages
      /\ o.reactions = r.reactions /\ q = Room!ApplyReaction(o, x, n)
  BY DEF LogFits, PullsReaction
<1>1. RoomFits(L, d, r) /\ ReadFits(L, r, k) /\ x \in Records /\ n \in 1..Len(L)
  BY <1>0 DEF Fits, Passed
<1>2. DOMAIN o = Fields /\ o.pending = <<>> /\ o.cursor = n
  BY <1>0 DEF Passed
<1>3. q = IF counts THEN [o EXCEPT !.reactions[x.of] = next] ELSE o
  BY <1>0, Zenon DEF Room!ApplyReaction
<1>4. /\ DOMAIN q = Fields /\ q.messages = r.messages /\ q.pending = <<>> /\ q.cursor = n
      /\ q.reactions = IF counts THEN [r.reactions EXCEPT ![x.of] = next] ELSE r.reactions
  <2> HIDE DEF counts, next
  <2>1. QED
    BY <1>0, <1>2, <1>3 DEF Fields
<1>5. Passed(L, r, q, n)
  BY <1>0, <1>4 DEF Passed
<1>6. /\ r.cursor \in Nat /\ n \in Nat \ {0}
      /\ \A c \in 1..n : c \in 1..r.cursor \/ c = n
      /\ \A c \in 1..r.cursor : c \in 1..n /\ c < n
      /\ PendingFits(L, t, a, d, q)
      /\ \A c \in 1..Len(L) : c > q.cursor => L[c].by # d
      /\ \A m \in Room!AllMessages : ~Unposted(r, m)
  <2>1. PassesOn(L, t, a, d, r, q, n)
    BY <1>0, <1>5, PassedFits
  <2>2. QED
    BY <2>1 DEF PassesOn
<1>7. x.of \in Room!AllMessages /\ x.on \in BOOLEAN /\ x.at \in Int /\ x.id \in Int
  BY <1>1 DEF Records
<1>8. /\ next \in Shown /\ next.on = x.on /\ next.at = x.at /\ next.cursor = n /\ next.id = x.id
  BY <1>6, <1>7 DEF Room!Stored, Shown
<1> HIDE DEF next
<1>9. r.reactions \in [Room!AllMessages -> Shown] /\ r.messages \subseteq Room!AllMessages
  BY <1>1 DEF RoomFits
<1>10. q.reactions \in [Room!AllMessages -> Shown]
  BY <1>4, <1>7, <1>8, <1>9
<1>11. RoomFits(L, d, q)
  BY <1>1, <1>4, <1>6, <1>10 DEF RoomFits
<1>12. ReadFits(L, q, k)
  BY <1>0, <1>1, <1>4, <1>6 DEF ReadFits
<1>13. ASSUME NEW m \in Room!AllMessages, OneClock(a, d, m)
       PROVE  LastFits(L, t, a, d, q, k, m)
  <2>1. CASE m # x.of
    <3>1. q.reactions[m] = r.reactions[m] /\ ~Reacts(x, m)
      BY <1>4, <1>9, <2>1 DEF Reacts
    <3>2. QED
      BY <1>0, <1>5, <1>13, <3>1, LastIsPassed
  <2>2. CASE m = x.of /\ counts
    <3>1. q.reactions[m] = next
      BY <1>4, <1>7, <1>9, <2>2
    <3>2. Reacts(L[n], m)
      BY <1>0, <2>2 DEF Reacts
    <3>3. m \in Room!Foreign(d) => x.at <= t + a[d]
      <4>1. Timely(t, a, x)
        BY <1>0, <1>1 DEF LogFits
      <4>2. QED
        BY <1>1, <1>13, <2>2, <4>1, OneClockTells
    <3>4. \A c \in 1..n : c <= n
      BY <1>6
    <3>5. n \in 1..n /\ n # 0
      BY <1>6
    <3>6. Settled(L, q, k, m)
      BY <1>4, <1>8, <3>1, <3>2, <3>4, <3>5 DEF Settled
    <3>7. ASSUME NEW i \in 1..Len(q.pending)
          PROVE  FALSE
      BY <1>4
    <3>8. QED
      BY <1>8, <3>1, <3>3, <3>6, <3>7 DEF LastFits
  <2>3. CASE m = x.of /\ ~counts
    <3>1. q.reactions[m] = r.reactions[m]
      BY <1>4, <2>3
    <3>2. ~Unposted(r, m)
      BY <1>6
    <3>3. LastFits(L, t, a, d, r, k, m)
      BY <1>13 DEF Fits
    <3>4. Settled(L, r, k, m)
      BY <3>2, <3>3 DEF LastFits
    <3>5. m \notin r.messages
      <4> DEFINE s == r.reactions[m]
      <4>1. s.id # 0 => s.cursor # 0 /\ s.cursor \in 1..r.cursor
        BY <3>4 DEF Settled
      <4>2. s.id # 0 => Room!IsLater(next, s)
        <5>1. s.cursor \in 1..r.cursor => n > s.cursor /\ n # s.cursor /\ n # 0
          BY <1>6
        <5> HIDE DEF s
        <5>2. QED
          BY <1>8, <4>1, <5>1 DEF Room!IsLater
      <4>3. QED
        BY <2>3, <4>2
    <3>6. ~Untouched(L, q, k, m)
      <4>1. PICK b \in 1..n : Writes(L[b], m)
        BY <1>0, <1>1, <2>3 DEF LogFits
      <4>2. b # n
        BY <1>0, <4>1 DEF Writes
      <4>3. b \in 1..r.cursor
        BY <1>6, <4>2
      <4>4. b \in k
        BY <1>1, <3>5, <4>1, <4>3 DEF ReadFits, Writes
      <4>5. QED
        BY <1>4, <4>1, <4>4 DEF Untouched
    <3>7. QED
      BY <1>0, <1>5, <1>13, <3>1, <3>6, LastIsPassed
  <2>4. QED
    BY <2>1, <2>2, <2>3
<1>14. QED
  BY <1>6, <1>11, <1>12, <1>13 DEF Fits

-----------------------------------------------------------------------------
(* What a step makes of the devices.                                       *)

LEMMA SessionStays ==
  ASSUME NEW L \in Seq(Records), NEW M, Longer(L, M), NEW d, NEW r, NEW q, NEW v, NEW w,
         SessionFits(L, d, r, v), r.messages \subseteq q.messages,
         DOMAIN w = DOMAIN Room!NewSession, w.clicks = v.clicks,
         w.pc = "pull" => v.pc = "pull" /\ w.until = v.until /\ q.pending = r.pending
  PROVE  SessionFits(M, d, q, w)
<1>1. Len(L) \in Nat /\ Len(M) \in Nat /\ Len(L) <= Len(M)
  BY DEF Longer
<1>2. 0..Len(L) \subseteq 0..Len(M)
  BY <1>1
<1>3. QED
  BY <1>2 DEF SessionFits

\* A device rests while the log grows.
LEMMA DeviceRests ==
  ASSUME NEW L \in Seq(Records), NEW M, Longer(L, M), NEW t \in Nat, NEW u \in Nat, t <= u,
         NEW a \in [Room!Devices -> Nat], NEW d \in Room!Devices, NEW r, NEW s, NEW v, NEW k,
         DeviceShows(L, t, a, d, r, s, v, k),
         \A c \in 1..Len(M) : c > Len(L) => M[c].by # d
  PROVE  DeviceShows(M, u, a, d, r, s, v, k)
<1>1. Foreigners(L, M, d, r) /\ Foreigners(L, M, d, ReadBy(L, s))
  BY DEF Foreigners
<1>2. Fits(M, u, a, d, r, k) /\ Fits(M, u, a, d, ReadBy(L, s), k)
  BY <1>1, FitsInLonger DEF DeviceShows
<1>3. ReadBy(M, s) = ReadBy(L, s) /\ s.inline \subseteq 1..Len(M)
  <2>1. s.inline \subseteq 1..Len(L)
    BY DEF DeviceShows
  <2>2. 1..Len(L) \subseteq 1..Len(M)
    BY DEF Longer
  <2>3. QED
    BY <2>1, <2>2, ReadByLonger
<1>4. SessionFits(M, d, r, v)
  <2>1. SessionFits(L, d, r, v)
    BY DEF DeviceShows
  <2>2. DOMAIN v = DOMAIN Room!NewSession
    BY <2>1 DEF SessionFits
  <2>3. QED
    BY <2>1, <2>2, SessionStays
<1>5. QED
  BY <1>2, <1>3, <1>4 DEF DeviceShows

\* A room that is stored as it is in memory.
LEMMA StoredFits ==
  ASSUME NEW L, NEW t, NEW a, NEW d, NEW q, NEW k, NEW v,
         Fits(L, t, a, d, q, k), q.inline = {}, SessionFits(L, d, q, v)
  PROVE  DeviceShows(L, t, a, d, q, q, v, k)
<1>1. DOMAIN q = Fields /\ q.reactions \in [Room!AllMessages -> Shown]
  BY DEF Fits, RoomFits
<1>2. ShowSame(ReadBy(L, q), q)
  BY <1>1, ReadAsItIs
<1>3. Fits(L, t, a, d, ReadBy(L, q), k)
  BY <1>2, SameFits
<1>4. QED
  BY <1>1, <1>3 DEF DeviceShows

\* One device takes a step, and what it adds to the log is its own.
Turn(d, r, s, v, k) ==
  /\ DOMAIN inMemory' = Room!Devices /\ DOMAIN saved' = Room!Devices
  /\ DOMAIN session' = Room!Devices /\ DOMAIN skipped' = Room!Devices
  /\ \A e \in Room!Devices \ {d} :
       /\ inMemory'[e] = inMemory[e] /\ saved'[e] = saved[e]
       /\ session'[e] = session[e] /\ skipped'[e] = skipped[e]
  /\ inMemory'[d] = r /\ saved'[d] = s /\ session'[d] = v /\ skipped'[d] = k
  /\ ahead' = ahead

LEMMA TurnKeeps ==
  ASSUME ShownInv, NEW d \in Room!Devices, NEW r, NEW s, NEW v, NEW k, Turn(d, r, s, v, k),
         now' \in Nat, now <= now', LogFits(log', now', ahead), Longer(log, log'),
         \A c \in 1..Len(log') : c > Len(log) => log'[c].by = d,
         DeviceShows(log', now', ahead, d, r, s, v, k)
  PROVE  ShownInv'
<1>1. log \in Seq(Records) /\ now \in Nat /\ ahead \in [Room!Devices -> Nat]
  BY DEF ShownInv, LogFits
<1>2. ASSUME NEW e \in Room!Devices \ {d}
      PROVE  DeviceShows(log', now', ahead, e, inMemory'[e], saved'[e], session'[e], skipped'[e])
  <2>1. DeviceShows(log, now, ahead, e, inMemory[e], saved[e], session[e], skipped[e])
    BY DEF ShownInv
  <2>2. \A c \in 1..Len(log') : c > Len(log) => log'[c].by # e
    OBVIOUS
  <2>3. DeviceShows(log', now', ahead, e, inMemory[e], saved[e], session[e], skipped[e])
    BY <1>1, <2>1, <2>2, DeviceRests
  <2>4. QED
    BY <2>3 DEF Turn
<1>3. DeviceShows(log', now', ahead, d, inMemory'[d], saved'[d], session'[d], skipped'[d])
  BY DEF Turn
<1>4. \A e \in Room!Devices :
        DeviceShows(log', now', ahead, e, inMemory'[e], saved'[e], session'[e], skipped'[e])
  BY <1>2, <1>3
<1>5. ahead' = ahead
  BY DEF Turn
<1>6. QED
  BY <1>1, <1>4, <1>5 DEF ShownInv, Turn

\* The log does not grow.
LEMMA QuietTurnKeeps ==
  ASSUME ShownInv, NEW d \in Room!Devices, NEW r, NEW s, NEW v, NEW k, Turn(d, r, s, v, k),
         now' = now, log' = log, DeviceShows(log, now, ahead, d, r, s, v, k)
  PROVE  ShownInv'
<1>1. now \in Nat /\ LogFits(log, now, ahead) /\ log \in Seq(Records)
  BY DEF ShownInv, LogFits
<1>2. Longer(log, log) /\ Len(log) \in Nat /\ now <= now
  BY <1>1 DEF Longer
<1>3. \A c \in 1..Len(log) : ~(c > Len(log))
  BY <1>2
<1>4. QED
  BY <1>1, <1>2, <1>3, TurnKeeps

\* What holds of the device before its step.
LEMMA DeviceBefore ==
  ASSUME ShownInv, NEW d \in Room!Devices
  PROVE  /\ DOMAIN inMemory = Room!Devices /\ DOMAIN saved = Room!Devices
         /\ DOMAIN session = Room!Devices /\ DOMAIN skipped = Room!Devices
         /\ DeviceShows(log, now, ahead, d, inMemory[d], saved[d], session[d], skipped[d])
         /\ DOMAIN session[d] = {"attached", "connection", "pc", "until", "counts", "clicks"}
         /\ DOMAIN inMemory[d] = Fields /\ DOMAIN saved[d] = Fields
         /\ log \in Seq(Records) /\ Len(log) \in Nat /\ now \in Nat
         /\ ahead \in [Room!Devices -> Nat] /\ ahead[d] \in Nat
<1>1. DeviceShows(log, now, ahead, d, inMemory[d], saved[d], session[d], skipped[d])
  BY DEF ShownInv
<1>2. log \in Seq(Records) /\ now \in Nat /\ ahead \in [Room!Devices -> Nat]
  BY DEF ShownInv, LogFits
<1>3. QED
  BY <1>1, <1>2, SessionFields DEF ShownInv, DeviceShows, SessionFits, Fits, RoomFits

\* Steps of the session alone.
LEMMA SessionMoves ==
  ASSUME ShownInv, NEW d \in Room!Devices
  PROVE  /\ Room!Attach(d) => ShownInv'
         /\ Room!Sync(d) => ShownInv'
         /\ Room!Fetch(d) => ShownInv'
         /\ \A m \in Room!Foreign(d), picked \in BOOLEAN : Room!Click(d, m, picked) => ShownInv'
<1> DEFINE r == inMemory[d]
           s == saved[d]
           k == skipped[d]
<1>0. /\ DOMAIN inMemory = Room!Devices /\ DOMAIN saved = Room!Devices
      /\ DOMAIN session = Room!Devices /\ DOMAIN skipped = Room!Devices
      /\ DeviceShows(log, now, ahead, d, r, s, session[d], k)
      /\ DOMAIN session[d] = {"attached", "connection", "pc", "until", "counts", "clicks"}
      /\ Len(log) \in Nat
  BY DeviceBefore
<1>1. ASSUME NEW v, session' = [session EXCEPT ![d] = v], SessionFits(log, d, r, v),
             UNCHANGED <<log, inMemory, saved, ahead, now, skipped>>
      PROVE  ShownInv'
  <2>1. Turn(d, r, s, v, k)
    BY <1>0, <1>1 DEF Turn
  <2>2. DeviceShows(log, now, ahead, d, r, s, v, k)
    BY <1>0, <1>1 DEF DeviceShows
  <2>3. QED
    BY <1>1, <2>1, <2>2, QuietTurnKeeps
<1>2. SessionFits(log, d, r, session[d])
  BY <1>0 DEF DeviceShows
<1>3. ASSUME Room!Attach(d)
      PROVE  ShownInv'
  <2>1. SessionFits(log, d, r, Room!Attached)
    BY SessionFields DEF SessionFits, Room!Attached, Room!NewSession
  <2>2. QED
    BY <1>1, <1>3, <2>1 DEF Room!Attach
<1>4. ASSUME Room!Sync(d)
      PROVE  ShownInv'
  <2>1. SessionFits(log, d, r, [session[d] EXCEPT !.pc = "flush"])
    BY <1>0, <1>2, SessionFields DEF SessionFits
  <2>2. session' = [session EXCEPT ![d] = [session[d] EXCEPT !.pc = "flush"]]
    BY <1>4 DEF Room!Sync
  <2>3. QED
    BY <1>1, <1>4, <2>1, <2>2 DEF Room!Sync
<1>5. ASSUME Room!Fetch(d)
      PROVE  ShownInv'
  <2> DEFINE v == [session[d] EXCEPT !.pc = "pull", !.until = Len(log), !.counts = r.baseline]
  <2>1. /\ DOMAIN v = DOMAIN Room!NewSession /\ v.clicks = session[d].clicks
        /\ v.until = Len(log)
    BY <1>0, SessionFields
  <2>2. r.pending = <<>> /\ session' = [session EXCEPT ![d] = v]
    BY <1>5 DEF Room!Fetch
  <2> HIDE DEF v
  <2>3. Len(log) \in 0..Len(log)
    BY <1>0
  <2>4. SessionFits(log, d, r, v)
    BY <1>2, <2>1, <2>2, <2>3 DEF SessionFits
  <2>5. QED
    BY <1>1, <1>5, <2>2, <2>4 DEF Room!Fetch
<1>6. ASSUME NEW m \in Room!Foreign(d), NEW picked \in BOOLEAN, Room!Click(d, m, picked)
      PROVE  ShownInv'
  <2> DEFINE x == [of |-> m, on |-> picked \/ ~r.reactions[m].on]
             v == [session[d] EXCEPT !.clicks = Append(@, x)]
  <2>1. m \in r.messages \ Room!Mine(d) /\ session' = [session EXCEPT ![d] = v]
    BY <1>6 DEF Room!Click
  <2>2. x \in Clicked
    <3>1. (picked \/ ~r.reactions[m].on) \in BOOLEAN
      BY Zenon
    <3>2. m \in Room!AllMessages
      BY DEF Room!Foreign
    <3>3. QED
      BY <3>1, <3>2, Zenon DEF Clicked
  <2>3. x.of = m
    OBVIOUS
  <2> HIDE DEF x
  <2>4. /\ DOMAIN v = DOMAIN Room!NewSession /\ v.clicks = Append(session[d].clicks, x)
        /\ v.pc = session[d].pc /\ v.until = session[d].until
    BY <1>0, SessionFields
  <2> HIDE DEF v
  <2>5. session[d].clicks \in Seq(Clicked)
    BY <1>2 DEF SessionFits
  <2>6. v.clicks \in Seq(Clicked)
        /\ \A i \in 1..Len(v.clicks) : v.clicks[i] = x \/ \E j \in 1..Len(session[d].clicks) :
                                                           v.clicks[i] = session[d].clicks[j]
    BY <2>2, <2>4, <2>5
  <2>7. SessionFits(log, d, r, v)
    BY <1>2, <2>1, <2>3, <2>4, <2>6 DEF SessionFits
  <2>8. QED
    BY <1>1, <1>6, <2>1, <2>7 DEF Room!Click
<1>7. QED
  BY <1>3, <1>4, <1>5, <1>6

\* A room is saved as it is in memory.
LEMMA SaveMoves ==
  ASSUME ShownInv, NEW d \in Room!Devices, NEW q, NEW v,
         log' = log, now' = now, ahead' = ahead, skipped' = skipped,
         inMemory' = [inMemory EXCEPT ![d] = q], saved' = [saved EXCEPT ![d] = q],
         session' = [session EXCEPT ![d] = v],
         Fits(log, now, ahead, d, q, skipped[d]), q.inline = {}, SessionFits(log, d, q, v)
  PROVE  ShownInv'
<1>1. DeviceShows(log, now, ahead, d, q, q, v, skipped[d])
  BY StoredFits
<1>2. /\ DOMAIN inMemory = Room!Devices /\ DOMAIN saved = Room!Devices
      /\ DOMAIN session = Room!Devices /\ DOMAIN skipped = Room!Devices
  BY DEF ShownInv
<1>3. Turn(d, q, q, v, skipped[d])
  BY <1>2 DEF Turn
<1>4. QED
  BY <1>1, <1>3, QuietTurnKeeps

LEMMA SavesTheRoom ==
  ASSUME ShownInv, NEW d \in Room!Devices
  PROVE  /\ Room!PullEnd(d) => ShownInv'
         /\ Room!MarkRead(d) => ShownInv'
<1> DEFINE r == inMemory[d]
<1>0. /\ DOMAIN session = Room!Devices
      /\ DeviceShows(log, now, ahead, d, r, saved[d], session[d], skipped[d])
      /\ DOMAIN session[d] = {"attached", "connection", "pc", "until", "counts", "clicks"}
      /\ DOMAIN r = Fields /\ log \in Seq(Records) /\ Longer(log, log)
  BY DeviceBefore DEF Longer
<1>1. Fits(log, now, ahead, d, r, skipped[d]) /\ r.inline = {} /\ SessionFits(log, d, r, session[d])
  BY <1>0 DEF DeviceShows
<1>2. ASSUME NEW q, ShowSame(q, r), q.inline = {}, NEW v, DOMAIN v = DOMAIN Room!NewSession,
             v.clicks = session[d].clicks,
             v.pc = "pull" => session[d].pc = "pull" /\ v.until = session[d].until,
             log' = log, now' = now, ahead' = ahead, skipped' = skipped,
             inMemory' = [inMemory EXCEPT ![d] = q], saved' = [saved EXCEPT ![d] = q],
             session' = [session EXCEPT ![d] = v]
      PROVE  ShownInv'
  <2>1. Fits(log, now, ahead, d, q, skipped[d])
    BY <1>1, <1>2, SameFits
  <2>2. r.messages \subseteq q.messages /\ q.pending = r.pending
    BY <1>2 DEF ShowSame
  <2>3. SessionFits(log, d, q, v)
    BY <1>0, <1>1, <1>2, <2>2, SessionStays
  <2>4. QED
    BY <1>2, <2>1, <2>3, SaveMoves
<1>3. /\ ShowSame(r, r) /\ r.inline = {}
      /\ ShowSame([r EXCEPT !.unread = 0], r) /\ [r EXCEPT !.unread = 0].inline = {}
      /\ ShowSame([r EXCEPT !.unread = 0, !.baseline = TRUE], r)
      /\ [r EXCEPT !.unread = 0, !.baseline = TRUE].inline = {}
  BY <1>0, <1>1 DEF ShowSame, Fields
<1>4. ASSUME Room!PullEnd(d)
      PROVE  ShownInv'
  <2> DEFINE v == [session[d] EXCEPT !.pc = "idle", !.connection = "connected",
                                     !.until = 0, !.counts = FALSE]
  <2>1. v.pc = "idle" /\ DOMAIN v = DOMAIN Room!NewSession /\ v.clicks = session[d].clicks
    BY <1>0, SessionFields
  <2>2. /\ session' = [session EXCEPT ![d] = v]
        /\ log' = log /\ now' = now /\ ahead' = ahead /\ skipped' = skipped
    BY <1>4 DEF Room!PullEnd
  <2> HIDE DEF v
  <2>3. v.pc # "pull"
    BY <2>1
  <2>4. CASE session[d].counts
    <3>1. inMemory' = [inMemory EXCEPT ![d] = r] /\ saved' = [saved EXCEPT ![d] = r]
      BY <1>4, <2>4 DEF Room!PullEnd, Room!Save, Room!Set
    <3>2. QED
      BY <1>2, <1>3, <2>1, <2>2, <2>3, <3>1
  <2>5. CASE ~session[d].counts
    <3> DEFINE q == [r EXCEPT !.unread = 0, !.baseline = TRUE]
    <3>1. inMemory' = [inMemory EXCEPT ![d] = q] /\ saved' = [saved EXCEPT ![d] = q]
      BY <1>4, <2>5 DEF Room!PullEnd, Room!Save, Room!Set
    <3>2. ShowSame(q, r) /\ q.inline = {}
      BY <1>3
    <3> HIDE DEF q
    <3>3. QED
      BY <1>2, <2>1, <2>2, <2>3, <3>1, <3>2
  <2>6. QED
    BY <2>4, <2>5
<1>5. ASSUME Room!MarkRead(d)
      PROVE  ShownInv'
  <2> DEFINE q == [r EXCEPT !.unread = 0]
  <2>1. /\ inMemory' = [inMemory EXCEPT ![d] = q] /\ saved' = [saved EXCEPT ![d] = q]
        /\ session' = session /\ log' = log /\ now' = now /\ ahead' = ahead /\ skipped' = skipped
    BY <1>5 DEF Room!MarkRead, Room!Acknowledged, Room!Save, Room!Set
  <2>2. ShowSame(q, r) /\ q.inline = {}
    BY <1>3
  <2> HIDE DEF q
  <2>3. Fits(log, now, ahead, d, q, skipped[d])
    BY <1>1, <2>2, SameFits
  <2>4. SessionFits(log, d, q, session[d])
    <3>1. r.messages \subseteq q.messages /\ q.pending = r.pending
      BY <2>2 DEF ShowSame
    <3>2. QED
      BY <1>0, <1>1, <3>1, SessionFields, SessionStays
  <2>5. DeviceShows(log, now, ahead, d, q, q, session[d], skipped[d])
    BY <2>2, <2>3, <2>4, StoredFits
  <2>6. Turn(d, q, q, session[d], skipped[d])
    BY <1>0, <2>1 DEF Turn, ShownInv
  <2>7. QED
    BY <2>1, <2>5, <2>6, QuietTurnKeeps
<1>6. QED
  BY <1>4, <1>5

\* The stored room is read.
LEMMA ReadsTheRoom ==
  ASSUME ShownInv, NEW d \in Room!Devices
  PROVE  /\ Room!Reload(d) => ShownInv'
         /\ Room!MarkRoomRead(d) => ShownInv'
<1> DEFINE r == inMemory[d]
           s == saved[d]
           p == ReadBy(log, s)
<1>0. /\ DOMAIN inMemory = Room!Devices /\ DOMAIN saved = Room!Devices
      /\ DOMAIN session = Room!Devices /\ DOMAIN skipped = Room!Devices
      /\ DeviceShows(log, now, ahead, d, r, s, session[d], skipped[d])
      /\ DOMAIN s = Fields
  BY DeviceBefore
<1>1. Fits(log, now, ahead, d, p, skipped[d]) /\ s.inline \subseteq 1..Len(log)
  BY <1>0 DEF DeviceShows
<1>2. /\ p = [s EXCEPT !.inline = {}, !.reactions = p.reactions] /\ p.inline = {}
      /\ p.pending = s.pending /\ p.cursor = s.cursor /\ DOMAIN p = Fields
  <2>1. \A x : LET q == [s EXCEPT !.inline = {}, !.reactions = x]
               IN  /\ q = [s EXCEPT !.inline = {}, !.reactions = q.reactions]
                   /\ q.inline = {} /\ q.pending = s.pending /\ q.cursor = s.cursor
                   /\ DOMAIN q = Fields
    BY <1>0 DEF Fields
  <2>2. QED
    BY <2>1, Zenon DEF ReadBy
<1>3. Room!ReadStoredRoom(s) = p
  BY ReadByLog
<1> HIDE DEF p
<1>4. ASSUME Room!Reload(d)
      PROVE  ShownInv'
  <2> DEFINE j == {c \in skipped[d] : c <= s.cursor}
  <2>1. /\ inMemory' = [inMemory EXCEPT ![d] = p] /\ saved' = saved
        /\ session' = [session EXCEPT ![d] = Room!NewSession]
        /\ skipped' = [skipped EXCEPT ![d] = j]
        /\ log' = log /\ now' = now /\ ahead' = ahead
    BY <1>3, <1>4 DEF Room!Reload, Room!Set
  <2>2. \A c \in 1..p.cursor : c \in skipped[d] => c \in j
    <3>1. p.cursor \in Nat
      BY <1>1 DEF Fits, RoomFits
    <3>2. QED
      BY <1>2, <3>1
  <2>3. Fits(log, now, ahead, d, p, j)
    BY <1>1, <2>2, FitsSkipping
  <2>4. SessionFits(log, d, p, Room!NewSession)
    BY SessionFields DEF SessionFits, Room!NewSession
  <2>5. DeviceShows(log, now, ahead, d, p, s, Room!NewSession, j)
    BY <1>0, <1>1, <1>2, <2>3, <2>4 DEF DeviceShows, p
  <2> HIDE DEF j
  <2>6. Turn(d, p, s, Room!NewSession, j)
    BY <1>0, <2>1 DEF Turn
  <2>7. QED
    BY <2>1, <2>5, <2>6, QuietTurnKeeps
<1>5. ASSUME Room!MarkRoomRead(d)
      PROVE  ShownInv'
  <2> DEFINE q == [p EXCEPT !.unread = 0, !.baseline = TRUE]
  <2>1. saved' = [saved EXCEPT ![d] = q]
    <3>1. saved' = [saved EXCEPT ![d] = [Room!ReadStoredRoom(s) EXCEPT !.unread = 0, !.baseline = TRUE]]
      BY <1>0, <1>5 DEF Room!MarkRoomRead
    <3>2. QED
      BY <1>3, <3>1
  <2>2. UNCHANGED <<inMemory, session, log, now, ahead, skipped>>
    BY <1>5 DEF Room!MarkRoomRead
  <2>3. ShowSame(q, p) /\ q.inline = {} /\ DOMAIN q = Fields /\ q.pending = s.pending
    BY <1>2 DEF ShowSame, Fields
  <2> HIDE DEF q
  <2>4. Fits(log, now, ahead, d, q, skipped[d])
    BY <1>1, <2>3, SameFits
  <2>5. ShowSame(ReadBy(log, q), q)
    BY <2>3, <2>4, ReadAsItIs DEF Fits, RoomFits
  <2>6. Fits(log, now, ahead, d, ReadBy(log, q), skipped[d])
    BY <2>4, <2>5, SameFits
  <2>7. DeviceShows(log, now, ahead, d, r, q, session[d], skipped[d])
    BY <1>0, <2>3, <2>6 DEF DeviceShows
  <2>8. Turn(d, r, q, session[d], skipped[d])
    BY <1>0, <2>1, <2>2 DEF Turn
  <2>9. QED
    BY <2>2, <2>7, <2>8, QuietTurnKeeps
<1>6. QED
  BY <1>4, <1>5

LEMMA SendShows ==
  ASSUME ShownInv, NEW d \in Room!Devices, NEW m \in Room!Mine(d), Room!Send(d, m)
  PROVE  ShownInv'
<1> DEFINE r == inMemory[d]
           x == Room!Message(d, m)
           q == [r EXCEPT !.messages = @ \union {m}, !.pending = Append(@, x)]
           v == [session[d] EXCEPT !.pc = "flush"]
<1>0. /\ DeviceShows(log, now, ahead, d, r, saved[d], session[d], skipped[d])
      /\ DOMAIN session[d] = {"attached", "connection", "pc", "until", "counts", "clicks"}
      /\ DOMAIN r = Fields /\ log \in Seq(Records) /\ Longer(log, log)
  BY DeviceBefore DEF Longer
<1>1. Fits(log, now, ahead, d, r, skipped[d]) /\ r.inline = {} /\ SessionFits(log, d, r, session[d])
  BY <1>0 DEF DeviceShows
<1>2. /\ inMemory' = [inMemory EXCEPT ![d] = q] /\ saved' = [saved EXCEPT ![d] = q]
      /\ session' = [session EXCEPT ![d] = v]
      /\ log' = log /\ now' = now /\ ahead' = ahead /\ skipped' = skipped
  BY DEF Room!Send, Room!Save, Room!Set
<1>3. m \in Room!AllMessages
  BY DEF Room!Mine, Room!AllMessages
<1>4. x \in Records /\ ~x.reaction /\ x.of = m /\ x.by = d
  <2>1. FALSE \in BOOLEAN
    BY Zenon
  <2>2. QED
    BY <1>3, <2>1 DEF Records, Room!Message
<1> HIDE DEF x
<1>5. /\ DOMAIN q = Fields /\ q.messages = r.messages \union {m} /\ q.reactions = r.reactions
      /\ q.cursor = r.cursor /\ q.pending = Append(r.pending, x) /\ q.inline = {}
  BY <1>0, <1>1 DEF Fields
<1>6. v.pc = "flush" /\ DOMAIN v = DOMAIN Room!NewSession /\ v.clicks = session[d].clicks
  BY <1>0, SessionFields
<1> HIDE DEF q, v
<1>7. Fits(log, now, ahead, d, q, skipped[d])
  BY <1>0, <1>1, <1>3, <1>4, <1>5, SentFits
<1>8. SessionFits(log, d, q, v)
  <2>1. v.pc # "pull" /\ r.messages \subseteq q.messages
    BY <1>5, <1>6
  <2>2. QED
    BY <1>0, <1>1, <1>6, <2>1, SessionStays
<1>9. QED
  BY <1>2, <1>5, <1>7, <1>8, SaveMoves

\* A reaction is set: it is later than the one that shows, by the clock of the device.
LEMMA SetReactionShows ==
  ASSUME ShownInv, NEW d \in Room!Devices, Room!SetReaction(d)
  PROVE  ShownInv'
<1> DEFINE r == inMemory[d]
           k == skipped[d]
           click == Head(session[d].clicks)
           u == now + 1
           x == Room!Reaction(d, click.of, click.on, u + ahead[d], u)
           o == Room!ApplyReaction(r, x, 0)
           q == [o EXCEPT !.pending = Append(@, x)]
           v == [session[d] EXCEPT !.clicks = Tail(@), !.pc = "flush"]
           w == [session[d] EXCEPT !.clicks = Tail(@)]
<1>0. /\ DOMAIN inMemory = Room!Devices /\ DOMAIN saved = Room!Devices
      /\ DOMAIN session = Room!Devices /\ DOMAIN skipped = Room!Devices
      /\ DeviceShows(log, now, ahead, d, r, saved[d], session[d], k)
      /\ DOMAIN session[d] = {"attached", "connection", "pc", "until", "counts", "clicks"}
      /\ DOMAIN r = Fields
      /\ log \in Seq(Records) /\ Len(log) \in Nat /\ now \in Nat
      /\ ahead \in [Room!Devices -> Nat] /\ ahead[d] \in Nat
  BY DeviceBefore
<1>1. u \in Nat /\ now <= u /\ u + ahead[d] \in Int /\ u + ahead[d] > now + ahead[d]
      /\ u + ahead[d] # 0 /\ u # 0
  BY <1>0
<1>2. /\ now' = u /\ log' = log /\ ahead' = ahead /\ skipped' = skipped
      /\ session[d].clicks # <<>> /\ session[d].pc = "idle"
  BY DEF Room!SetReaction, Room!Idle
<1>3. SessionFits(log, d, r, session[d])
  BY <1>0 DEF DeviceShows
<1>4. /\ click \in Clicked /\ click.of \in r.messages \ Room!Mine(d)
      /\ Tail(session[d].clicks) \in Seq(Clicked)
      /\ \A i \in 1..Len(Tail(session[d].clicks)) :
           Tail(session[d].clicks)[i].of \in r.messages \ Room!Mine(d)
  <2> DEFINE cs == session[d].clicks
  <2>1. cs \in Seq(Clicked) /\ \A i \in 1..Len(cs) : cs[i].of \in r.messages \ Room!Mine(d)
    BY <1>3 DEF SessionFits
  <2>2. cs # <<>>
    BY <1>2
  <2> HIDE DEF cs
  <2>3. /\ Head(cs) = cs[1] /\ 1 \in 1..Len(cs) /\ Head(cs) \in Clicked
        /\ Tail(cs) \in Seq(Clicked)
        /\ \A i \in 1..Len(Tail(cs)) : i + 1 \in 1..Len(cs) /\ Tail(cs)[i] = cs[i + 1]
    BY <2>1, <2>2
  <2>4. Head(cs).of \in r.messages \ Room!Mine(d)
        /\ \A i \in 1..Len(Tail(cs)) : Tail(cs)[i].of \in r.messages \ Room!Mine(d)
    BY <2>1, <2>3
  <2>5. QED
    BY <2>3, <2>4 DEF cs
<1>5. LogFits(log, u, ahead) /\ Longer(log, log)
  <2>1. LogFits(log, now, ahead)
    BY DEF ShownInv
  <2>2. PICK y \in Records : ~y.reaction
    <3>1. PICK m \in r.messages : m \in Room!AllMessages
      BY <1>0, <1>4 DEF DeviceShows, Fits, RoomFits
    <3>2. [reaction |-> FALSE, of |-> m, on |-> FALSE, at |-> 0, id |-> 0, by |-> d] \in Records
      <4>1. FALSE \in BOOLEAN
        BY Zenon
      <4>2. QED
        BY <3>1, <4>1 DEF Records
    <3>3. QED
      BY <3>2
  <2>3. QED
    BY <1>0, <1>1, <2>1, <2>2, LogFitsMore
<1>6. \A c \in 1..Len(log) : ~(c > Len(log))
  BY <1>0
<1>7. DeviceShows(log, u, ahead, d, r, saved[d], session[d], k)
  BY <1>0, <1>1, <1>5, <1>6, DeviceRests
<1>8. CASE session[d].connection # "connected"
  <2>1. /\ session' = [session EXCEPT ![d] = w] /\ inMemory' = inMemory /\ saved' = saved
    BY <1>8 DEF Room!SetReaction
  <2>2. w.clicks = Tail(session[d].clicks) /\ w.pc = "idle" /\ DOMAIN w = DOMAIN Room!NewSession
    BY <1>0, <1>2, SessionFields
  <2> HIDE DEF w
  <2>3. SessionFits(log, d, r, w)
    BY <1>4, <2>2 DEF SessionFits
  <2>4. DeviceShows(log, u, ahead, d, r, saved[d], w, k)
    BY <1>7, <2>3 DEF DeviceShows
  <2>5. Turn(d, r, saved[d], w, k)
    BY <1>0, <1>2, <2>1 DEF Turn
  <2> HIDE DEF u
  <2>6. QED
    BY <1>1, <1>2, <1>5, <1>6, <2>4, <2>5, TurnKeeps
<1>9. CASE session[d].connection = "connected"
  <2>1. /\ inMemory' = [inMemory EXCEPT ![d] = q] /\ saved' = [saved EXCEPT ![d] = q]
        /\ session' = [session EXCEPT ![d] = v]
    BY <1>9 DEF Room!SetReaction, Room!Save, Room!Set
  <2>2. v.clicks = Tail(session[d].clicks) /\ v.pc = "flush" /\ DOMAIN v = DOMAIN Room!NewSession
    BY <1>0, SessionFields
  <2> HIDE DEF v
  <2>3. /\ x \in Records /\ x.reaction /\ x.of = click.of /\ x.by = d /\ x.at = u + ahead[d]
        /\ x.id = u /\ x.on = click.on
    <3>1. TRUE \in BOOLEAN /\ click.on \in BOOLEAN /\ click.of \in Room!AllMessages
      <4>1. TRUE \in BOOLEAN
        BY Zenon
      <4>2. QED
        BY <1>4, <4>1 DEF Clicked
    <3>2. u \in Int
      BY <1>1
    <3> HIDE DEF u, click
    <3>3. QED
      BY <1>1, <3>1, <3>2 DEF Records, Room!Reaction
  <2>4. r.inline = {} /\ Fits(log, u, ahead, d, r, k) /\ Fits(log, now, ahead, d, r, k)
    BY <1>0, <1>7 DEF DeviceShows
  <2>5. RoomFits(log, d, r)
    BY <2>4 DEF Fits
  <2> DEFINE next == Room!Stored(x, 0)
             prior == r.reactions[x.of]
             counts == x.of \in r.messages /\ (prior.id = 0 \/ Room!IsLater(next, prior))
  <2>6. o = IF counts THEN [r EXCEPT !.reactions[x.of] = next] ELSE r
    <3> HIDE DEF x
    <3>1. QED
      BY Zenon DEF Room!ApplyReaction
  <2>7. next \in Shown /\ next.at = u + ahead[d] /\ next.cursor = 0
    <3>1. x.on \in BOOLEAN /\ x.at \in Int /\ x.id \in Int
      BY <2>3 DEF Records
    <3> HIDE DEF x
    <3>2. QED
      BY <2>3, <3>1 DEF Room!Stored, Shown
  <2>8. x.of \in r.messages \ Room!Mine(d) /\ x.of \in Room!AllMessages
    BY <1>4, <2>3, <2>5 DEF RoomFits
  <2>9. OneClock(ahead, d, x.of) => counts
    <3>1. ASSUME OneClock(ahead, d, x.of)
          PROVE  Room!IsLater(next, prior)
      <4>1. x.of \in Room!Foreign(d)
        BY <2>8 DEF Room!Foreign
      <4>2. prior.at <= now + ahead[d]
        BY <2>4, <2>8, <3>1, <4>1 DEF Fits, LastFits
      <4>3. prior.at \in Int
        BY <2>5, <2>8 DEF RoomFits, Shown
      <4> HIDE DEF next, prior, u
      <4>4. next.at # prior.at /\ next.at > prior.at
        BY <1>0, <1>1, <2>7, <4>2, <4>3
      <4>5. QED
        BY <2>7, <4>4 DEF Room!IsLater
    <3>2. QED
      BY <2>8, <3>1
  <2> HIDE DEF x, next, counts
  <2>10. r.reactions \in [Room!AllMessages -> Shown]
    BY <2>5 DEF RoomFits
  <2>11. /\ DOMAIN q = Fields /\ q.messages = r.messages /\ q.cursor = r.cursor /\ q.inline = {}
         /\ q.pending = Append(r.pending, x)
         /\ q.reactions = IF counts THEN [r.reactions EXCEPT ![x.of] = next] ELSE r.reactions
    <3>1. /\ DOMAIN o = Fields /\ o.messages = r.messages /\ o.cursor = r.cursor
          /\ o.inline = {} /\ o.pending = r.pending
          /\ o.reactions = IF counts THEN [r.reactions EXCEPT ![x.of] = next] ELSE r.reactions
      BY <1>0, <2>4, <2>6 DEF Fields
    <3> HIDE DEF o
    <3>2. QED
      BY <3>1 DEF Fields
  <2> HIDE DEF q, o, prior
  <2>12. /\ q.reactions \in [Room!AllMessages -> Shown]
         /\ \A m \in Room!AllMessages \ {x.of} : q.reactions[m] = r.reactions[m]
         /\ OneClock(ahead, d, x.of) => q.reactions[x.of] = next
    BY <2>7, <2>8, <2>9, <2>10, <2>11
  <2> HIDE DEF u
  <2>13. Fits(log, u, ahead, d, q, k)
    BY <1>0, <1>1, <2>3, <2>4, <2>8, <2>11, <2>12, SetFits DEF next
  <2>14. SessionFits(log, d, q, v)
    <3>1. v.pc # "pull"
      BY <2>2
    <3>2. QED
      BY <1>4, <2>2, <2>11, <3>1 DEF SessionFits
  <2>15. DeviceShows(log, u, ahead, d, q, q, v, k)
    BY <2>11, <2>13, <2>14, StoredFits
  <2>16. Turn(d, q, q, v, k)
    BY <1>0, <1>2, <2>1 DEF Turn
  <2>17. QED
    BY <1>1, <1>2, <1>5, <1>6, <2>15, <2>16, TurnKeeps
<1>10. QED
  BY <1>8, <1>9

\* What waits fits the log.
LEMMA WaitingFitsTheLog ==
  ASSUME ShownInv, NEW d \in Room!Devices, inMemory[d].pending # <<>>, NEW y,
         y = Room!Wire(Head(inMemory[d].pending))
  PROVE  /\ LogFits(Append(log, y), now, ahead) /\ Longer(log, Append(log, y))
         /\ Append(log, y) \in Seq(Records) /\ y.by = d
         /\ \A c \in 1..Len(Append(log, y)) : c > Len(log) => Append(log, y)[c].by = d
<1> DEFINE r == inMemory[d]
           x == Head(r.pending)
<1>0. /\ log \in Seq(Records) /\ Len(log) \in Nat /\ now \in Nat /\ LogFits(log, now, ahead)
      /\ ahead \in [Room!Devices -> Nat] /\ ahead[d] \in Nat
      /\ DeviceShows(log, now, ahead, d, r, saved[d], session[d], skipped[d])
  BY DeviceBefore DEF ShownInv
<1>1. RoomFits(log, d, r) /\ PendingFits(log, now, ahead, d, r)
  BY <1>0 DEF DeviceShows, Fits
<1>2. MovedUp(r.pending, Tail(r.pending))
  BY <1>1, OthersMoveUp DEF RoomFits
<1>3. x \in Records /\ MayWait(log, now, ahead, d, r, x)
  BY <1>1, <1>2 DEF MovedUp, PendingFits
<1> HIDE DEF x
<1>4. /\ y \in Records /\ y.reaction = x.reaction /\ y.of = x.of /\ y.by = x.by
      /\ y.at <= x.at /\ y.at \in Int /\ x.at \in Int
  <2>1. x.at \in Int
    BY <1>3 DEF Records
  <2>2. y = Room!Wire(x)
    BY DEF x
  <2>3. QED
    BY <1>3, <2>1, <2>2, WireFits
<1>5. ASSUME y.reaction
      PROVE  Timely(now, ahead, y) /\ \E b \in 1..Len(log) : Writes(log[b], y.of)
  <2>1. x.of \in Room!Foreign(d) /\ x.at <= now + ahead[d]
        /\ \E c \in 1..Len(log) : Writes(log[c], x.of)
    BY <1>3, <1>4, <1>5 DEF MayWait
  <2>2. y.at <= now + ahead[d]
    BY <1>0, <1>4, <2>1
  <2>3. QED
    BY <1>4, <2>1, <2>2 DEF Timely
<1>6. now <= now
  BY <1>0
<1>7. LogFits(Append(log, y), now, ahead) /\ Longer(log, Append(log, y))
  BY <1>0, <1>4, <1>5, <1>6, LogFitsMore
<1>8. y.by = d
  BY <1>3, <1>4 DEF MayWait
<1>9. \A c \in 1..Len(Append(log, y)) : c > Len(log) => Append(log, y)[c] = y
  BY <1>0, <1>4
<1>10. QED
  BY <1>7, <1>8, <1>9 DEF Longer

LEMMA PostShows ==
  ASSUME ShownInv, NEW d \in Room!Devices, Room!Post(d)
  PROVE  ShownInv'
<1> DEFINE r == inMemory[d]
           s == saved[d]
           k == skipped[d]
           p == ReadBy(log, s)
           y == Room!Wire(Head(r.pending))
           M == Append(log, y)
           q == Room!Posted(r, Len(log) + 1)
           j == k \union (r.cursor + 1 .. Len(log))
<1>0. /\ DOMAIN inMemory = Room!Devices /\ DOMAIN saved = Room!Devices
      /\ DOMAIN session = Room!Devices /\ DOMAIN skipped = Room!Devices
      /\ DeviceShows(log, now, ahead, d, r, s, session[d], k)
      /\ DOMAIN r = Fields /\ DOMAIN s = Fields
      /\ log \in Seq(Records) /\ Len(log) \in Nat /\ now \in Nat
      /\ ahead \in [Room!Devices -> Nat] /\ now <= now
  BY DeviceBefore
<1>1. /\ log' = M /\ inMemory' = [inMemory EXCEPT ![d] = q] /\ saved' = saved
      /\ session' = session /\ skipped' = [skipped EXCEPT ![d] = j]
      /\ now' = now /\ ahead' = ahead
      /\ r.pending # <<>> /\ session[d].pc = "flush"
  BY DEF Room!Post, Room!Set
<1>2. /\ LogFits(M, now, ahead) /\ Longer(log, M) /\ M \in Seq(Records)
      /\ \A c \in 1..Len(M) : c > Len(log) => M[c].by = d
  BY <1>1, WaitingFitsTheLog
<1>3. /\ Fits(log, now, ahead, d, r, k) /\ r.inline = {} /\ Fits(log, now, ahead, d, p, k)
      /\ s.inline \subseteq 1..Len(log) /\ s.pending # <<>>
      /\ SessionFits(log, d, r, session[d])
  BY <1>0, <1>1 DEF DeviceShows
<1>4. Fits(M, now, ahead, d, q, j)
  <2> DEFINE n == Len(log) + 1
  <2>1. Posts(log, M, r, q, n, y) /\ JumpsOver(log, r, k, j)
    BY <1>0, <1>1 DEF Posts, JumpsOver
  <2>2. log \in Seq(Records) /\ Fits(log, now, ahead, d, r, k)
    BY <1>0, <1>3
  <2> HIDE DEF n, q, M, y, j, r, k
  <2>3. QED
    BY <2>1, <2>2, PostedFits
<1>5. p.pending = s.pending
  BY <1>0 DEF ReadBy, Fields
<1>6. q.messages = r.messages /\ q.inline = r.inline
  BY <1>0 DEF Room!Posted, Fields
<1> HIDE DEF M, q, y
<1>7. ReadBy(M, s) = p
  BY <1>0, <1>2, <1>3, ReadByLonger
<1> HIDE DEF p
<1>8. Foreigners(log, M, d, p)
  BY <1>3, <1>5 DEF Foreigners
<1>9. Fits(M, now, ahead, d, p, k)
  BY <1>0, <1>2, <1>3, <1>8, FitsInLonger
<1>10. Fits(M, now, ahead, d, p, j)
  BY <1>9, FitsSkipping
<1> HIDE DEF j
<1>11. SessionFits(M, d, q, session[d])
  <2>1. session[d].pc # "pull" /\ DOMAIN session[d] = DOMAIN Room!NewSession
    BY <1>1, <1>3 DEF SessionFits
  <2>2. QED
    BY <1>0, <1>2, <1>3, <1>6, <2>1, SessionStays
<1>12. s.inline \subseteq 1..Len(M)
  <2>1. Len(log) <= Len(M) /\ Len(M) \in Nat
    BY <1>2 DEF Longer
  <2>2. 1..Len(log) \subseteq 1..Len(M)
    BY <1>0, <2>1
  <2>3. QED
    BY <1>3, <2>2
<1>13. DeviceShows(M, now, ahead, d, q, s, session[d], j)
  BY <1>0, <1>3, <1>4, <1>6, <1>7, <1>10, <1>11, <1>12 DEF DeviceShows
<1>14. Turn(d, q, s, session[d], j)
  BY <1>0, <1>1 DEF Turn
<1>15. QED
  BY <1>0, <1>1, <1>2, <1>13, <1>14, TurnKeeps

LEMMA CallFailsShows ==
  ASSUME ShownInv, NEW d \in Room!Devices, Room!CallFails(d)
  PROVE  ShownInv'
<1> DEFINE r == inMemory[d]
           k == skipped[d]
           v == [session[d] EXCEPT !.pc = "idle", !.connection = "offline"]
           y == Room!Wire(Head(r.pending))
<1>0. /\ DOMAIN inMemory = Room!Devices /\ DOMAIN saved = Room!Devices
      /\ DOMAIN session = Room!Devices /\ DOMAIN skipped = Room!Devices
      /\ DeviceShows(log, now, ahead, d, r, saved[d], session[d], k)
      /\ DOMAIN session[d] = {"attached", "connection", "pc", "until", "counts", "clicks"}
      /\ log \in Seq(Records) /\ Len(log) \in Nat /\ now \in Nat
      /\ ahead \in [Room!Devices -> Nat] /\ now <= now /\ Longer(log, log)
  BY DeviceBefore DEF Longer
<1>1. /\ inMemory' = [inMemory EXCEPT ![d] = r] /\ saved' = [saved EXCEPT ![d] = r]
      /\ session' = [session EXCEPT ![d] = v] /\ skipped' = skipped
      /\ now' = now /\ ahead' = ahead
      /\ log' = log \/ (r.pending # <<>> /\ log' = Append(log, y))
  BY DEF Room!CallFails, Room!Save, Room!Set
<1>2. Fits(log, now, ahead, d, r, k) /\ r.inline = {} /\ SessionFits(log, d, r, session[d])
  BY <1>0 DEF DeviceShows
<1>3. v.pc = "idle" /\ DOMAIN v = DOMAIN Room!NewSession /\ v.clicks = session[d].clicks
  BY <1>0, SessionFields
<1> HIDE DEF v
<1>4. ASSUME Longer(log, log'), LogFits(log', now, ahead),
             \A c \in 1..Len(log') : c > Len(log) => log'[c].by = d,
             Foreigners(log, log', d, r)
      PROVE  ShownInv'
  <2>1. Fits(log', now, ahead, d, r, k)
    BY <1>0, <1>2, <1>4, FitsInLonger
  <2>2. SessionFits(log', d, r, v)
    <3>1. v.pc # "pull"
      BY <1>3
    <3>2. QED
      BY <1>0, <1>2, <1>3, <1>4, <3>1, SessionStays
  <2>3. DeviceShows(log', now, ahead, d, r, r, v, k)
    BY <1>2, <2>1, <2>2, StoredFits
  <2>4. Turn(d, r, r, v, k)
    BY <1>0, <1>1 DEF Turn
  <2>5. QED
    BY <1>0, <1>1, <1>4, <2>3, <2>4, TurnKeeps
<1>5. CASE log' = log
  <2>1. \A c \in 1..Len(log) : ~(c > Len(log))
    BY <1>0
  <2>2. LogFits(log, now, ahead)
    BY DEF ShownInv
  <2>3. QED
    BY <1>0, <1>4, <1>5, <2>1, <2>2 DEF Foreigners
<1>6. CASE r.pending # <<>> /\ log' = Append(log, y)
  BY <1>4, <1>6, WaitingFitsTheLog DEF Foreigners
<1>7. QED
  BY <1>1, <1>5, <1>6

LEMMA PullShows ==
  ASSUME ShownInv, NEW d \in Room!Devices, Room!Pull(d)
  PROVE  ShownInv'
<1> DEFINE r == inMemory[d]
           k == skipped[d]
           c == r.cursor + 1
           x == log[c]
           o == [r EXCEPT !.cursor = c]
           Made == CASE ~Room!Decrypts(d, x) -> o
                     [] Room!Decrypts(d, x) /\ x.reaction -> Room!ApplyReaction(o, x, c)
                     [] Room!Decrypts(d, x) /\ ~x.reaction ->
                          [o EXCEPT !.unread = Room!Counted(d, o, x.of),
                                    !.messages = @ \union {x.of}]
<1>0. /\ DOMAIN inMemory = Room!Devices /\ DOMAIN saved = Room!Devices
      /\ DOMAIN session = Room!Devices /\ DOMAIN skipped = Room!Devices
      /\ DeviceShows(log, now, ahead, d, r, saved[d], session[d], k)
      /\ DOMAIN session[d] = DOMAIN Room!NewSession /\ DOMAIN r = Fields
      /\ log \in Seq(Records) /\ Len(log) \in Nat /\ now \in Nat /\ LogFits(log, now, ahead)
      /\ ahead \in [Room!Devices -> Nat] /\ Longer(log, log)
  BY DeviceBefore, SessionFields DEF Longer, ShownInv
<1>1. /\ inMemory' = [inMemory EXCEPT ![d] = Made]
      /\ session[d].pc = "pull" /\ r.cursor < session[d].until
      /\ log' = log /\ now' = now /\ ahead' = ahead
      /\ saved' = saved /\ session' = session /\ skipped' = skipped
  BY Zenon DEF Room!Pull, Room!Set
<1>2. Fits(log, now, ahead, d, r, k) /\ r.inline = {} /\ SessionFits(log, d, r, session[d])
  BY <1>0 DEF DeviceShows
<1>3. r.pending = <<>> /\ session[d].until \in 0..Len(log)
  BY <1>1, <1>2 DEF SessionFits
<1>4. r.cursor \in 0..Len(log)
  BY <1>2 DEF Fits, RoomFits
<1>5. c \in 1..Len(log) /\ c > r.cursor
  BY <1>0, <1>1, <1>3, <1>4
<1>6. Room!Decrypts(d, x)
  BY <1>2, <1>3, <1>5 DEF Fits, RoomFits, Room!Decrypts
<1>7. /\ DOMAIN o = Fields /\ o.messages = r.messages /\ o.reactions = r.reactions
      /\ o.pending = <<>> /\ o.cursor = c /\ o.inline = {}
  BY <1>0, <1>2, <1>3 DEF Fields
<1>8. Passed(log, r, o, c)
  BY <1>3, <1>5, <1>7 DEF Passed
<1>9. ASSUME NEW q, inMemory' = [inMemory EXCEPT ![d] = q], Fits(log, now, ahead, d, q, k),
             q.inline = {}, r.messages \subseteq q.messages, q.pending = <<>>
      PROVE  ShownInv'
  <2>1. SessionFits(log, d, q, session[d])
    BY <1>0, <1>2, <1>3, <1>9, SessionStays
  <2>2. DeviceShows(log, now, ahead, d, q, saved[d], session[d], k)
    BY <1>0, <1>9, <2>1 DEF DeviceShows
  <2>3. Turn(d, q, saved[d], session[d], k)
    BY <1>0, <1>1, <1>9 DEF Turn
  <2>4. QED
    BY <1>1, <2>2, <2>3, QuietTurnKeeps
<1>10. CASE x.reaction
  <2> DEFINE q == Room!ApplyReaction(o, x, c)
  <2>1. Made = q
    BY <1>6, <1>10, Zenon
  <2> HIDE DEF Made, o, c
  <2>2. Fits(log, now, ahead, d, q, k)
    <3>1. PullsReaction(log, r, o, q, c)
      BY <1>7, <1>8, <1>10 DEF PullsReaction
    <3> HIDE DEF q, x
    <3>2. QED
      BY <1>0, <1>2, <3>1, PulledReactionFits
  <2>3. q.messages = o.messages /\ q.pending = o.pending /\ q.inline = o.inline
    <3>1. \A m, z : /\ [o EXCEPT !.reactions[m] = z].messages = o.messages
                    /\ [o EXCEPT !.reactions[m] = z].pending = o.pending
                    /\ [o EXCEPT !.reactions[m] = z].inline = o.inline
      BY <1>7 DEF Fields
    <3>2. QED
      BY <3>1, Zenon DEF Room!ApplyReaction
  <2> HIDE DEF q
  <2>4. QED
    BY <1>1, <1>7, <1>9, <2>1, <2>2, <2>3
<1>11. CASE ~x.reaction
  <2> DEFINE n == Room!Counted(d, o, x.of)
             q == [o EXCEPT !.unread = n, !.messages = @ \union {x.of}]
  <2>1. Made = q
    BY <1>6, <1>11, Zenon
  <2> HIDE DEF Made, o, n
  <2>2. /\ DOMAIN q = Fields /\ q.messages = r.messages \union {x.of} /\ q.reactions = r.reactions
        /\ q.pending = <<>> /\ q.cursor = c /\ q.inline = {}
    BY <1>7 DEF Fields
  <2> HIDE DEF q, c
  <2>3. Passed(log, r, q, c)
    BY <1>8, <2>2 DEF Passed
  <2>4. Fits(log, now, ahead, d, q, k)
    BY <1>0, <1>2, <1>11, <2>2, <2>3, PulledMessageFits
  <2>5. QED
    BY <1>1, <1>9, <2>1, <2>2, <2>4
<1>12. QED
  BY <1>10, <1>11

LEMMA ShownStep == ShownInv /\ [Room!Next]_Room!vars => ShownInv'
<1> SUFFICES ASSUME ShownInv, [Room!Next]_Room!vars PROVE ShownInv'
  OBVIOUS
<1>1. CASE UNCHANGED Room!vars
  <2>1. /\ log' = log /\ inMemory' = inMemory /\ saved' = saved /\ session' = session
        /\ ahead' = ahead /\ now' = now /\ skipped' = skipped
    BY <1>1 DEF Room!vars
  <2>2. QED
    BY <2>1 DEF ShownInv
<1>2. ASSUME NEW d \in Room!Devices, Room!Step(d)
      PROVE  ShownInv'
  <2>1. CASE Room!Attach(d) \/ Room!Sync(d) \/ Room!Fetch(d)
             \/ \E m \in Room!Foreign(d), picked \in BOOLEAN : Room!Click(d, m, picked)
    BY <2>1, SessionMoves
  <2>2. CASE Room!PullEnd(d) \/ Room!MarkRead(d) \/ Room!Reload(d) \/ Room!MarkRoomRead(d)
    BY <2>2, SavesTheRoom, ReadsTheRoom
  <2>3. CASE \E m \in Room!Mine(d) : Room!Send(d, m)
    BY <2>3, SendShows
  <2>4. CASE Room!SetReaction(d) \/ Room!Post(d) \/ Room!CallFails(d) \/ Room!Pull(d)
    BY <2>4, SetReactionShows, PostShows, CallFailsShows, PullShows
  <2>5. QED
    BY <1>2, <2>1, <2>2, <2>3, <2>4 DEF Room!Step
<1>3. QED
  BY <1>1, <1>2 DEF Room!Next

\* A new room.
LEMMA NewRoomFits ==
  ASSUME NEW t \in Nat, NEW a \in [Room!Devices -> Nat], NEW d \in Room!Devices
  PROVE  /\ LogFits(<<>>, t, a)
         /\ Fits(<<>>, t, a, d, ReadBy(<<>>, Room!EmptyRoom), {})
<1> DEFINE r == Room!EmptyRoom
<1>1. /\ DOMAIN r = Fields /\ r.messages = {} /\ r.inline = {} /\ r.pending = <<>> /\ r.cursor = 0
      /\ r.reactions = [m \in Room!AllMessages |-> Room!NoReaction]
  BY DEF Room!EmptyRoom, Fields
<1>2. /\ Room!NoReaction \in Shown
      /\ Room!NoReaction.id = 0 /\ Room!NoReaction.cursor = 0 /\ Room!NoReaction.at = 0
  <2>1. FALSE \in BOOLEAN
    BY Zenon
  <2>2. QED
    BY <2>1 DEF Room!NoReaction, Shown
<1> HIDE DEF r
<1>3. r.reactions \in [Room!AllMessages -> Shown]
  BY <1>1, <1>2
<1>4. <<>> \in Seq(Records) /\ Len(<<>>) = 0 /\ \A c \in 1..0 : FALSE
  OBVIOUS
<1>5. LogFits(<<>>, t, a)
  BY <1>4 DEF LogFits
<1>6. RoomFits(<<>>, d, r) /\ PendingFits(<<>>, t, a, d, r) /\ ReadFits(<<>>, r, {})
  BY <1>1, <1>3, <1>4 DEF RoomFits, PendingFits, ReadFits
<1>7. ASSUME NEW m \in Room!AllMessages
      PROVE  LastFits(<<>>, t, a, d, r, {}, m)
  <2>1. r.reactions[m].id = 0 /\ r.reactions[m].cursor = 0 /\ r.reactions[m].at = 0
    BY <1>1, <1>2
  <2>2. a[d] \in Nat
    OBVIOUS
  <2>3. r.reactions[m].at <= t + a[d]
    BY <2>1, <2>2
  <2>4. Settled(<<>>, r, {}, m)
    BY <1>1, <1>4, <2>1 DEF Settled
  <2>5. QED
    BY <1>1, <1>4, <2>3, <2>4 DEF LastFits
<1>8. Fits(<<>>, t, a, d, r, {})
  BY <1>6, <1>7 DEF Fits
<1>9. ShowSame(ReadBy(<<>>, r), r)
  BY <1>1, <1>3, ReadAsItIs
<1>10. QED
  BY <1>5, <1>8, <1>9, SameFits DEF r

\* Of a room of an older release the later of the two reactions is read.
LEMMA OldRoomFits ==
  ASSUME NEW t \in Nat, NEW a \in [Room!Devices -> Nat], NEW d \in Room!Devices,
         NEW b \in Bob, NEW m \in OfBob
  PROVE  /\ LogFits(Room!OldLog(b, m), t, a)
         /\ Fits(Room!OldLog(b, m), t, a, d, ReadBy(Room!OldLog(b, m), Room!OldRoom(m)), {})
         /\ Len(Room!OldLog(b, m)) = 3
<1> DEFINE L == Room!OldLog(b, m)
           s == Room!OldRoom(m)
           r == ReadBy(L, s)
           on1 == Room!Stored(L[2], 2)
           on2 == Room!Stored(L[3], 3)
<1>0. m \in Room!AllMessages /\ b \in Room!Devices /\ a[d] \in Nat
  BY DEF Room!AllMessages, Room!Devices
<1>1. /\ L[1] = Room!Message(b, m)
      /\ L[2] = Room!Wire(Room!Reaction(Room!Another, m, TRUE, 0, 1))
      /\ L[3] = Room!Wire(Room!Reaction(Room!Another, m, FALSE, 0, 2))
      /\ Len(L) = 3 /\ L = <<L[1], L[2], L[3]>>
  <2>1. \A x, y, z : /\ <<x, y, z>>[1] = x /\ <<x, y, z>>[2] = y /\ <<x, y, z>>[3] = z
                     /\ Len(<<x, y, z>>) = 3
    OBVIOUS
  <2>2. QED
    BY <2>1, Zenon DEF Room!OldLog
<1>2. TRUE \in BOOLEAN /\ FALSE \in BOOLEAN
  BY Zenon
<1>3. /\ Room!Message(b, m) \in Records
      /\ Room!Reaction(Room!Another, m, TRUE, 0, 1) \in Records
      /\ Room!Reaction(Room!Another, m, FALSE, 0, 2) \in Records
  BY <1>0, <1>2 DEF Records, Room!Message, Room!Reaction
<1>4. /\ ~L[1].reaction /\ L[1].of = m
      /\ L[2].reaction /\ L[2].of = m
      /\ L[3].reaction /\ L[3].of = m /\ L[3].on = FALSE /\ L[3].id = 2
      /\ L[2].at <= 0 /\ L[3].at <= 0 /\ L[3].at \in Int /\ L[2].at \in Int
      /\ L[1] \in Records /\ L[2] \in Records /\ L[3] \in Records
  BY <1>1, <1>3, WireFits DEF Room!Message, Room!Reaction
<1> HIDE DEF L
<1>5. L \in Seq(Records)
  <2>1. \A x, y, z \in Records : <<x, y, z>> \in Seq(Records)
    OBVIOUS
  <2>2. <<L[1], L[2], L[3]>> \in Seq(Records)
    BY <1>4, <2>1, Zenon
  <2>3. QED
    BY <1>1, <2>2, Zenon
<1>6. \A c \in 1..3 : c \in {1, 2, 3}
  OBVIOUS
<1>7. LogFits(L, t, a)
  <2>1. ASSUME NEW c \in 1..3, L[c].reaction
        PROVE  Timely(t, a, L[c]) /\ \E e \in 1..c : Writes(L[e], L[c].of)
    <3>1. c \in {2, 3} /\ 1 \in 1..c
      BY <1>4, <1>6, <2>1
    <3>2. QED
      BY <1>4, <3>1 DEF Timely, Writes
  <2>2. QED
    BY <1>1, <1>5, <2>1 DEF LogFits
<1>8. /\ DOMAIN s = Fields /\ s.messages = {m} /\ s.inline = {2, 3} /\ s.pending = <<>>
      /\ s.cursor = 3 /\ s.reactions = [x \in Room!AllMessages |-> Room!NoReaction]
  <2>1. /\ DOMAIN Room!EmptyRoom = Fields /\ Room!EmptyRoom.pending = <<>>
        /\ Room!EmptyRoom.reactions = [x \in Room!AllMessages |-> Room!NoReaction]
    BY DEF Room!EmptyRoom, Fields
  <2>2. QED
    BY <2>1 DEF Room!OldRoom, Fields
<1> HIDE DEF s
<1>9. /\ DOMAIN r = Fields /\ r.messages = {m} /\ r.pending = <<>> /\ r.cursor = 3
      /\ r.reactions = [x \in Room!AllMessages |-> Room!Projection(Older(L, s, x))]
  BY <1>8 DEF ReadBy, Fields
<1> HIDE DEF r
<1>10. /\ on2.cursor = 3 /\ on2.on = FALSE /\ on2.id = 2 /\ on2.at <= 0 /\ on2 \in Shown
       /\ on1.cursor = 2
  <2>1. on2.at = L[3].at /\ on2.id = 2 /\ on2.cursor = 3 /\ on2.on = FALSE /\ on1.cursor = 2
    BY <1>4 DEF Room!Stored
  <2>2. on2 \in Shown
    <3> DEFINE z == L[3].at
    <3>1. on2 = [on |-> FALSE, at |-> z, cursor |-> 3, id |-> 2] /\ z \in Int
      BY <1>4, Zenon DEF Room!Stored
    <3> HIDE DEF on2, z
    <3>2. QED
      BY <1>2, <3>1 DEF Shown
  <2> HIDE DEF on1, on2
  <2>3. QED
    BY <1>4, <2>1, <2>2
<1>11. ASSUME NEW x \in Room!AllMessages
       PROVE  r.reactions[x] = IF x = m THEN on2 ELSE Room!NoReaction
  <2>1. Older(L, s, x) = {Room!Stored(L[c], c) : c \in {i \in {2, 3} : L[i].of = x}}
    BY <1>8 DEF Older
  <2>2. CASE x = m
    <3>1. {i \in {2, 3} : L[i].of = x} = {2, 3}
      BY <1>4, <2>2
    <3>2. Older(L, s, x) = {on1, on2}
      BY <2>1, <3>1
    <3>3. Room!IsLater(on2, on1) /\ ~Room!IsLater(on1, on2) /\ on1 # on2
      <4> HIDE DEF on1, on2
      <4>1. QED
        BY <1>10 DEF Room!IsLater
    <3> HIDE DEF on1, on2
    <3>4. \A y \in {on1, on2} \ {on2} : Room!IsLater(on2, y)
      BY <3>3
    <3>5. Room!Projection({on1, on2})
            = CHOOSE y \in {on1, on2} : \A z \in {on1, on2} \ {y} : Room!IsLater(y, z)
      <4>1. {on1, on2} # {}
        OBVIOUS
      <4>2. QED
        BY <4>1, Zenon DEF Room!Projection
    <3> DEFINE p == Room!Projection({on1, on2})
    <3>6. p \in {on1, on2} /\ \A z \in {on1, on2} \ {p} : Room!IsLater(p, z)
      BY <3>4, <3>5, Zenon
    <3> HIDE DEF p
    <3>7. p = on2
      BY <3>3, <3>6
    <3>8. QED
      BY <1>9, <2>2, <3>2, <3>7 DEF p
  <2>3. CASE x # m
    <3>1. {i \in {2, 3} : L[i].of = x} = {}
      BY <1>4, <2>3
    <3>2. Older(L, s, x) = {}
      BY <2>1, <3>1
    <3>3. Room!Projection({}) = Room!NoReaction
      BY Zenon DEF Room!Projection
    <3>4. QED
      BY <1>9, <2>3, <3>2, <3>3
  <2>4. QED
    BY <2>2, <2>3
<1>12. /\ Room!NoReaction \in Shown
       /\ Room!NoReaction.id = 0 /\ Room!NoReaction.cursor = 0 /\ Room!NoReaction.at = 0
  BY <1>2 DEF Room!NoReaction, Shown
<1> HIDE DEF on1, on2
<1>13. r.reactions \in [Room!AllMessages -> Shown]
  BY <1>9, <1>10, <1>11, <1>12
<1>14. RoomFits(L, d, r)
  <2>1. Writes(L[1], m) /\ 1 \in 1..3 /\ 3 \in 0..3 /\ \A c \in 1..3 : ~(c > 3)
    BY <1>4 DEF Writes
  <2>2. QED
    BY <1>0, <1>1, <1>9, <1>13, <2>1 DEF RoomFits
<1>15. PendingFits(L, t, a, d, r) /\ ReadFits(L, r, {})
  <2>1. \A i \in 1..Len(r.pending) : FALSE
    BY <1>9
  <2>2. QED
    BY <1>4, <1>6, <1>9, <2>1 DEF PendingFits, ReadFits
<1>16. ASSUME NEW x \in Room!AllMessages
       PROVE  LastFits(L, t, a, d, r, {}, x)
  <2>1. \A i \in 1..Len(r.pending) : FALSE
    BY <1>9
  <2>2. r.reactions[x].at <= t + a[d]
    <3>1. r.reactions[x].at <= 0 /\ r.reactions[x].at \in Int
      BY <1>10, <1>11, <1>12, <1>13 DEF Shown
    <3>2. QED
      BY <1>0, <3>1
  <2>3. Settled(L, r, {}, x)
    <3>1. CASE x = m
      <4>1. r.reactions[x] = on2 /\ Reacts(L[3], x) /\ 3 \in 1..3 /\ \A c \in 1..3 : c <= 3
        BY <1>4, <1>11, <3>1 DEF Reacts
      <4>2. L[3].on = on2.on
        BY <1>4, <1>10, Zenon
      <4>3. QED
        BY <1>9, <1>10, <4>1, <4>2 DEF Settled
    <3>2. CASE x # m
      <4>1. r.reactions[x] = Room!NoReaction
        BY <1>11, <3>2
      <4>2. \A c \in 1..3 : ~Reacts(L[c], x)
        BY <1>4, <1>6, <3>2 DEF Reacts
      <4>3. QED
        BY <1>9, <1>12, <4>1, <4>2 DEF Settled
    <3>3. QED
      BY <3>1, <3>2
  <2>4. QED
    BY <2>1, <2>2, <2>3 DEF LastFits
<1>17. QED
  BY <1>1, <1>7, <1>14, <1>15, <1>16 DEF Fits, L, s, r

LEMMA ShownInitially == Room!Init => ShownInv
<1> SUFFICES ASSUME Room!Init PROVE ShownInv
  OBVIOUS
<1>1. /\ now = 3 /\ ahead \in [Room!Devices -> {0, Ahead}]
      /\ inMemory = [d \in Room!Devices |-> Room!ReadStoredRoom(saved[d])]
      /\ session = [d \in Room!Devices |-> Room!Attached]
      /\ skipped = [d \in Room!Devices |-> {}]
  BY DEF Room!Init
<1>2. now \in Nat /\ ahead \in [Room!Devices -> Nat]
  BY <1>1, AheadAssumption
<1>3. PICK s : /\ saved = [d \in Room!Devices |-> s]
               /\ DOMAIN s = Fields /\ s.inline \subseteq 1..Len(log)
               /\ \A d \in Room!Devices :
                    LogFits(log, now, ahead) /\ Fits(log, now, ahead, d, ReadBy(log, s), {})
               /\ s.pending = <<>>
  <2>1. CASE log = <<>> /\ saved = [d \in Room!Devices |-> Room!EmptyRoom]
    <3>1. DOMAIN Room!EmptyRoom = Fields /\ Room!EmptyRoom.inline = {}
          /\ Room!EmptyRoom.pending = <<>>
      BY DEF Room!EmptyRoom, Fields
    <3>2. QED
      BY <1>2, <2>1, <3>1, NewRoomFits
  <2>2. ASSUME NEW b \in Bob, NEW m \in OfBob, log = Room!OldLog(b, m),
               saved = [d \in Room!Devices |-> Room!OldRoom(m)]
        PROVE  \E s : /\ saved = [d \in Room!Devices |-> s]
                      /\ DOMAIN s = Fields /\ s.inline \subseteq 1..Len(log)
                      /\ \A d \in Room!Devices :
                           LogFits(log, now, ahead) /\ Fits(log, now, ahead, d, ReadBy(log, s), {})
                      /\ s.pending = <<>>
    <3>1. DOMAIN Room!OldRoom(m) = Fields /\ Room!OldRoom(m).inline = {2, 3}
          /\ Room!OldRoom(m).pending = <<>>
      <4>1. DOMAIN Room!EmptyRoom = Fields /\ Room!EmptyRoom.pending = <<>>
        BY DEF Room!EmptyRoom, Fields
      <4>2. QED
        BY <4>1 DEF Room!OldRoom, Fields
    <3>2. \A d \in Room!Devices :
            /\ LogFits(log, now, ahead) /\ Fits(log, now, ahead, d, ReadBy(log, Room!OldRoom(m)), {})
            /\ Len(log) = 3
      BY <1>2, <2>2, OldRoomFits
    <3>3. b \in Room!Devices
      BY DEF Room!Devices
    <3>4. {2, 3} \subseteq 1..Len(log)
      <4>1. Len(log) = 3
        BY <3>2, <3>3
      <4>2. {2, 3} \subseteq 1..3
        OBVIOUS
      <4>3. QED
        BY <4>1, <4>2
    <3>5. QED
      BY <2>2, <3>1, <3>2, <3>4
  <2>3. QED
    BY <2>1, <2>2 DEF Room!Init
<1>4. LogFits(log, now, ahead)
  <2>1. CASE Room!Devices = {}
    <3>1. log = <<>>
      <4>1. Bob = {}
        BY <2>1 DEF Room!Devices
      <4>2. QED
        BY <4>1 DEF Room!Init
    <3>2. <<>> \in Seq(Records) /\ \A c \in 1..Len(<<>>) : FALSE
      OBVIOUS
    <3>3. QED
      BY <3>1, <3>2 DEF LogFits
  <2>2. CASE Room!Devices # {}
    BY <1>3, <2>2
  <2>3. QED
    BY <2>1, <2>2
<1>5. ASSUME NEW d \in Room!Devices
      PROVE  DeviceShows(log, now, ahead, d, inMemory[d], saved[d], session[d], skipped[d])
  <2>1. /\ inMemory[d] = ReadBy(log, s) /\ saved[d] = s /\ session[d] = Room!Attached
        /\ skipped[d] = {}
    <3>1. inMemory[d] = Room!ReadStoredRoom(saved[d]) /\ saved[d] = s
      BY <1>1, <1>3
    <3>2. QED
      BY <1>1, <3>1, ReadByLog
  <2>2. ReadBy(log, s).inline = {} /\ ReadBy(log, s).pending = <<>>
    BY <1>3 DEF ReadBy, Fields
  <2>3. SessionFits(log, d, ReadBy(log, s), Room!Attached)
    BY SessionFields DEF SessionFits, Room!Attached, Room!NewSession
  <2>4. QED
    BY <1>3, <2>1, <2>2, <2>3 DEF DeviceShows
<1>6. QED
  BY <1>1, <1>2, <1>3, <1>4, <1>5 DEF ShownInv

\* Of some numbers up to n there is a last one.
LEMMA LastNumber ==
  ASSUME NEW n \in Nat, NEW S \in SUBSET (1..n), S # {}
  PROVE  \E x \in S : \A y \in S : x >= y
<1> DEFINE T == {n - c : c \in S}
<1>1. T \in SUBSET Nat /\ T # {}
  <2>1. \A c \in S : n - c \in Nat
    OBVIOUS
  <2>2. QED
    BY <2>1
<1>2. PICK z \in T : \A w \in T : z <= w
  <2> HIDE DEF T
  <2>1. QED
    BY <1>1, LeastNumber
<1>3. PICK x \in S : z = n - x
  BY <1>2
<1>4. ASSUME NEW y \in S
      PROVE  x >= y
  <2>1. n - x <= n - y
    BY <1>2, <1>3
  <2>2. x \in Int /\ y \in Int
    OBVIOUS
  <2>3. QED
    BY <2>1, <2>2
<1>5. QED
  BY <1>4

\* The reaction that is shown is the last one in the log, for any devices, messages and
\* clocks, with the exceptions that the property names (applyReaction, isLaterReaction,
\* readStoredRoom, flushPending, pullMessages).
THEOREM LatestReactionShows == Room!Spec => []LastReactionIsShown
<1>1. ShownInv => Room!LastReactionIsShown
  <2> SUFFICES ASSUME ShownInv, NEW d \in Room!Devices, NEW m \in inMemory[d].messages,
                      Room!ReactionsTo(m, d) # {},
                      Room!Max(Room!ReactionsTo(m, d)) \notin skipped[d],
                      \A c \in skipped[d] : log[c].reaction \/ log[c].of # m,
                      \A i \in DOMAIN inMemory[d].pending : inMemory[d].pending[i].of # m,
                      ~Room!ByClock(d, m)
               PROVE  inMemory[d].reactions[m].on = log[Room!Max(Room!ReactionsTo(m, d))].on
    BY Zenon DEF Room!LastReactionIsShown
  <2> DEFINE r == inMemory[d]
             gone == Room!ReactionsTo(m, d)
             x == Room!Max(gone)
             q == r.reactions[m]
  <2>1. Fits(log, now, ahead, d, r, skipped[d])
    BY DEF ShownInv, DeviceShows
  <2>2. RoomFits(log, d, r)
    BY <2>1 DEF Fits
  <2>3. m \in Room!AllMessages /\ r.cursor \in Nat /\ r.pending \in Seq(Records)
    BY <2>2 DEF RoomFits
  <2>4. OneClock(ahead, d, m)
    BY Zenon DEF OneClock, Room!ByClock
  <2>5. LastFits(log, now, ahead, d, r, skipped[d], m)
    BY <2>1, <2>3, <2>4 DEF Fits
  <2>6. ~Unposted(r, m)
    <3>1. DOMAIN r.pending = 1..Len(r.pending)
      BY <2>3
    <3>2. QED
      BY <3>1 DEF Unposted, Reacts
  <2>7. Settled(log, r, skipped[d], m)
    BY <2>5, <2>6 DEF LastFits
  <2>8. Untouched(log, r, skipped[d], m)
    BY DEF Untouched, Writes
  <2>9. gone = {c \in 1..r.cursor : log[c].reaction /\ log[c].of = m}
    BY DEF Room!ReactionsTo
  <2>10. x \in gone /\ \A y \in gone : x >= y
    <3>1. gone \in SUBSET (1..r.cursor) /\ gone # {}
      BY <2>9
    <3> HIDE DEF gone
    <3>2. \E z \in gone : \A y \in gone : z >= y
      BY <2>3, <3>1, LastNumber
    <3>3. QED
      BY <3>2, Zenon DEF Room!Max
  <2> HIDE DEF x
  <2>11. x \in 1..r.cursor /\ x <= q.cursor
    BY <2>7, <2>8, <2>9, <2>10 DEF Settled, Reacts, x
  <2>12. q.cursor \in Nat
    BY <2>2, <2>3 DEF RoomFits, Shown
  <2>13. q.cursor \in gone /\ log[q.cursor].on = q.on
    <3>1. q.cursor # 0
      BY <2>3, <2>11, <2>12
    <3>2. QED
      BY <2>7, <2>9, <3>1 DEF Settled, Reacts
  <2>14. x = q.cursor
    BY <2>3, <2>10, <2>11, <2>12, <2>13
  <2>15. QED
    BY <2>13, <2>14 DEF x
<1>2. ShownInv => LastReactionIsShown
  BY <1>1 DEF LastReactionIsShown
<1>3. QED
  BY <1>2, ShownInitially, ShownStep, PTL DEF Room!Spec
===============================================================================
