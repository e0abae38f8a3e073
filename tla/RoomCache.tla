------------------------------- MODULE RoomCache -------------------------------
(***************************************************************************)
(* The rooms of a browser as localStorage keeps them, and what is shown of *)
(* them: the record of a room under its key of today, perhaps an alias     *)
(* under the key of an older release, the room that was open last, and the *)
(* ledger of the side bar with the order of the rooms and the history of   *)
(* those that are gone (room-store.ts, sidebar-ledger.ts).                 *)
(*                                                                         *)
(* Every change is announced in the page (ROOMS_CHANGED_EVENT), whose      *)
(* workspace reads all the rooms and reconciles the ledger at once: the    *)
(* operators below are used with Reconcile in the same step.               *)
(***************************************************************************)
EXTENDS Integers, FiniteSetsExt, SequencesExt, Sublists

CONSTANTS Hosted, Joined  \* the rooms of the user and those of others

ASSUME CacheAssumption == Hosted \intersect Joined = {} /\ IsFiniteSet(Hosted \union Joined)

VARIABLES
  current,   \* [Rooms -> the record: absent, active or retired]
  alias,     \* the room that the old key holds, or NoRoom: rooms with the same id
             \* at several coordinators share it
  lastOpen,  \* the room remembered as open
  order,     \* the ledger's roomOrder
  history,   \* [Rooms -> why the room is gone, or "none"]
  home       \* the coordinator that hosted the Hosted rooms is this browser's

cacheVars == <<current, alias, lastOpen, order, history, home>>

Rooms == Hosted \union Joined
NoRoom == "none"

CacheInit ==
  /\ current \in [Rooms -> {"absent", "active"}]
  /\ alias \in {NoRoom} \union Rooms
  /\ lastOpen \in {NoRoom} \union Hosted
  /\ order = <<>>
  /\ history = [r \in Rooms |-> "none"]
  /\ home = TRUE

\* listRooms and loadRoom: a room that only the old key has is moved to its own key;
\* of a room with both the current record counts.
Migrate(records) ==
  /\ current' = [r \in Rooms |-> IF r = alias /\ records[r] = "absent" THEN "active"
                                 ELSE records[r]]
  /\ alias' = NoRoom

\* saveRoom, whose listener lists all rooms.
SaveRoom(r) ==
  /\ alias' = NoRoom
  /\ current' = [q \in Rooms |-> IF q = r THEN "active"
                                 ELSE IF q = alias /\ current[q] = "absent" THEN "active"
                                 ELSE current[q]]

\* removeStoredRoom, for a set of rooms: both keys.
RemoveStored(R) ==
  /\ alias' = NoRoom
  /\ current' = [q \in Rooms |-> IF q \in R THEN "absent"
                                 ELSE IF q = alias /\ current[q] = "absent" THEN "active"
                                 ELSE current[q]]

Forget(R) == lastOpen' = IF lastOpen \in R THEN NoRoom ELSE lastOpen
Remember(r) == lastOpen' = r

\* loadLastOpenRoom
Remembered == IF lastOpen # NoRoom /\ current[lastOpen] = "active" THEN lastOpen ELSE NoRoom

\* historicalReason of a room that is stored.
Reason(r) ==
  IF current[r] = "retired" THEN "identity-retired"
  ELSE IF r \in Hosted /\ ~home THEN "coordinator-rotated"
  ELSE "none"

Active == {r \in Rooms : current[r] # "absent" /\ Reason(r) = "none"}

\* New rooms come last, and those that were there keep their places.
Ordered(before, active) ==
  Only(before, active) \o SetToSeq(active \ ToSet(before))

\* Mutant: only rooms that are stored are in the history.
HistoryOfStored(before) ==
  [r \in Rooms |-> IF current'[r] # "absent" THEN Reason(r)' ELSE "none"]

\* A room that is stored is in the history only with a reason of today; one that was
\* removed stays in it.
History(before) ==
  [r \in Rooms |-> IF current'[r] # "absent" THEN Reason(r)' ELSE before[r]]

\* reconcileSidebarLedger, with the history removeStoredRoom has written.
Reconcile(before) ==
  /\ home' = home
  /\ order' = Ordered(order, Active')
  /\ history' = History(before)

\* persistRemovedSidebarRoom, if there is a record to remove.
Archived(R, reason) ==
  [r \in Rooms |-> IF r \in R /\ current[r] # "absent" THEN reason ELSE history[r]]
===============================================================================
