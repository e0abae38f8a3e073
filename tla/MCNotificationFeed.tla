-------------------------- MODULE MCNotificationFeed --------------------------
(***************************************************************************)
(* What tells a user that something is new: the feed with its desktop      *)
(* notifications (NotificationFeed), and the unread counts and reactions   *)
(* of a room (RoomReading).  They share no state, and one is explored at a *)
(* time; of the room nothing is set up while the feed is.                  *)
(***************************************************************************)
EXTENDS NotificationFeed

CONSTANTS Alice, Bob, OfAlice, OfBob, MaxClicks, MaxMishaps, Ahead

\* Clocks run ahead by whole milliseconds.
ASSUME AheadAssumption == Ahead \in Nat

VARIABLES view,
          log, inMemory, saved, session, ahead, now, mishaps, skipped, read

Room == INSTANCE RoomReading
          WITH live <- inMemory, faults <- mishaps, MaxFaults <- MaxMishaps

roomVars == <<log, inMemory, saved, session, ahead, now, mishaps, skipped, read>>

ViewInit ==
  /\ FeedInit
  /\ \/ /\ view = "feed"
        /\ log = <<>> /\ inMemory = <<>> /\ saved = <<>> /\ session = <<>> /\ ahead = <<>>
        /\ now = 0 /\ mishaps = 0 /\ skipped = <<>> /\ read = <<>>
     \/ /\ view = "room" /\ Room!Init /\ browser = "default"
        /\ Cardinality({d \in Room!Devices : ahead[d] # 0}) <= IF log = <<>> THEN 1 ELSE 0

ViewNext ==
  \/ view = "feed" /\ FeedNext /\ UNCHANGED <<view, roomVars>>
  \/ view = "room" /\ Room!Next /\ UNCHANGED <<view, feedVars>>

ViewSpec == ViewInit /\ [][ViewNext]_<<view, feedVars, roomVars>>

LastReactionIsShown == view = "room" => Room!LastReactionIsShown
UnreadIsWhatCame == view = "room" => Room!UnreadIsWhatCame

AliceHasAlikeDevices == Permutations(Alice)
===============================================================================
